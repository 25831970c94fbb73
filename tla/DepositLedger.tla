---------------------------- MODULE DepositLedger ----------------------------
(***************************************************************************)
(* What the BTC relayer promises, without blocks, agents, calls, batches   *)
(* or crashes: deposits are registered once they are buried, every one is  *)
(* settled at most once, and one that is settled as a success is minted.   *)
(***************************************************************************)
CONSTANTS Tx

VARIABLES
  buried,  \* transactions on the best chain under delayBlocks blocks
  minted,  \* deposits with a staking record on Lorenzo
  ledger   \* what the relayer's table says of each transaction

ledgerVars == <<buried, minted, ledger>>

Final == {"success", "invalid", "foreign"}
Entry == {"unseen", "pending"} \cup Final

LedgerTypeOK ==
  /\ buried \subseteq Tx
  /\ minted \subseteq Tx
  /\ ledger \in [Tx -> Entry]

LedgerInit ==
  /\ buried = {}
  /\ minted = {}
  /\ ledger = [t \in Tx |-> "unseen"]

\* Burial is final.
Bury ==
  /\ \E more \in SUBSET (Tx \ buried) : buried' = buried \cup more
  /\ UNCHANGED <<minted, ledger>>

\* The deposits of a block are registered together.
Register ==
  /\ \E new \in SUBSET {t \in buried : ledger[t] = "unseen"} :
       ledger' = [t \in Tx |-> IF t \in new THEN "pending" ELSE ledger[t]]
  /\ UNCHANGED <<buried, minted>>

\* Lorenzo mints a registered deposit; who proved it does not matter.
Mint(t) ==
  /\ ledger[t] # "unseen"
  /\ minted' = minted \cup {t}
  /\ UNCHANGED <<buried, ledger>>

\* A pending deposit is settled: as a success with the minting, or after it.
Succeed(t) ==
  /\ ledger[t] = "pending"
  /\ minted' = minted \cup {t}
  /\ ledger' = [ledger EXCEPT ![t] = "success"]
  /\ UNCHANGED buried

GiveUp(t) ==
  /\ ledger[t] = "pending"
  /\ ledger' \in {[ledger EXCEPT ![t] = e] : e \in {"invalid", "foreign"}}
  /\ UNCHANGED <<buried, minted>>

LedgerNext ==
  \/ Bury \/ Register
  \/ \E t \in Tx : Mint(t) \/ Succeed(t) \/ GiveUp(t)

LedgerSpec == LedgerInit /\ [][LedgerNext]_ledgerVars
=============================================================================
