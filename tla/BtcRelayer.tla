----------------------------- MODULE BtcRelayer -----------------------------
(***************************************************************************)
(* The whole BTC relayer: scanBlockLoop, submitLoop and                    *)
(* updateAgentsListLoop in one process, sharing the agent list and the     *)
(* deposit table, between Bitcoin and Lorenzo.                             *)
(***************************************************************************)
EXTENDS BtcScan, BtcSubmit

submitSide == <<lorenzoVars, sub>>
scanSide   == <<chainVars, syncPoint, scan>>
relayerVars == <<scanVars, submitSide>>

RelayerTypeOK == ScanTypeOK /\ SubmitTypeOK

RelayerInit == ScanInit /\ SubmitInit

RelayerCrash ==
  /\ ScanCrash
  /\ sub' = SubIdle
  /\ UNCHANGED lorenzoVars

\* Bitcoin, the boot, the refresh of the agents and the scan goroutine.
ScanSide == (BitcoinNext \/ ScanBoot \/ ScanRefresh \/ ScanLoop) /\ UNCHANGED submitSide

\* Lorenzo, which knows no header above Bitcoin's tip, and the submit goroutine.
SubmitSide ==
  /\ LorenzoNext \/ SubmitLoop
  /\ lorenzoTip' <= tip
  /\ UNCHANGED scanSide

RelayerNext == ScanSide \/ SubmitSide \/ RelayerCrash

RelayerSafety == RelayerInit /\ [][RelayerNext]_relayerVars

\* The goroutines run, and a call that fails does not fail for ever; a stage of
\* submitLoop that is tried again and again succeeds for one row or another.
RelayerFairness ==
  /\ WF_relayerVars(ScanBoot /\ UNCHANGED submitSide)
  /\ WF_relayerVars(ScanRefresh /\ RefreshNext /\ UNCHANGED submitSide)
  /\ \A k \in 1..NumAgents :
       SF_relayerVars(refresh.key = k /\ FetchPage /\ UNCHANGED <<scanSide, db, submitSide>>)
  /\ WF_relayerVars(ScanPoll /\ UNCHANGED submitSide)
  /\ SF_relayerVars(ScanGetBlock /\ UNCHANGED submitSide)
  /\ WF_relayerVars(Filter /\ UNCHANGED submitSide)
  /\ SF_relayerVars(ScanInsert /\ UNCHANGED submitSide)
  /\ SF_relayerVars(ScanUpdate /\ UNCHANGED submitSide)
  /\ WF_relayerVars(SubmitLoop /\ UNCHANGED scanSide)
  /\ SF_relayerVars(\E t \in Tx : RecordAnswered(t) /\ UNCHANGED scanSide)
  /\ SF_relayerVars(\E t \in Tx : FetchAnswered(t) /\ UNCHANGED scanSide)
  /\ SF_relayerVars(\E t \in Tx : SendAnswered(t) /\ UNCHANGED scanSide)

RelayerSpec == RelayerSafety /\ RelayerFairness

-----------------------------------------------------------------------------
\* The view of module DepositLedger.

BuriedTx == {t \in Tx : \E h \in Height : h + Delay <= tip /\ InBlock(t, h)}

LedgerEntry(t) ==
  CASE ~HasRow(t)                         -> "unseen"
    [] IsPending(t)                       -> "pending"
    [] HasRow(t) /\ db[t].status = StatusSuccess -> "success"
    [] HasRow(t) /\ db[t].status = StatusInvalid -> "invalid"
    [] OTHER                              -> "foreign"

Ledger == INSTANCE DepositLedger
  WITH buried <- BuriedTx, minted <- records, ledger <- [t \in Tx |-> LedgerEntry(t)]

(* The relayer implements the ledger: whatever the interleaving of its     *)
(* goroutines with reorganisations, crashes, failed and late calls, it     *)
(* registers only buried transactions, settles each once, and calls a      *)
(* deposit a success only with its minting.                                *)
ImplementsLedger == Ledger!LedgerSpec

(* What Lorenzo mints on this relayer's word is a deposit: the table       *)
(* justifies every message that was sent.  (getValidDepositTxs, submitLoop)*)
OnlyDepositsSubmitted ==
  \A m \in inflight :
    HasRow(m.tx) /\ Justified(m.tx, m.agent) /\ m.tx \in BuriedTx

(* A deposit to a founder that is buried, and as deep below Lorenzo's tip  *)
(* as its amount asks, is eventually minted, or Lorenzo refuses it.        *)
(* (scanBlockLoop and submitLoop together)                                 *)
Minable(t, h) ==
  /\ InBlock(t, h)
  /\ StartBlockHeight < h /\ h + Delay <= tip
  /\ \A f \in Founder :
       h + RequiredDepth(ExtractPaymentTo(t, AgentAddr[f])) <= lorenzoTip

Served ==
  \A t \in {u \in Tx : FounderDeposit(u)} :
    (\E h \in Height : Minable(t, h)) ~> (t \in records \cup Rejected)
=============================================================================
