------------------------------ MODULE BtcSubmit ------------------------------
(***************************************************************************)
(* The goroutine submitLoop of the BTC relayer: it takes the pending rows  *)
(* that Lorenzo can confirm, a batch at a time and lowest block first, and *)
(* for each asks Lorenzo whether the deposit is recorded, fetches the      *)
(* proof and the transaction, submits them and marks the row.              *)
(*                                                                         *)
(* Around it, external to the code: Lorenzo's Bitcoin header chain, its    *)
(* staking records, other submitters, and calls that fail before or after  *)
(* they took effect.  A message that was broadcast and not answered in     *)
(* time waits in inflight, where Lorenzo may still execute it.             *)
(***************************************************************************)
EXTENDS AgentList, DepositTable

CONSTANTS
  NoTx,           \* "no transaction"
  BaseHeader,     \* the Bitcoin header Lorenzo starts from
  MaxLorenzoTip,  \* bound: the last header Lorenzo learns of
  Rejected,       \* deposits Lorenzo refuses for good
  TruncatedBody,  \* TRUE: an HTTP body may be cut short unnoticed
  UnlistedErrors  \* TRUE: a submission may fail for a passing reason that
                  \* isStakingMintTryAgainError does not know

ASSUME SubmitAssumption ==
  /\ NoTx \notin Tx
  /\ MaxLorenzoTip \in 0..(UintMod - 1)
  /\ BaseHeader \in 0..MaxLorenzoTip
  /\ Rejected \subseteq Tx
  /\ TruncatedBody \in BOOLEAN
  /\ UnlistedErrors \in BOOLEAN

VARIABLES
  lorenzoTip, \* Lorenzo: the height of its Bitcoin header chain
  records,    \* Lorenzo: the transactions with a staking record
  inflight,   \* Lorenzo: messages [tx, agent] broadcast, not yet executed
  sub         \* the local variables of submitLoop

lorenzoVars == <<lorenzoTip, records, inflight>>
submitVars  == <<agentVars, db, lorenzoVars, sub>>

SubIdle == [pc |-> "poll", tip |-> 0, batch |-> {}, cur |-> NoTx,
            agent |-> NoAgent, whole |-> TRUE]

Message == [tx : Tx, agent : Agent]

SubmitTypeOK ==
  /\ AgentTypeOK
  /\ db \in Table
  /\ lorenzoTip \in 0..MaxLorenzoTip
  /\ records \subseteq Tx
  /\ inflight \subseteq Message
  /\ sub \in [pc : {"poll", "row", "fetch", "send"}, tip : 0..MaxLorenzoTip,
              batch : SUBSET Tx, cur : Tx \cup {NoTx},
              agent : Agent \cup {NoAgent}, whole : BOOLEAN]

SubmitInit ==
  /\ AgentInit
  /\ db = EmptyTable
  /\ lorenzoTip = BaseHeader
  /\ records = {}
  /\ inflight = {}
  /\ sub = SubIdle

-----------------------------------------------------------------------------
\* Lorenzo.

\* How far below Lorenzo's tip the block of a deposit must be.
RequiredDepth(amount) ==
  CASE amount < Dep0Amount -> 0
    [] Dep0Amount <= amount /\ amount < Dep1Amount -> 1
    [] Dep1Amount <= amount /\ amount < Dep2Amount -> 2
    [] Dep2Amount <= amount /\ amount < Dep3Amount -> 3
    [] OTHER -> 4

Confirmed(t) == db[t].height + RequiredDepth(db[t].amount) <= lorenzoTip

\* Lorenzo will never take this deposit for this agent.
Refuses(t, a) == t \in Rejected \/ a \notin registry.live

Mints(t, a) == t \notin records /\ Confirmed(t) /\ ~Refuses(t, a)

NewHeader ==
  /\ lorenzoTip < MaxLorenzoTip
  /\ lorenzoTip' = lorenzoTip + 1
  /\ UNCHANGED <<agentVars, db, records, inflight, sub>>

\* Another submitter proves the deposit.
OtherSubmitter(t) ==
  /\ HasRow(t)
  /\ \E a \in Agent : Mints(t, a)
  /\ records' = records \cup {t}
  /\ UNCHANGED <<agentVars, db, lorenzoTip, inflight, sub>>

\* A message that nobody waits for any more is executed, or fails.
ExecuteLate(m) ==
  /\ m \in inflight
  /\ inflight' = inflight \ {m}
  /\ records' = IF Mints(m.tx, m.agent) THEN records \cup {m.tx} ELSE records
  /\ UNCHANGED <<agentVars, db, lorenzoTip, sub>>

LorenzoNext ==
  \/ NewHeader
  \/ \E t \in Tx : OtherSubmitter(t)
  \/ \E m \in inflight : ExecuteLate(m)

-----------------------------------------------------------------------------
\* submitLoop.

submitOnly == <<agentVars, db, lorenzoVars>>

\* The loop leaves the current row for the next one, or for the next batch.
RowDone(t) ==
  sub' = IF sub.batch = {t} THEN SubIdle
         ELSE [SubIdle EXCEPT !.pc = "row", !.tip = sub.tip, !.batch = sub.batch \ {t}]

\* markDepositTx...: an error of the database is logged and nothing more.
MarkOK(t, status) == db' = UpdateTxStatus(db, t, status)
Mark(t, status)   == MarkOK(t, status) \/ UNCHANGED db

\* BTCHeaderChainTip and GetUnhandledBtcDepositTxs.
SubQuery ==
  /\ phase = "running"
  /\ sub.pc = "poll"
  /\ \E batch \in SUBSET Tx \ {{}} :
       /\ IsBatch(batch, lorenzoTip)
       /\ sub' = [SubIdle EXCEPT !.pc = "row", !.tip = lorenzoTip, !.batch = batch]
  /\ UNCHANGED submitOnly

\* The batch is worked off from the lowest block up.
NextInBatch(t) ==
  /\ sub.pc = "row"
  /\ t \in sub.batch
  /\ \A u \in sub.batch : db[t].height <= db[u].height

\* GetBTCStakingRecord finds a record: the deposit is done.
SubRecorded(t) ==
  /\ NextInBatch(t)
  /\ t \in records
  /\ Mark(t, StatusSuccess)
  /\ RowDone(t)
  /\ UNCHANGED <<agentVars, lorenzoVars>>

SubUnrecorded(t) ==
  /\ NextInBatch(t)
  /\ t \notin records
  /\ sub' = [sub EXCEPT !.pc = "fetch", !.cur = t]
  /\ UNCHANGED submitOnly

SubRecordFails(t) ==
  /\ NextInBatch(t)
  /\ RowDone(t)
  /\ UNCHANGED submitOnly

\* Mutant of SubFetchFails: the row is given up.
SubFetchFailsForGood ==
  /\ sub.pc = "fetch"
  /\ Mark(sub.cur, StatusInvalid)
  /\ RowDone(sub.cur)
  /\ UNCHANGED <<agentVars, lorenzoVars>>

\* GetTxBlockProof or GetTxBytes returns an error.
SubFetchFails ==
  /\ sub.pc = "fetch"
  /\ RowDone(sub.cur)
  /\ UNCHANGED submitOnly

\* Mutant of SubNotBelong: the address is looked up for every row.
SubNotBelongNow ==
  /\ sub.pc = "fetch"
  /\ NoMatch(db[sub.cur].addr)
  /\ Mark(sub.cur, StatusReceiverIsNotBelongToAgent)
  /\ RowDone(sub.cur)
  /\ UNCHANGED <<agentVars, lorenzoVars>>

\* A row without an agent and an address that is no agent's now.
SubNotBelong ==
  /\ sub.pc = "fetch"
  /\ db[sub.cur].agent = NoAgent
  /\ NoMatch(db[sub.cur].addr)
  /\ Mark(sub.cur, StatusReceiverIsNotBelongToAgent)
  /\ RowDone(sub.cur)
  /\ UNCHANGED <<agentVars, lorenzoVars>>

\* The agent submitted for the current row.
SubAgent(a) ==
  \/ db[sub.cur].agent # NoAgent /\ a = db[sub.cur].agent
  \/ /\ db[sub.cur].agent = NoAgent
     /\ \E i \in DOMAIN agents.ptr :
          FirstMatch(i, db[sub.cur].addr) /\ a = agents.ptr[i]

\* Mutant of SubFetch: the agent found is not put into the row.
SubFetchKeepsAgentId ==
  /\ sub.pc = "fetch"
  /\ \E a \in Agent : SubAgent(a)
  /\ \E whole \in {TRUE, ~TruncatedBody} :
       sub' = [sub EXCEPT !.pc = "send", !.agent = db[sub.cur].agent, !.whole = whole]
  /\ UNCHANGED submitOnly

\* Proof and transaction are there and parse; the errors of reading the two
\* bodies are ignored, so the transaction may be cut short.
SubFetch ==
  /\ sub.pc = "fetch"
  /\ \E a \in Agent, whole \in {TRUE, ~TruncatedBody} :
       /\ SubAgent(a)
       /\ sub' = [sub EXCEPT !.pc = "send", !.agent = a, !.whole = whole]
  /\ UNCHANGED submitOnly

\* newMsgCreateBTCStaking fails on a proof that was cut short.
SubBadProof ==
  /\ sub.pc = "fetch"
  /\ TruncatedBody
  /\ \E a \in Agent : SubAgent(a)
  /\ Mark(sub.cur, StatusInvalid)
  /\ RowDone(sub.cur)
  /\ UNCHANGED <<agentVars, lorenzoVars>>

\* CreateBTCStakingWithBTCProof succeeds.
SubAccepted ==
  /\ sub.pc = "send"
  /\ sub.whole
  /\ Mints(sub.cur, sub.agent)
  /\ records' = records \cup {sub.cur}
  /\ Mark(sub.cur, StatusSuccess)
  /\ RowDone(sub.cur)
  /\ UNCHANGED <<agentVars, lorenzoTip, inflight>>

\* Mutant of SubTryAgain: such an error is taken for a success.
SubTryAgainSucceeds ==
  /\ sub.pc = "send"
  /\ Mark(sub.cur, StatusSuccess)
  /\ RowDone(sub.cur)
  /\ UNCHANGED <<agentVars, lorenzoVars>>

\* It fails with one of the errors of isStakingMintTryAgainError: not k-deep,
\* header not found, duplicate, post failed, sequence mismatch, or a timeout.
\* Only after a timeout may the message have reached Lorenzo.
SubTryAgain ==
  /\ sub.pc = "send"
  /\ inflight' \in {inflight} \cup
       (IF sub.whole THEN {inflight \cup {[tx |-> sub.cur, agent |-> sub.agent]}} ELSE {})
  /\ RowDone(sub.cur)
  /\ UNCHANGED <<agentVars, db, lorenzoTip, records>>

\* It fails with any other error.
SubRefused ==
  /\ sub.pc = "send"
  /\ ~sub.whole \/ Refuses(sub.cur, sub.agent) \/ UnlistedErrors
  /\ Mark(sub.cur, StatusInvalid)
  /\ RowDone(sub.cur)
  /\ UNCHANGED <<agentVars, lorenzoVars>>

SubmitLoop ==
  \/ SubQuery
  \/ \E t \in Tx : SubRecorded(t) \/ SubUnrecorded(t) \/ SubRecordFails(t)
  \/ SubFetchFails \/ SubNotBelong \/ SubFetch \/ SubBadProof
  \/ SubAccepted \/ SubTryAgain \/ SubRefused

-----------------------------------------------------------------------------
SubmitBoot == StartProcess /\ UNCHANGED <<db, lorenzoVars, sub>>

SubmitCrash ==
  /\ KillProcess
  /\ sub' = SubIdle
  /\ UNCHANGED <<db, lorenzoVars>>

SubmitRefresh ==
  /\ RefreshNext \/ RegistryNext
  /\ UNCHANGED <<db, lorenzoVars, sub>>

CONSTANTS
  NewRows         \* the rows [tx, row] that the scan may insert

\* As getValidDepositTxs builds them, or an older version, without the agent.
ASSUME NewRowsAssumption ==
  \A r \in NewRows :
    /\ r \in [tx : Tx, row : Row]
    /\ r.row.status = StatusPending
    /\ r.row.agent # NoAgent => r.row.addr = AgentAddr[r.row.agent]

\* The other goroutine inserts a row.
RowArrives(r) ==
  /\ phase = "running"
  /\ db[r.tx] = NoRow
  /\ r.row.agent <= registry.last
  /\ db' = [db EXCEPT ![r.tx] = r.row]
  /\ UNCHANGED <<agentVars, lorenzoVars, sub>>

SubmitNext ==
  \/ LorenzoNext \/ SubmitBoot \/ SubmitCrash \/ SubmitRefresh \/ SubmitLoop
  \/ \E r \in NewRows : RowArrives(r)

SubmitSafety == SubmitInit /\ [][SubmitNext]_submitVars

\* The three stages of a row, gone through without an error; what fairness is about.
RecordAnswered(t) == SubUnrecorded(t) \/ (SubRecorded(t) /\ MarkOK(t, StatusSuccess))
FetchAnswered(t)  == sub.cur = t /\ (SubFetch \/ (SubNotBelong /\ db' # db))
SendAnswered(t)   == sub.cur = t /\ (SubAccepted \/ SubRefused) /\ db' # db

-----------------------------------------------------------------------------
(* A row is marked Success only when Lorenzo has the staking record: no    *)
(* answer that was lost, late or about another attempt makes the relayer   *)
(* forget an unminted deposit.  (submitLoop)                               *)
SuccessIsRecorded ==
  \A t \in Tx : HasRow(t) /\ db[t].status = StatusSuccess => t \in records

(* A row is marked Invalid only when Lorenzo refuses the deposit for good  *)
(* or an agent of its address was removed, never for a failure that        *)
(* passes: it is never looked at again.  (isStakingMintTryAgainError and   *)
(* the two calls of markDepositTxInvalid)                                  *)
InvalidIsRefused ==
  \A t \in Tx : HasRow(t) /\ db[t].status = StatusInvalid =>
    \/ t \in Rejected
    \/ \E a \in 1..registry.last \ registry.live : AgentAddr[a] = db[t].addr

(* A row is given up as nobody's only if it came without an agent and its  *)
(* address is not a founder's, even while the agent list is being replaced *)
(* under the goroutine.  (the AgentId == 0 branch of submitLoop)           *)
NotBelongIsForeign ==
  \A t \in Tx : HasRow(t) /\ db[t].status = StatusReceiverIsNotBelongToAgent =>
    /\ db[t].agent = NoAgent
    /\ \A f \in Founder : AgentAddr[f] # db[t].addr

(* Nothing but dust is sent before its block is as deep below Lorenzo's    *)
(* tip as its amount asks, unless Lorenzo knows fewer than four headers    *)
(* and the subtraction wraps round.  (the WHERE clause of                  *)
(* GetUnhandledBtcDepositTxs)                                              *)
SentWhenDeep ==
  sub.pc \in {"fetch", "send"} /\ db[sub.cur].amount >= Dep0Amount
    => Confirmed(sub.cur) \/ sub.tip < 4

(* Status Success, Invalid or NotBelong is the last one a row gets.        *)
TerminalIsFinal ==
  [][\A t \in Tx : HasRow(t) /\ ~IsPending(t) => db'[t] = db[t]]_db

(* A deposit that Lorenzo can confirm leaves the state Pending: no batch   *)
(* limit, failing call, lost answer or unconfirmed deposit keeps it there. *)
(* (the order and the limit of GetUnhandledBtcDepositTxs, submitLoop)      *)
Settles ==
  \A t \in Tx : (HasRow(t) /\ Confirmed(t)) ~> (HasRow(t) /\ ~IsPending(t))
=============================================================================
