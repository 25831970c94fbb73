--------------------------- MODULE BtcRelayerProofs ---------------------------
(***************************************************************************)
(* The two goroutines of the BTC relayer, which share the agent list and   *)
(* the deposit table without a lock, keep together what each keeps alone;  *)
(* what is submitted is a deposit, and the whole implements the abstract   *)
(* ledger.                                                                 *)
(***************************************************************************)
EXTENDS BtcRelayer, BtcScanProofs, BtcSubmitProofs

\* What Lorenzo is asked to mint, and what it may still mint late, has a row
\* and is a deposit to the agent that is named.
SendInv ==
  /\ sub.pc = "send" => Justified(sub.cur, sub.agent)
  /\ \A m \in inflight : HasRow(m.tx) /\ Justified(m.tx, m.agent)

RelayerInv == ScanInv /\ SubmitInv /\ SendInv

-----------------------------------------------------------------------------
\* What a step of one goroutine does to the table, for the other.

Done == {StatusSuccess, StatusInvalid, StatusReceiverIsNotBelongToAgent}

\* submitLoop changes a status, mints, or does both.
Marks(t, s) == t \in sub.batch /\ MarkOK(t, s)
Submits ==
  \/ UNCHANGED <<db, records>>
  \/ \E t \in sub.batch : UNCHANGED db /\ records' = records \cup {t}
  \/ \E t \in sub.batch : Marks(t, StatusSuccess) /\ records' = records \cup {t}
  \/ \E t \in sub.batch, s \in Done \ {StatusSuccess} : Marks(t, s) /\ UNCHANGED records

(* A status is Pending or one of the three that are final.                 *)
LEMMA Statuses ==
  /\ Done \subseteq Status /\ StatusPending \in Status \ Done
  /\ Status = Done \cup {StatusPending}
BY DEF Done, Status, StatusPending, StatusSuccess, StatusInvalid,
       StatusReceiverIsNotBelongToAgent

(* Every iteration of submitLoop is one of these.                          *)
LEMMA LoopSubmits ==
  ASSUME SubmitInv, SubmitLoop
  PROVE  Submits
<1>1. sub.pc \in {"fetch", "send"} => sub.cur \in sub.batch
  BY DEF SubmitInv, BatchInv
<1>2. /\ StatusInvalid \in Done \ {StatusSuccess}
      /\ StatusReceiverIsNotBelongToAgent \in Done \ {StatusSuccess}
  BY DEF Done, StatusSuccess, StatusInvalid, StatusReceiverIsNotBelongToAgent
<1> USE DEF lorenzoVars, submitOnly
<1>3. CASE SubQuery BY <1>3 DEF SubQuery, Submits
<1>4. ASSUME NEW t \in Tx, SubRecorded(t) PROVE Submits
  <2>1. t \in sub.batch /\ t \in records /\ UNCHANGED records /\ Mark(t, StatusSuccess)
    BY <1>4 DEF SubRecorded, NextInBatch
  <2>2. records' = records \cup {t} BY <2>1
  <2> QED BY <2>1, <2>2 DEF Mark, Marks, Submits
<1>5. ASSUME NEW t \in Tx, SubUnrecorded(t) \/ SubRecordFails(t) PROVE Submits
  BY <1>5 DEF SubUnrecorded, SubRecordFails, Submits
<1>6. CASE SubFetchFails \/ SubFetch
  BY <1>6 DEF SubFetchFails, SubFetch, Submits
<1>7. CASE SubNotBelong
  BY <1>1, <1>2, <1>7 DEF SubNotBelong, Mark, Marks, Submits
<1>8. CASE SubBadProof
  BY <1>1, <1>2, <1>8 DEF SubBadProof, Mark, Marks, Submits
<1>9. CASE SubAccepted
  BY <1>1, <1>9 DEF SubAccepted, Mark, Marks, Submits
<1>10. CASE SubTryAgain
  BY <1>10 DEF SubTryAgain, Submits
<1>11. CASE SubRefused
  BY <1>1, <1>2, <1>11 DEF SubRefused, Mark, Marks, Submits
<1> QED
  BY <1>3, <1>4, <1>5, <1>6, <1>7, <1>8, <1>9, <1>10, <1>11 DEF SubmitLoop

(* A mark changes the status of one pending row, and nothing else.         *)
LEMMA MarkedRow ==
  ASSUME SubmitInv, NEW t \in sub.batch, NEW s \in Done, MarkOK(t, s)
  PROVE  /\ t \in Tx /\ IsPending(t) /\ HasRow(t)' /\ db' \in Table
         /\ \A u \in Tx : u # t => db'[u] = db[u]
         /\ db'[t].agent = db[t].agent /\ db'[t].addr = db[t].addr
         /\ db'[t].amount = db[t].amount /\ db'[t].height = db[t].height
         /\ db'[t].status = s
<1>1. t \in Tx /\ IsPending(t) /\ db \in Table /\ db[t] \in Row
  BY DEF SubmitInv, SubmitTypeOK, BatchInv, IsPending, HasRow, Table
<1>2. /\ db' \in Table /\ db'[t] # NoRow /\ db'[t] = [db[t] EXCEPT !.status = s]
      /\ \A u \in Tx : u # t => db'[u] = db[u]
  BY <1>1, Statuses, UpdateKeepsRows DEF MarkOK, IsPending, HasRow
<1>3. /\ db'[t].agent = db[t].agent /\ db'[t].addr = db[t].addr
      /\ db'[t].amount = db[t].amount /\ db'[t].height = db[t].height
      /\ db'[t].status = s
  BY <1>1, <1>2 DEF Row
<1> QED BY <1>1, <1>2, <1>3 DEF HasRow

(* The rows stay, and stay what they are but for the status.               *)
LEMMA SubmitsKeepsRows ==
  ASSUME SubmitInv, Submits
  PROVE  /\ db' \in Table
         /\ \A t \in Tx : HasRow(t)' <=> HasRow(t)
         /\ \A t \in Tx : HasRow(t) =>
              /\ db'[t].agent = db[t].agent /\ db'[t].addr = db[t].addr
              /\ db'[t].amount = db[t].amount /\ db'[t].height = db[t].height
<1>1. CASE UNCHANGED db
  BY <1>1 DEF SubmitInv, SubmitTypeOK, HasRow
<1>2. ASSUME NEW t \in sub.batch, NEW s \in Done, MarkOK(t, s)
      PROVE  /\ db' \in Table
             /\ \A u \in Tx : HasRow(u)' <=> HasRow(u)
             /\ \A u \in Tx : HasRow(u) =>
                  /\ db'[u].agent = db[u].agent /\ db'[u].addr = db[u].addr
                  /\ db'[u].amount = db[u].amount /\ db'[u].height = db[u].height
  BY <1>2, MarkedRow DEF IsPending, HasRow
<1>3. StatusSuccess \in Done BY DEF Done
<1> QED BY <1>1, <1>2, <1>3 DEF Submits, Marks

(* So the scan does not notice what the submission does.                   *)
LEMMA SubmitsKeepsScan ==
  ASSUME ScanInv, SubmitInv, Submits, UNCHANGED <<agentVars, chainVars, syncPoint, scan>>
  PROVE  ScanInv'
<1> USE DEF chainVars
<1>1. AgentInv' /\ AgentTypeOK'
  BY AgentInvNext DEF ScanInv, AgentInv
<1>2. ScanTypeOK'
  BY <1>1, SubmitsKeepsRows DEF ScanInv, ScanTypeOK
<1>3. PlaceInv' /\ LoopInv(scan') /\ SyncInv'
  BY DEF ScanInv, PlaceInv, SyncInv, agentVars
<1>4. StoredInv' /\ NoGap' /\ RowsCanonical'
  BY SubmitsKeepsRows DEF ScanInv, StoredInv, NoGap, RowsCanonical, InBlock
<1>5. RowsJustified'
  BY SubmitsKeepsRows DEF ScanInv, RowsJustified, IsDeposit
<1> QED BY <1>1, <1>2, <1>3, <1>4, <1>5 DEF ScanInv

(* The scan adds rows that are pending, and leaves the others alone.       *)
Arrives ==
  /\ db' \in Table
  /\ \A t \in Tx : HasRow(t) => db'[t] = db[t]
  /\ \A t \in Tx : ~HasRow(t) /\ HasRow(t)' =>
       /\ db'[t] = scan.found[t] /\ scan.found[t] # NoRow
       /\ db'[t].status = StatusPending

(* The transaction of the database inserts rows that are not there.        *)
LEMMA InsertArrives ==
  ASSUME ScanInv, db' = InsertBtcDepositTxs(db, scan.found)
  PROVE  Arrives
<1>1. db \in Table /\ scan.found \in Table /\ FoundOK(scan)
  BY DEF ScanInv, ScanTypeOK, ScanState, LoopInv
<1>2. \A t \in Tx : db'[t] = IF db[t] = NoRow THEN scan.found[t] ELSE db[t]
  BY DEF InsertBtcDepositTxs
<1>3. db' \in Table
  BY <1>1 DEF InsertBtcDepositTxs, Table
<1> QED BY <1>1, <1>2, <1>3 DEF Arrives, HasRow, FoundOK

(* The scan changes the table by an insert only.                           *)
LEMMA ScanArrives ==
  ASSUME ScanInv, ScanSide \/ RelayerCrash
  PROVE  Arrives
<1>1. CASE db' = InsertBtcDepositTxs(db, scan.found)
  BY <1>1, InsertArrives
<1>2. CASE db' = db
  BY <1>2 DEF Arrives, HasRow, ScanInv, ScanTypeOK
<1>3. db' = InsertBtcDepositTxs(db, scan.found) \/ db' = db
  BY DEF ScanSide, RelayerCrash, BitcoinNext, Mine, Reorg, ScanBoot, ScanCrash, ScanRefresh,
         ScanLoop, Filter, ScanPoll, ScanGetBlock, ScanGetBlockFails, ScanSkipOutput,
         ScanOpReturnAgent, ScanEthAgent, ScanInput, ScanInsert, ScanInsertFails,
         ScanUpdate, ScanUpdateFails, scanOnly, storeVars
<1> QED BY <1>1, <1>2, <1>3

(* What the scan side does to the agents and the process.                  *)
LEMMA ScanSideAgents ==
  ASSUME ScanSide
  PROVE  /\ [AgentNext]_agentVars
         /\ phase = "running" => phase' = "running"
<1>1. CASE ScanBoot
  BY <1>1 DEF ScanBoot, AgentNext, StartProcess
<1>2. CASE ScanRefresh
  <2>1. phase = "running" => phase' = "running"
    BY <1>2, RefreshKeepsRunning DEF ScanRefresh
  <2> QED BY <1>2, <2>1 DEF ScanRefresh, AgentNext
<1>3. CASE BitcoinNext \/ ScanLoop
  <2>1. UNCHANGED agentVars
    BY <1>3 DEF BitcoinNext, Mine, Reorg, ScanLoop, Filter, ScanPoll, ScanGetBlock,
                ScanGetBlockFails, ScanSkipOutput, ScanOpReturnAgent, ScanEthAgent,
                ScanInput, ScanInsert, ScanInsertFails, ScanUpdate, ScanUpdateFails,
                scanOnly
  <2> QED BY <2>1 DEF agentVars
<1> QED BY <1>1, <1>2, <1>3 DEF ScanSide

(* So the submission does not notice what the scan does.                   *)
LEMMA ScanSideKeepsSubmit ==
  ASSUME ScanInv, SubmitInv, ScanSide
  PROVE  SubmitInv'
<1>1. Arrives BY ScanArrives
<1>2. UNCHANGED <<lorenzoVars, sub>> BY DEF ScanSide, submitSide
<1>3. AgentInv' /\ AgentTypeOK'
  BY ScanSideAgents, AgentInvNext DEF ScanInv, AgentInv
<1>4. SubmitTypeOK'
  BY <1>1, <1>2, <1>3 DEF SubmitInv, SubmitTypeOK, lorenzoVars, Arrives
<1>5. \A t \in sub.batch : t \in Tx /\ HasRow(t)
  BY DEF SubmitInv, SubmitTypeOK, BatchInv, IsPending
<1>6. BatchInv'
  <2>1. \A t \in sub.batch : db'[t] = db[t] BY <1>1, <1>5 DEF Arrives
  <2>2. \A t \in sub'.batch : IsPending(t)' /\ IsRipe(db[t], sub.tip)'
    BY <1>2, <2>1 DEF SubmitInv, BatchInv, IsPending, HasRow
  <2> QED BY <1>2, <2>2, ScanSideAgents DEF SubmitInv, BatchInv, lorenzoVars
<1>7. ASSUME NEW t \in Tx, HasRow(t)'
      PROVE  \/ HasRow(t) /\ db'[t] = db[t]
             \/ db'[t].status \notin {StatusSuccess, StatusReceiverIsNotBelongToAgent}
  <2>1. CASE HasRow(t) BY <1>1, <2>1 DEF Arrives
  <2>2. CASE ~HasRow(t)
    BY <1>1, <1>7, <2>2
    DEF Arrives, StatusPending, StatusSuccess, StatusReceiverIsNotBelongToAgent
  <2> QED BY <2>1, <2>2
<1>8. SuccessIsRecorded' /\ NotBelongIsForeign'
  BY <1>2, <1>7 DEF SubmitInv, SuccessIsRecorded, NotBelongIsForeign, lorenzoVars
<1> QED BY <1>3, <1>4, <1>6, <1>8 DEF SubmitInv

-----------------------------------------------------------------------------
\* The two together.

(* The relayer starts with empty hands.                                    *)
LEMMA RelayerInvInit == RelayerInit => RelayerInv
<1> SUFFICES ASSUME RelayerInit PROVE RelayerInv
  OBVIOUS
<1>1. ScanInv /\ SubmitInv
  BY ScanInvInit, SubmitInvInit DEF RelayerInit
<1>2. SendInv
  BY IdleIsState DEF RelayerInit, SubmitInit, SendInv
<1> QED BY <1>1, <1>2 DEF RelayerInv

(* A row names an agent, which is the one that is submitted.               *)
LEMMA SubAgentJustified ==
  ASSUME ScanInv, NEW a \in Agent, sub.cur \in Tx, HasRow(sub.cur), SubAgent(a)
  PROVE  Justified(sub.cur, a)
<1>1. db[sub.cur].agent \in Agent /\ Justified(sub.cur, db[sub.cur].agent)
  BY DEF ScanInv, RowsJustified, IsDeposit
<1>2. db[sub.cur].agent # NoAgent
  BY <1>1, AgentAssumption DEF Agent, NoAgent
<1> QED BY <1>1, <1>2 DEF SubAgent

(* The submission sends what the table justifies.                          *)
LEMMA LoopKeepsSend ==
  ASSUME RelayerInv, SubmitLoop
  PROVE  SendInv'
<1>1. \A t \in Tx : HasRow(t) => HasRow(t)'
  BY LoopSubmits, SubmitsKeepsRows DEF RelayerInv
<1>2. /\ \A t \in sub.batch : t \in Tx /\ HasRow(t)
      /\ sub.pc \in {"fetch", "send"} => sub.cur \in sub.batch
      /\ sub \in SubState /\ inflight \subseteq Message
  BY DEF RelayerInv, SubmitInv, SubmitTypeOK, SubState, BatchInv, IsPending
<1>3. \A m \in inflight : m.tx \in Tx BY <1>2 DEF Message
<1>4. \A m \in inflight : HasRow(m.tx)' /\ Justified(m.tx, m.agent)
  BY <1>1, <1>3 DEF RelayerInv, SendInv
<1>5. ASSUME NEW t \in Tx, RowDone(t) PROVE sub'.pc # "send"
  BY <1>5, IdleIsState DEF RowDone, SubIdle
<1> USE DEF submitOnly, lorenzoVars
<1>6. CASE SubFetch
  <2>1. PICK a \in Agent, whole \in {TRUE, ~TruncatedBody} :
          SubAgent(a) /\ sub' = [sub EXCEPT !.pc = "send", !.agent = a, !.whole = whole]
    BY <1>6 DEF SubFetch
  <2>2. sub'.cur = sub.cur /\ sub'.agent = a
    BY <1>2, <2>1 DEF SubState
  <2>3. Justified(sub.cur, a)
    BY <1>2, <1>6, <2>1, SubAgentJustified DEF SubFetch, RelayerInv
  <2>4. UNCHANGED inflight BY <1>6 DEF SubFetch
  <2> QED BY <1>4, <2>2, <2>3, <2>4 DEF SendInv
<1>7. CASE SubTryAgain
  <2>1. sub.cur \in Tx /\ HasRow(sub.cur) /\ Justified(sub.cur, sub.agent)
    BY <1>2, <1>7 DEF SubTryAgain, RelayerInv, SendInv
  <2>2. inflight' \subseteq inflight \cup {[tx |-> sub.cur, agent |-> sub.agent]}
    BY <1>7 DEF SubTryAgain
  <2>3. sub'.pc # "send" BY <1>5, <1>7, <2>1 DEF SubTryAgain
  <2> QED BY <1>1, <1>4, <2>1, <2>2, <2>3 DEF SendInv
<1>8. CASE SubQuery
  <2>1. sub'.pc # "send" BY <1>8 DEF SubQuery, SubIdle
  <2> QED BY <1>4, <1>8, <2>1 DEF SubQuery, SendInv
<1>9. ASSUME NEW t \in Tx, SubUnrecorded(t) PROVE SendInv'
  <2>1. sub'.pc # "send" BY <1>2, <1>9 DEF SubUnrecorded, SubState
  <2> QED BY <1>4, <1>9, <2>1 DEF SubUnrecorded, SendInv
<1>10. ASSUME NEW t \in Tx, SubRecorded(t) \/ SubRecordFails(t) PROVE SendInv'
  BY <1>4, <1>5, <1>10 DEF SubRecorded, SubRecordFails, SendInv
<1>11. CASE SubFetchFails \/ SubNotBelong \/ SubBadProof \/ SubAccepted \/ SubRefused
  <2>1. sub.cur \in Tx /\ RowDone(sub.cur) /\ UNCHANGED inflight
    BY <1>2, <1>11 DEF SubFetchFails, SubNotBelong, SubBadProof, SubAccepted, SubRefused
  <2> QED BY <1>4, <1>5, <2>1 DEF SendInv
<1> QED
  BY <1>6, <1>7, <1>8, <1>9, <1>10, <1>11 DEF SubmitLoop

(* A step of one goroutine keeps what the others rely on.                  *)
LEMMA RelayerInvNext == RelayerInv /\ [RelayerNext]_relayerVars => RelayerInv'
<1> SUFFICES ASSUME RelayerInv, [RelayerNext]_relayerVars PROVE RelayerInv'
  OBVIOUS
<1> USE DEF submitSide, scanSide, lorenzoVars
<1>1. CASE ScanSide
  <2>1. ScanInv' BY <1>1, ScanInvNext DEF RelayerInv, ScanSide, ScanNext
  <2>2. SubmitInv' BY <1>1, ScanSideKeepsSubmit DEF RelayerInv
  <2>3. \A m \in inflight : m.tx \in Tx
    BY DEF RelayerInv, SubmitInv, SubmitTypeOK, Message
  <2>4. \A t \in Tx : HasRow(t) => HasRow(t)'
    BY <1>1, ScanArrives DEF RelayerInv, Arrives, HasRow
  <2>5. SendInv' BY <1>1, <2>3, <2>4 DEF RelayerInv, SendInv, ScanSide
  <2> QED BY <2>1, <2>2, <2>5 DEF RelayerInv
<1>2. CASE RelayerCrash
  <2>1. ScanCrash /\ sub' = SubIdle /\ UNCHANGED <<db, lorenzoVars>>
    BY <1>2 DEF RelayerCrash, ScanCrash, storeVars
  <2>2. ScanInv' BY <2>1, ScanInvNext DEF RelayerInv, ScanNext
  <2>3. SubmitInv' BY <2>1, <2>2, BesideLoop DEF RelayerInv, ScanInv
  <2>4. SendInv' BY <2>1, IdleIsState DEF RelayerInv, SendInv, HasRow
  <2> QED BY <2>2, <2>3, <2>4 DEF RelayerInv
<1>3. CASE SubmitSide /\ SubmitLoop
  <2>1. SubmitInv' BY <1>3, LoopKeeps DEF RelayerInv
  <2>2. UNCHANGED agentVars
    BY <1>3 DEF SubmitLoop, SubQuery, SubRecorded, SubUnrecorded, SubRecordFails,
                SubFetchFails, SubNotBelong, SubFetch, SubBadProof, SubAccepted,
                SubTryAgain, SubRefused, submitOnly
  <2>3. ScanInv'
    BY <1>3, <2>2, LoopSubmits, SubmitsKeepsScan DEF RelayerInv, SubmitSide
  <2>4. SendInv' BY <1>3, LoopKeepsSend
  <2> QED BY <2>1, <2>3, <2>4 DEF RelayerInv
<1>4. CASE SubmitSide /\ LorenzoNext
  <2>1. SubmitInv' BY <1>4, SubmitInvNext DEF RelayerInv, SubmitNext
  <2>2. UNCHANGED <<agentVars, db, sub>> /\ inflight' \subseteq inflight
    BY <1>4 DEF LorenzoNext, NewHeader, OtherSubmitter, ExecuteLate
  <2>3. UNCHANGED scanVars
    BY <1>4, <2>2 DEF SubmitSide, scanVars, storeVars
  <2>4. ScanInv' BY <2>3, ScanInvNext DEF RelayerInv
  <2>5. SendInv' BY <2>2 DEF RelayerInv, SendInv, HasRow
  <2> QED BY <2>1, <2>4, <2>5 DEF RelayerInv
<1>5. CASE UNCHANGED relayerVars
  <2>1. UNCHANGED scanVars /\ UNCHANGED submitVars
    BY <1>5 DEF relayerVars, scanVars, submitVars, storeVars
  <2>2. ScanInv' /\ SubmitInv' BY <2>1, ScanInvNext, SubmitInvNext DEF RelayerInv
  <2>3. SendInv' BY <2>1 DEF RelayerInv, SendInv, HasRow, submitVars
  <2> QED BY <2>2, <2>3 DEF RelayerInv
<1> QED BY <1>1, <1>2, <1>3, <1>4, <1>5 DEF RelayerNext, SubmitSide

-----------------------------------------------------------------------------
\* The invariant, and what it says of the whole relayer.

(* Three goroutines, one process: their invariants hold together.          *)
THEOREM RelayerInvariant == RelayerSafety => []RelayerInv
BY RelayerInvInit, RelayerInvNext, PTL DEF RelayerSafety

(* The state that the goroutines share, and the local state of each, keep  *)
(* their types.  (scanBlockLoop, submitLoop, updateAgentsListLoop)         *)
THEOREM RelayerTypeCorrect == RelayerSafety => []RelayerTypeOK
<1>1. RelayerInv => RelayerTypeOK
  BY DEF RelayerInv, ScanInv, SubmitInv, RelayerTypeOK
<1> QED BY <1>1, RelayerInvariant, PTL

(* A message that Lorenzo executes, in time or late, is about a buried     *)
(* transaction with a row, and names an agent that the transaction is a    *)
(* deposit to.  (getValidDepositTxs, submitLoop)                           *)
THEOREM OnlyDepositsAreSubmitted == RelayerSafety => []OnlyDepositsSubmitted
<1>1. RelayerInv => OnlyDepositsSubmitted
  <2> SUFFICES ASSUME RelayerInv, NEW m \in inflight
               PROVE  HasRow(m.tx) /\ Justified(m.tx, m.agent) /\ m.tx \in BuriedTx
    BY DEF OnlyDepositsSubmitted
  <2>1. m.tx \in Tx BY DEF RelayerInv, SubmitInv, SubmitTypeOK, Message
  <2>2. HasRow(m.tx) /\ Justified(m.tx, m.agent) BY DEF RelayerInv, SendInv
  <2>3. m.tx \in BuriedTx
    BY <2>1, <2>2 DEF RelayerInv, ScanInv, RowsCanonical, BuriedTx
  <2> QED BY <2>2, <2>3
<1> QED BY <1>1, RelayerInvariant, PTL

(* With the submission at work on the same table the scan still passes     *)
(* over no deposit, and its rows stay canonical and justified.             *)
THEOREM NoDepositLostInRelayer ==
  RelayerSafety => [](NoGap /\ RowsCanonical /\ RowsJustified)
<1>1. RelayerInv => NoGap /\ RowsCanonical /\ RowsJustified
  BY DEF RelayerInv, ScanInv
<1> QED BY <1>1, RelayerInvariant, PTL

(* With the scan at work on the same table, many rows at a time, a row     *)
(* marked Success has its record, and one given up is nobody's.            *)
THEOREM MarksTrueInRelayer ==
  RelayerSafety => [](SuccessIsRecorded /\ NotBelongIsForeign)
<1>1. RelayerInv => SuccessIsRecorded /\ NotBelongIsForeign
  BY DEF RelayerInv, SubmitInv
<1> QED BY <1>1, RelayerInvariant, PTL

(* A status other than Pending is the last, though two goroutines write    *)
(* the table and a block may be scanned again after a crash.               *)
(* (hasDepositTxByTxid, submitLoop)                                        *)
THEOREM StatusIsFinalInRelayer == RelayerSafety => TerminalIsFinal
<1>1. RelayerInv /\ [RelayerNext]_relayerVars =>
        [\A t \in Tx : HasRow(t) /\ ~IsPending(t) => db'[t] = db[t]]_db
  <2> SUFFICES ASSUME RelayerInv, [RelayerNext]_relayerVars, NEW t \in Tx,
                      HasRow(t), ~IsPending(t)
               PROVE  db'[t] = db[t]
    OBVIOUS
  <2>1. CASE ScanSide \/ RelayerCrash
    BY <2>1, ScanArrives DEF RelayerInv, Arrives
  <2>2. CASE SubmitSide
    BY <2>2, DoneRowStays DEF RelayerInv, SubmitSide, SubmitNext
  <2>3. CASE UNCHANGED relayerVars
    BY <2>3 DEF relayerVars, scanVars, storeVars
  <2> QED BY <2>1, <2>2, <2>3 DEF RelayerNext
<1> QED BY <1>1, RelayerInvariant, PTL DEF RelayerSafety, TerminalIsFinal

-----------------------------------------------------------------------------
\* The ledger that rows, chain and records amount to.

(* An entry is what its row says.                                          *)
LEMMA EntryOfRow ==
  ASSUME NEW t \in Tx
  PROVE  /\ LedgerEntry(t) = "unseen" <=> ~HasRow(t)
         /\ LedgerEntry(t) = "pending" <=> IsPending(t)
BY DEF LedgerEntry, IsPending, StatusPending, StatusSuccess, StatusInvalid

(* A row that stays is the same entry of the ledger.                       *)
LEMMA EntryKept ==
  ASSUME NEW t \in Tx, db'[t] = db[t]
  PROVE  LedgerEntry(t)' = LedgerEntry(t)
BY DEF LedgerEntry, IsPending, HasRow

(* What a row turns into by a mark.                                        *)
LEMMA EntryOfMark ==
  ASSUME NEW t \in Tx, HasRow(t)', NEW s \in Done, db'[t].status = s
  PROVE  LedgerEntry(t)' = IF s = StatusSuccess THEN "success"
                           ELSE IF s = StatusInvalid THEN "invalid" ELSE "foreign"
BY DEF LedgerEntry, IsPending, Done, StatusPending, StatusSuccess, StatusInvalid,
       StatusReceiverIsNotBelongToAgent

(* Without a new block nothing is buried.                                  *)
LEMMA BurialKept ==
  ASSUME UNCHANGED chainVars
  PROVE  BuriedTx' = BuriedTx
BY DEF BuriedTx, InBlock, chainVars

(* A table that stays is the same ledger.                                  *)
LEMMA EntriesKept ==
  ASSUME UNCHANGED db
  PROVE  [t \in Tx |-> LedgerEntry(t)]' = [t \in Tx |-> LedgerEntry(t)]
BY EntryKept

(* A step beside the chain, the table and the minting stutters.            *)
LEMMA LedgerStutters ==
  ASSUME UNCHANGED <<chainVars, db, records>>
  PROVE  UNCHANGED Ledger!ledgerVars
BY EntriesKept, BurialKept DEF Ledger!ledgerVars

(* A new table is an empty ledger.                                         *)
LEMMA LedgerInitially == RelayerInit => Ledger!LedgerInit
<1> SUFFICES ASSUME RelayerInit PROVE Ledger!LedgerInit
  OBVIOUS
<1>1. BuriedTx = {}
  BY DEF RelayerInit, ScanInit, BuriedTx, InBlock, InBody
<1>2. \A t \in Tx : LedgerEntry(t) = "unseen"
  BY EntryOfRow DEF RelayerInit, ScanInit, HasRow, EmptyTable
<1> QED BY <1>1, <1>2 DEF Ledger!LedgerInit, RelayerInit, SubmitInit

(* Bitcoin buries, and digs nothing up that is under Delay blocks.         *)
LEMMA BitcoinBuries ==
  ASSUME ScanInv, BitcoinNext, UNCHANGED records
  PROVE  Ledger!Bury
<1>1. tip \in Nat /\ tip \in 0..MaxHeight /\ block \in [Height -> Bodies \cup {<<>>}]
  BY ScanAssumption DEF ScanInv, ScanTypeOK
<1>2. tip' = tip + 1 /\ UNCHANGED db
  BY DEF BitcoinNext, Mine, Reorg, storeVars
<1>3. \A h \in Height : h + Delay <= tip => block'[h] = block[h]
  <2>1. ASSUME NEW body \in Bodies, Mine(body)
        PROVE  \A h \in Height : h + Delay <= tip => block'[h] = block[h]
    <3>1. \A h \in Height : h + Delay <= tip => h # tip + 1
      BY <1>1, ScanAssumption DEF Height
    <3> QED BY <1>1, <2>1, <3>1 DEF Mine
  <2>2. ASSUME NEW d \in 1..MaxReorg, Reorg(d)
        PROVE  \A h \in Height : h + Delay <= tip => block'[h] = block[h]
    <3>1. PICK branch \in [(tip - d + 1)..(tip + 1) -> Bodies] :
            block' = [h \in Height |-> IF h \in DOMAIN branch THEN branch[h] ELSE block[h]]
      BY <2>2 DEF Reorg
    <3>2. \A h \in Height : h + Delay <= tip => h \notin (tip - d + 1)..(tip + 1)
      BY <1>1, ScanAssumption, ReorgAssumption DEF Height
    <3> QED BY <3>1, <3>2
  <2> QED BY <2>1, <2>2 DEF BitcoinNext
<1>4. \A h \in Height : h + Delay <= tip => h + Delay <= tip'
  BY <1>1, <1>2, ScanAssumption DEF Height
<1>5. BuriedTx \subseteq BuriedTx' /\ BuriedTx' \subseteq Tx
  BY <1>3, <1>4 DEF BuriedTx, InBlock
<1>6. BuriedTx' = BuriedTx \cup (BuriedTx' \ BuriedTx)
  BY <1>5
<1>7. BuriedTx' \ BuriedTx \in SUBSET (Tx \ BuriedTx) BY <1>5
<1> QED BY <1>2, <1>6, <1>7, EntriesKept DEF Ledger!Bury

(* The rows that arrive are registered together, and all are buried.       *)
LEMMA ArrivalRegisters ==
  ASSUME Arrives, RowsCanonical', UNCHANGED <<chainVars, records>>
  PROVE  Ledger!Register
<1> DEFINE new == {t \in Tx : ~HasRow(t) /\ HasRow(t)'}
<1>1. ASSUME NEW t \in new PROVE t \in BuriedTx /\ LedgerEntry(t) = "unseen"
  <2>1. /\ db'[t].height \in Height /\ db'[t].height + Delay <= tip
        /\ InBlock(t, db'[t].height)
    BY DEF RowsCanonical, InBlock, chainVars
  <2> QED BY <2>1, EntryOfRow DEF BuriedTx
<1>2. ASSUME NEW t \in Tx
      PROVE  LedgerEntry(t)' = IF t \in new THEN "pending" ELSE LedgerEntry(t)
  <2>1. CASE t \in new
    <3>1. db'[t].status = StatusPending BY <2>1 DEF Arrives
    <3> QED BY <2>1, <3>1 DEF LedgerEntry, IsPending, HasRow, StatusPending,
                              StatusSuccess, StatusInvalid
  <2>2. CASE t \notin new /\ HasRow(t) BY <2>2, EntryKept DEF Arrives
  <2>3. CASE t \notin new /\ ~HasRow(t)
    BY <2>3 DEF LedgerEntry, IsPending, HasRow
  <2> QED BY <2>1, <2>2, <2>3
<1>3. new \in SUBSET {t \in BuriedTx : [u \in Tx |-> LedgerEntry(u)][t] = "unseen"}
  BY <1>1
<1> HIDE DEF new
<1>4. [t \in Tx |-> LedgerEntry(t)]'
        = [t \in Tx |-> IF t \in new THEN "pending" ELSE [u \in Tx |-> LedgerEntry(u)][t]]
  BY <1>2
<1> QED BY <1>3, <1>4, BurialKept DEF Ledger!Register

(* Lorenzo mints for rows only, whoever proved the deposit.                *)
LEMMA MintingMints ==
  ASSUME NEW t \in Tx, HasRow(t), records' = records \cup {t},
         UNCHANGED <<chainVars, db>>
  PROVE  Ledger!Mint(t)
<1>1. LedgerEntry(t) # "unseen" BY EntryOfRow
<1> QED BY <1>1, EntriesKept, BurialKept DEF Ledger!Mint

(* A mark settles a pending deposit.                                       *)
LEMMA MarkSettles ==
  ASSUME SubmitInv, NEW t \in sub.batch, NEW s \in Done, MarkOK(t, s),
         UNCHANGED chainVars,
         records' = IF s = StatusSuccess THEN records \cup {t} ELSE records
  PROVE  t \in Tx /\ (Ledger!Succeed(t) \/ Ledger!GiveUp(t))
<1> DEFINE entry == [u \in Tx |-> LedgerEntry(u)]
           e == IF s = StatusSuccess THEN "success"
                ELSE IF s = StatusInvalid THEN "invalid" ELSE "foreign"
<1>1. /\ t \in Tx /\ IsPending(t) /\ HasRow(t)' /\ db'[t].status = s
      /\ \A u \in Tx : u # t => db'[u] = db[u]
  BY MarkedRow
<1>2. LedgerEntry(t)' = e BY <1>1, EntryOfMark
<1>3. \A u \in Tx : u # t => LedgerEntry(u)' = LedgerEntry(u) BY <1>1, EntryKept
<1>4. entry' = [entry EXCEPT ![t] = e] BY <1>1, <1>2, <1>3
<1>5. entry[t] = "pending" /\ BuriedTx' = BuriedTx BY <1>1, EntryOfRow, BurialKept
<1>6. CASE s = StatusSuccess
  BY <1>1, <1>4, <1>5, <1>6 DEF Ledger!Succeed
<1>7. CASE s # StatusSuccess
  <2>1. e \in {"invalid", "foreign"} BY <1>7
  <2> QED BY <1>1, <1>4, <1>5, <1>7, <2>1 DEF Ledger!GiveUp
<1> QED BY <1>1, <1>6, <1>7

(* Each step of the submission is one step of the ledger, or none.         *)
LEMMA SubmitsOnLedger ==
  ASSUME SubmitInv, Submits, UNCHANGED chainVars
  PROVE  Ledger!LedgerNext \/ UNCHANGED Ledger!ledgerVars
<1>1. \A t \in sub.batch : t \in Tx /\ HasRow(t)
  BY DEF SubmitInv, SubmitTypeOK, BatchInv, IsPending
<1>2. StatusSuccess \in Done BY DEF Done
<1>3. CASE UNCHANGED <<db, records>> BY <1>3, LedgerStutters
<1>4. ASSUME NEW t \in sub.batch, UNCHANGED db, records' = records \cup {t}
      PROVE  Ledger!LedgerNext
  BY <1>1, <1>4, MintingMints DEF Ledger!LedgerNext
<1>5. ASSUME NEW t \in sub.batch, NEW s \in Done, MarkOK(t, s),
             records' = IF s = StatusSuccess THEN records \cup {t} ELSE records
      PROVE  Ledger!LedgerNext
  BY <1>5, MarkSettles DEF Ledger!LedgerNext
<1>6. CASE \E t \in sub.batch : Marks(t, StatusSuccess) /\ records' = records \cup {t}
  BY <1>2, <1>5, <1>6 DEF Marks
<1>7. CASE \E t \in sub.batch, s \in Done \ {StatusSuccess} :
             Marks(t, s) /\ UNCHANGED records
  BY <1>5, <1>7 DEF Marks
<1> QED BY <1>3, <1>4, <1>6, <1>7 DEF Submits

(* Each step of the relayer is one step of the ledger, or none.            *)
LEMMA LedgerStep ==
  RelayerInv /\ [RelayerNext]_relayerVars => [Ledger!LedgerNext]_(Ledger!ledgerVars)
<1> SUFFICES ASSUME RelayerInv, [RelayerNext]_relayerVars
             PROVE  Ledger!LedgerNext \/ UNCHANGED Ledger!ledgerVars
  OBVIOUS
<1> USE DEF submitSide, scanSide, lorenzoVars
<1>1. ScanInv /\ SubmitInv /\ ScanInv'
  BY RelayerInvNext DEF RelayerInv
<1>2. CASE ScanSide /\ BitcoinNext
  BY <1>1, <1>2, BitcoinBuries DEF ScanSide, Ledger!LedgerNext
<1>3. CASE ScanSide /\ (ScanInsert \/ ScanInsertFails)
  <2>1. UNCHANGED <<chainVars, records>>
    BY <1>3 DEF ScanSide, ScanInsert, ScanInsertFails
  <2> QED BY <1>1, <1>3, <2>1, ScanArrives, ArrivalRegisters DEF ScanInv, Ledger!LedgerNext
<1>4. CASE ScanSide /\ ~BitcoinNext /\ ~(ScanInsert \/ ScanInsertFails)
  <2>1. UNCHANGED <<chainVars, db, records>>
    BY <1>4 DEF ScanSide, ScanBoot, ScanRefresh, ScanLoop, Filter, ScanPoll, ScanGetBlock,
                ScanGetBlockFails, ScanSkipOutput, ScanOpReturnAgent, ScanEthAgent,
                ScanInput, ScanUpdate, ScanUpdateFails, scanOnly, storeVars
  <2> QED BY <2>1, LedgerStutters
<1>5. CASE RelayerCrash
  BY <1>5, LedgerStutters DEF RelayerCrash, ScanCrash, storeVars
<1>6. CASE SubmitSide /\ SubmitLoop
  BY <1>1, <1>6, LoopSubmits, SubmitsOnLedger DEF SubmitSide
<1>7. CASE SubmitSide /\ LorenzoNext
  <2>1. UNCHANGED <<chainVars, db>>
    BY <1>7 DEF SubmitSide, LorenzoNext, NewHeader, OtherSubmitter, ExecuteLate
  <2>2. CASE UNCHANGED records BY <2>1, <2>2, LedgerStutters
  <2>3. CASE NewHeader BY <2>2, <2>3 DEF NewHeader
  <2>4. ASSUME NEW t \in Tx, OtherSubmitter(t) PROVE Ledger!LedgerNext
    BY <2>1, <2>4, MintingMints DEF OtherSubmitter, Ledger!LedgerNext
  <2>5. ASSUME NEW m \in inflight, ExecuteLate(m)
        PROVE  Ledger!LedgerNext \/ UNCHANGED Ledger!ledgerVars
    <3>1. m.tx \in Tx /\ HasRow(m.tx)
      BY DEF RelayerInv, SendInv, SubmitInv, SubmitTypeOK, Message
    <3> QED BY <2>1, <2>2, <2>5, <3>1, MintingMints DEF ExecuteLate, Ledger!LedgerNext
  <2> QED BY <1>7, <2>3, <2>4, <2>5 DEF LorenzoNext
<1>8. CASE UNCHANGED relayerVars
  BY <1>8, LedgerStutters DEF relayerVars, scanVars, storeVars
<1> QED
  BY <1>2, <1>3, <1>4, <1>5, <1>6, <1>7, <1>8 DEF RelayerNext, SubmitSide

(* The relayer implements the ledger, for every interleaving of its        *)
(* goroutines with reorganisations, crashes, failed and late calls: only   *)
(* buried transactions are registered, each is settled once, and a success *)
(* comes with its minting.                                                 *)
THEOREM RelayerKeepsTheLedger == RelayerSafety => ImplementsLedger
<1>1. RelayerInit => Ledger!LedgerInit BY LedgerInitially
<1>2. RelayerInv /\ [RelayerNext]_relayerVars => [Ledger!LedgerNext]_(Ledger!ledgerVars)
  BY LedgerStep
<1> QED
  BY <1>1, <1>2, RelayerInvariant, PTL DEF RelayerSafety, ImplementsLedger, Ledger!LedgerSpec

-----------------------------------------------------------------------------
\* Why a row is Invalid, in the whole relayer.

\* The scan has its agents from a list, so they were registered.
FoundInv ==
  /\ scan.pc = "vins" => scan.agent \in Registered
  /\ \A t \in Tx : scan.found[t] # NoRow => scan.found[t].agent \in Registered

(* The loops change what is found only by the row they append.             *)
LEMMA NextTxFound ==
  ASSUME NEW s \in ScanState
  PROVE  NextTx(s).found = s.found /\ NextTx(s).pc \in {"insert", "outs"}
<1> DEFINE p == IF s.tx = Len(s.body) THEN "insert" ELSE "outs"
           n == NextTx(s)
<1>1. n = [s EXCEPT !.pc = p, !.tx = s.tx + 1, !.out = 1, !.vin = 1, !.agent = NoAgent]
  BY DEF NextTx
<1>2. p \in {"insert", "outs"} OBVIOUS
<1> HIDE DEF p, n
<1>3. n.pc = p /\ n.found = s.found BY <1>1 DEF ScanState
<1> QED BY <1>2, <1>3 DEF n

(* The row that is appended names the agent that was found.                *)
LEMMA AcceptFound ==
  ASSUME NEW s \in ScanState, s.body[s.tx] \in Tx, NEW a \in Agent
  PROVE  /\ Accept(s, a).pc \in {"insert", "outs"}
         /\ \A t \in Tx : Accept(s, a).found[t] # s.found[t] =>
              Accept(s, a).found[t].agent = a
<1> DEFINE row == DepositRow(s.body[s.tx], a, s.height)
           u == [s EXCEPT !.found[s.body[s.tx]] = row]
<1>1. s.found \in Table /\ s.height \in Nat BY DEF ScanState
<1>2. row \in Row /\ row.agent = a
  BY <1>1, DepositRowType DEF DepositRow
<1> HIDE DEF row
<1>3. u.found = [s.found EXCEPT ![s.body[s.tx]] = row] BY DEF ScanState
<1>4. u \in ScanState BY <1>1, <1>2 DEF ScanState, Table
<1>5. \A t \in Tx : u.found[t] # s.found[t] => u.found[t].agent = a
  BY <1>1, <1>2, <1>3 DEF Table
<1>6. Accept(s, a) = NextTx(u) BY DEF Accept, row
<1> HIDE DEF u
<1> QED BY <1>4, <1>5, <1>6, NextTxFound

(* Rows that were found name registered agents, whatever the scan does.    *)
LEMMA FoundKept ==
  ASSUME RelayerInv, RegisteredInv, FoundInv, ScanSide
  PROVE  FoundInv'
<1>1. Registered \subseteq Registered'
  BY ScanSideAgents, RegistryGrows DEF RelayerInv, ScanInv
<1>2. scan \in ScanState BY DEF RelayerInv, ScanInv, ScanTypeOK
<1>3. CASE scan' = scan BY <1>1, <1>3 DEF FoundInv
<1>4. ASSUME scan'.pc # "vins", scan'.found = scan.found PROVE FoundInv'
  BY <1>1, <1>4 DEF FoundInv
<1>5. ASSUME scan'.pc # "vins", scan'.found = EmptyTable PROVE FoundInv'
  BY <1>5, IdleOK DEF FoundInv
<1>6. ASSUME NEW a \in Agent, a \in Registered, CurTx \in Tx, scan' = Accept(scan, a)
      PROVE  FoundInv'
  <2>1. /\ scan'.pc # "vins"
        /\ \A t \in Tx : scan'.found[t] # scan.found[t] => scan'.found[t].agent = a
    BY <1>2, <1>6, AcceptFound DEF CurTx
  <2> QED BY <1>1, <1>6, <2>1 DEF FoundInv
<1>7. \A i \in DOMAIN agents.ptr : agents.ptr[i] \in Agent /\ agents.ptr[i] \in Registered
  BY DEF RegisteredInv, RelayerInv, ScanInv, AgentInv, AgentTypeOK
<1>8. CASE BitcoinNext \/ ScanBoot \/ ScanRefresh
  BY <1>3, <1>8 DEF BitcoinNext, Mine, Reorg, ScanBoot, ScanRefresh
<1>9. CASE ScanPoll
  <2>1. scan' = [ScanIdle EXCEPT !.pc = "block", !.height = syncPoint + 1]
    BY <1>9 DEF ScanPoll
  <2> QED BY <1>5, <2>1 DEF ScanIdle
<1>10. CASE ScanGetBlockFails \/ ScanInsertFails \/ ScanUpdate \/ ScanUpdateFails
  BY <1>5, <1>10, IdleOK DEF ScanGetBlockFails, ScanInsertFails, ScanUpdate, ScanUpdateFails
<1>11. CASE ScanGetBlock
  BY <1>2, <1>4, <1>11 DEF ScanGetBlock, ScanState
<1>12. CASE ScanInsert
  BY <1>2, <1>4, <1>12 DEF ScanInsert, ScanState
<1>13. CASE ScanSkipOutput
  <2>1. scan.pc = "outs" /\ scan' = NextOutput(scan) BY <1>13 DEF ScanSkipOutput
  <2>2. CASE scan' = NextTx(scan) BY <1>2, <1>4, <2>2, NextTxFound
  <2>3. CASE scan' = [scan EXCEPT !.out = scan.out + 1]
    BY <1>2, <1>4, <2>1, <2>3 DEF ScanState
  <2> QED BY <2>1, <2>2, <2>3 DEF NextOutput
<1>14. CASE ScanOpReturnAgent
  <2>1. PICK i \in DOMAIN agents.ptr :
          scan' = IF HasOpReturn(CurTx) THEN Accept(scan, agents.ptr[i]) ELSE NextTx(scan)
    BY <1>14 DEF ScanOpReturnAgent
  <2>2. CurTx \in Tx BY <1>14, LoopFacts DEF ScanOpReturnAgent, RelayerInv
  <2> QED BY <1>2, <1>4, <1>6, <1>7, <2>1, <2>2, NextTxFound
<1>15. CASE ScanEthAgent
  <2>1. PICK i \in DOMAIN agents.ptr :
          scan' = [scan EXCEPT !.pc = "vins", !.vin = 1, !.agent = agents.ptr[i]]
    BY <1>15 DEF ScanEthAgent
  <2>2. scan'.agent = agents.ptr[i] /\ scan'.found = scan.found
    BY <1>2, <2>1 DEF ScanState
  <2> QED BY <1>1, <1>7, <2>2 DEF FoundInv
<1>16. CASE ScanInput
  <2>1. /\ scan.pc = "vins"
        /\ \/ scan' = NextTx(scan) \/ scan' = Accept(scan, scan.agent)
           \/ scan' = [scan EXCEPT !.vin = scan.vin + 1]
    BY <1>16 DEF ScanInput
  <2>2. CurTx \in Tx BY <2>1, LoopFacts DEF RelayerInv
  <2>3. scan.agent \in Agent /\ scan.agent \in Registered
    BY <2>1 DEF RelayerInv, ScanInv, LoopInv, AtInput, FoundInv
  <2>4. CASE scan' = NextTx(scan) BY <1>2, <1>4, <2>4, NextTxFound
  <2>5. CASE scan' = Accept(scan, scan.agent) BY <1>6, <2>2, <2>3, <2>5
  <2>6. CASE scan' = [scan EXCEPT !.vin = scan.vin + 1]
    <3>1. scan'.agent = scan.agent /\ scan'.found = scan.found
      BY <1>2, <2>6 DEF ScanState
    <3> QED BY <1>1, <2>3, <3>1 DEF FoundInv
  <2> QED BY <2>1, <2>4, <2>5, <2>6
<1> QED
  BY <1>8, <1>9, <1>10, <1>11, <1>12, <1>13, <1>14, <1>15, <1>16
  DEF ScanSide, ScanLoop, Filter

(* The rows the scan adds name a registered agent of their address.        *)
LEMMA CauseOfScan ==
  ASSUME RelayerInv, CauseInv, FoundInv, ScanSide
  PROVE  CauseInv'
<1>1. Arrives /\ [AgentNext]_agentVars
  BY ScanArrives, ScanSideAgents DEF RelayerInv
<1>2. \A t \in Tx : scan.found[t] # NoRow => IsDeposit(t, scan.found[t])
  BY DEF RelayerInv, ScanInv, LoopInv, FoundOK
<1>3. ASSUME NEW t \in Tx, HasRow(t)'
      PROVE  \/ HasRow(t) /\ db'[t] = db[t]
             \/ /\ db'[t].agent # NoAgent => AgentOf(db'[t], db'[t].agent)
                /\ db'[t].status = StatusInvalid => GoodCause(t, db'[t].addr)
  <2>1. CASE HasRow(t) BY <1>1, <2>1 DEF Arrives
  <2>2. CASE ~HasRow(t)
    <3>1. /\ db'[t] = scan.found[t] /\ scan.found[t] # NoRow
          /\ db'[t].status # StatusInvalid
      BY <1>1, <1>3, <2>2 DEF Arrives, StatusPending, StatusInvalid
    <3>2. AgentOf(db'[t], db'[t].agent)
      BY <1>2, <3>1 DEF FoundInv, AgentOf, IsDeposit
    <3> QED BY <3>1, <3>2
  <2> QED BY <2>1, <2>2
<1>4. sub'.pc = "send" => sub'.whole /\ AgentOf(db'[sub'.cur], sub'.agent)
  <2> SUFFICES ASSUME sub'.pc = "send"
               PROVE  sub'.whole /\ AgentOf(db'[sub'.cur], sub'.agent)
    OBVIOUS
  <2>1. sub' = sub BY DEF ScanSide, submitSide
  <2>2. sub.cur \in Tx /\ HasRow(sub.cur)
    BY <2>1 DEF RelayerInv, SubmitInv, SubmitTypeOK, BatchInv, IsPending
  <2> QED BY <1>1, <2>1, <2>2 DEF Arrives, CauseInv
<1> QED BY <1>1, <1>3, <1>4, CauseKept DEF RelayerInv

(* Every step of the relayer keeps the cause of an Invalid row.            *)
LEMMA CauseInRelayer ==
  ASSUME NoBlindSpots, RelayerInv, CauseInv, FoundInv, [RelayerNext]_relayerVars
  PROVE  CauseInv' /\ FoundInv'
<1> USE DEF submitSide, scanSide
<1>1. SubmitInv BY DEF RelayerInv
<1>2. CASE ScanSide
  BY <1>2, CauseOfScan, FoundKept DEF CauseInv
<1>3. CASE RelayerCrash
  <2>1. /\ AgentNext /\ UNCHANGED db /\ scan' = ScanIdle /\ sub' = SubIdle
    BY <1>3 DEF RelayerCrash, ScanCrash, AgentNext, storeVars
  <2>2. FoundInv' BY <2>1, IdleOK DEF FoundInv
  <2> QED BY <1>1, <2>1, <2>2, CauseBeside, IdleIsState
<1>4. CASE SubmitSide \/ UNCHANGED relayerVars
  <2>1. UNCHANGED <<agentVars, scan>>
    BY <1>4 DEF SubmitSide, relayerVars, scanVars, LorenzoNext, NewHeader, OtherSubmitter,
                ExecuteLate, SubmitLoop, SubQuery, SubRecorded, SubUnrecorded,
                SubRecordFails, SubFetchFails, SubNotBelong, SubFetch, SubBadProof,
                SubAccepted, SubTryAgain, SubRefused, submitOnly
  <2>2. FoundInv' BY <2>1 DEF FoundInv, Registered, agentVars
  <2>3. CASE SubmitSide /\ SubmitLoop
    <3>1. SubmitLoop BY <2>3
    <3> QED BY <1>1, <2>2, <3>1, CauseOfLoop
  <2>4. CASE LorenzoNext \/ UNCHANGED relayerVars
    <3>1. UNCHANGED <<db, sub>>
      BY <2>4 DEF LorenzoNext, NewHeader, OtherSubmitter, ExecuteLate, relayerVars, scanVars,
                  storeVars
    <3>2. [AgentNext]_agentVars BY <2>1
    <3>3. CauseInv' BY <1>1, <3>1, <3>2, CauseBeside
    <3> QED BY <2>2, <3>3
  <2> QED BY <1>4, <2>2, <2>3, <2>4 DEF SubmitSide
<1> QED BY <1>2, <1>3, <1>4 DEF RelayerNext

(* Where bodies come whole and every passing error is known to             *)
(* isStakingMintTryAgainError, the relayer gives a deposit up as Invalid   *)
(* only if Lorenzo refuses it for good or an agent of its address was      *)
(* removed, whatever list the scan found the agent in.                     *)
THEOREM InvalidRefusedInRelayer == NoBlindSpots /\ RelayerSafety => []InvalidIsRefused
<1>1. NoBlindSpots => (RelayerSafety => [](CauseInv /\ FoundInv))
  <2> SUFFICES ASSUME NoBlindSpots PROVE RelayerSafety => [](CauseInv /\ FoundInv)
    OBVIOUS
  <2>1. RelayerInit => CauseInv /\ FoundInv
    BY CauseInit, IdleOK DEF RelayerInit, ScanInit, FoundInv
  <2>2. RelayerInv /\ (CauseInv /\ FoundInv) /\ [RelayerNext]_relayerVars =>
          (CauseInv /\ FoundInv)'
    BY CauseInRelayer
  <2> QED BY <2>1, <2>2, RelayerInvariant, PTL DEF RelayerSafety
<1>2. CauseInv => InvalidIsRefused BY DEF CauseInv
<1> QED BY <1>1, <1>2, PTL
=============================================================================
