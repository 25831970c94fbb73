--------------------------- MODULE BtcSubmitProofs ---------------------------
(***************************************************************************)
(* What a row's status says is true and final, and nothing is sent too     *)
(* early: for every table, agent list, header chain, and every pattern of  *)
(* failing, late and lost calls.                                           *)
(***************************************************************************)
EXTENDS BtcSubmit, AgentListProofs

SubState == [pc : {"poll", "row", "fetch", "send"}, tip : 0..MaxLorenzoTip,
             batch : SUBSET Tx, cur : Tx \cup {NoTx},
             agent : Agent \cup {NoAgent}, whole : BOOLEAN]

\* The loop works for a running process, on rows that are still pending and
\* that were ripe at the tip it was told.
BatchInv ==
  /\ sub.pc # "poll" => phase = "running"
  /\ sub.tip <= lorenzoTip
  /\ \A t \in sub.batch : IsPending(t) /\ IsRipe(db[t], sub.tip)
  /\ sub.pc \in {"fetch", "send"} => sub.cur \in sub.batch
  /\ sub.pc = "send" => sub.agent \in Agent

SubmitInv ==
  /\ AgentInv
  /\ SubmitTypeOK
  /\ BatchInv
  /\ SuccessIsRecorded
  /\ NotBelongIsForeign

-----------------------------------------------------------------------------
\* The records of the loop.

LEMMA IdleIsState ==
  /\ SubIdle \in SubState
  /\ SubIdle.pc = "poll" /\ SubIdle.tip = 0 /\ SubIdle.batch = {}
BY SubmitAssumption DEF SubIdle, SubState, NoAgent

LEMMA RowFields ==
  ASSUME NEW r \in Row
  PROVE  /\ r.agent \in Agent \cup {NoAgent} /\ r.addr \in Addr
         /\ r.height \in Nat /\ r.status \in Status
BY DEF Row

\* A change of the status changes nothing else of the row, and no other row.
LEMMA UpdateKeepsRows ==
  ASSUME NEW table \in Table, NEW t \in Tx, table[t] # NoRow, NEW s \in Status
  PROVE  LET new == UpdateTxStatus(table, t, s) IN
           /\ new \in Table
           /\ new[t] # NoRow
           /\ new[t] = [table[t] EXCEPT !.status = s]
           /\ \A u \in Tx : u # t => new[u] = table[u]
<1>1. table[t] \in Row BY DEF Table
<1>2. [table[t] EXCEPT !.status = s] \in Row BY <1>1 DEF Row
<1>3. UpdateTxStatus(table, t, s) = [table EXCEPT ![t] = [table[t] EXCEPT !.status = s]]
  BY DEF UpdateTxStatus
<1> QED BY <1>2, <1>3, RowAssumption DEF Table

-----------------------------------------------------------------------------
(* The invariant holds at the start.                                       *)
LEMMA SubmitInvInit == SubmitInit => SubmitInv
<1> SUFFICES ASSUME SubmitInit PROVE SubmitInv
  OBVIOUS
<1>1. AgentInv BY AgentInvInit DEF SubmitInit
<1>2. sub \in SubState /\ sub.pc = "poll" /\ sub.tip = 0 /\ sub.batch = {}
  BY IdleIsState DEF SubmitInit
<1>3. db \in Table /\ \A t \in Tx : ~HasRow(t)
  BY DEF SubmitInit, EmptyTable, Table, HasRow
<1>4. lorenzoTip \in 0..MaxLorenzoTip /\ records = {} /\ inflight = {}
  BY SubmitAssumption DEF SubmitInit
<1>5. SubmitTypeOK
  <2>1. AgentTypeOK BY <1>1 DEF AgentInv
  <2> QED BY <2>1, <1>2, <1>3, <1>4 DEF SubmitTypeOK, SubState
<1>6. BatchInv BY <1>2, <1>4 DEF BatchInv
<1>7. SuccessIsRecorded /\ NotBelongIsForeign
  BY <1>3 DEF SuccessIsRecorded, NotBelongIsForeign
<1> QED BY <1>1, <1>5, <1>6, <1>7 DEF SubmitInv

-----------------------------------------------------------------------------
(* Steps that leave the table and the loop alone, or end the loop.         *)
LEMMA BesideLoop ==
  ASSUME SubmitInv, AgentInv', UNCHANGED <<db, lorenzoVars>>,
         \/ sub' = SubIdle
         \/ sub' = sub /\ (phase = "running" => phase' = "running")
  PROVE  SubmitInv'
<1>1. sub' \in SubState BY IdleIsState DEF SubmitInv, SubmitTypeOK, SubState
<1>2. SubmitTypeOK'
  <2>1. AgentTypeOK' BY DEF AgentInv
  <2> QED BY <2>1, <1>1 DEF SubmitInv, SubmitTypeOK, SubState, lorenzoVars
<1>3. BatchInv'
  <2>1. CASE sub' = SubIdle
    <3>1. lorenzoTip' >= 0 BY <1>2 DEF SubmitTypeOK
    <3> QED BY <2>1, <3>1, IdleIsState DEF BatchInv
  <2>2. CASE sub' = sub /\ (phase = "running" => phase' = "running")
    BY <2>2 DEF SubmitInv, BatchInv, IsPending, HasRow, lorenzoVars
  <2> QED BY <2>1, <2>2
<1>4. SuccessIsRecorded' /\ NotBelongIsForeign'
  BY DEF SubmitInv, SuccessIsRecorded, NotBelongIsForeign, HasRow, lorenzoVars
<1> QED BY <1>2, <1>3, <1>4 DEF SubmitInv

(* Steps of Lorenzo: its headers and records grow.                         *)
LEMMA LorenzoGrows ==
  ASSUME SubmitInv, UNCHANGED <<agentVars, db, sub>>,
         lorenzoTip' \in 0..MaxLorenzoTip, lorenzoTip <= lorenzoTip',
         records \subseteq records', records' \subseteq Tx, inflight' \subseteq Message
  PROVE  SubmitInv'
<1>1. AgentInv' /\ AgentTypeOK' BY AgentInvNext DEF SubmitInv, AgentInv
<1>2. SubmitTypeOK' BY <1>1 DEF SubmitInv, SubmitTypeOK
<1>3. BatchInv'
  <2>1. sub'.tip <= lorenzoTip' BY DEF SubmitInv, BatchInv, SubmitTypeOK
  <2> QED BY <2>1 DEF SubmitInv, BatchInv, IsPending, HasRow, agentVars
<1>4. SuccessIsRecorded' /\ NotBelongIsForeign'
  BY DEF SubmitInv, SuccessIsRecorded, NotBelongIsForeign, HasRow
<1> QED BY <1>1, <1>2, <1>3, <1>4 DEF SubmitInv

(* The loop leaves a row, which it may have marked with a status that is   *)
(* true: every outcome of an iteration of submitLoop.                      *)
LEMMA RowLeft ==
  ASSUME SubmitInv, UNCHANGED <<agentVars, lorenzoTip>>,
         NEW t \in sub.batch, sub.pc # "poll", RowDone(t),
         NEW s \in Status, Mark(t, s),
         records \subseteq records', records' \subseteq Tx, inflight' \subseteq Message,
         s = StatusSuccess => t \in records',
         s = StatusReceiverIsNotBelongToAgent =>
           db[t].agent = NoAgent /\ \A f \in Founder : AgentAddr[f] # db[t].addr
  PROVE  SubmitInv'
<1>1. AgentInv' /\ AgentTypeOK' BY AgentInvNext DEF SubmitInv, AgentInv
<1>2. /\ sub \in SubState /\ db \in Table /\ t \in Tx /\ HasRow(t)
      /\ \A u \in sub.batch : IsPending(u) /\ IsRipe(db[u], sub.tip)
  BY DEF SubmitInv, SubmitTypeOK, SubState, BatchInv, IsPending
<1>3. /\ db' \in Table
      /\ \A u \in Tx : u # t => db'[u] = db[u]
      /\ db'[t] # NoRow
      /\ db'[t] = db[t] \/ db'[t] = [db[t] EXCEPT !.status = s]
  BY <1>2, UpdateKeepsRows DEF Mark, MarkOK, HasRow
<1>4. /\ sub' \in SubState /\ sub'.pc \in {"poll", "row"} /\ sub'.batch \subseteq sub.batch \ {t}
      /\ sub'.tip \in {0, sub.tip}
  <2>1. CASE sub.batch = {t}
    BY <2>1, IdleIsState DEF RowDone
  <2>2. CASE sub.batch # {t}
    <3>1. sub' = [SubIdle EXCEPT !.pc = "row", !.tip = sub.tip, !.batch = sub.batch \ {t}]
      BY <2>2 DEF RowDone
    <3> QED BY <3>1, <1>2, IdleIsState DEF SubState, SubIdle
  <2> QED BY <2>1, <2>2
<1>5. SubmitTypeOK'
  BY <1>1, <1>3, <1>4 DEF SubmitInv, SubmitTypeOK, SubState
<1>6. BatchInv'
  <2>1. phase' = "running" BY DEF SubmitInv, BatchInv, agentVars
  <2>2. sub'.tip <= lorenzoTip' BY <1>4, <1>5 DEF SubmitInv, BatchInv, SubmitTypeOK
  <2>3. \A u \in sub'.batch : u \in Tx /\ db'[u] = db[u] /\ IsPending(u) /\ IsRipe(db[u], sub.tip)
    BY <1>2, <1>3, <1>4 DEF SubState
  <2>4. \A u \in sub'.batch : sub'.tip = sub.tip
    BY IdleIsState DEF RowDone, SubIdle
  <2>5. \A u \in sub'.batch : IsPending(u)' /\ IsRipe(db[u], sub.tip)'
    BY <2>3, <2>4 DEF IsPending, HasRow
  <2> QED BY <2>1, <2>2, <2>5, <1>4 DEF BatchInv
<1>7. ASSUME NEW u \in Tx, HasRow(u)'
      PROVE  /\ db'[u].status = StatusSuccess => u \in records'
             /\ db'[u].status = StatusReceiverIsNotBelongToAgent =>
                  db'[u].agent = NoAgent /\ \A f \in Founder : AgentAddr[f] # db'[u].addr
  <2>1. CASE db'[u] = db[u]
    <3>1. HasRow(u) BY <2>1, <1>7 DEF HasRow
    <3> QED BY <3>1, <2>1 DEF SubmitInv, SuccessIsRecorded, NotBelongIsForeign
  <2>2. CASE u = t /\ db'[t] = [db[t] EXCEPT !.status = s]
    <3>1. db[t] \in Row BY <1>2 DEF Table, HasRow
    <3>2. db'[t].status = s /\ db'[t].agent = db[t].agent /\ db'[t].addr = db[t].addr
      BY <2>2, <3>1 DEF Row
    <3> QED BY <2>2, <3>2
  <2> QED BY <2>1, <2>2, <1>3
<1>8. SuccessIsRecorded' /\ NotBelongIsForeign'
  BY <1>7 DEF SuccessIsRecorded, NotBelongIsForeign
<1> QED BY <1>1, <1>5, <1>6, <1>8 DEF SubmitInv

(* GetUnhandledBtcDepositTxs: what it returns is pending and ripe.         *)
LEMMA QueryKeeps ==
  ASSUME SubmitInv, SubQuery
  PROVE  SubmitInv'
<1>1. AgentInv' /\ AgentTypeOK'
  BY AgentInvNext DEF SubmitInv, AgentInv, SubQuery, submitOnly
<1>2. PICK batch \in SUBSET Tx \ {{}} :
        /\ IsBatch(batch, lorenzoTip)
        /\ sub' = [SubIdle EXCEPT !.pc = "row", !.tip = lorenzoTip, !.batch = batch]
  BY DEF SubQuery
<1>3. /\ sub' \in SubState /\ sub'.pc = "row"
      /\ sub'.tip = lorenzoTip /\ sub'.batch = batch
  BY <1>2, IdleIsState DEF SubmitInv, SubmitTypeOK, SubState, SubIdle
<1>4. UNCHANGED <<db, lorenzoTip, records, inflight, phase>> /\ phase = "running"
  BY DEF SubQuery, submitOnly, lorenzoVars, agentVars
<1>5. SubmitTypeOK'
  BY <1>1, <1>3, <1>4 DEF SubmitInv, SubmitTypeOK, SubState
<1>6. BatchInv'
  <2>1. \A t \in batch : IsPending(t) /\ IsRipe(db[t], lorenzoTip)
    BY <1>2 DEF IsBatch
  <2>2. \A t \in sub'.batch : IsPending(t)' /\ IsRipe(db[t], sub.tip)'
    BY <2>1, <1>3, <1>4 DEF IsPending, HasRow
  <2>3. sub'.tip <= lorenzoTip'
    BY <1>3, <1>4 DEF SubmitInv, SubmitTypeOK
  <2> QED BY <2>2, <2>3, <1>3, <1>4 DEF BatchInv
<1>7. SuccessIsRecorded' /\ NotBelongIsForeign'
  BY <1>4 DEF SubmitInv, SuccessIsRecorded, NotBelongIsForeign, HasRow
<1> QED BY <1>1, <1>5, <1>6, <1>7 DEF SubmitInv

(* A call answers and the iteration goes on with the same row.             *)
LEMMA RowGoesOn ==
  ASSUME SubmitInv, UNCHANGED submitOnly, NEW pc \in {"fetch", "send"},
         sub.pc # "poll", sub' \in SubState, sub'.pc = pc,
         sub'.tip = sub.tip, sub'.batch = sub.batch, sub'.cur \in sub.batch,
         pc = "send" => sub'.agent \in Agent
  PROVE  SubmitInv'
<1>1. AgentInv' /\ AgentTypeOK'
  BY AgentInvNext DEF SubmitInv, AgentInv, submitOnly
<1>2. UNCHANGED <<db, lorenzoTip, records, inflight, phase>>
  BY DEF submitOnly, lorenzoVars, agentVars
<1>3. SubmitTypeOK'
  BY <1>1, <1>2 DEF SubmitInv, SubmitTypeOK, SubState
<1>4. BatchInv'
  <2>1. \A t \in sub'.batch : IsPending(t)' /\ IsRipe(db[t], sub.tip)'
    BY <1>2 DEF SubmitInv, BatchInv, IsPending, HasRow
  <2> QED BY <2>1, <1>2 DEF SubmitInv, BatchInv
<1>5. SuccessIsRecorded' /\ NotBelongIsForeign'
  BY <1>2 DEF SubmitInv, SuccessIsRecorded, NotBelongIsForeign, HasRow
<1> QED BY <1>1, <1>3, <1>4, <1>5 DEF SubmitInv

(* Every step of submitLoop.                                               *)
LEMMA LoopKeeps ==
  ASSUME SubmitInv, SubmitLoop
  PROVE  SubmitInv'
<1>1. /\ sub \in SubState /\ records \subseteq Tx /\ inflight \subseteq Message
      /\ sub.batch \subseteq Tx /\ AgentInv
  BY DEF SubmitInv, SubmitTypeOK, SubState
<1>2. sub.pc \in {"fetch", "send"} => sub.cur \in sub.batch /\ phase = "running"
  BY DEF SubmitInv, BatchInv
<1>3. {StatusPending, StatusSuccess, StatusInvalid, StatusReceiverIsNotBelongToAgent} = Status
  BY DEF Status
<1>s. /\ StatusInvalid # StatusSuccess /\ StatusInvalid # StatusReceiverIsNotBelongToAgent
      /\ StatusSuccess # StatusReceiverIsNotBelongToAgent
  BY DEF StatusInvalid, StatusSuccess, StatusReceiverIsNotBelongToAgent
<1>4. CASE SubQuery BY <1>4, QueryKeeps
<1>5. ASSUME NEW t \in Tx, SubRecorded(t) PROVE SubmitInv'
  <2>1. t \in sub.batch /\ sub.pc # "poll" /\ t \in records
    BY <1>5 DEF SubRecorded, NextInBatch
  <2>2. RowDone(t) /\ Mark(t, StatusSuccess) /\ UNCHANGED <<agentVars, lorenzoVars>>
    BY <1>5 DEF SubRecorded
  <2>3. UNCHANGED <<lorenzoTip, records, inflight>> BY <2>2 DEF lorenzoVars
  <2> QED BY <2>1, <2>2, <2>3, <1>1, <1>3, <1>s, RowLeft
<1>6. ASSUME NEW t \in Tx, SubUnrecorded(t) PROVE SubmitInv'
  <2>1. t \in sub.batch /\ sub.pc # "poll" BY <1>6 DEF SubUnrecorded, NextInBatch
  <2>2. sub' = [sub EXCEPT !.pc = "fetch", !.cur = t] /\ UNCHANGED submitOnly
    BY <1>6 DEF SubUnrecorded
  <2>3. sub' \in SubState BY <2>2, <1>1 DEF SubState
  <2>4. /\ sub'.pc = "fetch" /\ sub'.tip = sub.tip /\ sub'.batch = sub.batch
        /\ sub'.cur = t
    BY <2>2, <1>1 DEF SubState
  <2> QED BY <2>1, <2>2, <2>3, <2>4, RowGoesOn
<1>7. ASSUME NEW t \in Tx, SubRecordFails(t) PROVE SubmitInv'
  <2>1. t \in sub.batch /\ sub.pc # "poll" BY <1>7 DEF SubRecordFails, NextInBatch
  <2>2. RowDone(t) /\ UNCHANGED <<agentVars, db, lorenzoTip, records, inflight>>
    BY <1>7 DEF SubRecordFails, submitOnly, lorenzoVars
  <2>3. Mark(t, StatusInvalid) BY <2>2 DEF Mark
  <2> QED BY <2>1, <2>2, <2>3, <1>1, <1>3, <1>s, RowLeft
<1>8. CASE SubFetchFails
  <2>1. sub.cur \in sub.batch /\ sub.pc # "poll" BY <1>8, <1>2 DEF SubFetchFails
  <2>2. RowDone(sub.cur) /\ UNCHANGED <<agentVars, db, lorenzoTip, records, inflight>>
    BY <1>8 DEF SubFetchFails, submitOnly, lorenzoVars
  <2>3. Mark(sub.cur, StatusInvalid) BY <2>2 DEF Mark
  <2> QED BY <2>1, <2>2, <2>3, <1>1, <1>3, <1>s, RowLeft
<1>9. CASE SubNotBelong
  <2>1. sub.cur \in sub.batch /\ sub.pc # "poll" BY <1>9, <1>2 DEF SubNotBelong
  <2>2. /\ RowDone(sub.cur) /\ Mark(sub.cur, StatusReceiverIsNotBelongToAgent)
        /\ UNCHANGED <<agentVars, lorenzoTip, records, inflight>>
    BY <1>9 DEF SubNotBelong, lorenzoVars
  <2>3. db[sub.cur].agent = NoAgent /\ \A f \in Founder : AgentAddr[f] # db[sub.cur].addr
    BY <1>9, <1>1, <1>2, NoMatchNoFounder DEF SubNotBelong
  <2> QED BY <2>1, <2>2, <2>3, <1>1, <1>3, <1>s, RowLeft
<1>10. CASE SubFetch
  <2>1. PICK a \in Agent, whole \in {TRUE, ~TruncatedBody} :
          sub' = [sub EXCEPT !.pc = "send", !.agent = a, !.whole = whole]
    BY <1>10 DEF SubFetch
  <2>2. sub.cur \in sub.batch /\ sub.pc # "poll" /\ UNCHANGED submitOnly
    BY <1>10, <1>2 DEF SubFetch
  <2>3. whole \in BOOLEAN BY SubmitAssumption
  <2>4. sub' \in SubState BY <2>1, <2>3, <1>1 DEF SubState
  <2>5. /\ sub'.pc = "send" /\ sub'.tip = sub.tip /\ sub'.batch = sub.batch
        /\ sub'.cur = sub.cur /\ sub'.agent = a
    BY <2>1, <1>1 DEF SubState
  <2> QED BY <2>2, <2>4, <2>5, RowGoesOn
<1>11. CASE SubBadProof
  <2>1. sub.cur \in sub.batch /\ sub.pc # "poll" BY <1>11, <1>2 DEF SubBadProof
  <2>2. /\ RowDone(sub.cur) /\ Mark(sub.cur, StatusInvalid)
        /\ UNCHANGED <<agentVars, lorenzoTip, records, inflight>>
    BY <1>11 DEF SubBadProof, lorenzoVars
  <2> QED BY <2>1, <2>2, <1>1, <1>3, <1>s, RowLeft
<1>12. CASE SubAccepted
  <2>1. sub.cur \in sub.batch /\ sub.pc # "poll" BY <1>12, <1>2 DEF SubAccepted
  <2>2. /\ RowDone(sub.cur) /\ Mark(sub.cur, StatusSuccess)
        /\ records' = records \cup {sub.cur}
        /\ UNCHANGED <<agentVars, lorenzoTip, inflight>>
    BY <1>12 DEF SubAccepted
  <2> QED BY <2>1, <2>2, <1>1, <1>3, <1>s, RowLeft
<1>13. CASE SubTryAgain
  <2>1. sub.cur \in sub.batch /\ sub.pc # "poll" BY <1>13, <1>2 DEF SubTryAgain
  <2>2. RowDone(sub.cur) /\ UNCHANGED <<agentVars, db, lorenzoTip, records>>
    BY <1>13 DEF SubTryAgain
  <2>3. Mark(sub.cur, StatusInvalid) BY <2>2 DEF Mark
  <2>4. [tx |-> sub.cur, agent |-> sub.agent] \in Message
    BY <1>13, <2>1, <1>1 DEF SubTryAgain, SubmitInv, BatchInv, Message
  <2>5. inflight' \subseteq Message BY <1>13, <2>4, <1>1 DEF SubTryAgain
  <2> QED BY <2>1, <2>2, <2>3, <2>5, <1>1, <1>3, <1>s, RowLeft
<1>14. CASE SubRefused
  <2>1. sub.cur \in sub.batch /\ sub.pc # "poll" BY <1>14, <1>2 DEF SubRefused
  <2>2. /\ RowDone(sub.cur) /\ Mark(sub.cur, StatusInvalid)
        /\ UNCHANGED <<agentVars, lorenzoTip, records, inflight>>
    BY <1>14 DEF SubRefused, lorenzoVars
  <2> QED BY <2>1, <2>2, <1>1, <1>3, <1>s, RowLeft
<1> QED
  BY <1>4, <1>5, <1>6, <1>7, <1>8, <1>9, <1>10, <1>11, <1>12, <1>13, <1>14 DEF SubmitLoop

(* A row that the scan inserts is pending.                                 *)
LEMMA ArrivalKeeps ==
  ASSUME SubmitInv, NEW r \in NewRows, RowArrives(r)
  PROVE  SubmitInv'
<1>1. r.tx \in Tx /\ r.row \in Row /\ r.row.status = StatusPending
  BY NewRowsAssumption
<1>2. /\ db[r.tx] = NoRow /\ db' = [db EXCEPT ![r.tx] = r.row]
      /\ UNCHANGED <<agentVars, lorenzoVars, sub>>
  BY DEF RowArrives
<1>3. AgentInv' /\ AgentTypeOK' BY <1>2, AgentInvNext DEF SubmitInv, AgentInv
<1>4. /\ db' \in Table /\ db'[r.tx] = r.row
      /\ \A u \in Tx : u # r.tx => db'[u] = db[u]
  BY <1>1, <1>2 DEF SubmitInv, SubmitTypeOK, Table
<1>5. SubmitTypeOK'
  BY <1>2, <1>3, <1>4 DEF SubmitInv, SubmitTypeOK, lorenzoVars
<1>6. BatchInv'
  <2>1. \A t \in sub.batch : t \in Tx /\ t # r.tx
    BY <1>2 DEF SubmitInv, SubmitTypeOK, BatchInv, IsPending, HasRow
  <2>2. \A t \in sub'.batch : IsPending(t)' /\ IsRipe(db[t], sub.tip)'
    BY <2>1, <1>2, <1>4 DEF SubmitInv, BatchInv, IsPending, HasRow
  <2> QED BY <2>2, <1>2 DEF SubmitInv, BatchInv, agentVars, lorenzoVars
<1>7. SuccessIsRecorded' /\ NotBelongIsForeign'
  <2>1. r.row.status \notin {StatusSuccess, StatusReceiverIsNotBelongToAgent}
    BY <1>1 DEF StatusPending, StatusSuccess, StatusReceiverIsNotBelongToAgent
  <2>2. \A t \in Tx : t = r.tx \/ db'[t] = db[t] BY <1>4
  <2> QED BY <2>1, <2>2, <1>2, <1>4
          DEF SubmitInv, SuccessIsRecorded, NotBelongIsForeign, HasRow, lorenzoVars
<1> QED BY <1>3, <1>5, <1>6, <1>7 DEF SubmitInv

\* A refresh of the list, and a change of the registry, end no process that runs.
LEMMA RefreshKeepsRunning ==
  ASSUME RefreshNext \/ RegistryNext, phase = "running"
  PROVE  phase' = "running"
<1>1. CASE RegistryNext
  BY <1>1 DEF RegistryNext, AddAgent, RemoveAgent, processVars
<1>2. CASE StartRefresh BY <1>2 DEF StartRefresh
<1>3. CASE FetchPage BY <1>3 DEF FetchPage
<1>4. CASE PageError BY <1>4 DEF PageError
<1>5. CASE KeepList BY <1>5 DEF KeepList, Loaded
<1>6. CASE StoreFirstWord BY <1>6 DEF StoreFirstWord
<1>7. CASE StoreSecondWord BY <1>7 DEF StoreSecondWord, Loaded
<1> QED BY <1>1, <1>2, <1>3, <1>4, <1>5, <1>6, <1>7 DEF RefreshNext

(* Every step keeps the invariant.                                         *)
LEMMA SubmitInvNext == SubmitInv /\ [SubmitNext]_submitVars => SubmitInv'
<1> SUFFICES ASSUME SubmitInv, [SubmitNext]_submitVars PROVE SubmitInv'
  OBVIOUS
<1>1. CASE LorenzoNext
  <2>1. /\ UNCHANGED <<agentVars, db, sub>> /\ records \subseteq records'
        /\ inflight' \subseteq inflight
        /\ lorenzoTip' \in {lorenzoTip, lorenzoTip + 1}
        /\ lorenzoTip' = lorenzoTip \/ lorenzoTip < MaxLorenzoTip
    BY <1>1 DEF LorenzoNext, NewHeader, OtherSubmitter, ExecuteLate
  <2>2. records' \subseteq Tx
    BY <1>1 DEF LorenzoNext, NewHeader, OtherSubmitter, ExecuteLate, Message, SubmitInv,
                SubmitTypeOK
  <2>3. lorenzoTip' \in 0..MaxLorenzoTip /\ lorenzoTip <= lorenzoTip'
    BY <2>1, SubmitAssumption DEF SubmitInv, SubmitTypeOK
  <2>4. inflight' \subseteq Message BY <2>1 DEF SubmitInv, SubmitTypeOK
  <2> QED BY <2>1, <2>2, <2>3, <2>4, LorenzoGrows
<1>2. CASE SubmitBoot \/ SubmitCrash \/ SubmitRefresh
  <2>1. AgentNext
    BY <1>2 DEF SubmitBoot, SubmitCrash, SubmitRefresh, AgentNext
  <2>2. AgentInv' BY <2>1, AgentInvNext DEF SubmitInv
  <2>3. UNCHANGED <<db, lorenzoVars>>
    BY <1>2 DEF SubmitBoot, SubmitCrash, SubmitRefresh
  <2>4. CASE SubmitCrash
    BY <2>2, <2>3, <2>4, BesideLoop DEF SubmitCrash, KillProcess
  <2>5. CASE SubmitBoot
    <3>1. sub' = sub /\ phase # "running" BY <2>5 DEF SubmitBoot, StartProcess
    <3> QED BY <3>1, <2>2, <2>3, BesideLoop
  <2>6. CASE SubmitRefresh
    <3>1. phase = "running" => phase' = "running"
      BY <2>6, RefreshKeepsRunning DEF SubmitRefresh
    <3>2. sub' = sub BY <2>6 DEF SubmitRefresh
    <3> QED BY <3>1, <3>2, <2>2, <2>3, BesideLoop
  <2> QED BY <1>2, <2>4, <2>5, <2>6
<1>3. CASE SubmitLoop BY <1>3, LoopKeeps
<1>4. CASE \E r \in NewRows : RowArrives(r) BY <1>4, ArrivalKeeps
<1>5. CASE UNCHANGED submitVars
  <2>1. AgentInv' BY <1>5, AgentInvNext DEF SubmitInv, submitVars
  <2> QED BY <2>1, <1>5, BesideLoop DEF submitVars, agentVars
<1> QED BY <1>1, <1>2, <1>3, <1>4, <1>5 DEF SubmitNext

-----------------------------------------------------------------------------
(* The invariant of the submission.                                        *)
THEOREM SubmitInvariant == SubmitSafety => []SubmitInv
BY SubmitInvInit, SubmitInvNext, PTL DEF SubmitSafety

(* The state of the submission has its type, for every instance.           *)
THEOREM SubmitTypeCorrect == SubmitSafety => []SubmitTypeOK
<1>1. SubmitInv => SubmitTypeOK BY DEF SubmitInv
<1> QED BY <1>1, SubmitInvariant, PTL

(* For every table, agent list and pattern of failing and late calls: a    *)
(* row marked Success has its staking record.  (submitLoop)                *)
THEOREM SuccessAlwaysRecorded == SubmitSafety => []SuccessIsRecorded
<1>1. SubmitInv => SuccessIsRecorded BY DEF SubmitInv
<1> QED BY <1>1, SubmitInvariant, PTL

(* However the agent list is refreshed under the goroutine: a row given up *)
(* as nobody's came without an agent and is of no founder's address.  (the *)
(* AgentId == 0 branch of submitLoop)                                      *)
THEOREM NotBelongAlwaysForeign == SubmitSafety => []NotBelongIsForeign
<1>1. SubmitInv => NotBelongIsForeign BY DEF SubmitInv
<1> QED BY <1>1, SubmitInvariant, PTL

-----------------------------------------------------------------------------
\* Depth below the tip.

LEMMA SmallModulo ==
  ASSUME NEW m \in Nat \ {0}, NEW x \in 0..(m - 1)
  PROVE  x % m = x
OBVIOUS

\* Without a wrap-around the uint64 subtraction is the one of numbers.
LEMMA SubIsExact ==
  ASSUME NEW tip \in 0..MaxLorenzoTip, NEW k \in 0..tip
  PROVE  UintSub(tip, k) = tip - k
<1>1. tip - k \in 0..(UintMod - 1)
  BY SubmitAssumption, BatchAssumption
<1> QED BY <1>1, BatchAssumption, SmallModulo DEF UintSub

\* What the query of the deposits takes is as deep as Lorenzo asks.
LEMMA RipeIsDeep ==
  ASSUME NEW row \in Row, NEW tip \in 0..MaxLorenzoTip, 4 <= tip,
         IsRipe(row, tip), row.amount >= Dep0Amount
  PROVE  row.height + RequiredDepth(row.amount) <= tip
<1>1. row.amount \in Nat /\ row.height \in Nat /\ tip \in Int
  BY RowAssumption, SubmitAssumption DEF Row
<1>2. /\ UintSub(tip, 1) = tip - 1 /\ UintSub(tip, 2) = tip - 2
      /\ UintSub(tip, 3) = tip - 3 /\ UintSub(tip, 4) = tip - 4
  BY SubIsExact, <1>1
<1>3. CASE row.amount < Dep1Amount
  <2>1. row.height <= tip - 1
    BY <1>1, <1>2, <1>3 DEF IsRipe, Dep0Amount, Dep1Amount, Dep2Amount, Dep3Amount
  <2>2. RequiredDepth(row.amount) = 1
    BY <1>1, <1>3 DEF RequiredDepth, Dep0Amount, Dep1Amount, Dep2Amount, Dep3Amount
  <2> QED BY <1>1, <2>1, <2>2
<1>4. CASE Dep1Amount <= row.amount /\ row.amount < Dep2Amount
  <2>1. row.height <= tip - 2
    BY <1>1, <1>2, <1>4 DEF IsRipe, Dep0Amount, Dep1Amount, Dep2Amount, Dep3Amount
  <2>2. RequiredDepth(row.amount) = 2
    BY <1>1, <1>4 DEF RequiredDepth, Dep0Amount, Dep1Amount, Dep2Amount, Dep3Amount
  <2> QED BY <1>1, <2>1, <2>2
<1>5. CASE Dep2Amount <= row.amount /\ row.amount < Dep3Amount
  <2>1. row.height <= tip - 3
    BY <1>1, <1>2, <1>5 DEF IsRipe, Dep0Amount, Dep1Amount, Dep2Amount, Dep3Amount
  <2>2. RequiredDepth(row.amount) = 3
    BY <1>1, <1>5 DEF RequiredDepth, Dep0Amount, Dep1Amount, Dep2Amount, Dep3Amount
  <2> QED BY <1>1, <2>1, <2>2
<1>6. CASE Dep3Amount <= row.amount
  <2>1. row.height <= tip - 4
    BY <1>1, <1>2, <1>6 DEF IsRipe, Dep0Amount, Dep1Amount, Dep2Amount, Dep3Amount
  <2>2. RequiredDepth(row.amount) = 4
    BY <1>1, <1>6 DEF RequiredDepth, Dep0Amount, Dep1Amount, Dep2Amount, Dep3Amount
  <2> QED BY <1>1, <2>1, <2>2
<1> QED
  BY <1>1, <1>3, <1>4, <1>5, <1>6 DEF Dep1Amount, Dep2Amount, Dep3Amount

(* For every table and every chain of headers: nothing but dust is sent    *)
(* before its block is as deep as its amount asks, unless Lorenzo knows    *)
(* fewer than four headers.  (GetUnhandledBtcDepositTxs, submitLoop)       *)
THEOREM NeverSentEarly == SubmitSafety => []SentWhenDeep
<1>1. SubmitInv => SentWhenDeep
  <2> SUFFICES ASSUME SubmitInv, sub.pc \in {"fetch", "send"},
                      db[sub.cur].amount >= Dep0Amount, ~(sub.tip < 4)
               PROVE  Confirmed(sub.cur)
    BY DEF SentWhenDeep
  <2>1. /\ sub.cur \in Tx /\ db[sub.cur] \in Row /\ IsRipe(db[sub.cur], sub.tip)
        /\ sub.tip \in 0..MaxLorenzoTip /\ sub.tip <= lorenzoTip
    BY DEF SubmitInv, SubmitTypeOK, BatchInv, IsPending, HasRow, Table
  <2>2. sub.tip \in Int /\ lorenzoTip \in Int /\ MaxLorenzoTip \in Int
    BY <2>1, SubmitAssumption DEF SubmitInv, SubmitTypeOK
  <2>3. 4 <= sub.tip BY <2>2
  <2>4. db[sub.cur].height + RequiredDepth(db[sub.cur].amount) <= sub.tip
    BY <2>1, <2>3, RipeIsDeep
  <2>5. db[sub.cur].height \in Nat /\ db[sub.cur].amount \in Nat
    BY <2>1, RowAssumption DEF Row
  <2>6. RequiredDepth(db[sub.cur].amount) \in 0..4
    BY <2>5 DEF RequiredDepth, Dep0Amount, Dep1Amount, Dep2Amount, Dep3Amount
  <2> QED BY <2>1, <2>2, <2>4, <2>5, <2>6 DEF Confirmed
<1> QED BY <1>1, SubmitInvariant, PTL

-----------------------------------------------------------------------------
\* What a step does to a row that is not pending: nothing.
LEMMA DoneRowStays ==
  ASSUME SubmitInv, SubmitNext, NEW t \in Tx, HasRow(t), ~IsPending(t)
  PROVE  db'[t] = db[t]
<1>1. /\ db \in Table /\ \A u \in sub.batch : u \in Tx /\ IsPending(u)
      /\ sub.pc \in {"fetch", "send"} => sub.cur \in sub.batch
  BY DEF SubmitInv, SubmitTypeOK, BatchInv
<1>2. ASSUME NEW u \in sub.batch, NEW s \in Status, Mark(u, s)
      PROVE  db'[t] = db[t]
  <2>1. t # u BY <1>1
  <2>2. u \in Tx /\ db[u] # NoRow BY <1>1 DEF IsPending, HasRow
  <2>3. UpdateTxStatus(db, u, s)[t] = db[t]
    BY <1>1, <2>1, <2>2 DEF UpdateTxStatus, Table
  <2> QED BY <2>3, <1>2 DEF Mark, MarkOK
<1>3. StatusSuccess \in Status /\ StatusInvalid \in Status
      /\ StatusReceiverIsNotBelongToAgent \in Status
  BY DEF Status
<1>4. CASE LorenzoNext
  BY <1>4 DEF LorenzoNext, NewHeader, OtherSubmitter, ExecuteLate
<1>5. CASE SubmitBoot \/ SubmitCrash \/ SubmitRefresh
  BY <1>5 DEF SubmitBoot, SubmitCrash, SubmitRefresh
<1>6. CASE \E r \in NewRows : RowArrives(r)
  <2>1. PICK r \in NewRows : RowArrives(r) BY <1>6
  <2>2. t # r.tx BY <2>1 DEF RowArrives, HasRow
  <2> QED BY <2>1, <2>2, <1>1 DEF RowArrives, Table
<1>7. CASE SubmitLoop
  <2>1. CASE SubQuery BY <2>1 DEF SubQuery, submitOnly
  <2>2. ASSUME NEW u \in Tx, SubRecorded(u) PROVE db'[t] = db[t]
    BY <2>2, <1>2, <1>3 DEF SubRecorded, NextInBatch
  <2>3. ASSUME NEW u \in Tx, SubUnrecorded(u) \/ SubRecordFails(u) PROVE db'[t] = db[t]
    BY <2>3 DEF SubUnrecorded, SubRecordFails, submitOnly
  <2>4. CASE SubFetchFails \/ SubFetch
    BY <2>4 DEF SubFetchFails, SubFetch, submitOnly
  <2>5. CASE SubTryAgain BY <2>5 DEF SubTryAgain
  <2>6. CASE SubNotBelong BY <2>6, <1>1, <1>2, <1>3 DEF SubNotBelong
  <2>7. CASE SubBadProof BY <2>7, <1>1, <1>2, <1>3 DEF SubBadProof
  <2>8. CASE SubAccepted BY <2>8, <1>1, <1>2, <1>3 DEF SubAccepted
  <2>9. CASE SubRefused BY <2>9, <1>1, <1>2, <1>3 DEF SubRefused
  <2> QED
    BY <1>7, <2>1, <2>2, <2>3, <2>4, <2>5, <2>6, <2>7, <2>8, <2>9 DEF SubmitLoop
<1> QED BY <1>4, <1>5, <1>6, <1>7 DEF SubmitNext

(* For every table, agent list and pattern of crashes and failing calls:   *)
(* the first status that is not Pending is the last.  (submitLoop and the  *)
(* status clause of GetUnhandledBtcDepositTxs)                             *)
THEOREM StatusIsFinal == SubmitSafety => TerminalIsFinal
<1>1. SubmitInv /\ [SubmitNext]_submitVars =>
        [\A t \in Tx : HasRow(t) /\ ~IsPending(t) => db'[t] = db[t]]_db
  BY DoneRowStays DEF submitVars
<1> QED BY <1>1, SubmitInvariant, PTL DEF SubmitSafety, TerminalIsFinal

-----------------------------------------------------------------------------
\* Who was registered once, and that everybody in a list was.

Registered == 1..registry.last
Removed    == Registered \ registry.live

RegisteredInv ==
  /\ registry.live \subseteq Registered
  /\ \A i \in DOMAIN refresh.got : refresh.got[i] \in Registered
  /\ \A i \in DOMAIN agents.ptr : agents.ptr[i] \in Registered

LEMMA RegistryFields ==
  ASSUME AgentInv
  PROVE  /\ registry \in [live : SUBSET Agent, last : 0..NumAgents]
         /\ registry.last \in Nat /\ NumAgents \in Nat
BY AgentAssumption DEF AgentInv, AgentTypeOK

(* Ids are not used again: who is registered, or removed, stays so.        *)
LEMMA RegistryGrows ==
  ASSUME AgentInv, RegisteredInv, [AgentNext]_agentVars
  PROVE  /\ Registered \subseteq Registered' /\ Removed \subseteq Removed'
         /\ registry'.live \subseteq Registered'
<1> USE RegistryFields
<1>1. CASE AddAgent
  <2>1. registry'.last = registry.last + 1
        /\ registry'.live = registry.live \cup {registry.last + 1}
    BY <1>1 DEF AddAgent
  <2> QED BY <2>1 DEF RegisteredInv, Registered, Removed
<1>2. ASSUME NEW a \in Agent, RemoveAgent(a)
      PROVE  /\ Registered \subseteq Registered' /\ Removed \subseteq Removed'
             /\ registry'.live \subseteq Registered'
  <2>1. registry'.last = registry.last /\ registry'.live = registry.live \ {a}
    BY <1>2 DEF RemoveAgent
  <2> QED BY <2>1 DEF RegisteredInv, Registered, Removed
<1>3. CASE registry' = registry
  BY <1>3 DEF RegisteredInv, Registered, Removed
<1>4. AddAgent \/ (\E a \in Agent : RemoveAgent(a)) \/ registry' = registry
  BY DEF AgentNext, RegistryNext, RefreshNext, StartProcess, StartRefresh, FetchPage,
         PageError, KeepList, StoreFirstWord, StoreSecondWord, KillProcess, agentVars
<1> QED BY <1>1, <1>2, <1>3, <1>4

(* A list holds agents that a page returned, which were live then.         *)
LEMMA RegisteredNext ==
  ASSUME AgentInv, RegisteredInv, [AgentNext]_agentVars
  PROVE  RegisteredInv'
<1>1. /\ Registered \subseteq Registered' /\ registry'.live \subseteq Registered'
  BY RegistryGrows
<1>2. /\ refresh.got \in Seq(Agent) /\ agents.ptr \in Seq(Agent)
  BY DEF AgentInv, AgentTypeOK
<1>3. /\ RefreshIdle.got = <<>> /\ NilAgents.ptr = <<>>
      /\ [RefreshIdle EXCEPT !.pc = "page"].got = <<>>
  BY DEF RefreshIdle, NilAgents
<1>4. refresh'.got = refresh.got \/ refresh'.got = <<>>
      \/ \E a \in registry.live : refresh'.got = Append(refresh.got, a)
  <2>1. CASE FetchPage
    BY <2>1 DEF FetchPage, RemainingAgents, AgentInv, AgentTypeOK
  <2>2. CASE StoreFirstWord
    BY <2>2 DEF StoreFirstWord, AgentInv, AgentTypeOK
  <2>3. CASE StartProcess \/ StartRefresh \/ PageError \/ KeepList \/ StoreSecondWord
             \/ KillProcess
    BY <2>3, <1>3 DEF StartProcess, StartRefresh, PageError, KeepList, StoreSecondWord,
                      KillProcess, Loaded
  <2>4. CASE RegistryNext \/ UNCHANGED agentVars
    BY <2>4 DEF RegistryNext, AddAgent, RemoveAgent, processVars, agentVars
  <2> QED BY <2>1, <2>2, <2>3, <2>4 DEF AgentNext, RefreshNext
<1>5. agents'.ptr \in {agents.ptr, refresh.got, <<>>}
  <2>1. CASE StoreFirstWord
    BY <2>1 DEF StoreFirstWord, AgentInv, AgentTypeOK
  <2>2. CASE StoreSecondWord BY <2>2 DEF StoreSecondWord
  <2>3. CASE KillProcess BY <2>3, <1>3 DEF KillProcess
  <2>4. CASE FetchPage BY <2>4 DEF FetchPage
  <2>5. CASE StartProcess \/ StartRefresh \/ PageError \/ KeepList
    BY <2>5 DEF StartProcess, StartRefresh, PageError, KeepList
  <2>6. CASE RegistryNext \/ UNCHANGED agentVars
    BY <2>6 DEF RegistryNext, AddAgent, RemoveAgent, processVars, agentVars
  <2> QED BY <2>1, <2>2, <2>3, <2>4, <2>5, <2>6 DEF AgentNext, RefreshNext
<1>6. \A i \in DOMAIN refresh'.got : refresh'.got[i] \in Registered'
  <2>1. ASSUME NEW a \in registry.live, refresh'.got = Append(refresh.got, a),
               NEW i \in DOMAIN refresh'.got
        PROVE  refresh'.got[i] \in Registered'
    <3>1. a \in Agent /\ a \in Registered' BY <1>1, RegistryFields DEF RegisteredInv
    <3>2. refresh'.got[i] = a \/ (i \in DOMAIN refresh.got /\ refresh'.got[i] = refresh.got[i])
      BY <2>1, <3>1, <1>2
    <3> QED BY <3>1, <3>2, <1>1 DEF RegisteredInv
  <2> QED BY <2>1, <1>1, <1>4 DEF RegisteredInv
<1>7. \A i \in DOMAIN agents'.ptr : agents'.ptr[i] \in Registered'
  BY <1>1, <1>5 DEF RegisteredInv
<1> QED BY <1>1, <1>6, <1>7 DEF RegisteredInv

-----------------------------------------------------------------------------
\* Why a row is Invalid, when bodies come whole and every passing error is known.

NoBlindSpots == ~TruncatedBody /\ ~UnlistedErrors

\* The agent of a row was registered, and has the address of the row.
AgentOf(row, a) == a \in Registered /\ AgentAddr[a] = row.addr

CauseInv ==
  /\ RegisteredInv
  /\ \A t \in Tx : HasRow(t) /\ db[t].agent # NoAgent => AgentOf(db[t], db[t].agent)
  /\ sub.pc = "send" => sub.whole /\ AgentOf(db[sub.cur], sub.agent)
  /\ InvalidIsRefused

GoodCause(t, addr) == t \in Rejected \/ \E a \in Removed : AgentAddr[a] = addr

LEMMA CauseInit == SubmitInit => CauseInv
<1> SUFFICES ASSUME SubmitInit PROVE CauseInv
  OBVIOUS
<1>1. RegisteredInv
  BY AgentAssumption
  DEF SubmitInit, AgentInit, RegisteredInv, Registered, Founder, NilAgents, RefreshIdle
<1>2. \A t \in Tx : ~HasRow(t)
  BY DEF SubmitInit, EmptyTable, HasRow
<1>3. sub.pc # "send" BY IdleIsState DEF SubmitInit
<1> QED BY <1>1, <1>2, <1>3 DEF CauseInv, InvalidIsRefused

(* Enough for a step to keep the invariant: each row is what it was, or    *)
(* has a registered agent of its address and a good cause to be Invalid.   *)
LEMMA CauseKept ==
  ASSUME SubmitInv, CauseInv, [AgentNext]_agentVars,
         \A t \in Tx : HasRow(t)' =>
           \/ HasRow(t) /\ db'[t] = db[t]
           \/ /\ db'[t].agent # NoAgent => AgentOf(db'[t], db'[t].agent)
              /\ db'[t].status = StatusInvalid => GoodCause(t, db'[t].addr),
         sub'.pc = "send" => sub'.whole /\ AgentOf(db'[sub'.cur], sub'.agent)
  PROVE  CauseInv'
<1>1. /\ Registered \subseteq Registered' /\ Removed \subseteq Removed' /\ RegisteredInv'
  BY RegistryGrows, RegisteredNext DEF SubmitInv, CauseInv
<1>2. sub'.pc = "send" => sub'.whole /\ AgentOf(db[sub.cur], sub.agent)'
  BY <1>1 DEF AgentOf
<1>3. ASSUME NEW t \in Tx, HasRow(t)'
      PROVE  /\ db'[t].agent # NoAgent => AgentOf(db[t], db[t].agent)'
             /\ db'[t].status = StatusInvalid =>
                  t \in Rejected \/ \E a \in Removed' : AgentAddr[a] = db'[t].addr
  <2>1. CASE HasRow(t) /\ db'[t] = db[t]
    BY <2>1, <1>1 DEF CauseInv, AgentOf, InvalidIsRefused, Removed, Registered
  <2>2. CASE /\ db'[t].agent # NoAgent => AgentOf(db'[t], db'[t].agent)
             /\ db'[t].status = StatusInvalid => GoodCause(t, db'[t].addr)
    BY <2>2, <1>1 DEF AgentOf, GoodCause
  <2> QED BY <2>1, <2>2, <1>3
<1>4. InvalidIsRefused' BY <1>3 DEF InvalidIsRefused, Removed, Registered
<1> QED BY <1>1, <1>2, <1>3, <1>4 DEF CauseInv

(* The loop leaves a row, with or without a mark.                          *)
LEMMA CauseOfMark ==
  ASSUME SubmitInv, CauseInv, UNCHANGED agentVars,
         NEW t \in sub.batch, RowDone(t), NEW s \in Status, Mark(t, s),
         s = StatusInvalid => GoodCause(t, db[t].addr)
  PROVE  CauseInv'
<1>1. t \in Tx /\ db \in Table /\ HasRow(t)
  BY DEF SubmitInv, SubmitTypeOK, BatchInv, IsPending
<1>2. db[t] \in Row BY <1>1 DEF Table, HasRow
<1>3. sub'.pc # "send"
  BY IdleIsState DEF RowDone, SubIdle
<1>4. ASSUME NEW u \in Tx, HasRow(u)'
      PROVE  \/ HasRow(u) /\ db'[u] = db[u]
             \/ /\ db'[u].agent # NoAgent => AgentOf(db'[u], db'[u].agent)
                /\ db'[u].status = StatusInvalid => GoodCause(u, db'[u].addr)
  <2>1. CASE db' = db BY <2>1, <1>4 DEF HasRow
  <2>2. CASE MarkOK(t, s) /\ u # t
    <3>1. db'[u] = db[u] BY <2>2, <1>1 DEF MarkOK, UpdateTxStatus, Table
    <3> QED BY <3>1, <1>4 DEF HasRow
  <2>3. CASE MarkOK(t, s) /\ u = t
    <3>1. db'[t] = [db[t] EXCEPT !.status = s]
      BY <2>3, <1>1, UpdateKeepsRows DEF MarkOK, HasRow
    <3>2. /\ db'[t].agent = db[t].agent /\ db'[t].addr = db[t].addr
          /\ db'[t].status = s
      BY <3>1, <1>2 DEF Row
    <3>3. db[t].agent # NoAgent => AgentOf(db[t], db[t].agent)
      BY <1>1 DEF CauseInv
    <3> QED BY <2>3, <3>2, <3>3 DEF AgentOf
  <2> QED BY <2>1, <2>2, <2>3 DEF Mark
<1> QED BY <1>3, <1>4, CauseKept

\* What the other parts do, and the calls after which the row stays in hand.
LEMMA CauseBeside ==
  ASSUME SubmitInv, CauseInv, [AgentNext]_agentVars, UNCHANGED db,
         sub' = sub \/ sub'.pc # "send"
  PROVE  CauseInv'
<1>1. sub'.pc = "send" => sub'.whole /\ AgentOf(db'[sub'.cur], sub'.agent)
  BY DEF CauseInv
<1> QED BY <1>1, CauseKept DEF HasRow

\* The agent submitted is one of a row or one of a list.
LEMMA CauseOfFetch ==
  ASSUME SubmitInv, CauseInv, NoBlindSpots, SubFetch
  PROVE  CauseInv'
<1>1. PICK a \in Agent, whole \in {TRUE, ~TruncatedBody} :
        SubAgent(a) /\ sub' = [sub EXCEPT !.pc = "send", !.agent = a, !.whole = whole]
  BY DEF SubFetch
<1>2. sub.cur \in Tx /\ HasRow(sub.cur)
  BY DEF SubFetch, SubmitInv, SubmitTypeOK, BatchInv, IsPending
<1>3. /\ sub'.cur = sub.cur /\ sub'.agent = a /\ sub'.whole
  BY <1>1 DEF SubmitInv, SubmitTypeOK, NoBlindSpots
<1>4. AgentOf(db[sub.cur], a)
  <2>1. CASE db[sub.cur].agent # NoAgent /\ a = db[sub.cur].agent
    BY <2>1, <1>2 DEF CauseInv
  <2>2. CASE \E i \in DOMAIN agents.ptr :
               FirstMatch(i, db[sub.cur].addr) /\ a = agents.ptr[i]
    BY <2>2 DEF FirstMatch, Matches, AgentOf, CauseInv, RegisteredInv
  <2> QED BY <1>1, <2>1, <2>2 DEF SubAgent
<1>5. UNCHANGED <<agentVars, db>> BY DEF SubFetch, submitOnly
<1> QED BY <1>3, <1>4, <1>5, CauseKept DEF HasRow

LEMMA CauseOfLoop ==
  ASSUME SubmitInv, CauseInv, NoBlindSpots, SubmitLoop
  PROVE  CauseInv'
<1>1. /\ \A t \in sub.batch : t \in Tx
      /\ sub.pc \in {"fetch", "send"} => sub.cur \in sub.batch
  BY DEF SubmitInv, SubmitTypeOK, BatchInv
<1>2. /\ StatusSuccess \in Status \ {StatusInvalid} /\ StatusInvalid \in Status
      /\ StatusReceiverIsNotBelongToAgent \in Status \ {StatusInvalid}
  BY DEF Status, StatusSuccess, StatusInvalid, StatusReceiverIsNotBelongToAgent
<1>3. CASE SubQuery
  <2>1. sub'.pc # "send" BY <1>3 DEF SubQuery, SubIdle
  <2> QED BY <1>3, <2>1, CauseBeside DEF SubQuery, submitOnly
<1>4. ASSUME NEW t \in Tx, SubRecorded(t) PROVE CauseInv'
  BY <1>4, <1>2, CauseOfMark DEF SubRecorded, NextInBatch
<1>5. ASSUME NEW t \in Tx, SubUnrecorded(t) PROVE CauseInv'
  <2>1. sub'.pc # "send" BY <1>5 DEF SubUnrecorded, SubmitInv, SubmitTypeOK
  <2> QED BY <1>5, <2>1, CauseBeside DEF SubUnrecorded, submitOnly
<1>6. ASSUME NEW t \in Tx, SubRecordFails(t) PROVE CauseInv'
  BY <1>6, <1>2, CauseOfMark DEF SubRecordFails, NextInBatch, submitOnly, Mark
<1>7. CASE SubFetchFails
  BY <1>7, <1>1, <1>2, CauseOfMark DEF SubFetchFails, submitOnly, Mark
<1>8. CASE SubNotBelong
  BY <1>8, <1>1, <1>2, CauseOfMark DEF SubNotBelong
<1>9. CASE SubFetch BY <1>9, CauseOfFetch
<1>10. CASE SubBadProof BY <1>10 DEF SubBadProof, NoBlindSpots
<1>11. CASE SubAccepted
  BY <1>11, <1>1, <1>2, CauseOfMark DEF SubAccepted
<1>12. CASE SubTryAgain
  BY <1>12, <1>1, <1>2, CauseOfMark DEF SubTryAgain, Mark
<1>13. CASE SubRefused
  <2>1. Refuses(sub.cur, sub.agent) /\ AgentOf(db[sub.cur], sub.agent)
    BY <1>13 DEF SubRefused, CauseInv, NoBlindSpots
  <2>2. GoodCause(sub.cur, db[sub.cur].addr)
    BY <2>1 DEF Refuses, GoodCause, AgentOf, Removed
  <2> QED BY <1>13, <2>2, <1>1, <1>2, CauseOfMark DEF SubRefused
<1> QED
  BY <1>3, <1>4, <1>5, <1>6, <1>7, <1>8, <1>9, <1>10, <1>11, <1>12, <1>13 DEF SubmitLoop

(* Every step keeps the invariant.                                         *)
LEMMA CauseNext ==
  ASSUME SubmitInv, CauseInv, NoBlindSpots, [SubmitNext]_submitVars
  PROVE  CauseInv'
<1>1. CASE LorenzoNext
  BY <1>1, CauseBeside DEF LorenzoNext, NewHeader, OtherSubmitter, ExecuteLate
<1>2. CASE SubmitBoot \/ SubmitRefresh
  <2>1. AgentNext BY <1>2 DEF SubmitBoot, SubmitRefresh, AgentNext
  <2> QED BY <1>2, <2>1, CauseBeside DEF SubmitBoot, SubmitRefresh
<1>3. CASE SubmitCrash
  <2>1. AgentNext BY <1>3 DEF SubmitCrash, AgentNext
  <2> QED BY <1>3, <2>1, CauseBeside, IdleIsState DEF SubmitCrash
<1>4. CASE SubmitLoop BY <1>4, CauseOfLoop
<1>5. ASSUME NEW r \in NewRows, RowArrives(r) PROVE CauseInv'
  <2>1. /\ r.tx \in Tx /\ r.row \in Row /\ r.row.status = StatusPending
        /\ r.row.agent # NoAgent => r.row.addr = AgentAddr[r.row.agent]
    BY NewRowsAssumption
  <2>2. r.row.agent # NoAgent => AgentOf(r.row, r.row.agent)
    BY <1>5, <2>1, RegistryFields
    DEF RowArrives, AgentOf, Registered, Row, Agent, NoAgent, SubmitInv
  <2>3. StatusPending # StatusInvalid BY DEF StatusPending, StatusInvalid
  <2>4. /\ db'[r.tx] = r.row
        /\ \A u \in Tx : u # r.tx => db'[u] = db[u]
    BY <1>5, <2>1 DEF RowArrives, SubmitInv, SubmitTypeOK, Table
  <2>5. sub.pc = "send" => sub.cur \in Tx /\ sub.cur # r.tx
    BY <1>5 DEF RowArrives, SubmitInv, SubmitTypeOK, BatchInv, IsPending, HasRow
  <2>6. sub'.pc = "send" => sub'.whole /\ AgentOf(db'[sub'.cur], sub'.agent)
    BY <1>5, <2>4, <2>5 DEF RowArrives, CauseInv
  <2>7. ASSUME NEW u \in Tx, HasRow(u)'
        PROVE  \/ HasRow(u) /\ db'[u] = db[u]
               \/ /\ db'[u].agent # NoAgent => AgentOf(db'[u], db'[u].agent)
                  /\ db'[u].status = StatusInvalid => GoodCause(u, db'[u].addr)
    BY <2>1, <2>2, <2>3, <2>4, <2>7 DEF HasRow
  <2>8. UNCHANGED agentVars BY <1>5 DEF RowArrives
  <2> QED BY <2>6, <2>7, <2>8, CauseKept
<1>6. CASE UNCHANGED submitVars BY <1>6, CauseBeside DEF submitVars
<1> QED BY <1>1, <1>2, <1>3, <1>4, <1>5, <1>6 DEF SubmitNext

(* For every table, registry, agent list and pattern of failing and late   *)
(* calls: where bodies come whole and no passing error is missing from     *)
(* isStakingMintTryAgainError, an Invalid deposit is one that Lorenzo      *)
(* refuses for good, or an agent of its address was removed.               *)
THEOREM InvalidAlwaysRefused == NoBlindSpots /\ SubmitSafety => []InvalidIsRefused
<1>1. NoBlindSpots => (SubmitSafety => []CauseInv)
  <2> SUFFICES ASSUME NoBlindSpots PROVE SubmitSafety => []CauseInv
    OBVIOUS
  <2>1. SubmitInv /\ CauseInv /\ [SubmitNext]_submitVars => CauseInv'
    BY CauseNext
  <2> QED BY <2>1, CauseInit, SubmitInvariant, PTL DEF SubmitSafety
<1>2. CauseInv => InvalidIsRefused BY DEF CauseInv
<1> QED BY <1>1, <1>2, PTL
=============================================================================
