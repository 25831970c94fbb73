---------------------------- MODULE BtcScanProofs ----------------------------
(***************************************************************************)
(* The scan of the BTC relayer loses no deposit and makes up none, for     *)
(* every Bitcoin chain, agent registry, number of crashes and failed calls *)
(* and value of the constants: NoGap, RowsCanonical and RowsJustified from *)
(* one inductive invariant, ScanInv.                                       *)
(***************************************************************************)
EXTENDS BtcScan, AgentListProofs

-----------------------------------------------------------------------------
\* The loops of getValidDepositTxs, as a state s of the local variables.

\* The transactions before the current one are dealt with, and no output
\* before the current one pays a founder.
AtOutput(s) ==
  /\ s.tx \in DOMAIN s.body
  /\ s.out \in DOMAIN TxOut[s.body[s.tx]]
  /\ \A j \in 1..(s.tx - 1) : FounderDeposit(s.body[j]) => s.found[s.body[j]] # NoRow
  /\ \A j \in 1..(s.out - 1), f \in Founder : ~Pays(s.body[s.tx], j, f)

\* The current output pays s.agent, which looks at the inputs, and no input
\* before the current one spends a founder's coins.
AtInput(s) ==
  /\ s.vin \in DOMAIN TxIn[s.body[s.tx]]
  /\ s.agent \in Agent
  /\ HasEthAddr[s.agent]
  /\ Pays(s.body[s.tx], s.out, s.agent)
  /\ \A f \in Founder : f < s.agent => ~Pays(s.body[s.tx], s.out, f)
  /\ \A k \in 1..(s.vin - 1), f \in Founder : TxIn[s.body[s.tx]][k] # AgentAddr[f]
  /\ FounderDeposit(s.body[s.tx]) => \A a \in Agent : ~Spends(s.body[s.tx], a)

\* What was found so far are deposits of the block.
FoundOK(s) ==
  \A t \in Tx : s.found[t] # NoRow =>
    /\ IsDeposit(t, s.found[t])
    /\ s.found[t].height = s.height /\ s.found[t].status = StatusPending
    /\ InBody(t, s.body)

AllFound(s) ==
  \A j \in DOMAIN s.body : FounderDeposit(s.body[j]) => s.found[s.body[j]] # NoRow

LoopInv(s) ==
  /\ FoundOK(s)
  /\ s.pc \in {"outs", "vins"} => AtOutput(s)
  /\ s.pc = "vins" => AtInput(s)
  /\ s.pc \in {"insert", "update"} => AllFound(s)

-----------------------------------------------------------------------------
\* scanBlockLoop.

\* Where the scan stands: the block it works on is the one after the sync
\* point, buried, and still on the best chain.
PlaceInv ==
  /\ phase # "running" => scan = ScanIdle
  /\ scan.pc # "poll" => /\ scan.height = syncPoint + 1
                         /\ scan.height \in Height
                         /\ scan.height + Delay <= tip
  /\ scan.pc \in {"poll", "block"} =>
       scan.found = EmptyTable /\ scan.tx = 1 /\ scan.out = 1
  /\ scan.pc \in {"outs", "vins", "insert", "update"} => scan.body = block[scan.height]

\* The rows of the block are in the table before the sync point moves.
StoredInv ==
  scan.pc = "update" => \A t \in Tx : scan.found[t] # NoRow => HasRow(t)

SyncInv == syncPoint <= StartBlockHeight \/ syncPoint + Delay <= tip

ScanInv ==
  /\ AgentInv
  /\ ScanTypeOK
  /\ PlaceInv
  /\ LoopInv(scan)
  /\ StoredInv
  /\ SyncInv
  /\ NoGap
  /\ RowsCanonical
  /\ RowsJustified

-----------------------------------------------------------------------------
\* Lemmas about the agent list and about rows.

(* The agent that GetAgentByAddress returns is at or before every founder  *)
(* of the address.                                                         *)
LEMMA FirstMatchIsOldest ==
  ASSUME AgentInv, phase = "running", NEW addr, NEW i \in DOMAIN agents.ptr,
         FirstMatch(i, addr)
  PROVE  /\ agents.ptr[i] \in Agent
         /\ AgentAddr[agents.ptr[i]] = addr
         /\ \A f \in Founder : AgentAddr[f] = addr => agents.ptr[i] <= f
<1>1. agents.ptr \in Seq(Agent) /\ agents.ptr[i] \in Agent
  BY DEF AgentInv, AgentTypeOK
<1>2. AgentAddr[agents.ptr[i]] = addr
  BY DEF FirstMatch, Matches
<1>3. ASSUME NEW f \in Founder, AgentAddr[f] = addr PROVE agents.ptr[i] <= f
  <2>1. Matches(f, addr) /\ agents.ptr[f] = f
    BY <1>3 DEF AgentInv, FoundersVisible, Matches
  <2>2. f \in Nat /\ f <= NumFounders /\ 1 <= f /\ i \in Nat /\ 1 <= i
    BY <1>1, AgentAssumption DEF Founder
  <2>3. i <= f
    BY <2>1, <2>2 DEF FirstMatch
  <2>4. i \in Founder
    BY <2>2, <2>3, AgentAssumption DEF Founder
  <2>5. agents.ptr[i] = i
    BY <2>4 DEF AgentInv, FoundersVisible
  <2> QED BY <2>3, <2>5
<1> QED BY <1>1, <1>2, <1>3

(* Who pays an agent has an address for destination.                       *)
LEMMA PaysAddr ==
  ASSUME NEW t \in Tx, NEW i \in DOMAIN TxOut[t], NEW a \in Agent, Pays(t, i, a)
  PROVE  TxOut[t][i].to \in Addr
BY AgentAssumption DEF Pays

(* The row built for a transaction and an agent is a row.                  *)
LEMMA DepositRowType ==
  ASSUME NEW t \in Tx, NEW a \in Agent, NEW h \in Nat
  PROVE  DepositRow(t, a, h) \in Row /\ DepositRow(t, a, h) # NoRow
<1>1. AgentAddr[a] \in Addr
  BY AgentAssumption
<1>2. DepositRow(t, a, h) \in Row
  BY <1>1 DEF DepositRow, Row, Status, StatusPending
<1> QED BY <1>2, RowAssumption

(* The bodies of blocks are sequences of transactions.                     *)
LEMMA BodyType ==
  ASSUME NEW body \in Bodies \cup {<<>>}
  PROVE  /\ body \in Seq(Tx) /\ Len(body) \in Nat /\ DOMAIN body = 1..Len(body)
         /\ \A i \in DOMAIN body : body[i] \in Tx
<1>1. CASE body = <<>>
  BY <1>1
<1>2. CASE body \in Bodies
  <2>1. body \in Seq(Tx) BY <1>2, ScanAssumption
  <2> QED BY <2>1
<1> QED BY <1>1, <1>2

-----------------------------------------------------------------------------
\* Lemmas about the loops.

(* Leaving a transaction that is no founder's deposit, or whose row is in. *)
LEMMA NextTxKeeps ==
  ASSUME NEW s \in ScanState, s.pc \in {"outs", "vins"}, AtOutput(s), FoundOK(s),
         FounderDeposit(s.body[s.tx]) => s.found[s.body[s.tx]] # NoRow
  PROVE  /\ NextTx(s) \in ScanState /\ LoopInv(NextTx(s))
         /\ NextTx(s).pc \in {"outs", "insert"}
         /\ NextTx(s).height = s.height /\ NextTx(s).body = s.body
<1> DEFINE n == NextTx(s)
<1>1. /\ s.body \in Bodies \cup {<<>>} /\ s.tx \in Nat /\ s.out \in Nat
      /\ s.found \in Table /\ s.height \in Nat
  BY DEF ScanState
<1>2. /\ s.body \in Seq(Tx) /\ Len(s.body) \in Nat /\ DOMAIN s.body = 1..Len(s.body)
      /\ \A i \in DOMAIN s.body : s.body[i] \in Tx
  BY <1>1, BodyType
<1>3. /\ n.pc = IF s.tx = Len(s.body) THEN "insert" ELSE "outs"
      /\ n.tx = s.tx + 1 /\ n.out = 1 /\ n.vin = 1 /\ n.agent = NoAgent
      /\ n.body = s.body /\ n.found = s.found /\ n.height = s.height
      /\ n \in ScanState
  <2> DEFINE p == IF s.tx = Len(s.body) THEN "insert" ELSE "outs"
  <2>1. n = [s EXCEPT !.pc = p, !.tx = s.tx + 1, !.out = 1, !.vin = 1, !.agent = NoAgent]
    BY DEF NextTx
  <2>2. s.tx + 1 \in Nat /\ p \in {"insert", "outs"}
    BY <1>1
  <2> HIDE DEF p, n
  <2>3. /\ n.pc = p
        /\ n.tx = s.tx + 1 /\ n.out = 1 /\ n.vin = 1 /\ n.agent = NoAgent
        /\ n.body = s.body /\ n.found = s.found /\ n.height = s.height
    BY <2>1 DEF ScanState
  <2>4. n \in ScanState
    BY <2>1, <2>2 DEF ScanState
  <2> QED BY <2>3, <2>4 DEF p
<1> HIDE DEF n
<1>4. s.tx \in 1..Len(s.body)
  BY <1>2 DEF AtOutput
<1>5. \A j \in 1..s.tx : FounderDeposit(s.body[j]) => s.found[s.body[j]] # NoRow
  <2> SUFFICES ASSUME NEW j \in 1..s.tx, FounderDeposit(s.body[j])
               PROVE  s.found[s.body[j]] # NoRow
    OBVIOUS
  <2>1. CASE j = s.tx BY <2>1
  <2>2. CASE j \in 1..(s.tx - 1) BY <2>2 DEF AtOutput
  <2> QED BY <1>1, <2>1, <2>2
<1>6. FoundOK(n)
  BY <1>3 DEF FoundOK
<1>7. n.pc = "outs" => AtOutput(n)
  <2> SUFFICES ASSUME n.pc = "outs" PROVE AtOutput(n)
    OBVIOUS
  <2>1. s.tx + 1 \in 1..Len(s.body)
    BY <1>1, <1>2, <1>3, <1>4
  <2>2. s.body[s.tx + 1] \in Tx
    BY <1>2, <2>1
  <2>3. 1 \in DOMAIN TxOut[s.body[s.tx + 1]]
    BY <2>2, TxAssumption
  <2>4. (s.tx + 1) - 1 = s.tx
    BY <1>1
  <2> QED BY <1>2, <1>3, <1>5, <2>1, <2>3, <2>4 DEF AtOutput
<1>8. n.pc \in {"insert", "update"} => AllFound(n)
  BY <1>2, <1>3, <1>4, <1>5 DEF AllFound
<1> QED BY <1>3, <1>6, <1>7, <1>8 DEF LoopInv, n

(* Appending a row that is right, and going on.                            *)
LEMMA AcceptKeeps ==
  ASSUME NEW s \in ScanState, s.pc \in {"outs", "vins"}, AtOutput(s), FoundOK(s),
         NEW a \in Agent, Justified(s.body[s.tx], a)
  PROVE  /\ Accept(s, a) \in ScanState /\ LoopInv(Accept(s, a))
         /\ Accept(s, a).pc \in {"outs", "insert"}
         /\ Accept(s, a).height = s.height /\ Accept(s, a).body = s.body
<1> DEFINE t == s.body[s.tx]
           row == DepositRow(t, a, s.height)
           u == [s EXCEPT !.found[s.body[s.tx]] = DepositRow(s.body[s.tx], a, s.height)]
<1>1. /\ s.body \in Bodies \cup {<<>>} /\ s.tx \in Nat /\ s.height \in Nat
      /\ s.found \in Table
  BY DEF ScanState
<1>2. t \in Tx
  BY <1>1, BodyType DEF AtOutput
<1>3. row \in Row /\ row # NoRow
  BY <1>1, <1>2, DepositRowType
<1>4. /\ u.found = [s.found EXCEPT ![t] = row]
      /\ u.pc = s.pc /\ u.body = s.body /\ u.tx = s.tx /\ u.out = s.out
      /\ u.height = s.height
  BY DEF ScanState
<1>5. u \in ScanState
  BY <1>1, <1>2, <1>3 DEF ScanState, Table
<1>6. \A v \in Tx : u.found[v] = IF v = t THEN row ELSE s.found[v]
  BY <1>1, <1>2, <1>4 DEF Table
<1>7. IsDeposit(t, row) /\ row.height = s.height /\ row.status = StatusPending
  BY DEF IsDeposit, DepositRow
<1>8. InBody(t, s.body)
  BY DEF AtOutput, InBody
<1> HIDE DEF row
<1>9. FoundOK(u)
  BY <1>4, <1>6, <1>7, <1>8 DEF FoundOK
<1>10. AtOutput(u)
  <2>1. \A j \in 1..(s.tx - 1) : s.body[j] \in Tx
    BY <1>1, BodyType DEF AtOutput
  <2>2. \A j \in 1..(s.tx - 1) : FounderDeposit(s.body[j]) => u.found[s.body[j]] # NoRow
    BY <1>3, <1>6, <2>1 DEF AtOutput
  <2> QED BY <1>4, <2>2 DEF AtOutput
<1>11. u.found[u.body[u.tx]] # NoRow
  BY <1>2, <1>3, <1>4, <1>6
<1>12. Accept(s, a) = NextTx(u)
  BY DEF Accept
<1> HIDE DEF u
<1> QED BY <1>4, <1>5, <1>9, <1>10, <1>11, <1>12, NextTxKeeps

(* Going past an output that pays no founder.                              *)
LEMMA NextOutputKeeps ==
  ASSUME NEW s \in ScanState, s.pc = "outs", AtOutput(s), FoundOK(s),
         \A f \in Founder : ~Pays(s.body[s.tx], s.out, f)
  PROVE  /\ NextOutput(s) \in ScanState /\ LoopInv(NextOutput(s))
         /\ NextOutput(s).pc \in {"outs", "insert"}
         /\ NextOutput(s).height = s.height /\ NextOutput(s).body = s.body
<1> DEFINE t == s.body[s.tx]
<1>1. t \in Tx
  BY BodyType DEF AtOutput, ScanState
<1>2. DOMAIN TxOut[t] = 1..Len(TxOut[t]) /\ Len(TxOut[t]) \in Nat
  BY <1>1, TxAssumption
<1>3. s.out \in 1..Len(TxOut[t])
  BY <1>2 DEF AtOutput
<1>4. \A j \in 1..s.out, f \in Founder : ~Pays(t, j, f)
  BY <1>3 DEF AtOutput
<1>5. CASE s.out = Len(TxOut[t])
  <2>1. ~FounderDeposit(t)
    BY <1>2, <1>4, <1>5 DEF FounderDeposit
  <2>2. NextOutput(s) = NextTx(s)
    BY <1>5 DEF NextOutput
  <2> QED BY <2>1, <2>2, NextTxKeeps
<1>6. CASE s.out # Len(TxOut[t])
  <2> DEFINE n == NextOutput(s)
  <2>1. n = [s EXCEPT !.out = s.out + 1]
    BY <1>6 DEF NextOutput
  <2> HIDE DEF n
  <2>2. /\ n.pc = "outs" /\ n.out = s.out + 1 /\ n.tx = s.tx
        /\ n.body = s.body /\ n.found = s.found /\ n.height = s.height
        /\ n \in ScanState
    BY <2>1 DEF ScanState
  <2>3. s.out + 1 \in 1..Len(TxOut[t]) /\ (s.out + 1) - 1 = s.out
    BY <1>2, <1>3, <1>6
  <2>4. AtOutput(n)
    BY <1>2, <1>4, <2>2, <2>3 DEF AtOutput
  <2>5. FoundOK(n)
    BY <2>2 DEF FoundOK
  <2> QED BY <2>2, <2>4, <2>5 DEF LoopInv, n
<1> QED BY <1>5, <1>6

(* The first output to an agent in the list decides what a founder's       *)
(* deposit asks for: the agent found is that founder.                      *)
LEMMA DecidingOutput ==
  ASSUME NEW t \in Tx, NEW o \in DOMAIN TxOut[t], NEW a \in Agent,
         FounderDeposit(t), Pays(t, o, a),
         \A j \in 1..(o - 1), f \in Founder : ~Pays(t, j, f),
         \A f \in Founder : f < a => ~Pays(t, o, f)
  PROVE  Acceptable(t, a, Agent)
<1>1. PICK i \in DOMAIN TxOut[t], f \in Founder :
             /\ Pays(t, i, f)
             /\ \A g \in 1..(f - 1) : ~Pays(t, i, g)
             /\ \A j \in 1..(i - 1), b \in Agent : ~Pays(t, j, b)
             /\ Acceptable(t, f, Agent)
  BY DEF FounderDeposit
<1>2. DOMAIN TxOut[t] = 1..Len(TxOut[t]) /\ Len(TxOut[t]) \in Nat
  BY TxAssumption
<1>3. i = o
  <2>1. ~(i < o) BY <1>1, <1>2
  <2>2. ~(o < i) BY <1>1, <1>2
  <2> QED BY <1>2, <2>1, <2>2
<1>4. f = a
  <2>1. ~(f < a) BY <1>1, <1>3
  <2>2. a < f => a \in 1..(f - 1) BY DEF Agent, Founder
  <2>3. ~(a < f) BY <1>1, <1>3, <2>2
  <2> QED BY <2>1, <2>3 DEF Agent, Founder
<1> QED BY <1>1, <1>4

-----------------------------------------------------------------------------
\* The invariant and the steps.

(* It holds at the start.                                                  *)
LEMMA ScanInvInit == ScanInit => ScanInv
<1> SUFFICES ASSUME ScanInit PROVE ScanInv
  OBVIOUS
<1> USE ScanAssumption DEF ScanInit
<1>1. AgentInv BY AgentInvInit
<1>2. EmptyTable \in Table /\ \A t \in Tx : EmptyTable[t] = NoRow
  BY DEF EmptyTable, Table
<1>3. /\ ScanIdle \in ScanState /\ ScanIdle.found = EmptyTable /\ ScanIdle.pc = "poll"
      /\ ScanIdle.tx = 1 /\ ScanIdle.out = 1
  BY <1>2 DEF ScanIdle, ScanState
<1>4. ScanTypeOK
  BY <1>1, <1>2, <1>3 DEF ScanTypeOK, AgentInv, Height
<1>5. LoopInv(scan) /\ StoredInv
  BY <1>2, <1>3 DEF LoopInv, FoundOK, StoredInv
<1>6. PlaceInv /\ SyncInv
  BY <1>3 DEF PlaceInv, SyncInv
<1>7. NoGap /\ RowsCanonical /\ RowsJustified
  BY <1>2 DEF NoGap, RowsCanonical, RowsJustified, HasRow, Height
<1> QED BY <1>1, <1>4, <1>5, <1>6, <1>7 DEF ScanInv

(* Facts about the place of the scan that every action uses.               *)
LEMMA ScanRunning ==
  ASSUME ScanInv, scan.pc # "poll"
  PROVE  phase = "running"
BY DEF ScanInv, PlaceInv, ScanIdle

(* A step that only moves the loops on keeps the invariant.                *)
LEMMA LoopStep ==
  ASSUME ScanInv, UNCHANGED scanOnly, scan.pc \in {"outs", "vins"},
         scan' \in ScanState, LoopInv(scan'),
         scan'.pc \in {"outs", "vins", "insert"},
         scan'.height = scan.height, scan'.body = scan.body
  PROVE  ScanInv'
<1> USE DEF scanOnly, chainVars, storeVars
<1>1. AgentInv' /\ AgentTypeOK'
  BY AgentInvNext DEF ScanInv, AgentInv
<1>2. ScanTypeOK'
  BY <1>1 DEF ScanInv, ScanTypeOK
<1>3. phase = "running" /\ phase' = "running"
  BY ScanRunning DEF agentVars
<1>4. PlaceInv'
  BY <1>3 DEF ScanInv, PlaceInv
<1>5. StoredInv' /\ SyncInv' /\ NoGap' /\ RowsCanonical' /\ RowsJustified'
  BY DEF ScanInv, StoredInv, SyncInv, NoGap, RowsCanonical, RowsJustified, HasRow, InBlock
<1> QED BY <1>1, <1>2, <1>4, <1>5 DEF ScanInv

(* The state of the loops before a step of the filter.                     *)
LEMMA LoopFacts ==
  ASSUME ScanInv, scan.pc \in {"outs", "vins"}
  PROVE  /\ scan \in ScanState /\ AtOutput(scan) /\ FoundOK(scan) /\ CurTx \in Tx
         /\ scan.out \in DOMAIN TxOut[CurTx]
         /\ CurTo = TxOut[CurTx][scan.out].to
         /\ \A j \in 1..(scan.out - 1), f \in Founder : ~Pays(CurTx, j, f)
<1>1. scan \in ScanState /\ AtOutput(scan) /\ FoundOK(scan)
  BY DEF ScanInv, ScanTypeOK, LoopInv
<1>2. CurTx \in Tx
  BY <1>1, BodyType DEF AtOutput, ScanState, CurTx
<1> QED BY <1>1, <1>2 DEF AtOutput, CurTx, CurTo

(* The output pays nobody that is in the list.                             *)
LEMMA SkipOutputKeeps == ScanInv /\ ScanSkipOutput => ScanInv'
<1> SUFFICES ASSUME ScanInv, ScanSkipOutput PROVE ScanInv'
  OBVIOUS
<1>1. /\ scan.pc = "outs" /\ UNCHANGED scanOnly /\ scan' = NextOutput(scan)
      /\ CurTo \in Addr => NoMatch(CurTo)
  BY DEF ScanSkipOutput
<1>2. \A f \in Founder : ~Pays(CurTx, scan.out, f)
  <2> SUFFICES ASSUME NEW f \in Founder, Pays(CurTx, scan.out, f) PROVE FALSE
    OBVIOUS
  <2>1. f \in Agent /\ AgentAddr[f] \in Addr
    BY AgentAssumption DEF Founder, Agent
  <2>2. CurTo = AgentAddr[f]
    BY <1>1, LoopFacts DEF Pays
  <2> QED BY <1>1, <2>1, <2>2, ScanRunning, NoMatchNoFounder DEF ScanInv
<1>3. /\ scan' \in ScanState /\ LoopInv(scan') /\ scan'.pc \in {"outs", "insert"}
      /\ scan'.height = scan.height /\ scan'.body = scan.body
  BY <1>1, <1>2, LoopFacts, NextOutputKeeps DEF CurTx
<1> QED BY <1>1, <1>3, LoopStep

(* The agent that an output is matched to.                                 *)
LEMMA MatchedAgent ==
  ASSUME ScanInv, scan.pc = "outs", NEW i \in DOMAIN agents.ptr, FirstMatch(i, CurTo)
  PROVE  /\ agents.ptr[i] \in Agent
         /\ Pays(CurTx, scan.out, agents.ptr[i])
         /\ \A f \in Founder : f < agents.ptr[i] => ~Pays(CurTx, scan.out, f)
<1>1. AgentInv /\ phase = "running"
  BY ScanRunning DEF ScanInv
<1>2. /\ agents.ptr[i] \in Agent /\ AgentAddr[agents.ptr[i]] = CurTo
      /\ \A f \in Founder : AgentAddr[f] = CurTo => agents.ptr[i] <= f
  BY <1>1, FirstMatchIsOldest
<1>3. CurTo = TxOut[CurTx][scan.out].to
  BY LoopFacts
<1> QED BY <1>2, <1>3 DEF Pays, Founder, Agent

(* The output pays an agent that asks for an OP_RETURN.                    *)
LEMMA OpReturnAgentKeeps == ScanInv /\ ScanOpReturnAgent => ScanInv'
<1> SUFFICES ASSUME ScanInv, ScanOpReturnAgent PROVE ScanInv'
  OBVIOUS
<1>1. PICK i \in DOMAIN agents.ptr :
        /\ FirstMatch(i, CurTo)
        /\ ~HasEthAddr[agents.ptr[i]]
        /\ scan' = IF HasOpReturn(CurTx) THEN Accept(scan, agents.ptr[i]) ELSE NextTx(scan)
  BY DEF ScanOpReturnAgent
<1> DEFINE a == agents.ptr[i]
<1>2. scan.pc = "outs" /\ UNCHANGED scanOnly
  BY DEF ScanOpReturnAgent
<1>3. /\ a \in Agent /\ Pays(CurTx, scan.out, a)
      /\ \A f \in Founder : f < a => ~Pays(CurTx, scan.out, f)
  BY <1>1, <1>2, MatchedAgent
<1> HIDE DEF a
<1>4. /\ scan' \in ScanState /\ LoopInv(scan') /\ scan'.pc \in {"outs", "insert"}
      /\ scan'.height = scan.height /\ scan'.body = scan.body
  <2>1. CASE HasOpReturn(CurTx)
    <3>1. Justified(CurTx, a)
      BY <1>1, <1>2, <1>3, <2>1, LoopFacts DEF Justified, Acceptable, a
    <3> QED BY <1>1, <1>2, <1>3, <2>1, <3>1, LoopFacts, AcceptKeeps DEF CurTx, a
  <2>2. CASE ~HasOpReturn(CurTx)
    <3>1. ~FounderDeposit(CurTx)
      BY <1>1, <1>2, <1>3, <2>2, LoopFacts, DecidingOutput DEF Acceptable, a
    <3> QED BY <1>1, <1>2, <2>2, <3>1, LoopFacts, NextTxKeeps DEF CurTx
  <2> QED BY <2>1, <2>2
<1> QED BY <1>2, <1>4, LoopStep

(* The output pays an agent that asks for the inputs.                      *)
LEMMA EthAgentKeeps == ScanInv /\ ScanEthAgent => ScanInv'
<1> SUFFICES ASSUME ScanInv, ScanEthAgent PROVE ScanInv'
  OBVIOUS
<1>1. PICK i \in DOMAIN agents.ptr :
        /\ FirstMatch(i, CurTo)
        /\ HasEthAddr[agents.ptr[i]]
        /\ scan' = [scan EXCEPT !.pc = "vins", !.vin = 1, !.agent = agents.ptr[i]]
  BY DEF ScanEthAgent
<1> DEFINE a == agents.ptr[i]
<1>2. scan.pc = "outs" /\ UNCHANGED scanOnly
  BY DEF ScanEthAgent
<1>3. /\ a \in Agent /\ Pays(CurTx, scan.out, a)
      /\ \A f \in Founder : f < a => ~Pays(CurTx, scan.out, f)
  BY <1>1, <1>2, MatchedAgent
<1>4. HasEthAddr[a] /\ scan' = [scan EXCEPT !.pc = "vins", !.vin = 1, !.agent = a]
  BY <1>1
<1> HIDE DEF a
<1>5. /\ scan' \in ScanState /\ scan'.pc = "vins" /\ scan'.vin = 1 /\ scan'.agent = a
      /\ scan'.height = scan.height /\ scan'.body = scan.body /\ scan'.tx = scan.tx
      /\ scan'.out = scan.out /\ scan'.found = scan.found
  BY <1>2, <1>3, <1>4, LoopFacts DEF ScanState
<1>6. AtOutput(scan') /\ FoundOK(scan')
  BY <1>2, <1>5, LoopFacts DEF AtOutput, FoundOK
<1>7. FounderDeposit(CurTx) => \A b \in Agent : ~Spends(CurTx, b)
  BY <1>2, <1>3, <1>4, LoopFacts, DecidingOutput DEF Acceptable
<1>8. 1 \in DOMAIN TxIn[CurTx]
  BY <1>2, LoopFacts, TxAssumption
<1>9. AtInput(scan')
  BY <1>3, <1>4, <1>5, <1>7, <1>8 DEF AtInput, CurTx
<1> QED BY <1>2, <1>5, <1>6, <1>9, LoopStep DEF LoopInv

(* One input is looked at.                                                 *)
LEMMA InputKeeps == ScanInv /\ ScanInput => ScanInv'
<1> SUFFICES ASSUME ScanInv, ScanInput PROVE ScanInv'
  OBVIOUS
<1> DEFINE from == TxIn[CurTx][scan.vin]
<1>1. /\ scan.pc = "vins" /\ UNCHANGED scanOnly
      /\ scan' = IF IsValidDepositReceiver(from) THEN NextTx(scan)
                 ELSE IF scan.vin = Len(TxIn[CurTx]) THEN Accept(scan, scan.agent)
                 ELSE [scan EXCEPT !.vin = scan.vin + 1]
  BY DEF ScanInput
<1>2. /\ scan.vin \in DOMAIN TxIn[CurTx]
      /\ scan.agent \in Agent /\ HasEthAddr[scan.agent]
      /\ Pays(CurTx, scan.out, scan.agent)
      /\ \A f \in Founder : f < scan.agent => ~Pays(CurTx, scan.out, f)
      /\ \A k \in 1..(scan.vin - 1), f \in Founder : TxIn[CurTx][k] # AgentAddr[f]
      /\ FounderDeposit(CurTx) => \A a \in Agent : ~Spends(CurTx, a)
  BY <1>1 DEF ScanInv, LoopInv, AtInput, CurTx
<1>3. /\ DOMAIN TxIn[CurTx] = 1..Len(TxIn[CurTx]) /\ Len(TxIn[CurTx]) \in Nat
  BY <1>1, LoopFacts, TxAssumption
<1>4. CASE IsValidDepositReceiver(from)
  <2>1. PICK i \in DOMAIN agents.ptr : AgentAddr[agents.ptr[i]] = from
    BY <1>4 DEF IsValidDepositReceiver, NoMatch, Matches
  <2>2. agents.ptr[i] \in Agent
    BY DEF ScanInv, AgentInv, AgentTypeOK
  <2>3. ~FounderDeposit(CurTx)
    BY <1>2, <2>1, <2>2 DEF Spends
  <2>4. scan' = NextTx(scan)
    BY <1>1, <1>4
  <2>5. /\ scan' \in ScanState /\ LoopInv(scan') /\ scan'.pc \in {"outs", "insert"}
        /\ scan'.height = scan.height /\ scan'.body = scan.body
    BY <1>1, <2>3, <2>4, LoopFacts, NextTxKeeps DEF CurTx
  <2> QED BY <1>1, <2>5, LoopStep
<1>5. CASE ~IsValidDepositReceiver(from)
  <2>1. \A f \in Founder : AgentAddr[f] # from
    BY <1>1, <1>5, ScanRunning, NoMatchNoFounder DEF IsValidDepositReceiver, ScanInv
  <2>2. \A k \in 1..scan.vin, f \in Founder : TxIn[CurTx][k] # AgentAddr[f]
    BY <1>2, <1>3, <2>1
  <2>3. CASE scan.vin = Len(TxIn[CurTx])
    <3>1. \A f \in Founder : ~Spends(CurTx, f)
      BY <1>3, <2>2, <2>3 DEF Spends
    <3>2. Justified(CurTx, scan.agent)
      BY <1>1, <1>2, <3>1, LoopFacts DEF Justified, Acceptable
    <3>3. scan' = Accept(scan, scan.agent)
      BY <1>1, <1>5, <2>3
    <3>4. /\ scan' \in ScanState /\ LoopInv(scan') /\ scan'.pc \in {"outs", "insert"}
          /\ scan'.height = scan.height /\ scan'.body = scan.body
      <4>1. /\ scan \in ScanState /\ AtOutput(scan) /\ FoundOK(scan)
            /\ scan.pc \in {"outs", "vins"} /\ scan.agent \in Agent
        BY <1>1, <1>2, LoopFacts
      <4>2. Justified(scan.body[scan.tx], scan.agent) BY <3>2 DEF CurTx
      <4> QED BY <3>3, <4>1, <4>2, AcceptKeeps
    <3> QED BY <1>1, <3>4, LoopStep
  <2>4. CASE scan.vin # Len(TxIn[CurTx])
    <3>1. scan' = [scan EXCEPT !.vin = scan.vin + 1]
      BY <1>1, <1>5, <2>4
    <3>2. /\ scan' \in ScanState /\ scan'.pc = "vins" /\ scan'.vin = scan.vin + 1
          /\ scan'.height = scan.height /\ scan'.body = scan.body /\ scan'.tx = scan.tx
          /\ scan'.out = scan.out /\ scan'.found = scan.found /\ scan'.agent = scan.agent
      BY <1>1, <3>1, LoopFacts DEF ScanState
    <3>3. scan.vin + 1 \in DOMAIN TxIn[CurTx] /\ (scan.vin + 1) - 1 = scan.vin
      BY <1>2, <1>3, <2>4
    <3>4. AtInput(scan')
      BY <1>2, <2>2, <3>2, <3>3 DEF AtInput, CurTx
    <3>5. AtOutput(scan') /\ FoundOK(scan')
      BY <1>1, <3>2, LoopFacts DEF AtOutput, FoundOK
    <3> QED BY <1>1, <3>2, <3>4, <3>5, LoopStep DEF LoopInv
  <2> QED BY <2>3, <2>4
<1> QED BY <1>4, <1>5

-----------------------------------------------------------------------------
\* scanBlockLoop around the filter.

(* A step that leaves chain, table and sync point alone, and the loops in  *)
(* a state with nothing found.                                             *)
LEMMA QuietStep ==
  ASSUME ScanInv, UNCHANGED scanOnly, scan' \in ScanState, LoopInv(scan'),
         PlaceInv', StoredInv'
  PROVE  ScanInv'
<1> USE DEF scanOnly, chainVars, storeVars
<1>1. AgentInv' /\ AgentTypeOK'
  BY AgentInvNext DEF ScanInv, AgentInv
<1>2. ScanTypeOK'
  BY <1>1 DEF ScanInv, ScanTypeOK
<1>3. SyncInv' /\ NoGap' /\ RowsCanonical' /\ RowsJustified'
  BY DEF ScanInv, SyncInv, NoGap, RowsCanonical, RowsJustified, HasRow, InBlock
<1> QED BY <1>1, <1>2, <1>3 DEF ScanInv

(* The idle scan satisfies everything said about the loops.                *)
LEMMA IdleOK ==
  /\ ScanIdle \in ScanState /\ LoopInv(ScanIdle) /\ ScanIdle.pc = "poll"
  /\ ScanIdle.found = EmptyTable /\ \A t \in Tx : EmptyTable[t] = NoRow
  /\ ScanIdle.tx = 1 /\ ScanIdle.out = 1
<1>1. EmptyTable \in Table /\ \A t \in Tx : EmptyTable[t] = NoRow
  BY DEF EmptyTable, Table
<1>2. /\ ScanIdle \in ScanState /\ ScanIdle.pc = "poll" /\ ScanIdle.found = EmptyTable
      /\ ScanIdle.tx = 1 /\ ScanIdle.out = 1
  BY <1>1 DEF ScanIdle, ScanState
<1> QED BY <1>1, <1>2 DEF LoopInv, FoundOK

(* Deciding on the next block.                                             *)
LEMMA PollKeeps == ScanInv /\ ScanPoll => ScanInv'
<1> SUFFICES ASSUME ScanInv, ScanPoll PROVE ScanInv'
  OBVIOUS
<1>1. /\ phase = "running" /\ tip >= syncPoint + 1 + Delay /\ UNCHANGED scanOnly
      /\ scan' = [ScanIdle EXCEPT !.pc = "block", !.height = syncPoint + 1]
  BY DEF ScanPoll
<1>2. tip \in 0..MaxHeight /\ syncPoint \in Nat
  BY DEF ScanInv, ScanTypeOK
<1>3. /\ scan' \in ScanState /\ scan'.pc = "block" /\ scan'.height = syncPoint + 1
      /\ scan'.found = EmptyTable /\ scan'.tx = 1 /\ scan'.out = 1
  <2> DEFINE h == syncPoint + 1
  <2>1. h \in Nat /\ scan' = [ScanIdle EXCEPT !.pc = "block", !.height = h]
    BY <1>1, <1>2
  <2> HIDE DEF h
  <2>2. scan' \in ScanState /\ scan'.pc = "block" /\ scan'.height = h
    BY <2>1, IdleOK DEF ScanState
  <2>3. scan'.found = EmptyTable /\ scan'.tx = 1 /\ scan'.out = 1
    BY <2>1, IdleOK DEF ScanState
  <2> QED BY <2>2, <2>3 DEF h
<1>4. LoopInv(scan')
  BY <1>3, IdleOK DEF LoopInv, FoundOK
<1>5. PlaceInv'
  <2>1. phase' = "running" /\ tip' = tip /\ syncPoint' = syncPoint
    BY <1>1 DEF scanOnly, agentVars, chainVars, storeVars
  <2>2. syncPoint + 1 \in Height /\ syncPoint + 1 + Delay <= tip
    BY <1>1, <1>2, ScanAssumption DEF Height
  <2> QED BY <1>3, <2>1, <2>2 DEF PlaceInv
<1> QED BY <1>1, <1>3, <1>4, <1>5, QuietStep DEF StoredInv

(* The block is read: it is the one on the best chain.                     *)
LEMMA GetBlockKeeps == ScanInv /\ ScanGetBlock => ScanInv'
<1> SUFFICES ASSUME ScanInv, ScanGetBlock PROVE ScanInv'
  OBVIOUS
<1> DEFINE body == block[scan.height]
           pc == IF body = <<>> THEN "insert" ELSE "outs"
<1>1. /\ scan.pc = "block" /\ UNCHANGED scanOnly
      /\ scan' = [scan EXCEPT !.pc = pc, !.body = body]
  BY DEF ScanGetBlock
<1>2. scan \in ScanState /\ scan.height \in Height /\ scan.found = EmptyTable
  BY <1>1 DEF ScanInv, ScanTypeOK, PlaceInv
<1>3. body \in Bodies \cup {<<>>}
  BY <1>2 DEF ScanInv, ScanTypeOK
<1>4. pc \in {"insert", "outs"}
  OBVIOUS
<1> HIDE DEF body, pc
<1>5. /\ scan' \in ScanState /\ scan'.pc = pc /\ scan'.body = body
      /\ scan'.height = scan.height /\ scan'.found = EmptyTable
      /\ scan'.tx = scan.tx /\ scan'.out = scan.out
  BY <1>1, <1>2, <1>3, <1>4 DEF ScanState
<1>6. FoundOK(scan')
  BY <1>5, IdleOK DEF FoundOK
<1>7. PlaceInv'
  <2>1. UNCHANGED <<phase, tip, syncPoint, block>>
    BY <1>1 DEF scanOnly, agentVars, chainVars, storeVars
  <2> QED BY <1>1, <1>4, <1>5, <2>1, ScanRunning DEF ScanInv, PlaceInv, body
<1>8. StoredInv'
  BY <1>4, <1>5 DEF StoredInv
<1>9. CASE body = <<>>
  <2>1. pc = "insert" BY <1>9 DEF pc
  <2>2. AllFound(scan') BY <1>5, <1>9 DEF AllFound
  <2> QED BY <1>1, <1>5, <1>6, <1>7, <1>8, <2>1, <2>2, QuietStep DEF LoopInv
<1>10. CASE body # <<>>
  <2>1. pc = "outs" BY <1>10 DEF pc
  <2>2. scan.tx = 1 /\ scan.out = 1
    BY <1>1 DEF ScanInv, PlaceInv
  <2>3. /\ body \in Seq(Tx) /\ DOMAIN body = 1..Len(body) /\ Len(body) \in Nat
        /\ \A i \in DOMAIN body : body[i] \in Tx
    BY <1>3, BodyType
  <2>4. 1 \in DOMAIN body /\ body[1] \in Tx
    BY <1>10, <2>3
  <2>5. 1 \in DOMAIN TxOut[body[1]]
    BY <2>4, TxAssumption
  <2>6. AtOutput(scan')
    BY <1>5, <2>2, <2>4, <2>5 DEF AtOutput
  <2> QED BY <1>1, <1>5, <1>6, <1>7, <1>8, <2>1, <2>6, QuietStep DEF LoopInv
<1> QED BY <1>9, <1>10

(* The block could not be read.                                            *)
LEMMA GetBlockFailsKeeps == ScanInv /\ ScanGetBlockFails => ScanInv'
<1> SUFFICES ASSUME ScanInv, ScanGetBlockFails PROVE ScanInv'
  OBVIOUS
<1>1. scan' = ScanIdle /\ UNCHANGED scanOnly
  BY DEF ScanGetBlockFails
<1>2. PlaceInv' /\ StoredInv'
  BY <1>1, IdleOK DEF PlaceInv, StoredInv
<1> QED BY <1>1, <1>2, IdleOK, QuietStep

-----------------------------------------------------------------------------
\* Storing what was found.

(* What storing the rows of the block does to the invariant, whether the   *)
(* call is answered or not.                                                *)
LEMMA InsertedTable ==
  ASSUME ScanInv, scan.pc = "insert", db' = InsertBtcDepositTxs(db, scan.found),
         UNCHANGED <<agentVars, chainVars, syncPoint>>
  PROVE  /\ db' \in Table /\ NoGap' /\ RowsCanonical' /\ RowsJustified'
         /\ \A t \in Tx : scan.found[t] # NoRow => HasRow(t)'
<1> USE DEF chainVars
<1>1. /\ db \in Table /\ scan.found \in Table /\ scan.height \in Height
      /\ scan.height + Delay <= tip /\ scan.body = block[scan.height] /\ FoundOK(scan)
  BY DEF ScanInv, ScanTypeOK, ScanState, PlaceInv, LoopInv
<1>2. \A t \in Tx : db'[t] = IF db[t] = NoRow THEN scan.found[t] ELSE db[t]
  BY DEF InsertBtcDepositTxs
<1>3. db' \in Table
  BY <1>1 DEF InsertBtcDepositTxs, Table
<1>4. \A t \in Tx : HasRow(t) => HasRow(t)'
  BY <1>2 DEF HasRow
<1>5. NoGap'
  BY <1>4 DEF ScanInv, NoGap, InBlock
<1>6. \A t \in Tx : HasRow(t)' =>
        \/ HasRow(t) /\ db'[t] = db[t]
        \/ scan.found[t] # NoRow /\ db'[t] = scan.found[t]
  BY <1>2 DEF HasRow
<1>7. RowsCanonical'
  BY <1>1, <1>6 DEF ScanInv, RowsCanonical, FoundOK, InBlock
<1>8. RowsJustified'
  BY <1>1, <1>6 DEF ScanInv, RowsJustified, FoundOK
<1>9. \A t \in Tx : scan.found[t] # NoRow => HasRow(t)'
  BY <1>2 DEF HasRow
<1> QED BY <1>3, <1>5, <1>7, <1>8, <1>9

(* The rows are stored.                                                    *)
LEMMA InsertKeeps == ScanInv /\ ScanInsert => ScanInv'
<1> SUFFICES ASSUME ScanInv, ScanInsert PROVE ScanInv'
  OBVIOUS
<1>1. /\ scan.pc = "insert" /\ db' = InsertBtcDepositTxs(db, scan.found)
      /\ scan' = [scan EXCEPT !.pc = "update"]
      /\ UNCHANGED <<agentVars, chainVars, syncPoint>>
  BY DEF ScanInsert
<1>2. /\ scan' \in ScanState /\ scan'.pc = "update" /\ scan'.found = scan.found
      /\ scan'.body = scan.body /\ scan'.height = scan.height
  BY <1>1 DEF ScanInv, ScanTypeOK, ScanState
<1>3. AgentInv' /\ AgentTypeOK'
  BY <1>1, AgentInvNext DEF ScanInv, AgentInv
<1>4. ScanTypeOK'
  BY <1>1, <1>2, <1>3, InsertedTable DEF ScanInv, ScanTypeOK, chainVars
<1>5. LoopInv(scan')
  BY <1>1, <1>2 DEF ScanInv, LoopInv, FoundOK, AllFound
<1>6. PlaceInv'
  BY <1>1, <1>2, ScanRunning DEF ScanInv, PlaceInv, agentVars, chainVars
<1>7. StoredInv' /\ SyncInv'
  BY <1>1, <1>2, InsertedTable DEF ScanInv, StoredInv, SyncInv, chainVars
<1> QED BY <1>1, <1>3, <1>4, <1>5, <1>6, <1>7, InsertedTable DEF ScanInv

(* The scan starts over after a step that left chain and agents alone.     *)
LEMMA IdleStep ==
  ASSUME ScanInv, scan' = ScanIdle, UNCHANGED <<agentVars, chainVars>>,
         db' \in Table, syncPoint' \in Nat, SyncInv',
         NoGap', RowsCanonical', RowsJustified'
  PROVE  ScanInv'
<1>1. AgentInv' /\ AgentTypeOK'
  BY AgentInvNext DEF ScanInv, AgentInv
<1>2. ScanTypeOK'
  BY <1>1, IdleOK DEF ScanInv, ScanTypeOK, chainVars
<1>3. PlaceInv' /\ StoredInv' /\ LoopInv(scan')
  BY IdleOK DEF PlaceInv, StoredInv
<1> QED BY <1>1, <1>2, <1>3 DEF ScanInv

(* The rows may or may not be stored.                                      *)
LEMMA InsertFailsKeeps == ScanInv /\ ScanInsertFails => ScanInv'
<1> SUFFICES ASSUME ScanInv, ScanInsertFails PROVE ScanInv'
  OBVIOUS
<1>1. /\ scan.pc = "insert" /\ scan' = ScanIdle
      /\ UNCHANGED <<agentVars, chainVars, syncPoint>>
      /\ db' = db \/ db' = InsertBtcDepositTxs(db, scan.found)
  BY DEF ScanInsertFails
<1>2. syncPoint' \in Nat /\ SyncInv'
  BY <1>1 DEF ScanInv, ScanTypeOK, SyncInv, chainVars
<1>3. CASE db' = db
  <2>1. db' \in Table /\ NoGap' /\ RowsCanonical' /\ RowsJustified'
    BY <1>1, <1>3 DEF ScanInv, ScanTypeOK, NoGap, RowsCanonical, RowsJustified,
                      HasRow, InBlock, chainVars
  <2> QED BY <1>1, <1>2, <2>1, IdleStep
<1>4. CASE db' = InsertBtcDepositTxs(db, scan.found)
  BY <1>1, <1>2, <1>4, InsertedTable, IdleStep
<1> QED BY <1>1, <1>3, <1>4

(* The sync point moves to the block whose rows are stored, or the call is *)
(* lost.                                                                   *)
LEMMA UpdateStep ==
  ASSUME ScanInv, scan.pc = "update", scan' = ScanIdle,
         UNCHANGED <<agentVars, chainVars, db>>,
         syncPoint' = syncPoint \/ syncPoint' = scan.height
  PROVE  ScanInv'
<1> USE DEF chainVars
<1>1. /\ db \in Table /\ syncPoint \in Nat /\ scan.height \in Nat
      /\ scan.height = syncPoint + 1 /\ scan.height + Delay <= tip
      /\ scan.body = block[scan.height]
  BY DEF ScanInv, ScanTypeOK, ScanState, PlaceInv
<1>2. syncPoint' \in Nat /\ SyncInv'
  BY <1>1 DEF ScanInv, SyncInv
<1>3. RowsCanonical' /\ RowsJustified'
  BY DEF ScanInv, RowsCanonical, RowsJustified, HasRow, InBlock
<1>4. \A t \in Tx : InBlock(t, scan.height) /\ FounderDeposit(t) => HasRow(t)
  BY <1>1 DEF ScanInv, LoopInv, AllFound, StoredInv, InBlock, InBody
<1>5. NoGap'
  <2> SUFFICES ASSUME NEW h \in Height, NEW t \in Tx,
                      StartBlockHeight < h, h <= syncPoint', InBlock(t, h)',
                      FounderDeposit(t)
               PROVE  HasRow(t)'
    BY DEF NoGap
  <2>1. InBlock(t, h)
    BY DEF InBlock
  <2>2. h \in Nat BY DEF Height
  <2>3. CASE h <= syncPoint
    BY <2>1, <2>3 DEF ScanInv, NoGap, HasRow
  <2>4. CASE h = scan.height
    BY <1>4, <2>1, <2>4 DEF HasRow
  <2> QED BY <1>1, <2>2, <2>3, <2>4
<1> QED BY <1>1, <1>2, <1>3, <1>5, IdleStep

LEMMA UpdateKeeps == ScanInv /\ (ScanUpdate \/ ScanUpdateFails) => ScanInv'
BY UpdateStep DEF ScanUpdate, ScanUpdateFails

-----------------------------------------------------------------------------
\* Bitcoin, the agent list and the process.

(* The chain changes above every height that anything is known about.      *)
LEMMA ChainStep ==
  ASSUME ScanInv, UNCHANGED <<agentVars, storeVars, scan>>,
         tip' = tip + 1, tip < MaxHeight,
         block' \in [Height -> Bodies \cup {<<>>}],
         \A h \in Height : h + Delay <= tip => block'[h] = block[h]
  PROVE  ScanInv'
<1> USE DEF storeVars
<1>1. /\ tip \in Nat /\ syncPoint \in Nat /\ MaxHeight \in Nat /\ Delay \in Nat
      /\ tip \in 0..MaxHeight /\ StartBlockHeight \in Nat
      /\ \A h \in Height : h \in Nat
  BY ScanAssumption DEF ScanInv, ScanTypeOK, Height
<1>2. AgentInv' /\ AgentTypeOK'
  BY AgentInvNext DEF ScanInv, AgentInv
<1>3. ScanTypeOK'
  BY <1>1, <1>2 DEF ScanInv, ScanTypeOK
<1>4. scan.height \in Nat
  BY DEF ScanInv, ScanTypeOK, ScanState
<1>5. PlaceInv'
  BY <1>1, <1>4 DEF ScanInv, PlaceInv, agentVars
<1>6. LoopInv(scan') /\ StoredInv'
  BY DEF ScanInv, StoredInv, HasRow
<1>7. SyncInv'
  BY <1>1 DEF ScanInv, SyncInv
<1>8. NoGap'
  <2> SUFFICES ASSUME NEW h \in Height, NEW t \in Tx,
                      StartBlockHeight < h, h <= syncPoint, InBlock(t, h)',
                      FounderDeposit(t)
               PROVE  HasRow(t)
    BY DEF NoGap, HasRow
  <2>1. h + Delay <= tip
    BY <1>1 DEF ScanInv, SyncInv
  <2>2. InBlock(t, h)
    BY <2>1 DEF InBlock
  <2> QED BY <2>2 DEF ScanInv, NoGap
<1>9. RowsCanonical'
  <2> SUFFICES ASSUME NEW t \in Tx, HasRow(t)
               PROVE  /\ db[t].height \in Height
                      /\ db[t].height + Delay <= tip'
                      /\ InBlock(t, db[t].height)'
    BY DEF RowsCanonical, HasRow
  <2>1. /\ db[t].height \in Height /\ db[t].height + Delay <= tip
        /\ InBlock(t, db[t].height)
    BY DEF ScanInv, RowsCanonical
  <2> QED BY <1>1, <2>1 DEF InBlock
<1>10. RowsJustified'
  BY DEF ScanInv, RowsJustified, HasRow
<1> QED BY <1>2, <1>3, <1>5, <1>6, <1>7, <1>8, <1>9, <1>10 DEF ScanInv

LEMMA MineKeeps == ASSUME NEW body \in Bodies PROVE ScanInv /\ Mine(body) => ScanInv'
<1> SUFFICES ASSUME ScanInv, Mine(body) PROVE ScanInv'
  OBVIOUS
<1>1. /\ tip < MaxHeight /\ tip' = tip + 1 /\ block' = [block EXCEPT ![tip + 1] = body]
      /\ UNCHANGED <<agentVars, storeVars, scan>>
  BY DEF Mine
<1>2. tip \in 0..MaxHeight /\ block \in [Height -> Bodies \cup {<<>>}]
  BY DEF ScanInv, ScanTypeOK
<1>3. block' \in [Height -> Bodies \cup {<<>>}]
  BY <1>1, <1>2
<1>4. \A h \in Height : h + Delay <= tip => h # tip + 1
  BY <1>2, ScanAssumption DEF Height
<1>5. \A h \in Height : h + Delay <= tip => block'[h] = block[h]
  BY <1>1, <1>2, <1>4
<1> QED BY <1>1, <1>3, <1>5, ChainStep

LEMMA ReorgKeeps ==
  ASSUME NEW d \in 1..MaxReorg PROVE ScanInv /\ Reorg(d) => ScanInv'
<1> SUFFICES ASSUME ScanInv, Reorg(d) PROVE ScanInv'
  OBVIOUS
<1>1. /\ d <= tip /\ tip < MaxHeight /\ tip' = tip + 1
      /\ UNCHANGED <<agentVars, storeVars, scan>>
  BY DEF Reorg
<1>2. PICK branch \in [(tip - d + 1)..(tip + 1) -> Bodies] :
        block' = [h \in Height |-> IF h \in DOMAIN branch THEN branch[h] ELSE block[h]]
  BY DEF Reorg
<1>3. tip \in 0..MaxHeight /\ block \in [Height -> Bodies \cup {<<>>}]
  BY DEF ScanInv, ScanTypeOK
<1>4. block' \in [Height -> Bodies \cup {<<>>}]
  BY <1>2, <1>3
<1>5. \A h \in Height : h + Delay <= tip => h \notin (tip - d + 1)..(tip + 1)
  BY <1>3, ScanAssumption, ReorgAssumption DEF Height
<1>6. \A h \in Height : h + Delay <= tip => block'[h] = block[h]
  BY <1>2, <1>5
<1> QED BY <1>1, <1>4, <1>6, ChainStep

(* A step of the agent list while the scan goes on.                        *)
LEMMA RefreshKeeps == ScanInv /\ ScanRefresh => ScanInv'
<1> SUFFICES ASSUME ScanInv, ScanRefresh PROVE ScanInv'
  OBVIOUS
<1> USE DEF chainVars, storeVars
<1>1. (RefreshNext \/ RegistryNext) /\ UNCHANGED <<chainVars, storeVars, scan>>
  BY DEF ScanRefresh
<1>2. AgentInv' /\ AgentTypeOK'
  BY <1>1, AgentInvNext DEF ScanInv, AgentInv, AgentNext
<1>3. phase = "running" => phase' = "running"
  BY <1>1 DEF RefreshNext, RegistryNext, StartRefresh, FetchPage, PageError, KeepList,
              StoreFirstWord, StoreSecondWord, AddAgent, RemoveAgent, Loaded, processVars
<1>4. PlaceInv'
  BY <1>1, <1>3 DEF ScanInv, PlaceInv
<1>5. ScanTypeOK' /\ LoopInv(scan') /\ StoredInv' /\ SyncInv' /\ NoGap'
      /\ RowsCanonical' /\ RowsJustified'
  BY <1>1, <1>2 DEF ScanInv, ScanTypeOK, StoredInv, SyncInv, NoGap, RowsCanonical,
                    RowsJustified, HasRow, InBlock
<1> QED BY <1>2, <1>4, <1>5 DEF ScanInv

(* The process starts; the first time the sync point is set.               *)
LEMMA BootKeeps == ScanInv /\ ScanBoot => ScanInv'
<1> SUFFICES ASSUME ScanInv, ScanBoot PROVE ScanInv'
  OBVIOUS
<1> USE DEF chainVars
<1>1. /\ phase = "down" /\ phase' = "loading"
      /\ syncPoint' = (IF syncPoint = 0 THEN StartBlockHeight ELSE syncPoint)
      /\ UNCHANGED <<chainVars, db, scan>>
  BY DEF ScanBoot, StartProcess
<1>2. AgentInv' /\ AgentTypeOK'
  BY AgentInvNext DEF ScanBoot, ScanInv, AgentInv, AgentNext
<1>3. ScanTypeOK'
  BY <1>1, <1>2, ScanAssumption DEF ScanInv, ScanTypeOK
<1>4. scan = ScanIdle
  BY <1>1 DEF ScanInv, PlaceInv
<1>5. PlaceInv' /\ LoopInv(scan') /\ StoredInv'
  BY <1>1, <1>4, IdleOK DEF PlaceInv, StoredInv
<1>6. SyncInv' /\ NoGap'
  BY <1>1, ScanAssumption DEF ScanInv, ScanTypeOK, SyncInv, NoGap, HasRow, InBlock, Height
<1>7. RowsCanonical' /\ RowsJustified'
  BY <1>1 DEF ScanInv, RowsCanonical, RowsJustified, HasRow, InBlock
<1> QED BY <1>2, <1>3, <1>5, <1>6, <1>7 DEF ScanInv

(* The process dies.                                                       *)
LEMMA CrashKeeps == ScanInv /\ ScanCrash => ScanInv'
<1> SUFFICES ASSUME ScanInv, ScanCrash PROVE ScanInv'
  OBVIOUS
<1> USE DEF chainVars, storeVars
<1>1. KillProcess /\ scan' = ScanIdle /\ UNCHANGED <<chainVars, storeVars>>
  BY DEF ScanCrash
<1>2. AgentInv' /\ AgentTypeOK'
  BY <1>1, AgentInvNext DEF ScanInv, AgentInv, AgentNext
<1>3. ScanTypeOK' /\ PlaceInv' /\ LoopInv(scan') /\ StoredInv'
  BY <1>1, <1>2, IdleOK DEF ScanInv, ScanTypeOK, PlaceInv, StoredInv
<1>4. SyncInv' /\ NoGap' /\ RowsCanonical' /\ RowsJustified'
  BY <1>1 DEF ScanInv, SyncInv, NoGap, RowsCanonical, RowsJustified, HasRow, InBlock
<1> QED BY <1>2, <1>3, <1>4 DEF ScanInv

-----------------------------------------------------------------------------
\* The theorems.

(* Every step keeps the invariant.                                         *)
LEMMA ScanInvNext == ScanInv /\ [ScanNext]_scanVars => ScanInv'
<1> SUFFICES ASSUME ScanInv, [ScanNext]_scanVars PROVE ScanInv'
  OBVIOUS
<1>1. CASE BitcoinNext
  BY <1>1, MineKeeps, ReorgKeeps DEF BitcoinNext
<1>2. CASE ScanBoot \/ ScanCrash \/ ScanRefresh
  BY <1>2, BootKeeps, CrashKeeps, RefreshKeeps
<1>3. CASE Filter
  BY <1>3, SkipOutputKeeps, OpReturnAgentKeeps, EthAgentKeeps, InputKeeps DEF Filter
<1>4. CASE ScanPoll \/ ScanGetBlock \/ ScanGetBlockFails
  BY <1>4, PollKeeps, GetBlockKeeps, GetBlockFailsKeeps
<1>5. CASE ScanInsert \/ ScanInsertFails \/ ScanUpdate \/ ScanUpdateFails
  BY <1>5, InsertKeeps, InsertFailsKeeps, UpdateKeeps
<1>6. CASE UNCHANGED scanVars
  <2> USE <1>6 DEF scanVars, chainVars, storeVars
  <2>1. AgentInv' /\ AgentTypeOK'
    BY AgentInvNext DEF ScanInv, AgentInv
  <2>2. /\ ScanTypeOK' /\ PlaceInv' /\ LoopInv(scan') /\ StoredInv' /\ SyncInv'
        /\ NoGap' /\ RowsCanonical' /\ RowsJustified'
    BY <2>1 DEF ScanInv, ScanTypeOK, PlaceInv, StoredInv, SyncInv, NoGap, RowsCanonical,
                RowsJustified, HasRow, InBlock, agentVars
  <2> QED BY <2>1, <2>2 DEF ScanInv
<1> QED BY <1>1, <1>2, <1>3, <1>4, <1>5, <1>6 DEF ScanNext, ScanLoop

(* What the scan relies on at each point of its loop stays true, whatever  *)
(* Bitcoin, the refresh of the agents and crashes do.  (scanBlockLoop)     *)
THEOREM ScanInvariant == ScanSafety => []ScanInv
BY ScanInvInit, ScanInvNext, PTL DEF ScanSafety

(* The state of the scan has its type.                                     *)
THEOREM ScanTypeCorrect == ScanSafety => []ScanTypeOK
<1>1. ScanInv => ScanTypeOK BY DEF ScanInv
<1> QED BY <1>1, ScanInvariant, PTL

(* No deposit to a founder is passed over by the sync point.               *)
THEOREM NoDepositLost == ScanSafety => []NoGap
<1>1. ScanInv => NoGap BY DEF ScanInv
<1> QED BY <1>1, ScanInvariant, PTL

(* Every row points to a buried block of the best chain.                   *)
THEOREM RowsAlwaysCanonical == ScanSafety => []RowsCanonical
<1>1. ScanInv => RowsCanonical BY DEF ScanInv
<1> QED BY <1>1, ScanInvariant, PTL

(* Every row is a deposit to the agent it names.                           *)
THEOREM RowsAlwaysJustified == ScanSafety => []RowsJustified
<1>1. ScanInv => RowsJustified BY DEF ScanInv
<1> QED BY <1>1, ScanInvariant, PTL

(* Where every agent is a founder, so that the list a reader finds is the  *)
(* whole list, the loops of getValidDepositTxs pick exactly the deposits:  *)
(* for every transaction, output, input and number of agents.              *)
THEOREM FilterAlwaysExact == NumAgents = NumFounders /\ ScanSafety => []FilterExact
<1> SUFFICES ASSUME NumAgents = NumFounders PROVE ScanSafety => []FilterExact
  OBVIOUS
<1>1. Agent = Founder BY DEF Agent, Founder
<1>2. ASSUME NEW t \in Tx, NEW a \in Agent, Justified(t, a) PROVE FounderDeposit(t)
  <2>1. \A g \in 1..(a - 1) : g \in Founder /\ g < a
    BY <1>1, AgentAssumption DEF Founder
  <2> QED BY <1>1, <1>2, <2>1 DEF Justified, FounderDeposit
<1>3. ScanInv => FilterExact
  <2> SUFFICES ASSUME ScanInv, scan.pc = "insert", NEW t \in Tx
               PROVE  (scan.found[t] # NoRow) <=> (InBody(t, scan.body) /\ FounderDeposit(t))
    BY DEF FilterExact
  <2>1. FoundOK(scan) /\ AllFound(scan) BY DEF ScanInv, LoopInv
  <2>2. scan.found[t] # NoRow => InBody(t, scan.body) /\ FounderDeposit(t)
    BY <1>2, <2>1 DEF FoundOK, IsDeposit
  <2>3. InBody(t, scan.body) /\ FounderDeposit(t) => scan.found[t] # NoRow
    BY <2>1 DEF AllFound, InBody
  <2> QED BY <2>2, <2>3
<1> QED BY <1>3, ScanInvariant, PTL

(* The scan never looks up an address in a list without the founders.      *)
THEOREM FoundersVisibleToScan == ScanSafety => []FoundersVisible
<1>1. ScanInv => FoundersVisible BY DEF ScanInv, AgentInv
<1> QED BY <1>1, ScanInvariant, PTL

(* Nor in one that is out of order, whatever the scan is doing meanwhile.  *)
THEOREM ListAscendingInScan == ScanSafety => []ListAscending
<1>1. ScanInv => ListAscending BY DEF ScanInv, AgentInv, OrderInv, ListAscending
<1> QED BY <1>1, ScanInvariant, PTL

(* The sync point moves block by block, through crashes, restarts and      *)
(* calls whose answer is lost.                                             *)
THEOREM SyncPointMovesByOne == ScanSafety => SyncPointByOne
<1>1. ScanInv /\ [ScanNext]_scanVars =>
        [syncPoint # 0 => syncPoint' \in {syncPoint, syncPoint + 1}]_syncPoint
  <2> SUFFICES ASSUME ScanInv, [ScanNext]_scanVars, syncPoint # 0
               PROVE  syncPoint' \in {syncPoint, syncPoint + 1}
    OBVIOUS
  <2>1. CASE ScanBoot
    BY <2>1 DEF ScanBoot
  <2>2. CASE ScanUpdate \/ ScanUpdateFails
    BY <2>2 DEF ScanUpdate, ScanUpdateFails, ScanInv, PlaceInv
  <2>3. CASE UNCHANGED syncPoint
    BY <2>3
  <2>4. ScanBoot \/ ScanUpdate \/ ScanUpdateFails \/ UNCHANGED syncPoint
    BY DEF ScanNext, BitcoinNext, Mine, Reorg, ScanCrash, ScanRefresh, ScanLoop, Filter,
           ScanPoll, ScanGetBlock, ScanGetBlockFails, ScanSkipOutput, ScanOpReturnAgent,
           ScanEthAgent, ScanInput, ScanInsert, ScanInsertFails, scanOnly, storeVars,
           scanVars
  <2> QED BY <2>1, <2>2, <2>3, <2>4
<1> QED BY <1>1, ScanInvariant, PTL DEF ScanSafety, SyncPointByOne

(* A row that is stored is never changed by the scan.                      *)
THEOREM RowsNeverRewritten == ScanSafety => RowsKept
<1>1. [ScanNext]_scanVars => [\A t \in Tx : HasRow(t) => db'[t] = db[t]]_db
  <2> SUFFICES ASSUME [ScanNext]_scanVars
               PROVE  db' = db \/ \A t \in Tx : HasRow(t) => db'[t] = db[t]
    OBVIOUS
  <2>1. CASE db' = InsertBtcDepositTxs(db, scan.found)
    BY <2>1 DEF InsertBtcDepositTxs, HasRow
  <2>2. db' = InsertBtcDepositTxs(db, scan.found) \/ db' = db
    BY DEF ScanNext, BitcoinNext, Mine, Reorg, ScanBoot, ScanCrash, ScanRefresh, ScanLoop,
           Filter, ScanPoll, ScanGetBlock, ScanGetBlockFails, ScanSkipOutput,
           ScanOpReturnAgent, ScanEthAgent, ScanInput, ScanInsert, ScanInsertFails,
           ScanUpdate, ScanUpdateFails, scanOnly, storeVars, scanVars
  <2> QED BY <2>1, <2>2
<1> QED BY <1>1, PTL DEF ScanSafety, RowsKept
=============================================================================
