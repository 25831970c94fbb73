------------------------------- MODULE BtcScan -------------------------------
(***************************************************************************)
(* The goroutine scanBlockLoop of the BTC relayer: it follows Bitcoin at a *)
(* distance of delayBlocks, picks the deposits out of each block with      *)
(* getValidDepositTxs, stores them and moves its sync point by one block.  *)
(* Around it: a Bitcoin chain that grows and reorganises, the agent list   *)
(* that changes under it (module AgentList), a database whose calls fail   *)
(* with or without effect, and a process that dies between any two steps.  *)
(***************************************************************************)
EXTENDS AgentList, DepositTable

CONSTANTS
  Bodies,            \* the transaction lists a block may hold
  Delay,             \* delayBlocks, the configured confirmationDepth
  MaxReorg,          \* the deepest reorganisation Bitcoin ever makes
  StartBlockHeight,  \* the configured height to start after
  MaxHeight          \* bound: the highest block mined

Height == 1..MaxHeight

ASSUME ScanAssumption ==
  /\ Bodies \subseteq Seq(Tx)
  /\ MaxHeight \in Nat
  /\ Delay \in Nat
  /\ StartBlockHeight \in Nat

\* What confirmationDepth is chosen for: no block that deep is ever replaced.
ASSUME ReorgAssumption == MaxReorg \in 0..Delay

VARIABLES
  tip,        \* Bitcoin: the height of its best chain
  block,      \* Bitcoin: block[h], the transactions of the block at h
  syncPoint,  \* the configuration row submitter/btc-sync-point
  scan        \* the local variables of scanBlockLoop and getValidDepositTxs

chainVars == <<tip, block>>
storeVars == <<db, syncPoint>>
scanVars  == <<agentVars, chainVars, storeVars, scan>>

ScanIdle == [pc |-> "poll", height |-> 0, body |-> <<>>, tx |-> 1, out |-> 1,
             vin |-> 1, agent |-> NoAgent, found |-> EmptyTable]

ScanState ==
  [pc : {"poll", "block", "outs", "vins", "insert", "update"},
   height : Nat, body : Bodies \cup {<<>>}, tx : Nat, out : Nat, vin : Nat,
   agent : Agent \cup {NoAgent}, found : Table]

ScanTypeOK ==
  /\ AgentTypeOK
  /\ tip \in 0..MaxHeight
  /\ block \in [Height -> Bodies \cup {<<>>}]
  /\ db \in Table
  /\ syncPoint \in Nat
  /\ scan \in ScanState

ScanInit ==
  /\ AgentInit
  /\ tip = 0
  /\ block = [h \in Height |-> <<>>]
  /\ db = EmptyTable
  /\ syncPoint = 0
  /\ scan = ScanIdle

-----------------------------------------------------------------------------
\* Bitcoin.

InBody(t, body) == \E i \in DOMAIN body : body[i] = t

InBlock(t, h) == InBody(t, block[h])

\* A chain holds a transaction once.
NoDoubleInclusion(chain) ==
  \A t \in Tx, g, h \in Height :
    InBody(t, chain[g]) /\ InBody(t, chain[h]) => g = h

Mine(body) ==
  /\ tip < MaxHeight
  /\ tip' = tip + 1
  /\ block' = [block EXCEPT ![tip + 1] = body]
  /\ NoDoubleInclusion(block')
  /\ UNCHANGED <<agentVars, storeVars, scan>>

\* The top d blocks give way to a branch that is one block longer.
Reorg(d) ==
  /\ d <= tip
  /\ tip < MaxHeight
  /\ tip' = tip + 1
  /\ \E branch \in [(tip - d + 1)..(tip + 1) -> Bodies] :
       block' = [h \in Height |-> IF h \in DOMAIN branch THEN branch[h] ELSE block[h]]
  /\ NoDoubleInclusion(block')
  /\ UNCHANGED <<agentVars, storeVars, scan>>

BitcoinNext ==
  \/ \E body \in Bodies : Mine(body)
  \/ \E d \in 1..MaxReorg : Reorg(d)

-----------------------------------------------------------------------------
\* The process: NewTxRelayer sets the sync point the first time.

\* Mutant of ScanBoot: every start goes back to the configured height.
ScanBootFromStart ==
  /\ StartProcess
  /\ syncPoint' = StartBlockHeight
  /\ UNCHANGED <<chainVars, db, scan>>

ScanBoot ==
  /\ StartProcess
  /\ syncPoint' = IF syncPoint = 0 THEN StartBlockHeight ELSE syncPoint
  /\ UNCHANGED <<chainVars, db, scan>>

ScanCrash ==
  /\ KillProcess
  /\ scan' = ScanIdle
  /\ UNCHANGED <<chainVars, storeVars>>

ScanRefresh ==
  /\ RefreshNext \/ RegistryNext
  /\ UNCHANGED <<chainVars, storeVars, scan>>

-----------------------------------------------------------------------------
\* scanBlockLoop.  A call that fails and is made again at once, from the same
\* state, is a stuttering step.

scanOnly == <<agentVars, chainVars, storeVars>>

\* Mutants of ScanPoll: one confirmation too few, or one too many.
ScanPollAt(target) ==
  /\ phase = "running"
  /\ scan.pc = "poll"
  /\ target
  /\ scan' = [ScanIdle EXCEPT !.pc = "block", !.height = syncPoint + 1]
  /\ UNCHANGED scanOnly
ScanPollEarly == ScanPollAt(tip >= syncPoint + 1 /\ tip >= syncPoint + Delay)
ScanPollLate  == ScanPollAt(tip > syncPoint + 1 + Delay)

\* GetBTCCurrentHeight and GetSyncPoint, and the comparison of the two.
ScanPoll ==
  /\ phase = "running"
  /\ scan.pc = "poll"
  /\ tip >= syncPoint + 1 + Delay
  /\ scan' = [ScanIdle EXCEPT !.pc = "block", !.height = syncPoint + 1]
  /\ UNCHANGED scanOnly

\* GetBlockByHeight; the chain may have moved since ScanPoll.
ScanGetBlock ==
  /\ scan.pc = "block"
  /\ scan' = [scan EXCEPT !.pc = IF block[scan.height] = <<>> THEN "insert" ELSE "outs",
                          !.body = block[scan.height]]
  /\ UNCHANGED scanOnly

ScanGetBlockFails ==
  /\ scan.pc = "block"
  /\ scan' = ScanIdle
  /\ UNCHANGED scanOnly

-----------------------------------------------------------------------------
\* getValidDepositTxs, one output and one input at a time.

CurTx == scan.body[scan.tx]
CurTo == TxOut[CurTx][scan.out].to

\* continue MainLoop
NextTx(s) ==
  [s EXCEPT !.pc = IF s.tx = Len(s.body) THEN "insert" ELSE "outs",
            !.tx = @ + 1, !.out = 1, !.vin = 1, !.agent = NoAgent]

\* continue
NextOutput(s) ==
  IF s.out = Len(TxOut[s.body[s.tx]]) THEN NextTx(s) ELSE [s EXCEPT !.out = @ + 1]

\* depositTxs = append(depositTxs, depositTx); continue MainLoop
Accept(s, a) ==
  NextTx([s EXCEPT !.found[s.body[s.tx]] = DepositRow(s.body[s.tx], a, s.height)])

\* Mutant of ScanSkipOutput: an output without an address ends the transaction.
ScanSkipTransaction ==
  /\ scan.pc = "outs"
  /\ CurTo \in Addr => NoMatch(CurTo)
  /\ scan' = IF CurTo \in Addr THEN NextOutput(scan) ELSE NextTx(scan)
  /\ UNCHANGED scanOnly

\* The output pays no address, or an address that is no agent's now.
ScanSkipOutput ==
  /\ scan.pc = "outs"
  /\ CurTo \in Addr => NoMatch(CurTo)
  /\ scan' = NextOutput(scan)
  /\ UNCHANGED scanOnly

\* Mutant of ScanOpReturnAgent: the error of a missing OP_RETURN is ignored.
ScanWithoutOpReturn ==
  /\ scan.pc = "outs"
  /\ CurTo \in Addr
  /\ \E i \in DOMAIN agents.ptr :
       /\ FirstMatch(i, CurTo)
       /\ ~HasEthAddr[agents.ptr[i]]
       /\ scan' = Accept(scan, agents.ptr[i])
  /\ UNCHANGED scanOnly

\* The output pays an agent without an Ethereum address: an OP_RETURN decides.
ScanOpReturnAgent ==
  /\ scan.pc = "outs"
  /\ CurTo \in Addr
  /\ \E i \in DOMAIN agents.ptr :
       /\ FirstMatch(i, CurTo)
       /\ ~HasEthAddr[agents.ptr[i]]
       /\ scan' = IF HasOpReturn(CurTx) THEN Accept(scan, agents.ptr[i]) ELSE NextTx(scan)
  /\ UNCHANGED scanOnly

\* The output pays an agent with an Ethereum address: GetTx, until it answers,
\* gives the inputs to look at.
ScanEthAgent ==
  /\ scan.pc = "outs"
  /\ CurTo \in Addr
  /\ \E i \in DOMAIN agents.ptr :
       /\ FirstMatch(i, CurTo)
       /\ HasEthAddr[agents.ptr[i]]
       /\ scan' = [scan EXCEPT !.pc = "vins", !.vin = 1, !.agent = agents.ptr[i]]
  /\ UNCHANGED scanOnly

\* One input; r.agents is read again for each.
ScanInput ==
  /\ scan.pc = "vins"
  /\ scan' = IF IsValidDepositReceiver(TxIn[CurTx][scan.vin]) THEN NextTx(scan)
             ELSE IF scan.vin = Len(TxIn[CurTx]) THEN Accept(scan, scan.agent)
             ELSE [scan EXCEPT !.vin = @ + 1]
  /\ UNCHANGED scanOnly

-----------------------------------------------------------------------------
\* scanBlockLoop again: store what was found, then move the sync point.

ScanInsert ==
  /\ scan.pc = "insert"
  /\ db' = InsertBtcDepositTxs(db, scan.found)
  /\ scan' = [scan EXCEPT !.pc = "update"]
  /\ UNCHANGED <<agentVars, chainVars, syncPoint>>

\* Mutant of ScanInsertFails: the loop goes on to the sync point.
ScanInsertErrorIgnored ==
  /\ scan.pc = "insert"
  /\ scan.found # EmptyTable
  /\ db' \in {db, InsertBtcDepositTxs(db, scan.found)}
  /\ scan' = [scan EXCEPT !.pc = "update"]
  /\ UNCHANGED <<agentVars, chainVars, syncPoint>>

\* The call returns an error: rolled back, or committed and the answer lost.
\* Without deposits no call is made.
ScanInsertFails ==
  /\ scan.pc = "insert"
  /\ scan.found # EmptyTable
  /\ db' \in {db, InsertBtcDepositTxs(db, scan.found)}
  /\ scan' = ScanIdle
  /\ UNCHANGED <<agentVars, chainVars, syncPoint>>

ScanUpdate ==
  /\ scan.pc = "update"
  /\ syncPoint' = scan.height
  /\ scan' = ScanIdle
  /\ UNCHANGED <<agentVars, chainVars, db>>

ScanUpdateFails ==
  /\ scan.pc = "update"
  /\ syncPoint' \in {syncPoint, scan.height}
  /\ scan' = ScanIdle
  /\ UNCHANGED <<agentVars, chainVars, db>>

Filter == ScanSkipOutput \/ ScanOpReturnAgent \/ ScanEthAgent \/ ScanInput

ScanLoop ==
  \/ ScanPoll \/ ScanGetBlock \/ ScanGetBlockFails
  \/ Filter
  \/ ScanInsert \/ ScanInsertFails \/ ScanUpdate \/ ScanUpdateFails

ScanNext == BitcoinNext \/ ScanBoot \/ ScanCrash \/ ScanRefresh \/ ScanLoop

ScanSafety == ScanInit /\ [][ScanNext]_scanVars

\* The goroutine of the agent list runs, and the query of each page succeeds
\* now and then; nothing is asked of the scan.
besideAgents == <<chainVars, storeVars, scan>>

AgentsFairness ==
  /\ WF_scanVars(ScanBoot)
  /\ WF_scanVars(StartRefresh /\ UNCHANGED besideAgents)
  /\ \A k \in 1..NumAgents :
       SF_scanVars(refresh.key = k /\ FetchPage /\ UNCHANGED besideAgents)
  /\ WF_scanVars((KeepList \/ StoreFirstWord) /\ UNCHANGED besideAgents)
  /\ WF_scanVars(StoreSecondWord /\ UNCHANGED besideAgents)

ScanSpec == ScanSafety /\ AgentsFairness

-----------------------------------------------------------------------------
(* What counts as a deposit, said without the loops of getValidDepositTxs. *)

Pays(t, i, a) == TxOut[t][i].to = AgentAddr[a]

Spends(t, a) == \E k \in DOMAIN TxIn[t] : TxIn[t][k] = AgentAddr[a]

\* What an agent asks of a transaction beside the payment, if `known` are the
\* agents that are known to the relayer.
Acceptable(t, a, known) ==
  IF HasEthAddr[a] THEN \A b \in known : ~Spends(t, b) ELSE HasOpReturn(t)

\* t is a deposit to a founder whichever of the other agents are in the list.
FounderDeposit(t) ==
  \E i \in DOMAIN TxOut[t], f \in Founder :
    /\ Pays(t, i, f)
    /\ \A g \in 1..(f - 1) : ~Pays(t, i, g)
    /\ \A j \in 1..(i - 1), a \in Agent : ~Pays(t, j, a)
    /\ Acceptable(t, f, Agent)

\* t is a deposit to agent a for some set of agents that holds the founders.
Justified(t, a) ==
  \E i \in DOMAIN TxOut[t] :
    /\ Pays(t, i, a)
    /\ \A f \in Founder : f < a => ~Pays(t, i, f)
    /\ \A j \in 1..(i - 1), f \in Founder : ~Pays(t, j, f)
    /\ Acceptable(t, a, Founder)

\* The row says what t pays, and to whom.
IsDeposit(t, row) ==
  /\ row.agent \in Agent
  /\ Justified(t, row.agent)
  /\ row.addr = AgentAddr[row.agent]
  /\ row.amount = ExtractPaymentTo(t, row.addr)

(* No deposit is passed over: every deposit to a founder in a block that   *)
(* the sync point has passed has its row, whatever crashed, failed, was    *)
(* reorganised or changed in the agent list on the way.  (scanBlockLoop    *)
(* stores the rows before it moves the sync point)                         *)
NoGap ==
  \A h \in Height, t \in Tx :
    /\ StartBlockHeight < h /\ h <= syncPoint
    /\ InBlock(t, h)
    /\ FounderDeposit(t)
    => HasRow(t)

(* A row is about a transaction of Bitcoin's best chain, at the height it  *)
(* says, under at least Delay blocks: a reorganisation between reading the *)
(* tip and reading the block cannot make the row point to an abandoned     *)
(* block.  (the distance kept by scanBlockLoop)                            *)
RowsCanonical ==
  \A t \in Tx : HasRow(t) =>
    /\ db[t].height \in Height
    /\ db[t].height + Delay <= tip
    /\ InBlock(t, db[t].height)

(* A row is a deposit to the agent it names, in the amount paid to that    *)
(* agent: no output to a founder comes before, and a deposit to an agent   *)
(* with an Ethereum address spends no founder's coins.  (the filter        *)
(* getValidDepositTxs, reading the agent list anew for every address)      *)
RowsJustified == \A t \in Tx : HasRow(t) => IsDeposit(t, db[t])

(* With a list of agents that never changes the filter picks exactly the   *)
(* deposits: the first output to an agent decides, and the inputs or the   *)
(* OP_RETURN of the transaction.  (getValidDepositTxs against its          *)
(* declarative reading)                                                    *)
FilterExact ==
  scan.pc = "insert" =>
    \A t \in Tx : (scan.found[t] # NoRow) <=> (InBody(t, scan.body) /\ FounderDeposit(t))

(* A row that is there is left alone when its block is scanned again, even *)
(* if the agent list would now give another agent.  (hasDepositTxByTxid)   *)
RowsKept == [][\A t \in Tx : HasRow(t) => db'[t] = db[t]]_db

(* The sync point never goes back and never skips a block once it is set.  *)
SyncPointByOne ==
  [][syncPoint # 0 => syncPoint' \in {syncPoint, syncPoint + 1}]_syncPoint

(* The scanner catches up with every block that is buried deep enough.     *)
CatchUp == \A h \in Height : (tip >= h + Delay) ~> (syncPoint >= h)
=============================================================================
