--------------------------- MODULE BnbRelayerProofs ---------------------------
(***************************************************************************)
(* The BNB relayer loses no stake, registers none too early, and           *)
(* implements the abstract ledger: for every chain, range and cache size,  *)
(* number of crashes, and every pattern of failing, late and lost calls,   *)
(* from one inductive invariant, BnbInv.                                   *)
(***************************************************************************)
EXTENDS BnbRelayer, SequenceTheorems, TLAPS

\* An event of a buried block of the best chain.
OnChain(e) ==
  /\ e.block.height + Delay <= tip
  /\ e.block.body = chain[e.block.height]
  /\ e.tx \in e.block.body

\* Every stake of the range has been seen; it is done, or still to do.
RangeSeen ==
  \A h \in Height, t \in Stake :
    syncPoint < h /\ h <= scan.end /\ InBlock(t, h) =>
      \E e \in scan.todo \cup scan.found : e.tx = t

\* The round in hand: its range follows the sync point and is buried, what it
\* collected is on the chain, and before the sync point moves it is stored.
RoundInv ==
  /\ scan.pc # "poll" => /\ up
                         /\ scan.start = syncPoint + 1
                         /\ scan.end + Delay <= tip
  /\ \A e \in scan.todo \cup scan.found : OnChain(e)
  /\ scan.pc \in {"receipts", "insert", "update"} => RangeSeen
  /\ scan.pc \in {"insert", "update"} => scan.todo = {}
  /\ scan.pc = "update" => \A e \in scan.found : HasRow(e.tx)

\* What the submit goroutine works off is still pending.
BatchInv == \A t \in sub.batch : IsPending(t)

SyncInv == syncPoint <= StartBlockHeight \/ syncPoint + Delay <= tip

\* A row marked Success has been minted.
SuccessIsMinted ==
  \A t \in Stake : HasRow(t) /\ db[t].status = StatusSuccess => t \in records

\* What holds of the table and the sync point, whatever the goroutines do.
StoreInv == SyncInv /\ NoStakeLost /\ RowsOnChain /\ SuccessIsMinted

BnbInv == BnbTypeOK /\ StoreInv /\ RoundInv /\ BatchInv

-----------------------------------------------------------------------------
\* The bounds are numbers.
LEMMA Numbers ==
  /\ Delay \in Nat /\ MaxHeight \in Nat /\ StartBlockHeight \in Nat
  /\ RangeSize \in Nat \ {0} /\ CacheSize \in Nat \ {0}
  /\ \A h \in Height : h \in Nat /\ 1 <= h /\ h <= MaxHeight
BY BnbAssumption DEF Height

(* The process starts, and starts again, with nothing in hand.             *)
LEMMA IdleOK ==
  /\ ScanIdle \in ScanState /\ ScanIdle.pc = "poll"
  /\ ScanIdle.todo = {} /\ ScanIdle.found = {}
  /\ SubIdle \in SubState /\ SubIdle.batch = {}
BY DEF ScanIdle, SubIdle, ScanState, SubState

(* Between two rounds nothing is asked of the scan.                        *)
LEMMA IdleRound ==
  ASSUME scan' = ScanIdle
  PROVE  RoundInv'
BY IdleOK DEF RoundInv

(* It holds before the process has ever run.                               *)
LEMMA BnbInvInit == BnbInit => BnbInv
<1> SUFFICES ASSUME BnbInit PROVE BnbInv
  OBVIOUS
<1> USE Numbers DEF BnbInit
<1>1. \A t \in Stake : db[t] = NoRow /\ ~HasRow(t)
  BY DEF HasRow
<1>2. BnbTypeOK
  <2>1. cache \in Seq(Answer) /\ Len(cache) = 0 BY EmptySeq, LenProperties
  <2>2. chain \in [Height -> Bodies \cup {{}}] OBVIOUS
  <2>3. crashes \in 0..MaxCrashes BY BnbAssumption
  <2>4. db \in [Stake -> Row \cup {NoRow}] OBVIOUS
  <2>5. Len(cache) <= CacheSize BY <2>1
  <2>6. tip \in 0..MaxHeight /\ lorenzoTip \in 0..tip OBVIOUS
  <2> QED BY <2>1, <2>2, <2>3, <2>4, <2>5, <2>6, IdleOK DEF BnbTypeOK
<1>3. RoundInv /\ BatchInv
  BY IdleOK DEF RoundInv, BatchInv
<1>4. StoreInv
  BY <1>1 DEF StoreInv, SyncInv, NoStakeLost, RowsOnChain, SuccessIsMinted
<1> QED BY <1>2, <1>3, <1>4 DEF BnbInv

-----------------------------------------------------------------------------
\* What a step that leaves a part alone keeps.

(* A step that leaves the chain, the table and the sync point alone.       *)
LEMMA StoreKept ==
  ASSUME StoreInv, UNCHANGED <<chainVars, storeVars>>, records \subseteq records'
  PROVE  StoreInv'
BY DEF StoreInv, SyncInv, NoStakeLost, RowsOnChain, SuccessIsMinted, HasRow, InBlock,
       chainVars, storeVars

(* A step of somebody else, which may add rows.                            *)
LEMMA RoundKept ==
  ASSUME RoundInv, UNCHANGED <<chainVars, syncPoint, scan>>, up => up',
         \A t \in Stake : HasRow(t) => HasRow(t)', scan.found \subseteq Event
  PROVE  RoundInv'
<1>1. \A e \in scan.found : e.tx \in Stake BY DEF Event
<1> QED BY <1>1 DEF RoundInv, RangeSeen, OnChain, InBlock, chainVars

(* A step that leaves the table and the batch alone.                       *)
LEMMA BatchKept ==
  ASSUME BatchInv, UNCHANGED <<db, sub>>
  PROVE  BatchInv'
BY DEF BatchInv, IsPending, HasRow

-----------------------------------------------------------------------------
\* The chain and the process.

(* The chain changes above every height that anything is known about.      *)
LEMMA ExtendKeeps ==
  ASSUME NEW d \in 0..MaxReorg, BnbInv, Extend(d)
  PROVE  BnbInv'
<1> USE Numbers
<1>1. /\ d <= tip /\ tip < MaxHeight /\ tip' = tip + 1
      /\ UNCHANGED <<storeVars, cache, scan, sub, lorenzoVars, processVars>>
  BY DEF Extend
<1>2. PICK branch \in [(tip - d + 1)..(tip + 1) -> Bodies] :
        chain' = [h \in Height |-> IF h \in DOMAIN branch THEN branch[h] ELSE chain[h]]
  BY DEF Extend
<1>3. tip \in 0..MaxHeight /\ chain \in [Height -> Bodies \cup {{}}]
  BY DEF BnbInv, BnbTypeOK
<1>4. chain' \in [Height -> Bodies \cup {{}}]
  BY <1>2, <1>3
<1>5. \A h \in Height : h + Delay <= tip => h \notin (tip - d + 1)..(tip + 1)
  BY <1>3, BnbAssumption
<1>6. \A h \in Height : h + Delay <= tip => chain'[h] = chain[h] /\ h + Delay <= tip'
  BY <1>1, <1>2, <1>3, <1>5
<1>7. BnbTypeOK'
  BY <1>1, <1>3, <1>4 DEF BnbInv, BnbTypeOK, storeVars, lorenzoVars, processVars
<1>8. syncPoint \in Nat /\ scan.end \in Nat /\ \A e \in scan.todo \cup scan.found : e \in Event
  BY DEF BnbInv, BnbTypeOK, ScanState
<1>9. StoreInv'
  <2>1. SyncInv' BY <1>1, <1>3, <1>8 DEF BnbInv, StoreInv, SyncInv, storeVars
  <2>2. NoStakeLost'
    <3> SUFFICES ASSUME NEW h \in Height, NEW t \in Stake, StartBlockHeight < h,
                        h <= syncPoint, t \in chain'[h]
                 PROVE  HasRow(t)
      BY <1>1 DEF NoStakeLost, HasRow, InBlock, storeVars
    <3>1. h + Delay <= tip BY <1>3, <1>8 DEF BnbInv, StoreInv, SyncInv
    <3> QED BY <3>1, <1>6 DEF BnbInv, StoreInv, NoStakeLost, InBlock
  <2>3. RowsOnChain'
    <3> SUFFICES ASSUME NEW t \in Stake, HasRow(t)
                 PROVE  db[t].height + Delay <= tip' /\ t \in chain'[db[t].height]
      BY <1>1 DEF RowsOnChain, HasRow, InBlock, storeVars
    <3>1. db[t].height \in Height BY DEF BnbInv, BnbTypeOK, HasRow, Row
    <3> QED BY <3>1, <1>6 DEF BnbInv, StoreInv, RowsOnChain, InBlock
  <2>4. SuccessIsMinted'
    BY <1>1 DEF BnbInv, StoreInv, SuccessIsMinted, HasRow, storeVars, lorenzoVars
  <2> QED BY <2>1, <2>2, <2>3, <2>4 DEF StoreInv
<1>10. RoundInv'
  <2>1. scan.pc # "poll" => up' /\ scan'.start = syncPoint' + 1 /\ scan'.end + Delay <= tip'
    BY <1>1, <1>3, <1>8 DEF BnbInv, RoundInv, storeVars, processVars
  <2>2. ASSUME NEW e \in scan.todo \cup scan.found PROVE OnChain(e)'
    <3>1. e.block.height \in Height BY <1>8 DEF Event, Block
    <3>2. OnChain(e) BY DEF BnbInv, RoundInv
    <3> QED BY <3>1, <3>2, <1>6 DEF OnChain
  <2>3. scan.pc \in {"receipts", "insert", "update"} => RangeSeen'
    <3> SUFFICES ASSUME scan.pc \in {"receipts", "insert", "update"},
                        NEW h \in Height, NEW t \in Stake,
                        syncPoint < h, h <= scan.end, t \in chain'[h]
                 PROVE  \E e \in scan.todo \cup scan.found : e.tx = t
      BY <1>1 DEF RangeSeen, InBlock, storeVars
    <3>1. h + Delay <= tip BY <1>3, <1>8 DEF BnbInv, RoundInv
    <3> QED BY <3>1, <1>6 DEF BnbInv, RoundInv, RangeSeen, InBlock
  <2> QED BY <2>1, <2>2, <2>3, <1>1 DEF BnbInv, RoundInv, HasRow, storeVars
<1>11. BatchInv' BY <1>1, BatchKept DEF BnbInv, storeVars
<1> QED BY <1>7, <1>9, <1>10, <1>11 DEF BnbInv

(* A start begins both loops, at the sync point that is stored.            *)
LEMMA BootKeeps == BnbInv /\ Boot => BnbInv'
<1> SUFFICES ASSUME BnbInv, Boot PROVE BnbInv'
  OBVIOUS
<1> USE Numbers DEF chainVars, lorenzoVars
<1>1. /\ ~up /\ up' = TRUE
      /\ syncPoint' = (IF syncPoint = 0 THEN StartBlockHeight ELSE syncPoint)
      /\ UNCHANGED <<chainVars, db, cache, scan, sub, lorenzoVars, crashes>>
  BY DEF Boot
<1>2. BnbTypeOK' BY <1>1 DEF BnbInv, BnbTypeOK
<1>3. StoreInv'
  BY <1>1 DEF BnbInv, BnbTypeOK, StoreInv, SyncInv, NoStakeLost, RowsOnChain,
              SuccessIsMinted, HasRow, InBlock
<1>4. RoundInv'
  BY <1>1 DEF BnbInv, RoundInv, OnChain
<1> QED BY <1>1, <1>2, <1>3, <1>4, BatchKept DEF BnbInv

(* A crash loses the round and the batch, and nothing else.                *)
LEMMA CrashKeeps == BnbInv /\ Crash => BnbInv'
<1> SUFFICES ASSUME BnbInv, Crash PROVE BnbInv'
  OBVIOUS
<1> USE DEF chainVars, storeVars, lorenzoVars
<1>1. /\ crashes < MaxCrashes /\ crashes' = crashes + 1 /\ up' = FALSE
      /\ cache' = <<>> /\ scan' = ScanIdle /\ sub' = SubIdle
      /\ UNCHANGED <<chainVars, storeVars, lorenzoVars>>
  BY DEF Crash
<1>2. BnbTypeOK'
  <2>1. crashes' \in 0..MaxCrashes
    BY <1>1, BnbAssumption DEF BnbInv, BnbTypeOK
  <2>2. cache' \in Seq(Answer) /\ Len(cache') <= CacheSize BY <1>1, Numbers
  <2> QED BY <1>1, <2>1, <2>2, IdleOK DEF BnbInv, BnbTypeOK
<1>3. RoundInv' /\ BatchInv' BY <1>1, IdleRound, IdleOK DEF BatchInv
<1> QED BY <1>1, <1>2, <1>3, StoreKept DEF BnbInv

-----------------------------------------------------------------------------
\* The receipts cache.

CacheOK == cache \in Seq(Answer) /\ Len(cache) <= CacheSize

(* Using an entry leaves as many as there were.                            *)
LEMMA GetKeepsCache ==
  ASSUME CacheOK, NEW i \in DOMAIN cache, CacheGet(i)
  PROVE  CacheOK'
<1>1. /\ cache \in Seq(Answer) /\ Len(cache) \in Nat /\ i \in 1..Len(cache)
      /\ cache[i] \in Answer
  BY DEF CacheOK
<1>2. /\ SubSeq(cache, 1, i - 1) \in Seq(Answer) /\ Len(SubSeq(cache, 1, i - 1)) = i - 1
  BY <1>1, SubSeqProperties
<1>3. /\ SubSeq(cache, i + 1, Len(cache)) \in Seq(Answer)
      /\ Len(SubSeq(cache, i + 1, Len(cache))) = Len(cache) - i
  BY <1>1, SubSeqProperties
<1>4. RemoveAt(cache, i) \in Seq(Answer) /\ Len(RemoveAt(cache, i)) = Len(cache) - 1
  <2> DEFINE low == SubSeq(cache, 1, i - 1)
             high == SubSeq(cache, i + 1, Len(cache))
  <2>1. RemoveAt(cache, i) = low \o high BY DEF RemoveAt
  <2>2. low \in Seq(Answer) /\ Len(low) = i - 1 BY <1>2
  <2>3. high \in Seq(Answer) /\ Len(high) = Len(cache) - i BY <1>3
  <2> HIDE DEF low, high
  <2>4. low \o high \in Seq(Answer) /\ Len(low \o high) = Len(low) + Len(high)
    BY <2>2, <2>3, ConcatProperties
  <2> QED BY <1>1, <2>1, <2>2, <2>3, <2>4
<1>5. <<cache[i]>> \in Seq(Answer) /\ Len(<<cache[i]>>) = 1
  BY <1>1
<1>6. cache' \in Seq(Answer) /\ Len(cache') = Len(cache)
  BY <1>1, <1>4, <1>5, ConcatProperties DEF CacheGet
<1> QED BY <1>6 DEF CacheOK

(* Adding one makes room for it.                                           *)
LEMMA AddKeepsCache ==
  ASSUME CacheOK, NEW entry \in Answer, CacheAdd(entry)
  PROVE  CacheOK'
<1> USE Numbers
<1>1. /\ cache \in Seq(Answer) /\ Len(cache) \in Nat /\ Len(cache) <= CacheSize
  BY DEF CacheOK
<1>2. <<entry>> \in Seq(Answer) /\ Len(<<entry>>) = 1
  OBVIOUS
<1>3. CASE Len(cache) = CacheSize
  <2>1. Front(cache) \in Seq(Answer) /\ Len(Front(cache)) = Len(cache) - 1
    BY <1>1, <1>3, SubSeqProperties DEF Front
  <2>2. cache' = <<entry>> \o Front(cache) BY <1>3 DEF CacheAdd
  <2> QED BY <1>1, <1>2, <1>3, <2>1, <2>2, ConcatProperties DEF CacheOK
<1>4. CASE Len(cache) # CacheSize
  <2>1. cache' = <<entry>> \o cache BY <1>4 DEF CacheAdd
  <2> QED BY <1>1, <1>2, <1>4, <2>1, ConcatProperties DEF CacheOK
<1> QED BY <1>3, <1>4

-----------------------------------------------------------------------------
\* scanLoop until the round has collected its range.

(* A step of the scan that leaves the table and the sync point alone.      *)
LEMMA ScanStep ==
  ASSUME BnbInv, UNCHANGED <<besideScan, storeVars>>,
         CacheOK', scan' \in ScanState, RoundInv'
  PROVE  BnbInv'
<1> USE DEF besideScan, storeVars, lorenzoVars, processVars
<1>1. BnbTypeOK' BY DEF BnbInv, BnbTypeOK, CacheOK, chainVars
<1>2. StoreInv' BY StoreKept DEF BnbInv
<1>3. BatchInv' BY BatchKept DEF BnbInv
<1> QED BY <1>1, <1>2, <1>3 DEF BnbInv

(* A round that any error ends has changed nothing.                        *)
LEMMA GiveUpKeeps ==
  ASSUME BnbInv, UNCHANGED <<besideScan, storeVars>>, CacheOK', GiveUp
  PROVE  BnbInv'
BY ScanStep, IdleRound, IdleOK DEF GiveUp

(* The range ends Delay blocks under the tip at the latest.                *)
LEMMA PollKeeps == BnbInv /\ Poll => BnbInv'
<1> SUFFICES ASSUME BnbInv, Poll PROVE BnbInv'
  OBVIOUS
<1> USE Numbers
<1> DEFINE end == IF tip - Delay - syncPoint > RangeSize THEN syncPoint + RangeSize
                  ELSE tip - Delay
<1>1. /\ up /\ syncPoint + Delay < tip
      /\ scan' = [ScanIdle EXCEPT !.pc = "events", !.start = syncPoint + 1, !.end = end]
      /\ UNCHANGED <<besideScan, storeVars, cache>>
  BY DEF Poll
<1>2. tip \in Nat /\ syncPoint \in Nat BY DEF BnbInv, BnbTypeOK
<1>3. end \in Nat /\ end + Delay <= tip BY <1>1, <1>2
<1> HIDE DEF end
<1>4. /\ scan' \in ScanState /\ scan'.pc = "events" /\ scan'.start = syncPoint + 1
      /\ scan'.end = end /\ scan'.todo = {} /\ scan'.found = {}
  <2>1. scan' = [pc |-> "events", start |-> syncPoint + 1, end |-> end, todo |-> {},
                 found |-> {}]
    BY <1>1 DEF ScanIdle
  <2> QED BY <1>2, <1>3, <2>1 DEF ScanState
<1>5. RoundInv'
  BY <1>1, <1>3, <1>4 DEF RoundInv, besideScan, storeVars, chainVars, processVars
<1>6. CacheOK' BY <1>1 DEF BnbInv, BnbTypeOK, CacheOK
<1> QED BY <1>1, <1>4, <1>5, <1>6, ScanStep

(* The logs of the range are all its events.                               *)
LEMMA GetEventsKeeps == BnbInv /\ GetEvents => BnbInv'
<1> SUFFICES ASSUME BnbInv, GetEvents PROVE BnbInv'
  OBVIOUS
<1> USE Numbers
<1> DEFINE events == {e \in Event : /\ e.block.height \in scan.start..scan.end
                                    /\ e.block.body = chain[e.block.height]
                                    /\ e.tx \in e.block.body}
           next == IF events = {} THEN "insert" ELSE "receipts"
<1>1. /\ scan.pc = "events"
      /\ scan' = [scan EXCEPT !.pc = next, !.todo = events]
      /\ UNCHANGED <<besideScan, storeVars, cache>>
  BY DEF GetEvents
<1>2. /\ scan \in ScanState /\ scan.start = syncPoint + 1 /\ scan.end + Delay <= tip /\ up
      /\ syncPoint \in Nat /\ tip \in Nat /\ scan.end \in Nat
      /\ chain \in [Height -> Bodies \cup {{}}]
  BY <1>1 DEF BnbInv, BnbTypeOK, RoundInv, ScanState
<1>3. events \subseteq Event /\ next \in {"insert", "receipts"}
      /\ (next = "insert" => events = {})
  OBVIOUS
<1>4. \A e \in events : OnChain(e)
  <2> SUFFICES ASSUME NEW e \in events PROVE OnChain(e)
    OBVIOUS
  <2>1. e.block.height \in Height /\ e.block.height <= scan.end
    BY <1>2 DEF Event, Block
  <2> QED BY <1>2, <2>1 DEF OnChain
<1>5. ASSUME NEW h \in Height, NEW t \in Stake, syncPoint < h, h <= scan.end, InBlock(t, h)
      PROVE  \E e \in events : e.tx = t
  <2> DEFINE e == [tx |-> t, block |-> [height |-> h, body |-> chain[h]]]
  <2>1. chain[h] \subseteq Stake BY <1>2, BnbAssumption
  <2>2. e \in Event BY <2>1 DEF Event, Block
  <2>3. e \in events BY <1>2, <1>5, <2>2 DEF InBlock
  <2> QED BY <2>3
<1> HIDE DEF events, next
<1>6. /\ scan' \in ScanState /\ scan'.pc = next /\ scan'.todo = events
      /\ scan'.found = scan.found /\ scan'.start = scan.start /\ scan'.end = scan.end
  BY <1>1, <1>2, <1>3 DEF ScanState
<1>7. RoundInv'
  <2>1. UNCHANGED <<chainVars, syncPoint, up>>
    BY <1>1 DEF besideScan, storeVars, processVars
  <2>2. \A e \in scan'.todo \cup scan'.found : OnChain(e)'
    BY <1>4, <1>6, <2>1 DEF BnbInv, RoundInv, OnChain, chainVars
  <2>3. RangeSeen'
    BY <1>5, <1>6, <2>1 DEF RangeSeen, InBlock, chainVars
  <2> QED BY <1>2, <1>3, <1>6, <2>1, <2>2, <2>3 DEF RoundInv, chainVars
<1>8. CacheOK' BY <1>1 DEF BnbInv, BnbTypeOK, CacheOK
<1> QED BY <1>1, <1>6, <1>7, <1>8, ScanStep

(* An event goes from those to do to those found.                          *)
LEMMA CollectKeeps ==
  ASSUME BnbInv, scan.pc = "receipts", NEW e \in scan.todo, Collect(e), CacheOK',
         UNCHANGED <<besideScan, storeVars>>
  PROVE  BnbInv'
<1> DEFINE next == IF scan.todo = {e} THEN "insert" ELSE "receipts"
<1>1. scan' = [scan EXCEPT !.pc = next, !.todo = scan.todo \ {e},
                           !.found = scan.found \cup {e}]
  BY DEF Collect
<1>2. scan \in ScanState /\ scan.todo \subseteq Event
  BY DEF BnbInv, BnbTypeOK, ScanState
<1>3. next \in {"insert", "receipts"} /\ (next = "insert" => scan.todo = {e})
  OBVIOUS
<1> HIDE DEF next
<1>4. /\ scan' \in ScanState /\ scan'.pc = next /\ scan'.todo = scan.todo \ {e}
      /\ scan'.found = scan.found \cup {e}
      /\ scan'.start = scan.start /\ scan'.end = scan.end
  BY <1>1, <1>2, <1>3 DEF ScanState
<1>5. scan'.todo \cup scan'.found = scan.todo \cup scan.found
  BY <1>4
<1>6. RoundInv'
  BY <1>3, <1>4, <1>5
  DEF BnbInv, RoundInv, RangeSeen, OnChain, InBlock, besideScan, storeVars, chainVars,
      processVars
<1> QED BY <1>4, <1>6, ScanStep

(* The receipts of an event, from the cache or the node.                   *)
LEMMA ReceiptsKeep ==
  ASSUME BnbInv, NEW e \in scan.todo,
         GetCachedReceipts(e) \/ GetReceipts(e) \/ ReceiptsNotFound(e) \/ GetReceiptsFails(e)
  PROVE  BnbInv'
<1>1. /\ UNCHANGED <<besideScan, storeVars>> /\ scan.pc = "receipts"
      /\ GiveUp \/ Collect(e)
  BY DEF GetCachedReceipts, GetReceipts, ReceiptsNotFound, GetReceiptsFails
<1>2. CacheOK'
  <2>1. CacheOK BY DEF BnbInv, BnbTypeOK, CacheOK
  <2>2. e.block \in Block /\ e.block.body \subseteq Stake
    BY DEF BnbInv, BnbTypeOK, ScanState, Event, Block
  <2>3. /\ [block |-> e.block, receipts |-> e.block.body] \in Answer
        /\ [block |-> e.block, receipts |-> {}] \in Answer
    BY <2>2 DEF Answer
  <2>4. CASE GetCachedReceipts(e)
    BY <2>1, <2>4, GetKeepsCache DEF GetCachedReceipts
  <2>5. CASE GetReceipts(e) \/ GetReceiptsFails(e)
    BY <2>1, <2>3, <2>5, AddKeepsCache DEF GetReceipts, GetReceiptsFails
  <2>6. CASE ReceiptsNotFound(e)
    BY <2>1, <2>6 DEF ReceiptsNotFound, CacheOK
  <2> QED BY <2>4, <2>5, <2>6
<1> QED BY <1>1, <1>2, GiveUpKeeps, CollectKeeps

-----------------------------------------------------------------------------
\* scanLoop: storing what was collected.

(* The insert adds a pending row for each stake found, and no other.       *)
LEMMA InsertedRows ==
  ASSUME BnbInv
  PROVE  /\ Inserted \in [Stake -> Row \cup {NoRow}]
         /\ \A t \in Stake : HasRow(t) => Inserted[t] = db[t]
         /\ \A t \in Stake : ~HasRow(t) /\ Inserted[t] # NoRow =>
              \E e \in scan.found : /\ e.tx = t
                                    /\ Inserted[t] = [height |-> e.block.height,
                                                      status |-> StatusPending]
         /\ \A e \in scan.found : Inserted[e.tx] # NoRow
<1>1. db \in [Stake -> Row \cup {NoRow}] /\ scan.found \subseteq Event
  BY DEF BnbInv, BnbTypeOK, ScanState
<1>2. ASSUME NEW t \in Stake, db[t] = NoRow, \E e \in scan.found : e.tx = t
      PROVE  /\ Inserted[t] \in Row
             /\ \E e \in scan.found : /\ e.tx = t
                                      /\ Inserted[t] = [height |-> e.block.height,
                                                        status |-> StatusPending]
  <2> DEFINE e == CHOOSE x \in scan.found : x.tx = t
  <2>1. e \in scan.found /\ e.tx = t BY <1>2
  <2>2. Inserted[t] = [height |-> e.block.height, status |-> StatusPending]
    BY <1>2 DEF Inserted
  <2> HIDE DEF e
  <2>3. e.block.height \in Height BY <1>1, <2>1 DEF Event, Block
  <2> QED BY <2>1, <2>2, <2>3 DEF Row
<1>3. ASSUME NEW t \in Stake, ~(db[t] = NoRow /\ \E e \in scan.found : e.tx = t)
      PROVE  Inserted[t] = db[t]
  BY <1>3 DEF Inserted
<1>4. \A t \in Stake : Inserted[t] \in Row \cup {NoRow}
  BY <1>1, <1>2, <1>3
<1>5. Inserted = [t \in Stake |-> Inserted[t]]
  BY DEF Inserted
<1>6. \A e \in scan.found : e.tx \in Stake BY <1>1 DEF Event
<1>7. Inserted \in [Stake -> Row \cup {NoRow}] BY <1>4, <1>5
<1>8. \A t \in Stake : HasRow(t) => Inserted[t] = db[t] BY <1>3 DEF HasRow
<1>9. \A e \in scan.found : Inserted[e.tx] # NoRow
  BY <1>2, <1>3, <1>6, RowAssumption
<1> HIDE DEF Inserted
<1> QED BY <1>2, <1>3, <1>7, <1>8, <1>9 DEF HasRow

(* So the table is as right as before, and no pending row is lost.         *)
LEMMA InsertStore ==
  ASSUME BnbInv, db' = Inserted, UNCHANGED <<chainVars, syncPoint, records>>
  PROVE  StoreInv' /\ \A t \in Stake : HasRow(t) => HasRow(t)' /\ db'[t] = db[t]
<1> USE DEF chainVars
<1>1. \A t \in Stake : HasRow(t) => HasRow(t)' /\ db'[t] = db[t]
  BY InsertedRows DEF HasRow
<1>2. ASSUME NEW t \in Stake, ~HasRow(t), HasRow(t)'
      PROVE  /\ db'[t].status = StatusPending
             /\ db'[t].height + Delay <= tip /\ t \in chain[db'[t].height]
  <2>1. PICK e \in scan.found : /\ e.tx = t
                                /\ db'[t] = [height |-> e.block.height,
                                             status |-> StatusPending]
    BY <1>2, InsertedRows DEF HasRow
  <2>2. OnChain(e) BY DEF BnbInv, RoundInv
  <2>3. db'[t].height = e.block.height /\ db'[t].status = StatusPending BY <2>1
  <2> QED BY <2>1, <2>2, <2>3 DEF OnChain
<1>3. SyncInv' /\ NoStakeLost'
  BY <1>1 DEF BnbInv, StoreInv, SyncInv, NoStakeLost, InBlock
<1>4. RowsOnChain'
  BY <1>1, <1>2 DEF BnbInv, StoreInv, RowsOnChain, InBlock
<1>5. SuccessIsMinted'
  <2>1. StatusPending # StatusSuccess BY DEF StatusPending, StatusSuccess
  <2> QED BY <1>1, <1>2, <2>1 DEF BnbInv, StoreInv, SuccessIsMinted
<1> QED BY <1>1, <1>3, <1>4, <1>5 DEF StoreInv

(* A step that stores, or tries to store, the rows of the round.           *)
LEMMA InsertStep ==
  ASSUME BnbInv, UNCHANGED <<besideScan, syncPoint, cache>>, db' \in {db, Inserted},
         scan' \in ScanState, RoundInv'
  PROVE  BnbInv'
<1> USE DEF besideScan, chainVars, lorenzoVars, processVars
<1>1. db' \in [Stake -> Row \cup {NoRow}]
  BY InsertedRows DEF BnbInv, BnbTypeOK
<1>2. BnbTypeOK' BY <1>1 DEF BnbInv, BnbTypeOK
<1>3. CASE db' = db
  BY <1>2, <1>3, StoreKept, BatchKept DEF BnbInv, storeVars
<1>4. CASE db' = Inserted
  <2>1. StoreInv' /\ \A t \in Stake : HasRow(t) => HasRow(t)' /\ db'[t] = db[t]
    BY <1>4, InsertStore
  <2>2. \A t \in sub.batch : t \in Stake BY DEF BnbInv, BnbTypeOK, SubState
  <2>3. BatchInv' BY <2>1, <2>2 DEF BnbInv, BatchInv, IsPending
  <2> QED BY <1>2, <2>1, <2>3 DEF BnbInv
<1> QED BY <1>3, <1>4

(* The insert, though its answer may be lost, stores what was collected.   *)
LEMMA InsertKeeps == BnbInv /\ (Insert \/ InsertFails) => BnbInv'
<1> SUFFICES ASSUME BnbInv, Insert \/ InsertFails PROVE BnbInv'
  OBVIOUS
<1>1. CASE Insert
  <2>1. /\ scan.pc = "insert" /\ db' = Inserted /\ scan' = [scan EXCEPT !.pc = "update"]
        /\ UNCHANGED <<besideScan, syncPoint, cache>>
    BY <1>1 DEF Insert
  <2>2. /\ scan' \in ScanState /\ scan'.pc = "update" /\ scan'.todo = scan.todo
        /\ scan'.found = scan.found /\ scan'.start = scan.start /\ scan'.end = scan.end
    BY <2>1 DEF BnbInv, BnbTypeOK, ScanState
  <2>3. \A e \in scan.found : HasRow(e.tx)'
    BY <2>1, InsertedRows DEF HasRow
  <2>4. RoundInv'
    BY <2>1, <2>2, <2>3
    DEF BnbInv, RoundInv, RangeSeen, OnChain, InBlock, besideScan, chainVars, processVars
  <2> QED BY <2>1, <2>2, <2>4, InsertStep
<1>2. CASE InsertFails
  BY <1>2, InsertStep, IdleRound, IdleOK DEF InsertFails, GiveUp
<1> QED BY <1>1, <1>2

(* The sync point moves over a range whose stakes are stored.              *)
LEMMA UpdateKeeps == BnbInv /\ (Update \/ UpdateFails) => BnbInv'
<1> SUFFICES ASSUME BnbInv, Update \/ UpdateFails PROVE BnbInv'
  OBVIOUS
<1> USE Numbers DEF besideScan, chainVars, lorenzoVars, processVars
<1>1. /\ scan.pc = "update" /\ scan' = ScanIdle /\ syncPoint' \in {syncPoint, scan.end}
      /\ UNCHANGED <<besideScan, db, cache>>
  BY DEF Update, UpdateFails, GiveUp
<1>2. /\ syncPoint \in Nat /\ scan.end \in Nat /\ tip \in Nat /\ scan.end + Delay <= tip
      /\ scan.todo = {} /\ RangeSeen /\ \A e \in scan.found : HasRow(e.tx)
  BY <1>1 DEF BnbInv, BnbTypeOK, ScanState, RoundInv
<1>3. BnbTypeOK' BY <1>1, <1>2, IdleOK DEF BnbInv, BnbTypeOK
<1>4. SyncInv' BY <1>1, <1>2 DEF BnbInv, StoreInv, SyncInv
<1>5. NoStakeLost'
  <2> SUFFICES ASSUME NEW h \in Height, NEW t \in Stake, StartBlockHeight < h,
                      h <= syncPoint', InBlock(t, h)
               PROVE  HasRow(t)
    BY <1>1 DEF NoStakeLost, HasRow, InBlock
  <2>1. CASE h <= syncPoint BY <2>1 DEF BnbInv, StoreInv, NoStakeLost
  <2>2. CASE syncPoint < h /\ h <= scan.end BY <2>2, <1>2 DEF RangeSeen
  <2> QED BY <1>1, <1>2, <2>1, <2>2
<1>6. RowsOnChain' /\ SuccessIsMinted'
  BY <1>1 DEF BnbInv, StoreInv, RowsOnChain, SuccessIsMinted, HasRow, InBlock
<1>7. RoundInv' /\ BatchInv' BY <1>1, IdleRound, BatchKept DEF BnbInv
<1> QED BY <1>3, <1>4, <1>5, <1>6, <1>7 DEF BnbInv, StoreInv

(* Every step of scanLoop keeps the invariant.                             *)
LEMMA ScanLoopKeeps == BnbInv /\ ScanLoop => BnbInv'
<1> SUFFICES ASSUME BnbInv, ScanLoop PROVE BnbInv'
  OBVIOUS
<1>1. CASE GetEventsFails
  BY <1>1, GiveUpKeeps DEF GetEventsFails, CacheOK, BnbInv, BnbTypeOK
<1> QED
  BY <1>1, PollKeeps, GetEventsKeeps, ReceiptsKeep, InsertKeeps, UpdateKeeps DEF ScanLoop

-----------------------------------------------------------------------------
\* Lorenzo.

(* Whatever Lorenzo does, it takes no record back.                         *)
LEMMA LorenzoKeeps == BnbInv /\ LorenzoNext => BnbInv'
<1> SUFFICES ASSUME BnbInv, LorenzoNext PROVE BnbInv'
  OBVIOUS
<1> USE Numbers DEF besideSub, processVars
<1>1. /\ UNCHANGED <<besideSub, db, sub>> /\ records \subseteq records'
      /\ lorenzoTip' \in 0..tip /\ records' \subseteq Stake /\ inflight' \subseteq Stake
  <2>1. /\ tip \in Nat /\ lorenzoTip \in 0..tip /\ records \subseteq Stake
        /\ inflight \subseteq Stake
    BY DEF BnbInv, BnbTypeOK
  <2>2. CASE NewHeader BY <2>1, <2>2 DEF NewHeader
  <2>3. CASE \E t \in Stake : OtherSubmitter(t) BY <2>1, <2>3 DEF OtherSubmitter
  <2>4. CASE \E t \in Stake : ExecuteLate(t) BY <2>1, <2>4 DEF ExecuteLate
  <2> QED BY <2>2, <2>3, <2>4 DEF LorenzoNext
<1>2. BnbTypeOK' BY <1>1 DEF BnbInv, BnbTypeOK, chainVars
<1>3. StoreInv' BY <1>1, StoreKept DEF BnbInv, storeVars
<1>4. scan.found \subseteq Event BY DEF BnbInv, BnbTypeOK, ScanState
<1>5. RoundInv' BY <1>1, <1>4, RoundKept DEF BnbInv, HasRow
<1>6. BatchInv' BY <1>1, BatchKept DEF BnbInv
<1> QED BY <1>2, <1>3, <1>5, <1>6 DEF BnbInv

-----------------------------------------------------------------------------
\* submitLoop.

(* The query takes the pending rows that Lorenzo can verify.               *)
LEMMA SubQueryKeeps == BnbInv /\ SubQuery => BnbInv'
<1> SUFFICES ASSUME BnbInv, SubQuery PROVE BnbInv'
  OBVIOUS
<1> USE DEF besideSub, processVars, lorenzoVars
<1> DEFINE batch == {t \in Stake : IsPending(t) /\ db[t].height <= lorenzoTip}
<1>1. /\ sub' = [pc |-> "row", batch |-> batch]
      /\ UNCHANGED <<besideSub, db, lorenzoVars>>
  BY DEF SubQuery
<1>2. sub' \in SubState /\ sub'.batch = batch BY <1>1 DEF SubState
<1>3. BnbTypeOK' BY <1>1, <1>2 DEF BnbInv, BnbTypeOK, chainVars
<1>4. StoreInv' BY <1>1, StoreKept DEF BnbInv, storeVars
<1>5. scan.found \subseteq Event BY DEF BnbInv, BnbTypeOK, ScanState
<1>6. RoundInv' BY <1>1, <1>5, RoundKept DEF BnbInv, HasRow
<1>7. BatchInv' BY <1>1, <1>2 DEF BatchInv, IsPending, HasRow
<1> QED BY <1>3, <1>4, <1>6, <1>7 DEF BnbInv

(* A send takes its row, which is pending, out of the batch.               *)
LEMMA SendTakes ==
  ASSUME BnbInv, NEW t \in Stake, Send(t)
  PROVE  /\ t \in sub.batch /\ IsPending(t)
         /\ sub' \in SubState /\ sub'.batch = sub.batch \ {t}
<1>1. t \in sub.batch /\ sub \in SubState /\ IsPending(t)
  BY DEF Send, BnbInv, BnbTypeOK, BatchInv
<1>2. CASE sub.batch = {t}
  BY <1>1, <1>2, IdleOK DEF Send
<1>3. CASE sub.batch # {t}
  <2>1. sub' = [sub EXCEPT !.batch = sub.batch \ {t}] BY <1>3 DEF Send
  <2> QED BY <1>1, <2>1 DEF SubState
<1> QED BY <1>1, <1>2, <1>3

(* An update of the status changes that of one row, to what it says.       *)
LEMMA MarkedRow ==
  ASSUME db \in [Stake -> Row \cup {NoRow}], NEW t \in Stake, IsPending(t),
         NEW status \in {StatusPending, StatusSuccess, StatusInvalid}, MarkOK(t, status)
  PROVE  /\ db' \in [Stake -> Row \cup {NoRow}]
         /\ \A u \in Stake : u # t => db'[u] = db[u]
         /\ HasRow(t)' /\ db'[t].height = db[t].height /\ db'[t].status = status
<1>1. db[t] \in Row BY DEF IsPending, HasRow
<1>2. db' = [db EXCEPT ![t] = [db[t] EXCEPT !.status = status]]
  BY DEF MarkOK
<1>3. /\ [db[t] EXCEPT !.status = status] \in Row
      /\ [db[t] EXCEPT !.status = status].height = db[t].height
      /\ [db[t] EXCEPT !.status = status].status = status
  BY <1>1 DEF Row
<1> QED BY <1>2, <1>3, RowAssumption DEF HasRow

(* Whatever Lorenzo answers, the row stays where it is; it is marked a     *)
(* success only if Lorenzo has minted for it.                              *)
LEMMA SentStep ==
  ASSUME BnbInv, NEW t \in Stake, Send(t), UNCHANGED lorenzoTip,
         records \subseteq records', records' \subseteq Stake, inflight' \subseteq Stake,
         \/ UNCHANGED db
         \/ t \in records /\ MarkOK(t, StatusSuccess)
         \/ MarkOK(t, StatusInvalid)
  PROVE  BnbInv'
<1> USE DEF besideSub, processVars
<1>1. UNCHANGED besideSub BY DEF Send
<1>2. /\ sub' \in SubState /\ sub'.batch = sub.batch \ {t} /\ IsPending(t)
      /\ sub.batch \subseteq Stake
  BY SendTakes DEF BnbInv, BnbTypeOK, SubState
<1>3. /\ db' \in [Stake -> Row \cup {NoRow}]
      /\ \A u \in Stake : u # t => db'[u] = db[u]
      /\ HasRow(t)' /\ db'[t].height = db[t].height
      /\ db'[t].status = StatusSuccess => t \in records
  <2>1. db \in [Stake -> Row \cup {NoRow}] BY DEF BnbInv, BnbTypeOK
  <2>2. CASE UNCHANGED db
    BY <1>2, <2>1, <2>2 DEF IsPending, HasRow, StatusPending, StatusSuccess
  <2>3. CASE t \in records /\ MarkOK(t, StatusSuccess)
    BY <1>2, <2>1, <2>3, MarkedRow
  <2>4. CASE MarkOK(t, StatusInvalid)
    BY <1>2, <2>1, <2>4, MarkedRow DEF StatusSuccess, StatusInvalid
  <2> QED BY <2>2, <2>3, <2>4
<1>4. BnbTypeOK' BY <1>1, <1>2, <1>3 DEF BnbInv, BnbTypeOK, chainVars
<1>5. /\ \A u \in Stake : HasRow(u)' <=> HasRow(u)
      /\ \A u \in Stake : HasRow(u) => db'[u].height = db[u].height
  BY <1>2, <1>3 DEF HasRow, IsPending
<1>6. StoreInv'
  <2>1. SyncInv' /\ NoStakeLost' /\ RowsOnChain'
    BY <1>1, <1>5 DEF BnbInv, StoreInv, SyncInv, NoStakeLost, RowsOnChain, InBlock, chainVars
  <2>2. SuccessIsMinted'
    BY <1>3, <1>5 DEF BnbInv, StoreInv, SuccessIsMinted
  <2> QED BY <2>1, <2>2 DEF StoreInv
<1>7. RoundInv'
  <2>1. scan.found \subseteq Event BY DEF BnbInv, BnbTypeOK, ScanState
  <2> QED BY <1>1, <1>5, <2>1, RoundKept DEF BnbInv
<1>8. BatchInv'
  <2> SUFFICES ASSUME NEW u \in sub.batch \ {t} PROVE IsPending(u)'
    BY <1>2 DEF BatchInv
  <2> QED BY <1>2, <1>3 DEF BnbInv, BatchInv, IsPending, HasRow
<1> QED BY <1>4, <1>6, <1>7, <1>8 DEF BnbInv

(* Every step of submitLoop keeps the invariant.                           *)
LEMMA SubmitLoopKeeps == BnbInv /\ SubmitLoop => BnbInv'
<1> SUFFICES ASSUME BnbInv, NEW t \in Stake, Sent(t) PROVE BnbInv'
  BY SubQueryKeeps DEF SubmitLoop
<1> USE DEF lorenzoVars
<1>1. records \subseteq Stake /\ inflight \subseteq Stake
  BY DEF BnbInv, BnbTypeOK
<1>2. CASE SubAccepted(t) BY <1>1, <1>2, SentStep DEF SubAccepted
<1>3. CASE SubDuplicate(t) BY <1>1, <1>3, SentStep DEF SubDuplicate, Mark
<1>4. CASE SubRetry(t) BY <1>1, <1>4, SentStep DEF SubRetry
<1>5. CASE SubRefused(t) BY <1>1, <1>5, SentStep DEF SubRefused, Mark
<1> QED BY <1>2, <1>3, <1>4, <1>5 DEF Sent

-----------------------------------------------------------------------------
\* The invariant, and what it says.

(* Every step keeps the invariant.                                         *)
LEMMA BnbInvNext == BnbInv /\ [BnbNext]_bnbVars => BnbInv'
<1> SUFFICES ASSUME BnbInv, [BnbNext]_bnbVars PROVE BnbInv'
  OBVIOUS
<1>1. CASE UNCHANGED bnbVars
  <2> USE DEF bnbVars, chainVars, storeVars, lorenzoVars, processVars
  <2>1. UNCHANGED <<besideScan, storeVars, cache, scan>> BY <1>1 DEF besideScan
  <2>2. scan.found \subseteq Event BY DEF BnbInv, BnbTypeOK, ScanState
  <2>3. RoundInv' BY <2>1, <2>2, RoundKept DEF BnbInv, HasRow, besideScan
  <2>4. CacheOK' /\ scan' \in ScanState
    BY <2>1 DEF BnbInv, BnbTypeOK, CacheOK
  <2> QED BY <2>1, <2>3, <2>4, ScanStep
<1> QED
  BY <1>1, ExtendKeeps, BootKeeps, CrashKeeps, ScanLoopKeeps, LorenzoKeeps, SubmitLoopKeeps
  DEF BnbNext

(* The invariant holds whatever the chain, the node, the database, Lorenzo *)
(* and the operating system do.                                            *)
THEOREM BnbInvariant == BnbSafety => []BnbInv
BY BnbInvInit, BnbInvNext, PTL DEF BnbSafety

(* Every variable keeps its type; the receipts cache, which the scan fills *)
(* without asking for its size, keeps its limit.  (NewBlockReceiptsCache)  *)
THEOREM BnbTypeCorrect == BnbSafety => []BnbTypeOK
BY BnbInvariant, PTL DEF BnbInv

(* No stake is passed over: a block that the sync point has passed has all *)
(* its rows, in spite of failing calls and crashes.  (scanLoop)            *)
THEOREM NoStakeEverLost == BnbSafety => []NoStakeLost
BY BnbInvariant, PTL DEF BnbInv, StoreInv

(* A row is about a transaction of the best chain under Delay blocks, for  *)
(* good: no reorganisation of up to Delay blocks takes it away.            *)
(* (the end of the range in scanLoop)                                      *)
THEOREM RowsAlwaysOnChain == BnbSafety => []RowsOnChain
BY BnbInvariant, PTL DEF BnbInv, StoreInv

(* A row is marked Success only when Lorenzo has minted for it, although   *)
(* the relayer learns it only from the error of a second submission, and   *)
(* another submitter or a late message may have been first.  (submit)      *)
THEOREM SuccessOnlyMinted == BnbSafety => []SuccessIsMinted
BY BnbInvariant, PTL DEF BnbInv, StoreInv

-----------------------------------------------------------------------------
\* The ledger the rows, the chain and Lorenzo amount to.

(* The ledger tells the four states of a row apart.                        *)
LEMMA Entries ==
  ASSUME NEW t \in Stake
  PROVE  /\ LedgerEntry(t) = "unseen" <=> ~HasRow(t)
         /\ LedgerEntry(t) = "pending" <=> IsPending(t)
         /\ HasRow(t) /\ db[t].status = StatusSuccess => LedgerEntry(t) = "success"
         /\ HasRow(t) /\ db[t].status = StatusInvalid => LedgerEntry(t) = "invalid"
BY DEF LedgerEntry, IsPending, StatusPending, StatusSuccess, StatusInvalid

(* An entry is what its row says.                                          *)
LEMMA EntryKept ==
  ASSUME NEW t \in Stake, db'[t] = db[t]
  PROVE  LedgerEntry(t)' = LedgerEntry(t)
BY DEF LedgerEntry, IsPending, HasRow

(* Without a new block nothing is buried.                                  *)
LEMMA BurialKept ==
  ASSUME UNCHANGED chainVars
  PROVE  BuriedStake' = BuriedStake
BY DEF BuriedStake, InBlock, chainVars

(* A step that leaves the chain, the rows and the minting alone stutters.  *)
LEMMA LedgerStutters ==
  ASSUME UNCHANGED <<chainVars, db, records>>
  PROVE  UNCHANGED Ledger!ledgerVars
<1>1. [t \in Stake |-> LedgerEntry(t)]' = [t \in Stake |-> LedgerEntry(t)]
  BY EntryKept
<1> QED BY <1>1, BurialKept DEF Ledger!ledgerVars

(* A new table is an empty ledger.                                         *)
LEMMA LedgerInitially == BnbInit => Ledger!LedgerInit
<1> SUFFICES ASSUME BnbInit PROVE Ledger!LedgerInit
  OBVIOUS
<1>1. BuriedStake = {} BY DEF BnbInit, BuriedStake, InBlock
<1>2. \A t \in Stake : LedgerEntry(t) = "unseen" BY Entries DEF BnbInit, HasRow
<1> QED BY <1>1, <1>2 DEF Ledger!LedgerInit, BnbInit

(* A longer branch buries more, and digs up nothing.                       *)
LEMMA ExtendBuries ==
  ASSUME NEW d \in 0..MaxReorg, BnbInv, Extend(d)
  PROVE  Ledger!Bury
<1> USE Numbers
<1>1. /\ tip' = tip + 1 /\ UNCHANGED <<db, records>>
  BY DEF Extend, storeVars, lorenzoVars
<1>2. PICK branch \in [(tip - d + 1)..(tip + 1) -> Bodies] :
        chain' = [h \in Height |-> IF h \in DOMAIN branch THEN branch[h] ELSE chain[h]]
  BY DEF Extend
<1>3. tip \in Nat BY DEF BnbInv, BnbTypeOK
<1>4. \A h \in Height : h + Delay <= tip => h \notin (tip - d + 1)..(tip + 1)
  BY <1>3, BnbAssumption
<1>5. \A h \in Height : h + Delay <= tip => chain'[h] = chain[h] /\ h + Delay <= tip'
  BY <1>1, <1>2, <1>3, <1>4
<1>6. BuriedStake \subseteq BuriedStake' /\ BuriedStake' \subseteq Stake
  BY <1>5 DEF BuriedStake, InBlock
<1>7. BuriedStake' = BuriedStake \cup (BuriedStake' \ BuriedStake)
  BY <1>6
<1>8. BuriedStake' \ BuriedStake \in SUBSET (Stake \ BuriedStake) BY <1>6
<1>9. [t \in Stake |-> LedgerEntry(t)]' = [t \in Stake |-> LedgerEntry(t)]
  BY <1>1, EntryKept
<1> QED BY <1>1, <1>7, <1>8, <1>9 DEF Ledger!Bury

(* The rows of a round are registered together, and all are buried.        *)
LEMMA InsertRegisters ==
  ASSUME BnbInv, db' = Inserted, UNCHANGED <<chainVars, syncPoint, records>>
  PROVE  Ledger!Register
<1> DEFINE new == {t \in Stake : ~HasRow(t) /\ HasRow(t)'}
<1>1. RowsOnChain' /\ \A t \in Stake : HasRow(t) => HasRow(t)' /\ db'[t] = db[t]
  BY InsertStore DEF StoreInv
<1>2. db' \in [Stake -> Row \cup {NoRow}] BY InsertedRows
<1>3. BuriedStake' = BuriedStake BY BurialKept
<1>4. ASSUME NEW t \in new PROVE t \in BuriedStake /\ LedgerEntry(t) = "unseen"
  <2>1. db'[t].height \in Height BY <1>2 DEF HasRow, Row
  <2>2. db'[t].height + Delay <= tip /\ t \in chain[db'[t].height]
    BY <1>1 DEF RowsOnChain, InBlock, chainVars
  <2>3. t \in BuriedStake BY <2>1, <2>2 DEF BuriedStake, InBlock
  <2> QED BY <2>3, Entries
<1>5. ASSUME NEW t \in Stake
      PROVE  LedgerEntry(t)' = IF t \in new THEN "pending" ELSE LedgerEntry(t)
  <2>1. CASE t \in new
    <3>1. db'[t].status = StatusPending BY <2>1, InsertedRows DEF HasRow
    <3> QED BY <2>1, <3>1 DEF LedgerEntry, IsPending, HasRow, StatusPending, StatusSuccess
  <2>2. CASE t \notin new /\ HasRow(t) BY <2>2, <1>1, EntryKept
  <2>3. CASE t \notin new /\ ~HasRow(t)
    BY <2>3 DEF LedgerEntry, IsPending, HasRow
  <2> QED BY <2>1, <2>2, <2>3
<1>6. new \in SUBSET {t \in BuriedStake :
                        [u \in Stake |-> LedgerEntry(u)][t] = "unseen"}
  BY <1>4
<1> HIDE DEF new
<1>7. [t \in Stake |-> LedgerEntry(t)]'
        = [t \in Stake |-> IF t \in new THEN "pending"
                           ELSE [u \in Stake |-> LedgerEntry(u)][t]]
  BY <1>5
<1> QED BY <1>3, <1>6, <1>7 DEF Ledger!Register

(* Lorenzo mints for rows only, whoever proved them.                       *)
LEMMA MintingMints ==
  ASSUME NEW t \in Stake, Mints(t), records' = records \cup {t},
         UNCHANGED <<chainVars, db>>
  PROVE  Ledger!Mint(t)
<1>1. [u \in Stake |-> LedgerEntry(u)]' = [u \in Stake |-> LedgerEntry(u)]
  BY EntryKept
<1>2. LedgerEntry(t) # "unseen" BY Entries DEF Mints
<1> QED BY <1>1, <1>2, BurialKept DEF Ledger!Mint

(* A pending row that is marked is settled as the mark says; a success was *)
(* minted before.                                                          *)
LEMMA MarkSettles ==
  ASSUME BnbInv, NEW t \in Stake, IsPending(t), UNCHANGED <<chainVars, records>>,
         \/ t \in records /\ MarkOK(t, StatusSuccess)
         \/ MarkOK(t, StatusInvalid)
  PROVE  Ledger!Succeed(t) \/ Ledger!GiveUp(t)
<1> DEFINE entry == [u \in Stake |-> LedgerEntry(u)]
<1>1. db \in [Stake -> Row \cup {NoRow}] BY DEF BnbInv, BnbTypeOK
<1>2. PICK status \in {StatusSuccess, StatusInvalid} :
        MarkOK(t, status) /\ (status = StatusSuccess => t \in records)
  BY DEF StatusSuccess, StatusInvalid
<1>3. /\ \A u \in Stake : u # t => db'[u] = db[u]
      /\ HasRow(t)' /\ db'[t].status = status
  BY <1>1, <1>2, MarkedRow
<1> DEFINE e == IF status = StatusSuccess THEN "success" ELSE "invalid"
<1>4. LedgerEntry(t)' = e
  BY <1>3, <1>2 DEF LedgerEntry, IsPending, HasRow, StatusPending, StatusSuccess,
                    StatusInvalid
<1>5. \A u \in Stake : u # t => LedgerEntry(u)' = LedgerEntry(u)
  BY <1>3, EntryKept
<1>6. entry' = [entry EXCEPT ![t] = e]
  BY <1>4, <1>5
<1>7. entry[t] = "pending" /\ BuriedStake' = BuriedStake
  BY Entries, BurialKept
<1>8. CASE status = StatusSuccess
  <2>1. records' = records \cup {t} BY <1>2, <1>8
  <2> QED BY <1>6, <1>7, <1>8, <2>1 DEF Ledger!Succeed
<1>9. CASE status # StatusSuccess
  BY <1>6, <1>7, <1>9 DEF Ledger!GiveUp
<1> QED BY <1>8, <1>9

(* Every step of the relayer and of its surroundings is one of the ledger. *)
LEMMA LedgerStep == BnbInv /\ [BnbNext]_bnbVars => [Ledger!LedgerNext]_(Ledger!ledgerVars)
<1> SUFFICES ASSUME BnbInv, [BnbNext]_bnbVars
             PROVE  Ledger!LedgerNext \/ UNCHANGED Ledger!ledgerVars
  OBVIOUS
<1> USE DEF lorenzoVars, storeVars, besideScan, besideSub
<1>1. CASE UNCHANGED bnbVars
  BY <1>1, LedgerStutters DEF bnbVars
<1>2. CASE \E d \in 0..MaxReorg : Extend(d)
  BY <1>2, ExtendBuries DEF Ledger!LedgerNext
<1>3. CASE Boot \/ Crash
  BY <1>3, LedgerStutters DEF Boot, Crash
<1>4. CASE Insert \/ InsertFails
  <2>1. /\ db' \in {db, Inserted} /\ UNCHANGED <<chainVars, syncPoint, records>>
    BY <1>4 DEF Insert, InsertFails
  <2> QED BY <2>1, LedgerStutters, InsertRegisters DEF Ledger!LedgerNext
<1>5. CASE ScanLoop /\ ~(Insert \/ InsertFails)
  <2>1. UNCHANGED <<chainVars, db, records>>
    BY <1>5 DEF ScanLoop, Poll, GetEvents, GetEventsFails, GetCachedReceipts, GetReceipts,
                ReceiptsNotFound, GetReceiptsFails, Update, UpdateFails
  <2> QED BY <2>1, LedgerStutters
<1>6. CASE LorenzoNext
  <2>1. CASE NewHeader BY <2>1, LedgerStutters DEF NewHeader
  <2>2. CASE \E t \in Stake : OtherSubmitter(t)
    BY <2>2, MintingMints DEF OtherSubmitter, Ledger!LedgerNext
  <2>3. ASSUME NEW t \in Stake, ExecuteLate(t)
        PROVE  Ledger!LedgerNext \/ UNCHANGED Ledger!ledgerVars
    BY <2>3, MintingMints, LedgerStutters DEF ExecuteLate, Ledger!LedgerNext
  <2> QED BY <1>6, <2>1, <2>2, <2>3 DEF LorenzoNext
<1>7. CASE SubQuery
  BY <1>7, LedgerStutters DEF SubQuery
<1>8. ASSUME NEW t \in Stake, Sent(t)
      PROVE  Ledger!LedgerNext \/ UNCHANGED Ledger!ledgerVars
  <2>1. CASE SubAccepted(t)
    BY <2>1, MintingMints DEF SubAccepted, Send, Ledger!LedgerNext
  <2>2. CASE SubRetry(t)
    BY <2>2, LedgerStutters DEF SubRetry, Send
  <2>3. CASE SubDuplicate(t) \/ SubRefused(t)
    <3>1. /\ Send(t) /\ UNCHANGED <<chainVars, records>>
          /\ \/ UNCHANGED db
             \/ t \in records /\ MarkOK(t, StatusSuccess)
             \/ MarkOK(t, StatusInvalid)
      BY <2>3 DEF SubDuplicate, SubRefused, Mark, Send
    <3>2. IsPending(t) BY <3>1, SendTakes
    <3> QED BY <3>1, <3>2, MarkSettles, LedgerStutters DEF Ledger!LedgerNext
  <2> QED BY <1>8, <2>1, <2>2, <2>3 DEF Sent
<1> QED
  BY <1>1, <1>2, <1>3, <1>4, <1>5, <1>6, <1>7, <1>8 DEF BnbNext, SubmitLoop

(* The BNB relayer keeps what the ledger promises: a stake is registered   *)
(* when it is buried, settled once, and called a success only when it is   *)
(* minted.  (scanLoop, submitLoop, submit)                                 *)
THEOREM BnbKeepsTheLedger == BnbSafety => BnbImplementsLedger
<1>1. BnbInit => Ledger!LedgerInit BY LedgerInitially
<1>2. BnbInv /\ [BnbNext]_bnbVars => [Ledger!LedgerNext]_(Ledger!ledgerVars)
  BY LedgerStep
<1> QED
  BY <1>1, <1>2, BnbInvariant, PTL DEF BnbSafety, BnbImplementsLedger, Ledger!LedgerSpec
=============================================================================
