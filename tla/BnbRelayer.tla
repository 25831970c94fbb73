------------------------------ MODULE BnbRelayer ------------------------------
(***************************************************************************)
(* The BNB relayer: scanLoop follows BNB Smart Chain at a distance,        *)
(* fetches the receipts of the join-stake-plan events of a range of blocks *)
(* through a cache, and stores them; submitLoop proves the stored receipts *)
(* to Lorenzo, again and again until Lorenzo calls them duplicates.        *)
(*                                                                         *)
(* A block is the record of its height and its transactions, which also    *)
(* stands for its hash.                                                    *)
(***************************************************************************)
EXTENDS Integers, SequencesExt

CONSTANTS
  Stake,             \* transactions with a StakeBTC2JoinStakePlan event
  Bodies,            \* the sets of such transactions a block may hold
  NoRow,             \* "this transaction has no row"
  Rejected,          \* transactions Lorenzo refuses for good
  Delay,             \* DefaultDelayBlocks; the configured depth is not read
  RangeSize,         \* BatchPlanStakeBlockSizeFetch
  CacheSize,         \* BlockReceiptsCacheSize
  MaxReorg,          \* the deepest reorganisation of the chain
  StartBlockHeight,  \* the configured height to start after
  ReceiptsFail,      \* TRUE: eth_getBlockReceipts may return an error
  UnlistedErrors,    \* TRUE: Lorenzo may fail with an error submit does not list
  MaxHeight,         \* bound: the highest block
  MaxCrashes         \* bound: how often the process dies

Height == 1..MaxHeight

ASSUME BnbAssumption ==
  /\ Bodies \subseteq SUBSET Stake
  /\ Rejected \subseteq Stake
  /\ {Delay, MaxHeight, MaxCrashes} \subseteq Nat
  /\ {RangeSize, CacheSize, StartBlockHeight} \subseteq Nat \ {0}
  /\ MaxReorg \in 0..Delay
  /\ {ReceiptsFail, UnlistedErrors} \subseteq BOOLEAN

VARIABLES
  tip, chain,   \* BNB: the height of its best chain, and its transactions
  db,           \* wrapped_btc_deposit_tx: db[t] is the row of t or NoRow
  syncPoint,    \* the configuration row submitter/bnb-sync-point
  cache,        \* blockReceiptsCache, most recently used first
  scan,         \* the local variables of scanLoop
  sub,          \* the local variables of submitLoop
  lorenzoTip,   \* Lorenzo: the last BNB header it knows
  records,      \* Lorenzo: the transactions it has minted for
  inflight,     \* Lorenzo: messages broadcast, not yet executed
  up, crashes   \* the process

chainVars   == <<tip, chain>>
storeVars   == <<db, syncPoint>>
lorenzoVars == <<lorenzoTip, records, inflight>>
processVars == <<up, crashes>>
bnbVars     == <<chainVars, storeVars, cache, scan, sub, lorenzoVars, processVars>>

StatusPending == 0
StatusSuccess == 1
StatusInvalid == 2

Row      == [height : Height, status : {StatusPending, StatusSuccess, StatusInvalid}]
Block    == [height : Height, body : SUBSET Stake]
Event    == [tx : Stake, block : Block]
Answer   == [block : Block, receipts : SUBSET Stake]

ScanIdle == [pc |-> "poll", start |-> 0, end |-> 0, todo |-> {}, found |-> {}]
SubIdle  == [pc |-> "poll", batch |-> {}]

HasRow(t)    == db[t] # NoRow
IsPending(t) == HasRow(t) /\ db[t].status = StatusPending

ScanState == [pc : {"poll", "events", "receipts", "insert", "update"},
              start : Nat, end : Nat, todo : SUBSET Event, found : SUBSET Event]
SubState  == [pc : {"poll", "row"}, batch : SUBSET Stake]

ASSUME RowAssumption == NoRow \notin Row

BnbTypeOK ==
  /\ tip \in 0..MaxHeight
  /\ chain \in [Height -> Bodies \cup {{}}]
  /\ db \in [Stake -> Row \cup {NoRow}]
  /\ syncPoint \in Nat
  /\ cache \in Seq(Answer) /\ Len(cache) <= CacheSize
  /\ scan \in ScanState
  /\ sub \in SubState
  /\ lorenzoTip \in 0..tip
  /\ records \subseteq Stake
  /\ inflight \subseteq Stake
  /\ up \in BOOLEAN
  /\ crashes \in 0..MaxCrashes

BnbInit ==
  /\ tip = 0
  /\ chain = [h \in Height |-> {}]
  /\ db = [t \in Stake |-> NoRow]
  /\ syncPoint = 0
  /\ cache = <<>>
  /\ scan = ScanIdle
  /\ sub = SubIdle
  /\ lorenzoTip = 0
  /\ records = {}
  /\ inflight = {}
  /\ up = FALSE
  /\ crashes = 0

-----------------------------------------------------------------------------
\* BNB Smart Chain.

InBlock(t, h) == t \in chain[h]

NoDoubleInclusion(c) ==
  \A t \in Stake, g, h \in Height : t \in c[g] /\ t \in c[h] => g = h

\* The top d blocks give way to a branch that is one block longer.
Extend(d) ==
  /\ d <= tip
  /\ tip < MaxHeight
  /\ tip' = tip + 1
  /\ \E branch \in [(tip - d + 1)..(tip + 1) -> Bodies] :
       chain' = [h \in Height |-> IF h \in DOMAIN branch THEN branch[h] ELSE chain[h]]
  /\ NoDoubleInclusion(chain')
  /\ UNCHANGED <<storeVars, cache, scan, sub, lorenzoVars, processVars>>

-----------------------------------------------------------------------------
\* The process.

\* NewBnbTxRelayer and Start.
Boot ==
  /\ ~up
  /\ up' = TRUE
  /\ syncPoint' = IF syncPoint = 0 THEN StartBlockHeight ELSE syncPoint
  /\ UNCHANGED <<chainVars, db, cache, scan, sub, lorenzoVars, crashes>>

Crash ==
  /\ up
  /\ crashes < MaxCrashes
  /\ crashes' = crashes + 1
  /\ up' = FALSE
  /\ cache' = <<>>
  /\ scan' = ScanIdle
  /\ sub' = SubIdle
  /\ UNCHANGED <<chainVars, storeVars, lorenzoVars>>

-----------------------------------------------------------------------------
\* scanLoop.

besideScan == <<chainVars, sub, lorenzoVars, processVars>>

\* Mutant of Poll: the distance is kept by the guard only.
PollToTip ==
  /\ up
  /\ scan.pc = "poll"
  /\ syncPoint + Delay < tip
  /\ scan' = [ScanIdle EXCEPT !.pc = "events", !.start = syncPoint + 1,
              !.end = IF tip - syncPoint > RangeSize THEN syncPoint + RangeSize ELSE tip]
  /\ UNCHANGED <<besideScan, storeVars, cache>>

\* The sync point and the tip, which counts as 0 if the call fails.
Poll ==
  /\ up
  /\ scan.pc = "poll"
  /\ syncPoint + Delay < tip
  /\ scan' = [ScanIdle EXCEPT !.pc = "events", !.start = syncPoint + 1,
              !.end = IF tip - Delay - syncPoint > RangeSize THEN syncPoint + RangeSize
                      ELSE tip - Delay]
  /\ UNCHANGED <<besideScan, storeVars, cache>>

\* FilterLogs over the range, one event for each transaction.
GetEvents ==
  /\ scan.pc = "events"
  /\ LET events == {e \in Event : /\ e.block.height \in scan.start..scan.end
                                  /\ e.block.body = chain[e.block.height]
                                  /\ e.tx \in e.block.body}
     IN scan' = [scan EXCEPT !.pc = IF events = {} THEN "insert" ELSE "receipts",
                             !.todo = events]
  /\ UNCHANGED <<besideScan, storeVars, cache>>

\* An error of any call ends the round; the next one starts from the tip again.
GiveUp == scan' = ScanIdle

GetEventsFails ==
  /\ scan.pc = "events"
  /\ GiveUp
  /\ UNCHANGED <<besideScan, storeVars, cache>>

\* The entry that is used comes to the front.
CacheGet(i) == cache' = <<cache[i]>> \o RemoveAt(cache, i)

\* Mutant of CacheAdd: a cache without a limit.
CacheAddKeepsAll(entry) == cache' = <<entry>> \o cache

\* A new entry; the least recently used one makes room.
CacheAdd(entry) ==
  cache' = IF Len(cache) = CacheSize THEN <<entry>> \o Front(cache)
           ELSE <<entry>> \o cache

Uncached(block) == \A i \in DOMAIN cache : cache[i].block # block

\* The header and the proof; the map of events is ranged over in any order.
Collect(e) ==
  scan' = [scan EXCEPT !.pc = IF scan.todo = {e} THEN "insert" ELSE "receipts",
                       !.todo = @ \ {e}, !.found = @ \cup {e}]

\* ReceiptsByBlockHash answers from the cache.
GetCachedReceipts(e) ==
  /\ scan.pc = "receipts"
  /\ e \in scan.todo
  /\ \E i \in DOMAIN cache :
       /\ cache[i].block = e.block
       /\ CacheGet(i)
       /\ GiveUp \/ (e.tx \in cache[i].receipts /\ Collect(e))
  /\ UNCHANGED <<besideScan, storeVars>>

\* ReceiptsByBlockHash asks the node; the header may fail after it.
GetReceipts(e) ==
  /\ scan.pc = "receipts"
  /\ e \in scan.todo
  /\ Uncached(e.block)
  /\ CacheAdd([block |-> e.block, receipts |-> e.block.body])
  /\ GiveUp \/ Collect(e)
  /\ UNCHANGED <<besideScan, storeVars>>

\* The node does not know the block: not cached.
ReceiptsNotFound(e) ==
  /\ scan.pc = "receipts"
  /\ e \in scan.todo
  /\ Uncached(e.block)
  /\ GiveUp
  /\ UNCHANGED <<besideScan, storeVars, cache>>

\* The call fails: the nil slice goes into the cache all the same.
GetReceiptsFails(e) ==
  /\ ReceiptsFail
  /\ scan.pc = "receipts"
  /\ e \in scan.todo
  /\ Uncached(e.block)
  /\ CacheAdd([block |-> e.block, receipts |-> {}])
  /\ GiveUp
  /\ UNCHANGED <<besideScan, storeVars>>

\* One database transaction: rows that exist already are left as they are.
Inserted ==
  [t \in Stake |->
     IF db[t] = NoRow /\ \E e \in scan.found : e.tx = t
     THEN [height |-> (CHOOSE e \in scan.found : e.tx = t).block.height,
           status |-> StatusPending]
     ELSE db[t]]

Insert ==
  /\ scan.pc = "insert"
  /\ db' = Inserted
  /\ scan' = [scan EXCEPT !.pc = "update"]
  /\ UNCHANGED <<besideScan, syncPoint, cache>>

\* Mutant of InsertFails: the error is logged and the round goes on.
InsertErrorIgnored ==
  /\ scan.pc = "insert"
  /\ db' \in {db, Inserted}
  /\ scan' = [scan EXCEPT !.pc = "update"]
  /\ UNCHANGED <<besideScan, syncPoint, cache>>

\* Rolled back, or committed and the answer lost.
InsertFails ==
  /\ scan.pc = "insert"
  /\ db' \in {db, Inserted}
  /\ GiveUp
  /\ UNCHANGED <<besideScan, syncPoint, cache>>

Update ==
  /\ scan.pc = "update"
  /\ syncPoint' = scan.end
  /\ GiveUp
  /\ UNCHANGED <<besideScan, db, cache>>

UpdateFails ==
  /\ scan.pc = "update"
  /\ syncPoint' \in {syncPoint, scan.end}
  /\ GiveUp
  /\ UNCHANGED <<besideScan, db, cache>>

ScanLoop ==
  \/ Poll \/ GetEvents \/ GetEventsFails
  \/ \E e \in scan.todo : \/ GetCachedReceipts(e) \/ GetReceipts(e)
                          \/ ReceiptsNotFound(e) \/ GetReceiptsFails(e)
  \/ Insert \/ InsertFails \/ Update \/ UpdateFails

-----------------------------------------------------------------------------
\* Lorenzo, external to the code.

besideSub == <<chainVars, syncPoint, cache, scan, processVars>>

Mints(t) == /\ t \notin records \cup Rejected
            /\ HasRow(t) /\ db[t].height <= lorenzoTip

NewHeader ==
  /\ lorenzoTip < tip
  /\ lorenzoTip' = lorenzoTip + 1
  /\ UNCHANGED <<besideSub, db, sub, records, inflight>>

\* Another submitter proves the receipt.
OtherSubmitter(t) ==
  /\ Mints(t)
  /\ records' = records \cup {t}
  /\ UNCHANGED <<besideSub, db, sub, lorenzoTip, inflight>>

\* A message that nobody waits for any more is executed, or fails.
ExecuteLate(t) ==
  /\ t \in inflight
  /\ inflight' = inflight \ {t}
  /\ records' = IF Mints(t) THEN records \cup {t} ELSE records
  /\ UNCHANGED <<besideSub, db, sub, lorenzoTip>>

LorenzoNext == NewHeader \/ \E t \in Stake : OtherSubmitter(t) \/ ExecuteLate(t)

-----------------------------------------------------------------------------
\* submitLoop and submit.

\* BNBLatestHeader and GetUnhandledWrappedBTCDepositTxs, which has no limit.
SubQuery ==
  /\ up
  /\ sub.pc = "poll"
  /\ LET batch == {t \in Stake : IsPending(t) /\ db[t].height <= lorenzoTip}
     IN batch # {} /\ sub' = [pc |-> "row", batch |-> batch]
  /\ UNCHANGED <<besideSub, db, lorenzoVars>>

\* CreateBTCBStaking for the lowest row of the batch, and on to the next row.
Send(t) ==
  /\ sub.pc = "row"
  /\ t \in sub.batch
  /\ \A u \in sub.batch : db[t].height <= db[u].height
  /\ sub' = IF sub.batch = {t} THEN SubIdle ELSE [sub EXCEPT !.batch = @ \ {t}]
  /\ UNCHANGED besideSub

\* An error of the database is logged and nothing more.
MarkOK(t, status) == db' = [db EXCEPT ![t].status = status]
Mark(t, status)   == MarkOK(t, status) \/ UNCHANGED db

\* Success is not marked: the row will be sent again and be a duplicate.
SubAccepted(t) ==
  /\ Send(t)
  /\ Mints(t)
  /\ records' = records \cup {t}
  /\ UNCHANGED <<db, lorenzoTip, inflight>>

\* Mutant of SubDuplicate: a duplicate is tried again like a lost call.
SubDuplicateSkipped(t) ==
  /\ Send(t)
  /\ t \in records
  /\ UNCHANGED <<db, lorenzoVars>>

\* "duplicate event"
SubDuplicate(t) ==
  /\ Send(t)
  /\ t \in records
  /\ Mark(t, StatusSuccess)
  /\ UNCHANGED lorenzoVars

\* Mutant of SubRetry: broadcast counts as done.
SubRetrySucceeds(t) ==
  /\ Send(t)
  /\ inflight' \in {inflight, inflight \cup {t}}
  /\ Mark(t, StatusSuccess)
  /\ UNCHANGED <<lorenzoTip, records>>

\* A timeout, "post failed" or a sequence mismatch; after a timeout the message
\* may have reached Lorenzo.
SubRetry(t) ==
  /\ Send(t)
  /\ inflight' \in {inflight, inflight \cup {t}}
  /\ UNCHANGED <<db, lorenzoTip, records>>

\* Any other error.
SubRefused(t) ==
  /\ Send(t)
  /\ t \in Rejected \/ UnlistedErrors
  /\ Mark(t, StatusInvalid)
  /\ UNCHANGED lorenzoVars

Sent(t) == SubAccepted(t) \/ SubDuplicate(t) \/ SubRetry(t) \/ SubRefused(t)

SubmitLoop == SubQuery \/ \E t \in Stake : Sent(t)

-----------------------------------------------------------------------------
BnbNext ==
  \/ \E d \in 0..MaxReorg : Extend(d)
  \/ Boot \/ Crash \/ ScanLoop \/ LorenzoNext \/ SubmitLoop

BnbSafety == BnbInit /\ [][BnbNext]_bnbVars

\* With these transactions still to do, one is collected; an answer settles a
\* row or mints its transaction.
Collected(todo) ==
  /\ {e.tx : e \in scan.todo} = todo
  /\ \E e \in scan.todo : GetCachedReceipts(e) \/ GetReceipts(e)
  /\ scan'.pc # "poll"
Answered(t)  == (SubAccepted(t) \/ SubDuplicate(t) \/ SubRefused(t))
                  /\ <<db, records>>' # <<db, records>>

\* The goroutines run, and a call that fails does not fail for ever.
BnbFairness ==
  /\ WF_bnbVars(Boot)
  /\ WF_bnbVars(ScanLoop)
  /\ SF_bnbVars(GetEvents)
  /\ \A todo \in SUBSET Stake : SF_bnbVars(Collected(todo))
  /\ SF_bnbVars(Insert)
  /\ SF_bnbVars(Update)
  /\ WF_bnbVars(SubmitLoop)
  /\ \A t \in Stake : SF_bnbVars(Answered(t))

BnbSpec == BnbSafety /\ BnbFairness

-----------------------------------------------------------------------------
(* No stake is passed over: every join-stake-plan transaction of a block   *)
(* that the sync point has passed has its row, though the range is read    *)
(* block hash by block hash, through a cache, in calls that fail, and the  *)
(* process may die before the sync point moves.  (scanLoop)                *)
NoStakeLost ==
  \A h \in Height, t \in Stake :
    StartBlockHeight < h /\ h <= syncPoint /\ InBlock(t, h) => HasRow(t)

(* A row is about a transaction of the best chain, at its height, under at *)
(* least Delay blocks.  (the distance kept by scanLoop, the end of the     *)
(* range)                                                                  *)
RowsOnChain ==
  \A t \in Stake : HasRow(t) =>
    db[t].height + Delay <= tip /\ InBlock(t, db[t].height)

(* The list of receipts found for a block of the range holds the receipt   *)
(* of every event of the block: bnbclient/stake_plan.go says of the        *)
(* contrary "it's impossible, maybe something wrong".                      *)
ReceiptInItsBlock ==
  \A e \in scan.todo, i \in DOMAIN cache :
    cache[i].block = e.block => e.tx \in cache[i].receipts

\* The view of module DepositLedger.
BuriedStake == {t \in Stake : \E h \in Height : h + Delay <= tip /\ InBlock(t, h)}

LedgerEntry(t) ==
  CASE ~HasRow(t)   -> "unseen"
    [] IsPending(t) -> "pending"
    [] HasRow(t) /\ db[t].status = StatusSuccess -> "success"
    [] OTHER        -> "invalid"

Ledger == INSTANCE DepositLedger
  WITH Tx <- Stake, buried <- BuriedStake, minted <- records,
       ledger <- [t \in Stake |-> LedgerEntry(t)]

(* The BNB relayer implements the same ledger as the BTC relayer: it       *)
(* registers only buried stakes, settles each once, and calls one a        *)
(* success only when it is minted, although it learns of the minting only  *)
(* from the error of a second submission.                                  *)
BnbImplementsLedger == Ledger!LedgerSpec

(* A stake that is buried, and whose block Lorenzo knows, is eventually    *)
(* marked: Success, or Invalid if Lorenzo refuses it.                      *)
BnbServed ==
  \A t \in Stake, h \in Height :
    (InBlock(t, h) /\ StartBlockHeight < h /\ h + Delay <= tip /\ h <= lorenzoTip)
      ~> (HasRow(t) /\ ~IsPending(t))
=============================================================================
