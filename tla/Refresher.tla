------------------------------ MODULE Refresher ------------------------------
(***************************************************************************)
(* The command refresh: it asks the Lorenzo app for the accounts that were *)
(* minted to or burnt from, a range of blocks at a time, and has blockscout *)
(* fetch their balances anew.  Two services it does not control move on    *)
(* meanwhile, each at its own pace: the explorer, which indexes blocks,    *)
(* and the app, which scans them for events.  A range is half open and     *)
(* ends before the first block that one of the two does not know.          *)
(*                                                                         *)
(* Covered: calls that fail, refreshes executed with the answer lost,      *)
(* pages that are no list (their status is not looked at), an account that *)
(* blockscout never accepts, and a process that dies, with which the       *)
(* position is lost.                                                       *)
(***************************************************************************)
EXTENDS Integers

CONSTANTS
  Addr,         \* accounts
  Unknown,      \* accounts for which check-redirect never says "address"
  NoEvent,      \* "no event"
  StartHeight,  \* the flag --start-height
  BatchNum,     \* batchNum
  ErrorPages,   \* TRUE: the list may be answered by a page that is no list
  MaxHeight,    \* bound: the highest block
  MaxCrashes    \* bound: how often the process dies

Height == 0..MaxHeight
Event  == [height : Height, addr : Addr]

ASSUME RefreshAssumption ==
  /\ MaxHeight \in Nat
  /\ StartHeight \in Height
  /\ BatchNum \in Nat \ {0}
  /\ MaxCrashes \in Nat
  /\ ErrorPages \in BOOLEAN
  /\ NoEvent \notin Event

VARIABLES
  events,   \* Lorenzo: the mint and burn events of all blocks
  cursor,   \* the app has scanned the blocks up to this height
  indexed,  \* blockscout has indexed the blocks up to this height
  shown,    \* shown[a]: how many blocks the balance of a takes into account
  next,     \* nextRefreshHeight
  round,    \* the local variables of Start
  blank,    \* history: heights whose list was a page that is no list
  up, crashes

serviceVars == <<events, cursor, indexed>>
processVars == <<up, crashes>>
refreshVars == <<serviceVars, shown, next, round, blank, processVars>>

At(pc, end, todo, cur) == [pc |-> pc, end |-> end, todo |-> todo, cur |-> cur]
RoundIdle == At("height", 0, {}, NoEvent)
RoundState == [pc : {"height", "cursor", "list", "refresh"}, end : 0..(MaxHeight + 1),
               todo : SUBSET Event, cur : Event \cup {NoEvent}]

RefreshTypeOK ==
  /\ events \subseteq Event
  /\ cursor \in Height /\ indexed \in Height
  /\ shown \in [Addr -> 0..(MaxHeight + 1)]
  /\ next \in 0..(MaxHeight + 1)
  /\ round \in RoundState
  /\ blank \subseteq Height
  /\ up \in BOOLEAN
  /\ crashes \in 0..MaxCrashes

RefreshInit ==
  /\ events \in SUBSET Event
  /\ cursor = 0 /\ indexed = 0
  /\ shown = [a \in Addr |-> 0]
  /\ next = StartHeight
  /\ round = RoundIdle
  /\ blank = {}
  /\ up = FALSE
  /\ crashes = 0

-----------------------------------------------------------------------------
\* The services, external to the code.

AppScans ==
  /\ cursor < MaxHeight
  /\ cursor' = cursor + 1
  /\ UNCHANGED <<events, indexed, shown, next, round, blank, processVars>>

BlockscoutIndexes ==
  /\ indexed < MaxHeight
  /\ indexed' = indexed + 1
  /\ UNCHANGED <<events, cursor, shown, next, round, blank, processVars>>

-----------------------------------------------------------------------------
\* The process: NewRefresher takes the height from the command line each time.

Boot ==
  /\ ~up
  /\ up' = TRUE
  /\ next' = StartHeight
  /\ UNCHANGED <<serviceVars, shown, round, blank, crashes>>

Crash ==
  /\ up
  /\ crashes < MaxCrashes
  /\ crashes' = crashes + 1
  /\ up' = FALSE
  /\ round' = RoundIdle
  /\ UNCHANGED <<serviceVars, shown, next, blank>>

-----------------------------------------------------------------------------
\* Start, one step for each call.

Lower(m, n) == IF m < n THEN m ELSE n

GiveUp == round' = RoundIdle

\* The range is processed: the next one begins where it ended.
Finish == next' = round.end /\ GiveUp

besideRound == <<serviceVars, blank, processVars>>

\* Mutant of GetHeight: a full batch, whatever blockscout has indexed.
GetHeightUnbounded ==
  /\ up
  /\ round.pc = "height"
  /\ indexed >= next
  /\ round' = At("cursor", next + BatchNum, {}, NoEvent)
  /\ UNCHANGED <<besideRound, shown, next>>

\* getBockscoutCurrentHeight; an error, or a height below the start, and the
\* call is made again.
GetHeight ==
  /\ up
  /\ round.pc = "height"
  /\ indexed >= next
  /\ round' = At("cursor", Lower(next + BatchNum, indexed + 1), {}, NoEvent)
  /\ UNCHANGED <<besideRound, shown, next>>

\* Mutants of GetCursor: the block behind the cursor is taken for scanned; the
\* block at the cursor is not.
GetCursorAt(wait, end) ==
  /\ round.pc = "cursor"
  /\ IF wait THEN GiveUp ELSE round' = At("list", Lower(round.end, end), {}, NoEvent)
  /\ UNCHANGED <<besideRound, shown, next>>
GetCursorPastEnd == GetCursorAt(cursor < next, cursor + 2)
GetCursorTooLate == GetCursorAt(cursor <= next, cursor + 1)

\* getLorenzoEventScanCursor; the app may still be behind.
GetCursor ==
  /\ round.pc = "cursor"
  /\ IF cursor < next THEN GiveUp
     ELSE round' = At("list", Lower(round.end, cursor + 1), {}, NoEvent)
  /\ UNCHANGED <<besideRound, shown, next>>

\* The events the app knows in the range, its end excluded.
Listed == {e \in events : next <= e.height /\ e.height < round.end /\ e.height <= cursor}

ListEvents ==
  /\ round.pc = "list"
  /\ IF Listed = {} THEN Finish
     ELSE /\ \E e \in Listed : round' = At("refresh", round.end, Listed, e)
          /\ UNCHANGED next
  /\ UNCHANGED <<besideRound, shown>>

\* An error page, or a code that is not 0: it decodes to a list without events.
ListIsBlank ==
  /\ round.pc = "list"
  /\ ErrorPages
  /\ Finish
  /\ blank' = blank \cup (next..(round.end - 1))
  /\ UNCHANGED <<serviceVars, shown, processVars>>

\* The cursor or the list fails: the round starts again from the height.
CallFails ==
  /\ round.pc \in {"cursor", "list"}
  /\ GiveUp
  /\ UNCHANGED <<besideRound, shown, next>>

\* checkOrInsertAccountToBlockscout lets the account pass, and blockscout fetches
\* the balance as of the last block it has.
Refresh(e) ==
  /\ round.pc = "refresh"
  /\ e = round.cur
  /\ e.addr \notin Unknown
  /\ shown' = [shown EXCEPT ![e.addr] = indexed + 1]

\* "executed update": on to the next event, in the order of the list.
RefreshDone(e) ==
  /\ Refresh(e)
  /\ LET rest == round.todo \ {e}
     IN IF rest = {} THEN Finish
        ELSE /\ \E f \in rest : round' = At("refresh", round.end, rest, f)
             /\ UNCHANGED next
  /\ UNCHANGED besideRound

\* The answer is lost: the same event again.
RefreshLost(e) ==
  /\ Refresh(e)
  /\ UNCHANGED <<besideRound, next, round>>

Start ==
  \/ GetHeight \/ GetCursor \/ ListEvents \/ ListIsBlank \/ CallFails
  \/ \E e \in round.todo : RefreshDone(e) \/ RefreshLost(e)

-----------------------------------------------------------------------------
RefreshNext == AppScans \/ BlockscoutIndexes \/ Boot \/ Crash \/ Start

RefreshSafety == RefreshInit /\ [][RefreshNext]_refreshVars

\* The loop runs; a call that is repeated succeeds in the end.
RefreshFairness ==
  /\ WF_refreshVars(Boot)
  /\ WF_refreshVars(GetHeight)
  /\ SF_refreshVars(GetCursor)
  /\ SF_refreshVars(ListEvents)
  /\ \A e \in Event : WF_refreshVars(RefreshDone(e))

RefreshSpec == RefreshSafety /\ RefreshFairness

-----------------------------------------------------------------------------
(* No event is passed over: of every block between the start and the next  *)
(* height, blockscout shows the accounts with a mint or burn as of that    *)
(* block or a later one, although three heights move while a range is      *)
(* worked off.  The exception is a range whose list was an error page: its *)
(* status is not looked at, and its events are lost.  (Start,              *)
(* getLorenzoBurnOrEventListByHeightRange)                                 *)
NoEventPassedOver ==
  \A e \in events :
    StartHeight <= e.height /\ e.height < next /\ e.height \notin blank
      => shown[e.addr] > e.height

\* The loop repeats an event that is never accepted, and nothing else.
Stuck == round.pc = "refresh" /\ round.cur.addr \in Unknown

(* An event that blockscout and the app know is refreshed in the end; an   *)
(* error page, or one account that blockscout does not accept, at the head *)
(* of the list, is all that prevents it.  (Start)                          *)
EventShown ==
  \A e \in Event :
    (e \in events /\ StartHeight <= e.height /\ e.height <= cursor /\ e.height <= indexed)
      ~> (shown[e.addr] > e.height \/ e.height \in blank \/ Stuck)
=============================================================================
