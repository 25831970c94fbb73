--------------------------- MODULE RefresherProofs ---------------------------
(***************************************************************************)
(* No event is passed over, for any events, accounts, batch size, start    *)
(* height and speed of the two services.                                   *)
(***************************************************************************)
EXTENDS TLAPS, Refresher

\* No balance is newer than the blocks blockscout has.
ShownIndexed == \A a \in Addr : shown[a] <= indexed + 1

\* What a round may rely on at each of its points.
RoundInv ==
  /\ ~up => round.pc = "height"
  /\ round.pc # "height" => round.end <= indexed + 1
  /\ round.pc \in {"list", "refresh"} => round.end <= cursor + 1
  /\ round.pc = "refresh" => round.cur \in round.todo

\* While a range is worked off, its events are still to do or done.
RangeInv ==
  round.pc = "refresh" =>
    /\ \A e \in round.todo : e.height < round.end
    /\ \A e \in events :
         next <= e.height /\ e.height < round.end /\ e.height \notin blank
           => e \in round.todo \/ shown[e.addr] > e.height

RefreshInv == RefreshTypeOK /\ ShownIndexed /\ RoundInv /\ RangeInv /\ NoEventPassedOver

USE RefreshAssumption DEF RefreshAssumption

LEMMA EventFields == \A e \in Event : e.height \in Height /\ e.addr \in Addr
  BY DEF Event

LEMMA HeightIsNat == \A h \in Height : h \in Nat /\ h <= MaxHeight
  BY DEF Height

LEMMA AtIsRound ==
  ASSUME NEW pc \in {"height", "cursor", "list", "refresh"}, NEW end \in 0..(MaxHeight + 1),
         NEW todo \in SUBSET Event, NEW cur \in Event \cup {NoEvent}
  PROVE  /\ At(pc, end, todo, cur) \in RoundState
         /\ At(pc, end, todo, cur).pc = pc /\ At(pc, end, todo, cur).end = end
         /\ At(pc, end, todo, cur).todo = todo /\ At(pc, end, todo, cur).cur = cur
  BY DEF At, RoundState

LEMMA IdleIsRound == RoundIdle \in RoundState /\ RoundIdle.pc = "height"
  BY DEF RoundIdle, At, RoundState

LEMMA RoundFields ==
  ASSUME NEW r \in RoundState
  PROVE  /\ r.pc \in {"height", "cursor", "list", "refresh"}
         /\ r.end \in 0..(MaxHeight + 1) /\ r.todo \subseteq Event
  BY DEF RoundState

\* The invariant holds at the start.
LEMMA RefreshInitInv == RefreshInit => RefreshInv
<1> SUFFICES ASSUME RefreshInit PROVE RefreshInv
  OBVIOUS
<1>1. /\ events \subseteq Event /\ cursor = 0 /\ indexed = 0 /\ next = StartHeight
      /\ blank = {} /\ up = FALSE /\ crashes = 0
  BY DEF RefreshInit
<1>2. shown = [a \in Addr |-> 0]
  BY DEF RefreshInit
<1>3. round \in RoundState /\ round.pc = "height"
  BY IdleIsRound DEF RefreshInit
<1>4. shown \in [Addr -> 0..(MaxHeight + 1)]
  BY <1>2
<1>5. RefreshTypeOK
  <2>1. cursor \in Height /\ indexed \in Height /\ next \in 0..(MaxHeight + 1)
    BY <1>1 DEF Height
  <2>2. crashes \in 0..MaxCrashes
    BY <1>1
  <2> QED BY <1>1, <1>3, <1>4, <2>1, <2>2, Zenon DEF RefreshTypeOK
<1>6. ShownIndexed
  BY <1>1, <1>2 DEF ShownIndexed
<1>7. RoundInv /\ RangeInv
  BY <1>1, <1>3 DEF RoundInv, RangeInv
<1>8. NoEventPassedOver
  BY <1>1, EventFields, HeightIsNat DEF NoEventPassedOver
<1> QED BY <1>5, <1>6, <1>7, <1>8 DEF RefreshInv

\* The services only know more than before.
LEMMA ServicesKeepInv == RefreshInv /\ (AppScans \/ BlockscoutIndexes) => RefreshInv'
<1> SUFFICES ASSUME RefreshInv, AppScans \/ BlockscoutIndexes PROVE RefreshInv'
  OBVIOUS
<1> USE DEF RefreshInv
<1>1. /\ UNCHANGED <<events, shown, next, round, blank, up, crashes>>
      /\ cursor' \in Height /\ indexed' \in Height
      /\ cursor <= cursor' /\ indexed <= indexed'
  BY DEF AppScans, BlockscoutIndexes, processVars, RefreshTypeOK, Height
<1>2. RefreshTypeOK'
  BY <1>1 DEF RefreshTypeOK
<1>3. ShownIndexed'
  BY <1>1 DEF ShownIndexed, RefreshTypeOK, Height
<1>4. RoundInv'
  <2>1. cursor \in Nat /\ cursor' \in Nat /\ indexed \in Nat /\ indexed' \in Nat
    BY <1>1, HeightIsNat DEF RefreshTypeOK
  <2>2. round.end \in Nat
    BY RoundFields DEF RefreshTypeOK
  <2> QED BY <1>1, <2>1, <2>2 DEF RoundInv
<1>5. RangeInv' /\ NoEventPassedOver'
  BY <1>1 DEF RangeInv, NoEventPassedOver
<1> QED BY <1>2, <1>3, <1>4, <1>5

\* A start, a crash.
LEMMA ProcessKeepsInv == RefreshInv /\ (Boot \/ Crash) => RefreshInv'
<1> SUFFICES ASSUME RefreshInv, Boot \/ Crash PROVE RefreshInv'
  OBVIOUS
<1> USE DEF RefreshInv, RefreshTypeOK, ShownIndexed, RoundInv, RangeInv, NoEventPassedOver,
            serviceVars
<1>1. CASE Boot
  <2>1. /\ next' = StartHeight /\ up' = TRUE
        /\ UNCHANGED <<serviceVars, shown, round, blank, crashes>>
    BY <1>1 DEF Boot
  <2>2. next' \in 0..(MaxHeight + 1)
    BY <2>1 DEF Height
  <2>3. RefreshTypeOK'
    BY <2>1, <2>2
  <2>4. \A e \in events : e.height \in Nat
    BY EventFields, HeightIsNat
  <2>5. NoEventPassedOver'
    BY <2>1, <2>4, HeightIsNat
  <2>6. round.pc = "height"
    BY <1>1 DEF Boot
  <2> QED BY <2>1, <2>3, <2>5, <2>6
<1>2. CASE Crash
  <2>1. /\ round' = RoundIdle /\ up' = FALSE
        /\ UNCHANGED <<serviceVars, shown, next, blank>>
    BY <1>2 DEF Crash
  <2>2. crashes' \in 0..MaxCrashes
    BY <1>2 DEF Crash
  <2>3. RefreshTypeOK'
    BY <2>1, <2>2, IdleIsRound
  <2> QED BY <2>1, <2>3, IdleIsRound
<1> QED BY <1>1, <1>2

\* A round that is given up leaves nothing behind.
LEMMA GiveUpKeepsInv ==
  ASSUME RefreshInv, GiveUp, UNCHANGED <<serviceVars, shown, next, blank, processVars>>
  PROVE  RefreshInv'
  BY IdleIsRound DEF GiveUp, serviceVars, processVars, RefreshInv, RefreshTypeOK, ShownIndexed,
     RoundInv, RangeInv, NoEventPassedOver

\* A range may be left behind when its events are done, or given up for lost.
LEMMA FinishKeepsInv ==
  ASSUME RefreshInv, Finish, UNCHANGED <<serviceVars, processVars>>,
         shown' \in [Addr -> 0..(MaxHeight + 1)], blank' \subseteq Height, blank \subseteq blank',
         \A a \in Addr : shown[a] <= shown'[a] /\ shown'[a] <= indexed + 1,
         \A e \in events :
           next <= e.height /\ e.height < round.end /\ e.height \notin blank'
             => shown'[e.addr] > e.height
  PROVE  RefreshInv'
<1> USE DEF RefreshInv, serviceVars, processVars
<1>1. /\ next' = round.end /\ round' \in RoundState /\ round'.pc = "height"
      /\ next' \in 0..(MaxHeight + 1)
  BY IdleIsRound, RoundFields DEF Finish, GiveUp, RefreshTypeOK
<1>2. RefreshTypeOK'
  BY <1>1 DEF RefreshTypeOK
<1>3. ShownIndexed' /\ RoundInv' /\ RangeInv'
  BY <1>1 DEF ShownIndexed, RoundInv, RangeInv
<1>4. ASSUME NEW e \in events, StartHeight <= e.height, e.height < next', e.height \notin blank'
      PROVE  shown'[e.addr] > e.height
  <2>1. e.height \in Nat /\ e.addr \in Addr /\ next \in Nat
    BY EventFields, HeightIsNat DEF RefreshTypeOK
  <2>2. shown[e.addr] \in Nat /\ shown'[e.addr] \in Nat /\ shown[e.addr] <= shown'[e.addr]
    BY <2>1 DEF RefreshTypeOK
  <2>3. CASE next <= e.height
    BY <1>1, <1>4, <2>3
  <2>4. CASE e.height < next
    BY <1>4, <2>1, <2>2, <2>4 DEF NoEventPassedOver
  <2> QED BY <2>1, <2>3, <2>4
<1>5. NoEventPassedOver'
  BY <1>4 DEF NoEventPassedOver
<1> QED BY <1>2, <1>3, <1>5

\* A round takes its next step; what it has learnt of its range holds.
LEMMA MoveKeepsInv ==
  ASSUME RefreshInv, UNCHANGED <<serviceVars, next, blank, processVars>>, up,
         shown' \in [Addr -> 0..(MaxHeight + 1)],
         \A a \in Addr : shown[a] <= shown'[a] /\ shown'[a] <= indexed + 1,
         round' \in RoundState, round'.end <= indexed + 1,
         round'.pc \in {"list", "refresh"} => round'.end <= cursor + 1,
         round'.pc = "refresh" => round'.cur \in round'.todo /\ RangeInv'
  PROVE  RefreshInv'
<1> USE DEF RefreshInv, serviceVars, processVars
<1>1. RefreshTypeOK'
  BY DEF RefreshTypeOK
<1>2. ShownIndexed' /\ RoundInv' /\ RangeInv'
  BY DEF ShownIndexed, RoundInv, RangeInv
<1>3. ASSUME NEW e \in events, StartHeight <= e.height, e.height < next, e.height \notin blank
      PROVE  shown'[e.addr] > e.height
  <2>1. e.height \in Nat /\ e.addr \in Addr
    BY EventFields, HeightIsNat DEF RefreshTypeOK
  <2>2. shown[e.addr] \in Nat /\ shown'[e.addr] \in Nat /\ shown[e.addr] <= shown'[e.addr]
    BY <2>1 DEF RefreshTypeOK
  <2> QED BY <1>3, <2>1, <2>2 DEF NoEventPassedOver
<1>4. NoEventPassedOver'
  BY <1>3 DEF NoEventPassedOver
<1> QED BY <1>1, <1>2, <1>4

\* The steps of a round before the first refresh.
LEMMA CallsKeepInv ==
  RefreshInv /\ (GetHeight \/ GetCursor \/ ListEvents \/ ListIsBlank \/ CallFails) => RefreshInv'
<1> SUFFICES ASSUME RefreshInv, GetHeight \/ GetCursor \/ ListEvents \/ ListIsBlank \/ CallFails
             PROVE RefreshInv'
  OBVIOUS
<1>1. /\ shown \in [Addr -> 0..(MaxHeight + 1)] /\ blank \subseteq Height
      /\ next \in 0..(MaxHeight + 1) /\ round \in RoundState
      /\ cursor \in 0..MaxHeight /\ indexed \in 0..MaxHeight /\ events \subseteq Event
  BY DEF RefreshInv, RefreshTypeOK, Height
<1>2. \A a \in Addr : shown[a] <= shown[a] /\ shown[a] <= indexed + 1
  BY <1>1 DEF RefreshInv, ShownIndexed
<1>3. round.end \in 0..(MaxHeight + 1) /\ round.todo \subseteq Event
  BY <1>1, RoundFields
<1>4. round.pc # "height" => up /\ round.end <= indexed + 1
  BY <1>1 DEF RefreshInv, RoundInv, RefreshTypeOK
<1>5. CASE GetHeight
  <2> DEFINE end == Lower(next + BatchNum, indexed + 1)
  <2>1. end \in 0..(MaxHeight + 1) /\ end <= indexed + 1
    BY <1>1 DEF Lower
  <2>2. /\ round' \in RoundState /\ round'.pc = "cursor" /\ round'.end <= indexed + 1
        /\ up /\ UNCHANGED <<besideRound, shown, next>>
    <3> HIDE DEF end
    <3> QED BY <1>5, <2>1, AtIsRound DEF GetHeight, end
  <2> QED BY <1>1, <1>2, <2>2, MoveKeepsInv DEF besideRound
<1>6. CASE GetCursor
  <2>1. CASE cursor < next
    BY <1>6, <2>1, GiveUpKeepsInv DEF GetCursor, besideRound
  <2>2. CASE ~(cursor < next)
    <3> DEFINE end == Lower(round.end, cursor + 1)
    <3>1. end \in 0..(MaxHeight + 1) /\ end <= indexed + 1 /\ end <= cursor + 1
      BY <1>1, <1>3, <1>4, <1>6 DEF Lower, GetCursor
    <3>2. /\ round' \in RoundState /\ round'.pc = "list" /\ round'.end = end
          /\ UNCHANGED <<besideRound, shown, next>>
      <4> HIDE DEF end
      <4> QED BY <1>6, <2>2, <3>1, AtIsRound DEF GetCursor, end
    <3> QED BY <1>1, <1>2, <1>4, <1>6, <3>1, <3>2, MoveKeepsInv DEF GetCursor, besideRound
  <2> QED BY <2>1, <2>2
<1>7. CASE ListEvents
  <2>1. round.end <= cursor + 1
    BY <1>7 DEF ListEvents, RefreshInv, RoundInv
  <2>2. ASSUME NEW e \in events, next <= e.height, e.height < round.end PROVE e \in Listed
    BY <1>1, <1>3, <2>1, <2>2, EventFields, HeightIsNat DEF Listed
  <2>3. CASE Listed = {}
    BY <1>1, <1>2, <1>7, <2>2, <2>3, FinishKeepsInv DEF ListEvents, besideRound, serviceVars
  <2>4. CASE Listed # {}
    <3>1. PICK e \in Listed : round' = At("refresh", round.end, Listed, e)
      BY <1>7, <2>4 DEF ListEvents
    <3>2. Listed \subseteq Event
      BY <1>1 DEF Listed
    <3>3. /\ round' \in RoundState /\ round'.pc = "refresh" /\ round'.end = round.end
          /\ round'.todo = Listed /\ round'.cur = e
      BY <1>3, <3>1, <3>2, AtIsRound
    <3>4. UNCHANGED <<besideRound, shown, next>>
      BY <1>7, <2>4 DEF ListEvents
    <3>5. RangeInv'
      BY <2>2, <3>3, <3>4 DEF RangeInv, Listed, besideRound, serviceVars
    <3> QED BY <1>1, <1>2, <1>4, <1>7, <2>1, <3>3, <3>4, <3>5, MoveKeepsInv
            DEF ListEvents, besideRound
  <2> QED BY <2>3, <2>4
<1>8. CASE ListIsBlank
  <2>1. blank' \subseteq Height
    <3>1. round.end <= indexed + 1
      BY <1>4, <1>8 DEF ListIsBlank
    <3>2. next..(round.end - 1) \subseteq Height
      BY <1>1, <1>3, <3>1 DEF Height
    <3> QED BY <1>1, <1>8, <3>2 DEF ListIsBlank
  <2>2. ASSUME NEW e \in events, next <= e.height, e.height < round.end PROVE e.height \in blank'
    BY <1>1, <1>3, <1>8, <2>2, EventFields, HeightIsNat DEF ListIsBlank
  <2> QED BY <1>1, <1>2, <1>8, <2>1, <2>2, FinishKeepsInv DEF ListIsBlank, serviceVars
<1>9. CASE CallFails
  BY <1>9, GiveUpKeepsInv DEF CallFails, besideRound
<1> QED BY <1>5, <1>6, <1>7, <1>8, <1>9

\* A refresh: balances become newer, the account in hand new enough.
LEMMA RefreshesKeepInv ==
  ASSUME RefreshInv, NEW e \in round.todo, RefreshDone(e) \/ RefreshLost(e)
  PROVE  RefreshInv'
<1>1. /\ shown \in [Addr -> 0..(MaxHeight + 1)] /\ blank \subseteq Height
      /\ next \in 0..(MaxHeight + 1) /\ round \in RoundState
      /\ cursor \in 0..MaxHeight /\ indexed \in 0..MaxHeight /\ events \subseteq Event
  BY DEF RefreshInv, RefreshTypeOK, Height
<1>2. round.end \in 0..(MaxHeight + 1) /\ round.todo \subseteq Event
  BY <1>1, RoundFields
<1>3. /\ e \in Event /\ e = round.cur /\ round.pc = "refresh"
      /\ shown' = [shown EXCEPT ![e.addr] = indexed + 1]
  BY <1>2 DEF RefreshDone, RefreshLost, Refresh
<1>4. /\ e.addr \in Addr /\ e.height \in Nat /\ e.height < round.end
      /\ up /\ round.end <= indexed + 1 /\ round.end <= cursor + 1
  BY <1>1, <1>3, EventFields, HeightIsNat DEF RefreshInv, RefreshTypeOK, RoundInv, RangeInv
<1>5. shown' \in [Addr -> 0..(MaxHeight + 1)]
  <2>1. indexed + 1 \in 0..(MaxHeight + 1)
    BY <1>1
  <2> QED BY <1>1, <1>3, <2>1
<1>6. \A a \in Addr : shown[a] <= shown'[a] /\ shown'[a] <= indexed + 1
  BY <1>1, <1>3, <1>4 DEF RefreshInv, ShownIndexed
<1>7. shown'[e.addr] > e.height
  BY <1>1, <1>2, <1>3, <1>4
<1>8. ASSUME NEW f \in events, next <= f.height, f.height < round.end, f.height \notin blank
      PROVE  f \in round.todo \ {e} \/ shown'[f.addr] > f.height
  <2>1. f.height \in Nat /\ f.addr \in Addr
    BY <1>1, EventFields, HeightIsNat
  <2>2. f \in round.todo \/ shown[f.addr] > f.height
    BY <1>3, <1>8 DEF RefreshInv, RangeInv
  <2>3. shown[f.addr] > f.height => shown'[f.addr] > f.height
    BY <1>1, <1>5, <1>6, <2>1
  <2> QED BY <1>7, <2>2, <2>3
<1>9. CASE RefreshLost(e)
  <2>1. UNCHANGED <<besideRound, next, round>>
    BY <1>9 DEF RefreshLost
  <2>2. RangeInv'
    BY <1>8, <2>1 DEF RefreshInv, RangeInv, besideRound, serviceVars
  <2> QED BY <1>1, <1>3, <1>4, <1>5, <1>6, <2>1, <2>2, MoveKeepsInv DEF besideRound
<1>10. CASE RefreshDone(e)
  <2> DEFINE rest == round.todo \ {e}
  <2>1. UNCHANGED besideRound
    BY <1>10 DEF RefreshDone
  <2>2. CASE rest = {}
    BY <1>1, <1>5, <1>6, <1>8, <1>10, <2>1, <2>2, FinishKeepsInv
       DEF RefreshDone, besideRound
  <2>3. CASE rest # {}
    <3>1. PICK f \in rest : round' = At("refresh", round.end, rest, f) /\ next' = next
      BY <1>10, <2>3 DEF RefreshDone
    <3>2. /\ round' \in RoundState /\ round'.pc = "refresh" /\ round'.end = round.end
          /\ round'.todo = rest /\ round'.cur = f
      BY <1>2, <3>1, AtIsRound
    <3>3. RangeInv'
      BY <1>3, <1>8, <2>1, <3>1, <3>2 DEF RefreshInv, RangeInv, besideRound, serviceVars
    <3> QED BY <1>4, <1>5, <1>6, <2>1, <3>1, <3>2, <3>3, MoveKeepsInv DEF besideRound
  <2> QED BY <2>2, <2>3
<1> QED BY <1>9, <1>10

\* The inductive invariant.
THEOREM RefreshInvariant == RefreshSafety => []RefreshInv
<1>1. RefreshInv /\ [RefreshNext]_refreshVars => RefreshInv'
  <2> SUFFICES ASSUME RefreshInv, [RefreshNext]_refreshVars PROVE RefreshInv'
    OBVIOUS
  <2>1. CASE UNCHANGED refreshVars
    BY <2>1 DEF refreshVars, serviceVars, processVars, RefreshInv, RefreshTypeOK, ShownIndexed,
                RoundInv, RangeInv, NoEventPassedOver
  <2>2. CASE RefreshNext
    BY <2>2, ServicesKeepInv, ProcessKeepsInv, CallsKeepInv, RefreshesKeepInv
       DEF RefreshNext, Start
  <2> QED BY <2>1, <2>2
<1> QED BY <1>1, RefreshInitInv, PTL DEF RefreshSafety

(* The state of the refresher has its type in every reachable state.       *)
THEOREM RefreshTypeCorrect == RefreshSafety => []RefreshTypeOK
  BY RefreshInvariant, PTL DEF RefreshInv

(* nextRefreshHeight passes no event whose balance is older than its       *)
(* block, unless the list of the block was an error page.                  *)
THEOREM EventsNotPassedOver == RefreshSafety => []NoEventPassedOver
  BY RefreshInvariant, PTL DEF RefreshInv
=============================================================================
