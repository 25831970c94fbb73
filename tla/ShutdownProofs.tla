--------------------------- MODULE ShutdownProofs ---------------------------
(* Theorems about Shutdown, for any number of relayers and signals.        *)
EXTENDS Shutdown, TLAPS

\* RootAction has registered a handler for every relayer.
Registered == callbacks = numRelayers

(* Where RootAction is says how many handlers it has registered.           *)
MainInv ==
  /\ main = "range" => callbacks = txRelayer
  /\ main = "assign" => callbacks = txRelayer /\ txRelayer < numRelayers
  /\ main \in {"start", "notify", "register"} => callbacks = txRelayer - 1
  /\ main = "done" => Registered /\ callbacks = txRelayer
  /\ callbacks > 0 => handler.pc # "off"

(* With all handlers registered the shared variable rests at the last      *)
(* relayer: the first callback stops it, and the second, if there is one,  *)
(* finds its channel closed.                                               *)
CallbackInv ==
  /\ handler.pc \in {"off", "select"} => \A r \in Relayer : ~quit[r]
  /\ Registered /\ handler.pc = "stop" /\ ~quit[numRelayers] => handler.left = numRelayers
  /\ Registered /\ handler.pc \in {"receiver", "wait"} =>
       handler.left = numRelayers /\ quit[numRelayers]
  /\ Registered /\ handler.pc = "wait" => handler.target = numRelayers
  /\ Registered /\ handler.pc = "stop" /\ quit[numRelayers] => numRelayers > 1
  /\ Registered /\ handler.pc \in {"close", "returned"} =>
       numRelayers = 1 /\ AllReturned(1)
  /\ done => handler.pc = "returned"
  /\ handler.pc \in {"stop", "receiver", "wait"} => handler.left > 0

ExitInv == process = "exited" => numRelayers = 1 /\ AllReturned(1)

ShutdownInv == ShutdownTypeOK /\ MainInv /\ CallbackInv /\ ExitInv
-----------------------------------------------------------------------------
LEMMA ShutdownInvInit == ShutdownInit => ShutdownInv
<1> USE ShutdownAssumption DEF ShutdownAssumption
<1> SUFFICES ASSUME ShutdownInit PROVE ShutdownInv
  OBVIOUS
<1>1. ShutdownTypeOK
  <2>1. HandlerAt("off") \in HandlerState
    BY DEF HandlerAt, HandlerState
  <2>2. 0 \in 0..numRelayers /\ 0 \in 0..MaxSignals /\ 0 \in 0..1
    BY DEF ShutdownInit, Relayer
  <2>3. quit \in [Relayer -> BOOLEAN] /\ loop \in [Loop -> {"none", "top", "work", "returned"}]
    BY DEF ShutdownInit
  <2> QED BY <2>1, <2>2, <2>3 DEF ShutdownInit, ShutdownTypeOK
<1>2. MainInv
  BY DEF ShutdownInit, MainInv, HandlerAt
<1>3. CallbackInv
  BY DEF ShutdownInit, CallbackInv, HandlerAt, Registered, Relayer
<1>4. ExitInv
  BY DEF ShutdownInit, ExitInv
<1> QED BY <1>1, <1>2, <1>3, <1>4 DEF ShutdownInv

(* RootAction keeps the invariant: it moves the shared variable only while *)
(* a handler is missing, and with one missing it never gets to the end.    *)
LEMMA RootActionInv ==
  ShutdownInv /\ process = "running" /\ RootAction => ShutdownInv'
<1> USE ShutdownAssumption DEF ShutdownAssumption, Relayer, Registered, rootVars, handlerVars, relayerVars, signalVars
<1> SUFFICES ASSUME ShutdownInv, process = "running", RootAction
             PROVE  ShutdownInv'
  OBVIOUS
<1> USE DEF ShutdownInv
<1>1. CASE NextIteration
  BY <1>1 DEF NextIteration, ShutdownTypeOK, MainInv, CallbackInv, ExitInv, AllReturned
<1>2. CASE Assign
  BY <1>2 DEF Assign, ShutdownTypeOK, MainInv, CallbackInv, ExitInv, AllReturned
<1>3. CASE Start
  <2>1. ShutdownTypeOK'
    BY <1>3 DEF Start, ShutdownTypeOK
  <2>2. MainInv' /\ ~Registered'
    BY <1>3 DEF Start, ShutdownTypeOK, MainInv
  <2>3. CallbackInv'
    BY <1>3, <2>2 DEF Start, CallbackInv
  <2> QED BY <1>3, <2>1, <2>2, <2>3 DEF Start, ExitInv
<1>4. CASE Notify
  <2>0. HandlerAt("select") \in HandlerState
    BY DEF HandlerAt, HandlerState
  <2>1. ShutdownTypeOK'
    BY <1>4, <2>0 DEF Notify, ShutdownTypeOK
  <2>2. MainInv' /\ ~Registered'
    BY <1>4 DEF Notify, ShutdownTypeOK, MainInv, HandlerAt
  <2>3. CallbackInv'
    BY <1>4, <2>2 DEF Notify, CallbackInv, HandlerAt
  <2> QED BY <1>4, <2>1, <2>2, <2>3 DEF Notify, ExitInv
<1>5. CASE Register
  <2>1. ShutdownTypeOK' /\ MainInv'
    BY <1>5 DEF Register, ShutdownTypeOK, MainInv
  <2>2. CallbackInv'
    BY <1>5 DEF Register, CallbackInv
  <2> QED BY <1>5, <2>1, <2>2 DEF Register, ExitInv
<1>6. CASE Exit
  <2>1. Registered /\ handler.pc = "returned"
    BY <1>6 DEF Exit, MainInv, CallbackInv
  <2>2. numRelayers = 1 /\ AllReturned(1)
    BY <2>1 DEF CallbackInv
  <2> QED BY <1>6, <2>2 DEF Exit, ShutdownTypeOK, MainInv, CallbackInv, ExitInv, AllReturned
<1> QED BY <1>1, <1>2, <1>3, <1>4, <1>5, <1>6 DEF RootAction

(* Signals reach the channel, not the callbacks.                           *)
LEMMA SignalInv ==
  ShutdownInv /\ process = "running" /\ Signal => ShutdownInv'
<1> SUFFICES ASSUME ShutdownInv, process = "running", Signal
             PROVE  ShutdownInv'
  OBVIOUS
<1> USE DEF ShutdownInv, Signal, rootVars, handlerVars, relayerVars
<1>1. ShutdownTypeOK'
  BY ShutdownAssumption DEF ShutdownAssumption, ShutdownTypeOK
<1>2. MainInv'
  BY DEF MainInv, Registered
<1>3. CallbackInv'
  BY DEF CallbackInv, Registered, AllReturned
<1>4. ExitInv'
  BY DEF ExitInv, AllReturned
<1> QED BY <1>1, <1>2, <1>3, <1>4

(* The goroutines move between rounds and, when stopped, return for good.  *)
LEMMA LoopInv ==
  ASSUME NEW g \in Loop, ShutdownInv, process = "running", LoopStep(g)
  PROVE  ShutdownInv'
<1> USE DEF ShutdownInv, besideLoops, rootVars, handlerVars, signalVars
<1>1. /\ UNCHANGED <<process, numRelayers, main, txRelayer, handler, callbacks, done,
                     quit, pending, signals>>
      /\ loop' \in [Loop -> {"none", "top", "work", "returned"}]
      /\ loop[g] \in {"top", "work"}
      /\ \A h \in Loop : h # g => loop'[h] = loop[h]
  BY DEF LoopStep, Round, RoundEnds, Return, ShutdownTypeOK
<1>2. \A r : AllReturned(r) => AllReturned(r)'
  BY <1>1 DEF AllReturned
<1>3. ShutdownTypeOK'
  BY <1>1 DEF ShutdownTypeOK
<1>4. MainInv'
  BY <1>1 DEF MainInv, Registered
<1>5. CallbackInv'
  BY <1>1, <1>2 DEF CallbackInv, Registered
<1>6. ExitInv'
  BY <1>1, <1>2 DEF ExitInv
<1> QED BY <1>3, <1>4, <1>5, <1>6

(* The handler keeps the invariant.  Only the first callback of a full     *)
(* list gets through, and it gets through when the last relayer's          *)
(* goroutines have returned.                                               *)
LEMMA HandlerInv ==
  ShutdownInv /\ process = "running" /\ MainInterruptHandler => ShutdownInv'
<1> USE ShutdownAssumption DEF ShutdownAssumption, Relayer, Registered
<1> SUFFICES ASSUME ShutdownInv, process = "running", MainInterruptHandler
             PROVE  ShutdownInv'
  OBVIOUS
<1> USE DEF ShutdownInv, besideHandler, rootVars, relayerVars, HandlerAt, NextCallback
<1>0. /\ UNCHANGED <<numRelayers, main, txRelayer, callbacks, signals, loop>>
      /\ handler.pc # "off" /\ handler'.pc # "off"
      /\ handler' \in HandlerState
  <2> USE DEF ShutdownTypeOK, HandlerState
  <2>0. 0 \in 0..MaxRelayers /\ txRelayer \in 0..MaxRelayers
    OBVIOUS
  <2>1. CASE Receive BY <2>1 DEF Receive
  <2>2. CASE Stop BY <2>2 DEF Stop
  <2>3. CASE StopAgain BY <2>3 DEF StopAgain
  <2>4. CASE CallWait BY <2>0, <2>4 DEF CallWait
  <2>5. CASE TornRead
    <3>1. \/ UNCHANGED handler
          \/ handler' = [handler EXCEPT !.pc = "receiver"]
          \/ handler' = [handler EXCEPT !.pc = "wait", !.target = 0]
      BY <2>5 DEF TornRead
    <3>2. handler' \in HandlerState /\ handler'.pc \in {handler.pc, "receiver", "wait"}
      BY <2>0, <3>1
    <3> QED BY <2>5, <3>2 DEF TornRead
  <2>6. CASE Waited BY <2>6 DEF Waited, CallbackInv
  <2>7. CASE CloseDone BY <2>7 DEF CloseDone
  <2> QED BY <2>1, <2>2, <2>3, <2>4, <2>5, <2>6, <2>7 DEF MainInterruptHandler
<1>1. MainInv'
  BY <1>0 DEF MainInv
<1>2. ASSUME Registered PROVE txRelayer = numRelayers /\ main # "assign"
  BY <1>0, <1>2 DEF MainInv, ShutdownTypeOK
<1>3. CASE Receive
  <2>1. ShutdownTypeOK'
    BY <1>0, <1>3 DEF Receive, ShutdownTypeOK
  <2>2. CallbackInv'
    BY <1>3, <1>2 DEF Receive, ShutdownTypeOK, HandlerState, CallbackInv, AllReturned
  <2> QED BY <1>1, <1>3, <2>1, <2>2 DEF Receive, ExitInv
<1>4. CASE Stop
  <2>1. ShutdownTypeOK'
    BY <1>0, <1>4 DEF Stop, ShutdownTypeOK
  <2>2. CallbackInv'
    BY <1>4, <1>2 DEF Stop, ShutdownTypeOK, HandlerState, CallbackInv, AllReturned
  <2> QED BY <1>1, <1>4, <2>1, <2>2 DEF Stop, ExitInv
<1>5. CASE StopAgain
  <2>1. ShutdownTypeOK' /\ CallbackInv'
    BY <1>0, <1>5 DEF StopAgain, ShutdownTypeOK, HandlerState, CallbackInv, AllReturned
  <2> QED BY <1>1, <1>5, <2>1 DEF StopAgain, ExitInv
<1>6. CASE CallWait
  <2>1. ShutdownTypeOK'
    BY <1>0, <1>6 DEF CallWait, ShutdownTypeOK
  <2>2. CallbackInv'
    BY <1>6, <1>2 DEF CallWait, ShutdownTypeOK, HandlerState, CallbackInv, AllReturned
  <2> QED BY <1>1, <1>6, <2>1, <2>2 DEF CallWait, ExitInv
<1>7. CASE TornRead
  <2>1. ShutdownTypeOK'
    BY <1>0, <1>7 DEF TornRead, ShutdownTypeOK
  <2>2. ~Registered'
    BY <1>7, <1>2, <1>0 DEF TornRead
  <2>3. CallbackInv'
    BY <1>7, <2>2 DEF TornRead, CallbackInv, ShutdownTypeOK, HandlerState
  <2> QED BY <1>1, <1>7, <2>1, <2>3 DEF TornRead, ExitInv
<1>8. CASE Waited
  <2>1. handler.left \in 1..MaxRelayers
    BY <1>8 DEF Waited, ShutdownTypeOK, HandlerState, CallbackInv
  <2>2. ShutdownTypeOK'
    BY <1>0, <1>8, <2>1 DEF Waited, ShutdownTypeOK
  <2>3. CallbackInv'
    BY <1>8, <1>2, <2>1 DEF Waited, ShutdownTypeOK, HandlerState, CallbackInv, AllReturned
  <2> QED BY <1>1, <1>8, <2>2, <2>3 DEF Waited, ExitInv
<1>9. CASE CloseDone
  <2>1. ShutdownTypeOK' /\ CallbackInv'
    BY <1>0, <1>9 DEF CloseDone, ShutdownTypeOK, HandlerState, CallbackInv, AllReturned
  <2> QED BY <1>1, <1>9, <2>1 DEF CloseDone, ExitInv
<1> QED
  BY <1>3, <1>4, <1>5, <1>6, <1>7, <1>8, <1>9 DEF MainInterruptHandler

LEMMA ShutdownInvNext == ShutdownInv /\ [ShutdownNext]_shutdownVars => ShutdownInv'
<1> SUFFICES ASSUME ShutdownInv, [ShutdownNext]_shutdownVars
             PROVE  ShutdownInv'
  OBVIOUS
<1>1. CASE ShutdownNext
  BY <1>1, RootActionInv, SignalInv, LoopInv, HandlerInv DEF ShutdownNext
<1>2. CASE UNCHANGED shutdownVars
  BY <1>2 DEF shutdownVars, rootVars, handlerVars, relayerVars, signalVars, ShutdownInv,
     ShutdownTypeOK, MainInv, CallbackInv, ExitInv, Registered, AllReturned
<1> QED BY <1>1, <1>2

(* Where every part of the process stands, for any number of relayers.     *)
THEOREM ShutdownInvariant == ShutdownSpec => []ShutdownInv
<1> QED BY ShutdownInvInit, ShutdownInvNext, PTL DEF ShutdownSpec, ShutdownSafety

(* The state has its type: the channel holds one signal at most, and no    *)
(* handler is registered twice.  (RootAction, mainInterruptHandler)        *)
THEOREM ShutdownTypeCorrect == ShutdownSpec => []ShutdownTypeOK
<1>1. ShutdownInv => ShutdownTypeOK
  BY DEF ShutdownInv
<1> QED BY <1>1, ShutdownInvariant, PTL

(* The program exits only when all its goroutines have returned.           *)
(* (RootAction waits for interruptHandlersDone)                            *)
THEOREM ExitIsClean == ShutdownSpec => []CleanExit
<1>1. ShutdownInv => CleanExit
  <2> SUFFICES ASSUME ShutdownInv, process = "exited", NEW r \in 1..numRelayers
               PROVE  AllReturned(r)
    BY DEF CleanExit
  <2>1. numRelayers = 1 /\ AllReturned(1)
    BY DEF ShutdownInv, ExitInv
  <2>2. r = 1
    BY <2>1
  <2> QED BY <2>1, <2>2
<1> QED BY <1>1, ShutdownInvariant, PTL

(* With two relayers or more the program never exits by itself: whenever   *)
(* the signal comes, it panics, is killed or hangs.  (the closure over     *)
(* txRelayer in RootAction)                                                *)
THEOREM TwoRelayersNeverExit ==
  ShutdownSpec => [](numRelayers > 1 => process # "exited")
<1>1. ShutdownInv => (numRelayers > 1 => process # "exited")
  BY DEF ShutdownInv, ExitInv
<1> QED BY <1>1, ShutdownInvariant, PTL
=============================================================================
