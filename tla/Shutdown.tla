------------------------------ MODULE Shutdown ------------------------------
(***************************************************************************)
(* The life of the process around the relayers: RootAction starts them and *)
(* registers their interrupt handlers, mainInterruptHandler runs the       *)
(* handlers when a signal arrives, each handler closes a relayer's quit    *)
(* channel and waits for its goroutines.                                   *)
(*                                                                         *)
(* The handlers are closures over the variable of RootAction's loop, of    *)
(* which Go 1.21 has one for all iterations.  So they are all alike, and   *)
(* the list interruptCallbacks is known by its length.                     *)
(***************************************************************************)
EXTENDS Integers

CONSTANTS
  MaxRelayers,  \* the relayers RootAction tries to create
  MaxSignals    \* bound: how many signals arrive

ASSUME ShutdownAssumption == MaxRelayers \in Nat \ {0} /\ MaxSignals \in Nat

Relayer == 1..MaxRelayers

\* The goroutines that Start of a relayer adds: relayer 1 is Bitcoin's.
LoopsOf(r) == IF r = 1 THEN {"scan", "submit", "agents"} ELSE {"scan", "submit"}
Loop       == UNION {{<<r, l>> : l \in LoopsOf(r)} : r \in Relayer}

VARIABLES
  process,    \* "running" and how it ended
  numRelayers,\* the length of txRelayerList
  main,       \* where RootAction is
  txRelayer,  \* the variable of its loop; 0 before the first iteration
  pending,    \* interruptChannel, a channel with a buffer of one
  handler,    \* mainInterruptHandler
  callbacks,  \* how many callbacks are registered
  done,       \* interruptHandlersDone is closed
  quit,       \* quit[r]: the channel is closed
  loop,       \* loop[g]: where goroutine g is
  signals     \* how many signals have arrived

rootVars     == <<numRelayers, main, txRelayer>>
handlerVars  == <<handler, callbacks, done>>
relayerVars  == <<quit, loop>>
signalVars   == <<pending, signals>>
shutdownVars == <<process, rootVars, handlerVars, relayerVars, signalVars>>

\* left: callbacks to run; target: the relayer being waited for.
HandlerAt(pc) == [pc |-> pc, left |-> 0, target |-> 0]
HandlerState  ==
  [pc : {"off", "select", "stop", "receiver", "wait", "close", "returned"},
   left : 0..MaxRelayers, target : 0..MaxRelayers]

ShutdownTypeOK ==
  /\ process \in {"running", "killed", "panicked", "exited"}
  /\ numRelayers \in Relayer
  /\ main \in {"range", "assign", "start", "notify", "register", "done"}
  /\ txRelayer \in 0..numRelayers
  /\ pending \in 0..1
  /\ handler \in HandlerState
  /\ callbacks \in 0..numRelayers
  /\ done \in BOOLEAN
  /\ quit \in [Relayer -> BOOLEAN]
  /\ loop \in [Loop -> {"none", "top", "work", "returned"}]
  /\ signals \in 0..MaxSignals

\* NewTxRelayer must succeed; without the other relayers the program goes on.
ShutdownInit ==
  /\ process = "running"
  /\ numRelayers \in Relayer
  /\ main = "range"
  /\ txRelayer = 0
  /\ pending = 0
  /\ handler = HandlerAt("off")
  /\ callbacks = 0
  /\ done = FALSE
  /\ quit = [r \in Relayer |-> FALSE]
  /\ loop = [g \in Loop |-> "none"]
  /\ signals = 0

-----------------------------------------------------------------------------
\* RootAction.

NextIteration ==
  /\ main = "range"
  /\ main' = IF txRelayer < numRelayers THEN "assign" ELSE "done"
  /\ UNCHANGED <<process, numRelayers, txRelayer, handlerVars, relayerVars, signalVars>>

\* Two words, a type and a pointer, are stored one after the other.
Assign ==
  /\ main = "assign"
  /\ txRelayer' = txRelayer + 1
  /\ main' = "start"
  /\ UNCHANGED <<process, numRelayers, handlerVars, relayerVars, signalVars>>

Start ==
  /\ main = "start"
  /\ loop' = [g \in Loop |-> IF g[1] = txRelayer THEN "top" ELSE loop[g]]
  /\ main' = "notify"
  /\ UNCHANGED <<process, numRelayers, txRelayer, handlerVars, quit, signalVars>>

\* The first call of addInterruptHandler makes the channel and the goroutine.
Notify ==
  /\ main = "notify"
  /\ main' = "register"
  /\ handler' = IF handler.pc = "off" THEN HandlerAt("select") ELSE handler
  /\ UNCHANGED <<process, numRelayers, txRelayer, callbacks, done, relayerVars, signalVars>>

\* addHandlerChannel has no buffer: the two goroutines meet.
Register ==
  /\ main = "register"
  /\ handler.pc = "select"
  /\ callbacks' = callbacks + 1
  /\ main' = "range"
  /\ UNCHANGED <<process, numRelayers, txRelayer, handler, done, relayerVars, signalVars>>

Exit ==
  /\ main = "done"
  /\ done
  /\ process' = "exited"
  /\ UNCHANGED <<rootVars, handlerVars, relayerVars, signalVars>>

RootAction == NextIteration \/ Assign \/ Start \/ Notify \/ Register \/ Exit

-----------------------------------------------------------------------------
\* Mutant of Signal: a channel without a limit.
SignalQueued ==
  /\ signals < MaxSignals
  /\ signals' = signals + 1
  /\ IF handler.pc = "off"
     THEN process' = "killed" /\ UNCHANGED pending
     ELSE pending' = pending + 1 /\ UNCHANGED process
  /\ UNCHANGED <<rootVars, handlerVars, relayerVars>>

\* The operating system sends SIGINT or SIGTERM.  Until signal.Notify it kills
\* the process; afterwards a signal that finds the channel full is dropped.
Signal ==
  /\ signals < MaxSignals
  /\ signals' = signals + 1
  /\ IF handler.pc = "off"
     THEN process' = "killed" /\ UNCHANGED pending
     ELSE pending' = 1 /\ UNCHANGED process
  /\ UNCHANGED <<rootVars, handlerVars, relayerVars>>

-----------------------------------------------------------------------------
\* mainInterruptHandler.

besideHandler == <<rootVars, callbacks, signals>>

NextCallback(left) ==
  handler' = [HandlerAt(IF left = 0 THEN "close" ELSE "stop") EXCEPT !.left = left]

Receive ==
  /\ handler.pc = "select"
  /\ pending = 1
  /\ pending' = 0
  /\ NextCallback(callbacks)
  /\ UNCHANGED <<besideHandler, process, done, relayerVars>>

\* txRelayer.Stop()
Stop ==
  /\ handler.pc = "stop"
  /\ ~quit[txRelayer]
  /\ quit' = [quit EXCEPT ![txRelayer] = TRUE]
  /\ handler' = [handler EXCEPT !.pc = "receiver"]
  /\ UNCHANGED <<besideHandler, process, done, pending, loop>>

\* To close a closed channel is a panic, which ends the process.
StopAgain ==
  /\ handler.pc = "stop"
  /\ quit[txRelayer]
  /\ process' = "panicked"
  /\ UNCHANGED <<besideHandler, handler, done, pending, relayerVars>>

\* txRelayer.WaitForShutdown(): the variable is read again.
CallWait ==
  /\ handler.pc = "receiver"
  /\ handler' = [handler EXCEPT !.pc = "wait", !.target = txRelayer]
  /\ UNCHANGED <<besideHandler, process, done, pending, relayerVars>>

\* A callback reads the variable between the stores of its two words: the method
\* of one relayer on the memory of the other crashes, or misses its target.
TornRead ==
  /\ main = "assign"
  /\ \/ /\ handler.pc \in {"stop", "receiver"}
        /\ process' = "panicked"
        /\ UNCHANGED handler
     \/ /\ handler.pc = "stop"
        /\ handler' = [handler EXCEPT !.pc = "receiver"]
        /\ UNCHANGED process
     \/ /\ handler.pc = "receiver"
        /\ handler' = [handler EXCEPT !.pc = "wait", !.target = 0]
        /\ UNCHANGED process
  /\ UNCHANGED <<besideHandler, done, pending, relayerVars>>

AllReturned(r) == \A g \in Loop : g[1] = r => loop[g] \in {"none", "returned"}

\* Mutant of Waited: Stop alone, without WaitForShutdown.
WaitedForNobody ==
  /\ handler.pc = "wait"
  /\ NextCallback(handler.left - 1)
  /\ UNCHANGED <<besideHandler, process, done, pending, relayerVars>>

Waited ==
  /\ handler.pc = "wait"
  /\ AllReturned(handler.target)
  /\ NextCallback(handler.left - 1)
  /\ UNCHANGED <<besideHandler, process, done, pending, relayerVars>>

\* Mutant of CloseDone: the handler returns and tells nobody.
ReturnOnly ==
  /\ handler.pc = "close"
  /\ handler' = HandlerAt("returned")
  /\ UNCHANGED <<besideHandler, process, done, pending, relayerVars>>

CloseDone ==
  /\ handler.pc = "close"
  /\ done' = TRUE
  /\ handler' = HandlerAt("returned")
  /\ UNCHANGED <<besideHandler, process, pending, relayerVars>>

MainInterruptHandler ==
  \/ Receive \/ Stop \/ StopAgain \/ CallWait \/ TornRead
  \/ Waited \/ CloseDone

-----------------------------------------------------------------------------
\* The loops of the relayers, which look at quit between two rounds.

besideLoops == <<process, rootVars, handlerVars, quit, signalVars>>

Round(g) ==
  /\ loop[g] = "top"
  /\ ~quit[g[1]]
  /\ loop' = [loop EXCEPT ![g] = "work"]
  /\ UNCHANGED besideLoops

RoundEnds(g) ==
  /\ loop[g] = "work"
  /\ loop' = [loop EXCEPT ![g] = "top"]
  /\ UNCHANGED besideLoops

Return(g) ==
  /\ loop[g] = "top"
  /\ quit[g[1]]
  /\ loop' = [loop EXCEPT ![g] = "returned"]
  /\ UNCHANGED besideLoops

LoopStep(g) == Round(g) \/ RoundEnds(g) \/ Return(g)

-----------------------------------------------------------------------------
ShutdownNext ==
  /\ process = "running"
  /\ \/ RootAction \/ Signal \/ MainInterruptHandler
     \/ \E g \in Loop : LoopStep(g)

ShutdownSafety == ShutdownInit /\ [][ShutdownNext]_shutdownVars

\* Every goroutine runs, and every round ends: no call hangs for ever and the
\* loop around GetTx gets its answer.
ShutdownFairness ==
  /\ WF_shutdownVars(ShutdownNext /\ RootAction)
  /\ WF_shutdownVars(ShutdownNext /\ MainInterruptHandler)
  /\ \A g \in Loop : WF_shutdownVars(ShutdownNext /\ LoopStep(g))

ShutdownSpec == ShutdownSafety /\ ShutdownFairness
-----------------------------------------------------------------------------
(* The program exits only when every goroutine it started has returned, so *)
(* that no half-finished round is cut off: the variable the handlers share *)
(* may change under them, and the signal may arrive between two relayers.  *)
(* (RootAction waits for interruptHandlersDone)                            *)
CleanExit == process = "exited" => \A r \in 1..numRelayers : AllReturned(r)

(* An interrupt that arrives when the only relayer is up and registered    *)
(* stops the program, and cleanly.  (mainInterruptHandler, Stop,           *)
(* WaitForShutdown)                                                        *)
ShutdownCompletes ==
  (numRelayers = 1 /\ main = "done" /\ pending = 1) ~> process = "exited"

(* A handled signal never crashes the program that is up and registered:   *)
(* "signals defines the signals that are handled to do a clean shutdown",  *)
(* cmd/utils.go.                                                           *)
NeverPanics == main = "done" => process # "panicked"
=============================================================================
