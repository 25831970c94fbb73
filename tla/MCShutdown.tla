----------------------------- MODULE MCShutdown -----------------------------
(* The Bitcoin relayer, and the BNB relayer if it can be created; a signal *)
(* and an impatient second one.                                            *)
EXTENDS Shutdown

MCMaxRelayers == 2
MCMaxSignals  == 2
=============================================================================
