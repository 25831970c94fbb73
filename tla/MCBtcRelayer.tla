---------------------------- MODULE MCBtcRelayer ----------------------------
(* Two deposits, to a founder and to an agent that comes and goes, around  *)
(* the first two amount thresholds.                                        *)
EXTENDS BtcRelayer, TLC

CONSTANTS A, B, C, t1, t2

MCAddr       == {A, B, C}
MCAgentAddr  == <<A, B>>
MCHasEthAddr == <<TRUE, FALSE>>

MCAgentAddr1  == <<A>>
MCHasEthAddr1 == <<TRUE>>

Out(to, value) == [to |-> to, value |-> value]

MCTx     == {t1, t2}
MCTxOut  == t1 :> <<Out(A, Dep0Amount)>>
            @@ t2 :> <<Out(B, Dep0Amount - 1), Out(A, Dep1Amount), Out(OpReturn, 0)>>
MCTxIn   == t1 :> <<C>> @@ t2 :> <<C>>
MCBodies == {<<>>, <<t2, t1>>}

\* Liveness: the first needs a header above its block, the second is dust.
MCTxOutLive  == t1 :> <<Out(A, Dep0Amount)>> @@ t2 :> <<Out(A, Dep0Amount - 1)>>
MCBodiesLive == {<<>>, <<t1>>, <<t2>>}
=============================================================================
