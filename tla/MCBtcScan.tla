------------------------------ MODULE MCBtcScan ------------------------------
(* One founder and two agents that come and go.  A and B are addresses of  *)
(* agents, C is a depositor's.  The transactions cover the branches of the *)
(* filter; see the comments at MCTxOut.                                    *)
EXTENDS BtcScan, TLC

CONSTANTS A, B, C, t1, t2, t3, t4

MCAddr       == {A, B, C}
MCAgentAddr  == <<A, B, A>>
MCHasEthAddr == <<TRUE, FALSE, FALSE>>

Out(to, value) == [to |-> to, value |-> value]

MCTxOut ==
  t1 :> <<Out(C, 6), Out(A, 2)>>                       \* to the founder
  @@ t2 :> <<Out(B, 3), Out(A, 1), Out(OpReturn, 0)>>  \* to agent 2, if known
  @@ t3 :> <<Out(A, 4)>>                               \* spends B's coins
  @@ t4 :> <<Out(Opaque, 5), Out(B, 1)>>               \* no OP_RETURN
MCTxIn ==
  t1 :> <<C>> @@ t2 :> <<C>> @@ t3 :> <<C, B>> @@ t4 :> <<C>>

MCTx     == {t1, t2, t3, t4}
MCBodies == {<<>>, <<t2>>, <<t1, t3>>, <<t4, t1>>}
=============================================================================
