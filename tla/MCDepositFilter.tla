--------------------------- MODULE MCDepositFilter ---------------------------
(* Every transaction of one or two outputs and one input, or of one output *)
(* and two inputs, alone in the only block, against a list of agents that  *)
(* never changes: A asks for inputs that are not an agent's, B for an      *)
(* OP_RETURN, and the third agent shares A's address and is never chosen.  *)
EXTENDS BtcScan, TLC

CONSTANTS A, B, C

MCAddr       == {A, B, C}
MCAgentAddr  == <<A, B, A>>
MCHasEthAddr == <<TRUE, FALSE, FALSE>>

Outs   == [to : {A, B, C, OpReturn, Opaque}, value : {1}]
SeqOf(S, n) == [1..n -> S]

MCTx     == [outs : SeqOf(Outs, 1) \cup SeqOf(Outs, 2), ins : SeqOf(MCAddr, 1)]
              \cup [outs : SeqOf(Outs, 1), ins : SeqOf(MCAddr, 2)]
MCTxOut  == [t \in MCTx |-> t.outs]
MCTxIn   == [t \in MCTx |-> t.ins]
MCBodies == {<<t>> : t \in MCTx}
=============================================================================
