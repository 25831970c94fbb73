---------------------------- MODULE MCBtcSubmit ----------------------------
(* A deposit below the first threshold in a block Lorenzo never learns of, *)
(* one of the largest kind, and one of an older version of the program,    *)
(* whose row names no agent.                                               *)
EXTENDS BtcSubmit, TLC

CONSTANTS A, B, C, dust, large, legacy

MCAddr == {A, B, C}
MCTx   == {dust, large, legacy}

Out(to, value) == [to |-> to, value |-> value]

MCTxOut ==
  dust :> <<Out(A, Dep0Amount - 1)>>
  @@ large :> <<Out(A, Dep3Amount), Out(B, Dep3Amount)>>
  @@ legacy :> <<Out(A, Dep3Amount - 1), Out(B, Dep3Amount - 1)>>
MCTxIn == [t \in MCTx |-> <<C>>]

RowFor(t, a, h) == [tx |-> t, row |-> DepositRow(t, a, h)]
RowWithoutAgent(t, a, h) == [tx |-> t, row |-> [DepositRow(t, a, h) EXCEPT !.agent = NoAgent]]

\* Agent 1 is a founder, agent 2 comes and goes.
MCAgentAddr  == <<A, B>>
MCHasEthAddr == <<TRUE, FALSE>>
MCNewRows    == {RowFor(dust, 1, 6), RowFor(large, 2, 1)}
                  \cup {RowWithoutAgent(legacy, a, 2) : a \in {1, 2}}
=============================================================================
