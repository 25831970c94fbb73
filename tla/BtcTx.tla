-------------------------------- MODULE BtcTx --------------------------------
(***************************************************************************)
(* The data the BTC side of the submitter works on: Bitcoin transactions   *)
(* and Lorenzo agents.  Everything here is a constant or an operator; the  *)
(* modules that extend it hold the state.                                  *)
(*                                                                         *)
(* A transaction is a model value.  TxOut gives its outputs and TxIn the   *)
(* addresses that the previous outputs of its inputs paid (the `prevout`   *)
(* of the Esplora API).  An agent is its id; its other fields are          *)
(* functions of the id.                                                    *)
(***************************************************************************)
EXTENDS Integers, Sequences, FiniteSetsExt

CONSTANTS
  Tx,           \* Bitcoin transactions
  Addr,         \* Bitcoin addresses
  OpReturn,     \* the destination of an OP_RETURN output of at most 83 bytes
  Opaque,       \* the destination of an output whose script has no address
  TxOut,        \* TxOut[t]: sequence of [to, value], the outputs of t
  TxIn,         \* TxIn[t]: sequence of the addresses whose coins t spends
  NumAgents,    \* the largest agent id ever registered on Lorenzo
  NumFounders,  \* agents 1..NumFounders are registered before the start
                \* and never removed
  AgentAddr,    \* AgentAddr[a]: BtcReceivingAddress of agent a
  HasEthAddr    \* HasEthAddr[a]: EthAddr of agent a is not empty

Agent   == 1..NumAgents
Founder == 1..NumFounders
NoAgent == 0       \* the nil of GetAgentByAddress, and an AgentId never set

ASSUME AgentAssumption ==
  /\ NumAgents \in Nat
  /\ NumFounders \in 0..NumAgents
  /\ AgentAddr \in [Agent -> Addr]
  /\ HasEthAddr \in [Agent -> BOOLEAN]

Destination == Addr \cup {OpReturn, Opaque}

\* Every Bitcoin transaction has an input and an output.
ASSUME TxAssumption ==
  /\ OpReturn \notin Addr
  /\ Opaque \notin Addr
  /\ OpReturn # Opaque
  /\ \A t \in Tx :
       /\ DOMAIN TxOut[t] = 1..Len(TxOut[t])
       /\ Len(TxOut[t]) \in Nat \ {0}
       /\ \A i \in 1..Len(TxOut[t]) : /\ TxOut[t][i].to \in Destination
                                      /\ TxOut[t][i].value \in Nat
       /\ DOMAIN TxIn[t] = 1..Len(TxIn[t])
       /\ Len(TxIn[t]) \in Nat \ {0}
       /\ \A i \in 1..Len(TxIn[t]) : TxIn[t][i] \in Destination

-----------------------------------------------------------------------------
\* What a transaction pays.

ExtractPaymentTo(t, addr) ==
  MapThenSumSet(LAMBDA i : TxOut[t][i].value,
                {i \in DOMAIN TxOut[t] : TxOut[t][i].to = addr})

\* ExtractPaymentToWithOpReturnId fails unless this holds.
HasOpReturn(t) == \E i \in DOMAIN TxOut[t] : TxOut[t][i].to = OpReturn

=============================================================================
