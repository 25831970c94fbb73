---------------------------- MODULE DepositTable ----------------------------
(***************************************************************************)
(* The table btc_deposit_tx, which the scan and the submit goroutine of    *)
(* the BTC relayer share, and the operations of BtcRepository on it: at    *)
(* most one row per transaction.                                           *)
(***************************************************************************)
EXTENDS BtcTx

CONSTANTS
  NoRow,       \* "this transaction has no row"
  BatchLimit,  \* BatchHandleBtcDepositTxsNum
  UintMod      \* 2^64, the modulus of uint64

VARIABLES db   \* db[t]: the row of t, or NoRow

StatusPending                    == 0
StatusSuccess                    == 1
StatusInvalid                    == 2
StatusReceiverIsNotBelongToAgent == 3

Status == {StatusPending, StatusSuccess, StatusInvalid,
           StatusReceiverIsNotBelongToAgent}

Row == [agent : Agent \cup {NoAgent}, addr : Addr,
        amount : {ExtractPaymentTo(t, a) : t \in Tx, a \in Addr},
        height : Nat, status : Status]

\* Payments are sums of values, which are numbers.
ASSUME RowAssumption ==
  /\ NoRow \notin Row
  /\ \A t \in Tx, a \in Addr : ExtractPaymentTo(t, a) \in Nat

Table      == [Tx -> Row \cup {NoRow}]
EmptyTable == [t \in Tx |-> NoRow]

\* Mutant of DepositRow: the value of all outputs.
DepositRowOfAllOutputs(t, a, h) ==
  [agent |-> a, addr |-> AgentAddr[a],
   amount |-> MapThenSumSet(LAMBDA i : TxOut[t][i].value, DOMAIN TxOut[t]),
   height |-> h, status |-> StatusPending]

\* The row getValidDepositTxs builds for t, received by agent a at height h.
DepositRow(t, a, h) ==
  [agent |-> a, addr |-> AgentAddr[a],
   amount |-> ExtractPaymentTo(t, AgentAddr[a]),
   height |-> h, status |-> StatusPending]

\* Mutant of InsertBtcDepositTxs: an upsert.
UpsertBtcDepositTxs(table, found) ==
  [t \in Tx |-> IF found[t] = NoRow THEN table[t] ELSE found[t]]

\* One database transaction: rows that exist already are left as they are.
InsertBtcDepositTxs(table, found) ==
  [t \in Tx |-> IF table[t] = NoRow THEN found[t] ELSE table[t]]

UpdateTxStatus(table, t, status) == [table EXCEPT ![t].status = status]

HasRow(t)    == db[t] # NoRow
IsPending(t) == HasRow(t) /\ db[t].status = StatusPending

-----------------------------------------------------------------------------
\* GetUnhandledBtcDepositTxs.

ASSUME BatchAssumption == BatchLimit \in Nat \ {0} /\ UintMod \in Nat \ {0}

Dep0Amount == 400000
Dep1Amount == 2000000
Dep2Amount == 10000000
Dep3Amount == 50000000

\* Subtraction of uint64 numbers.
UintSub(a, b) == (a - b) % UintMod

\* Mutant of IsRipe: the largest amounts wait one block less.
IsRipeEarly(row, lorenzoTip) ==
  \/ row.amount < Dep0Amount
  \/ row.amount < Dep1Amount /\ row.height <= UintSub(lorenzoTip, 1)
  \/ row.amount < Dep2Amount /\ row.height <= UintSub(lorenzoTip, 2)
  \/ row.height <= UintSub(lorenzoTip, 3)

\* The WHERE clause beside the status: dust is taken at any height.
IsRipe(row, lorenzoTip) ==
  \/ row.amount < Dep0Amount
  \/ row.amount < Dep1Amount /\ row.height <= UintSub(lorenzoTip, 1)
  \/ row.amount < Dep2Amount /\ row.height <= UintSub(lorenzoTip, 2)
  \/ row.amount < Dep3Amount /\ row.height <= UintSub(lorenzoTip, 3)
  \/ row.amount >= Dep3Amount /\ row.height <= UintSub(lorenzoTip, 4)

\* Mutant of IsBatch: rows of any status.
IsBatchOfAll(batch, lorenzoTip) ==
  LET ripe == {t \in Tx : HasRow(t) /\ IsRipe(db[t], lorenzoTip)} IN
    /\ batch \subseteq ripe
    /\ Cardinality(batch) <= BatchLimit
    /\ batch = ripe \/ Cardinality(batch) = BatchLimit

\* Mutant of IsBatch: the highest blocks first.
IsBatchFromTop(batch, lorenzoTip) ==
  LET ripe == {t \in Tx : IsPending(t) /\ IsRipe(db[t], lorenzoTip)} IN
    /\ batch \subseteq ripe
    /\ Cardinality(batch) <= BatchLimit
    /\ batch = ripe \/ Cardinality(batch) = BatchLimit
    /\ \A t \in batch, u \in ripe \ batch : db[t].height >= db[u].height

\* ORDER BY height LIMIT BatchLimit; rows of one height come in any order.
IsBatch(batch, lorenzoTip) ==
  LET ripe == {t \in Tx : IsPending(t) /\ IsRipe(db[t], lorenzoTip)} IN
    /\ batch \subseteq ripe
    /\ Cardinality(batch) <= BatchLimit
    /\ batch = ripe \/ Cardinality(batch) = BatchLimit
    /\ \A t \in batch, u \in ripe \ batch : db[t].height <= db[u].height
=============================================================================
