------------------------- MODULE TransactionsPhase -------------------------
(* loadTransactions: eight tables, of which four carry the watermark.      *)
EXTENDS ResumablePhase

MarkedOrder == <<"transactions", "transaction_lines", "payments", "trade_ins">>

\* A bug to catch: a movement written before its stock row.
TransactionFlushOrderMovementsFirst ==
    <<"transactions", "transaction_lines", "payments", "inventory_movements",
      "inventory", "trade_ins", "trade_in_items", "store_credit_ledger">>

\* The order of the bulk copies of a flush.
TransactionFlushOrder ==
    <<"transactions", "transaction_lines", "payments", "inventory",
      "inventory_movements", "trade_ins", "trade_in_items", "store_credit_ledger">>

TransactionTables == {TransactionFlushOrder[k] : k \in 1..Len(TransactionFlushOrder)}

TransactionMarks == {MarkedOrder[k] : k \in 1..Len(MarkedOrder)}

\* A bug to catch: the list deleted forwards, parents before children.
TransactionDeletionsForwards ==
    [k \in 1..4 |-> [table |-> MarkedOrder[k], above |-> Batched]] \o
    <<[table |-> "trade_in_items", above |-> "trade_ins"],
      [table |-> "store_credit_ledger", above |-> Batched]>>

\* resume() deletes above the watermark; the sweeps then remove the items of
\* deleted trade-ins and the ledger rows of deleted transactions.
TransactionDeletions ==
    [k \in 1..4 |-> [table |-> MarkedOrder[5 - k], above |-> Batched]] \o
    <<[table |-> "trade_in_items", above |-> "trade_ins"],
      [table |-> "store_credit_ledger", above |-> Batched]>>

TransactionReferences ==
    {<<"transaction_lines", "transactions">>, <<"payments", "transactions">>,
     <<"trade_ins", "transactions">>, <<"trade_in_items", "trade_ins">>,
     <<"inventory_movements", "inventory">>}

\* A transaction has lines, payments and movements; it adds an inventory row
\* for a product its shop had not handled before (so the first one does); some
\* are blended with a trade-in, which has items; some move store credit.
TransactionDatasets ==
    {d \in LayoutsWithSparse({"inventory", "trade_ins", "trade_in_items",
                              "store_credit_ledger"}) :
        /\ 1 \in d["inventory"]
        /\ d["trade_in_items"] = d["trade_ins"]}
=============================================================================
