--------------------------- MODULE MCResumablePhase ---------------------------
(* Small instances of the resume protocol over three tables.               *)
EXTENDS ResumablePhase

ThreeTables == {"parent", "child", "detail"}

ThreeOrder == <<"parent", "child", "detail">>

ChildrenFirst == <<[table |-> "detail", above |-> Batched],
                   [table |-> "child", above |-> Batched],
                   [table |-> "parent", above |-> Batched]>>

ThreeReferences == {<<"child", "parent">>, <<"detail", "parent">>}

\* Every parent has rows in every table.
DenseDatasets == LayoutsWithSparse({})
=============================================================================
