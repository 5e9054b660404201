---------------------------- MODULE MCSchemaCache ----------------------------
(***************************************************************************)
(* An instance of SchemaCache for TLC: three tables and a pseudo-table.    *)
(***************************************************************************)
EXTENDS SchemaCache

Names == 1..4
VarPages == {3}

\* Three tables of one column, and a name whose two rows are not a table's.
ADictionary == {<<{"a"}, {"a"}, {"a", "b"}, {"b"}>>}

\* A chain, a forest and a cycle.
SomeHierarchies == {
    [t \in Names \ VarPages |-> IF t = 1 THEN 2 ELSE IF t = 2 THEN 4 ELSE Nothing],
    [t \in Names \ VarPages |-> IF t = 1 THEN 2 ELSE IF t = 2 THEN 1 ELSE Nothing]}
=============================================================================
