---------------------------- MODULE MCTableScan -----------------------------
(***************************************************************************)
(* TableScan for TLC, with pages of two words or four bytes, row groups of *)
(* three or four rows and two rows per bitmap byte: a row group has two    *)
(* vectors, its bitmap two pages from the third column on.  The texts of   *)
(* some rows fill a page exactly, a row group may have no character, and   *)
(* one failed read leaves the pool of three frames one that is usable.     *)
(***************************************************************************)
EXTENDS TableScan

MCNarrow == <<"varchar", "int", "int">>
MCNarrowRow == {<<<<"a">>, 0, 3>>, <<<<"b", "c", "d">>, 1, 1>>, <<<< >>, 2, 2>>}

MCWide == <<"int", "int", "varchar">>
MCWideRow == {<<0, 1, <<"a">>>>}

MCProjection == {{1}, {1, 2, 3}}

MCCondition ==
    {[column |-> 2, op |-> o, constant |-> 1] : o \in {">", "<", "=", "<>"}}
    \cup {[column |-> 3, op |-> o, constant |-> 2] : o \in {">=", "<="}}
=============================================================================
