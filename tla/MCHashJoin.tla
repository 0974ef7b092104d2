----------------------------- MODULE MCHashJoin -----------------------------
(***************************************************************************)
(* HashJoin for TLC: two key columns whose texts concatenate to the same   *)
(* characters, a NULL key, unselected rows, up to three build rows in two  *)
(* chunks and probe chunks of up to two rows, some of them empty.          *)
(***************************************************************************)
EXTENDS HashJoin

MCKey == {<<<<"a">>, << >>>>, <<<< >>, <<"a">>>>}
MCRow ==
    {[key |-> k, selected |-> TRUE] : k \in MCKey}
    \cup {[key |-> <<<<"a">>, << >>>>, selected |-> FALSE]}
MCNullRow == [key |-> <<<<"a">>, Null>>, selected |-> TRUE]

Chunks(rows, n) == UNION {[1 .. k -> rows] : k \in 0 .. n}

MCBuildInput == {<<c, d>> : c \in Chunks(MCRow, 2), d \in Chunks(MCRow, 1)} \cup {<< >>, <<<<MCNullRow>>>>}
MCProbeInput == {<<c, d>> : c \in Chunks(MCRow, 2), d \in Chunks(MCRow \cup {MCNullRow}, 1)} \cup {<< >>}
=============================================================================
