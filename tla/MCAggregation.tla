--------------------------- MODULE MCAggregation ----------------------------
(***************************************************************************)
(* Aggregation for TLC: two GROUP BY columns whose values are easily       *)
(* confused when concatenated, NULL keys and values, unselected rows, and  *)
(* INTEGERs of three bits, so that the sum of two rows does not fit.       *)
(***************************************************************************)
EXTENDS Aggregation

MCKey == {<<Null, <<"a">>>>, <<<<"a">>, Null>>, <<<< >>, <<"a">>>>, <<<<"a">>, << >>>>}
MCRow ==
    {[key |-> k, value |-> 3, selected |-> TRUE] : k \in MCKey}
    \cup {[key |-> <<Null, <<"a">>>>, value |-> v, selected |-> TRUE] : v \in {-4, Null}}
    \cup {[key |-> <<<<"a">>, << >>>>, value |-> 2, selected |-> FALSE]}
MCChunk(n) == UNION {[1 .. m -> MCRow] : m \in 0 .. n}

MCInput ==
    {[rows |-> c \o d, ends |-> <<Len(c), Len(c) + Len(d)>>] : c \in MCChunk(2), d \in MCChunk(1)}
    \cup {[rows |-> << >>, ends |-> << >>]}
=============================================================================
