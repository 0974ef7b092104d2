--------------------------- MODULE MCSelectQuery ----------------------------
(***************************************************************************)
(* SelectQuery for TLC: INTEGER of four bits, FLOAT of two significant     *)
(* bits, so that 5 has no exact float.  Every comparison of a few operands,*)
(* and AND, OR and NOT of some of them.                                    *)
(***************************************************************************)
EXTENDS SelectQuery

MCSchema == [i |-> "int", f |-> "float", s |-> "text"]
Row(i, f, s) == [i |-> i, f |-> f, s |-> s]
MCContents ==
    {<< >>,
     <<<<Row(5, 8, 1)>>>>,
     <<<<Row(0, 0, 1), Row(5, 8, 2)>>, <<Row(2, 3, 2)>>>>,
     <<<<Row(2, -3, 1)>>, <<Row(0, 8, 2), Row(-7, 3, 1)>>>>,
     <<<<Row(5, 3, 1)>>, <<Row(2, 8, 1)>>, <<Row(7, 0, 2), Row(0, -3, 1)>>>>}

Const(t, x) == [n |-> "const", type |-> t, v |-> x]
Col(c) == [n |-> "col", name |-> c]
Op(op, x, y) == [n |-> "op", kind |-> "plain", name |-> op, l |-> x, r |-> y]
Distinct(x, y) == [n |-> "op", kind |-> "distinct", name |-> "=", l |-> x, r |-> y]
Bool(op, args) == [n |-> "bool", op |-> op, args |-> args]
Func(args) == [n |-> "func", args |-> args]
Negation(x) == [n |-> "negation", r |-> x]

(* pg_query reads a literal beyond INTEGER as a FLOAT, the least INTEGER   *)
(* (the negative of one) among them: only arithmetic yields it, for i = -7 *)
(* here, and for i = 0 below, where the dividend is NULL.                  *)
LeastQuotient == Op("/", Op("-", Col("i"), Const("int", 1)), Const("int", -1))
NullQuotient ==
    Op("/", Op("-", Op("-", Op("/", Const("int", 5), Col("i")), Const("int", 7)), Const("int", 1)),
       Const("int", -1))
Arith == {Op("/", Const("int", 5), Col("i")), LeastQuotient,
          Op("+", Col("i"), Const("int", 5)), Op("*", Col("i"), Col("f")),
          Op("/", Col("f"), Col("f")), Op("+", Op("/", Const("int", 5), Col("i")), Col("f")),
          Op("-", Col("s"), Const("int", 1))}
Comparison ==
    {Op(op, x, y) : op \in {"=", "!=", "<", "<=", ">", ">="},
                    x \in Arith \cup {Col("i"), Col("f"), Col("s")},
                    y \in {Col("f"), Const("int", 2), Const("int", -7), Const("float", 8),
                          Const("text", 1)}}

Simple == {Op("=", Op("/", Const("int", 5), Col("i")), Const("int", 2)),
           Op("<", Col("i"), Const("int", 5)),
           Op(">=", Col("f"), Col("i")),
           Op("!=", Col("s"), Const("text", 1))}
Logical ==
    {Bool(op, <<x, y>>) : op \in {"and", "or"}, x, y \in Simple}
    \cup {Bool("not", <<x>>) : x \in Simple}
    \cup {Bool(op, <<x, y, Bool("not", <<Bool("or", <<y, x>>)>>)>>) :
             op \in {"and", "or"}, x, y \in Simple}

Odd == {Op("%", Col("i"), Col("i")), Op("=", Col("x"), Const("int", 2)), Col("i"),
        Const("boolean", 1), Op("=", Col("i"), Const("null", 0)), Func(<< >>),
        Func(<<Negation(Col("i"))>>), Func(<<Const("boolean", 1), Negation(Col("i"))>>),
        Distinct(Col("i"), Const("int", 2)),
        Op("=", Op("<", Col("i"), Col("f")), Const("int", 1)),
        Op("<", Negation(Col("i")), Const("int", 2)), Negation(Const("boolean", 1))}

MCWhere == Comparison \cup Logical \cup Odd
MCItem == {Col("i"), Op("/", Const("int", 5), Col("i")), LeastQuotient, NullQuotient,
           Op("*", Col("f"), Col("i")), Op("<", Col("i"), Col("f"))}
=============================================================================
