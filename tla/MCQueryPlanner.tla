--------------------------- MODULE MCQueryPlanner ---------------------------
(***************************************************************************)
(* Queries on up to three tables of two columns, for TLC.                  *)
(***************************************************************************)
EXTENDS QueryPlanner

C(b, c) == <<"col", b, c>>
K(v) == <<"const", v, 0>>
Scan(b) == ScanNode(b, 2)

(* Table 1 has a duplicate row, its columns have different ranges. *)
All == << <<0, 0>>, <<0, 1>>, <<1, 0>>, <<1, 1>> >>
MCDatabase ==
    {(1 :> << <<0, 1>>, <<0, 2>>, <<1, 1>>, <<1, 1>> >> @@ 2 :> All @@ 3 :> All),
     (1 :> << >> @@ 2 :> All @@ 3 :> All)}

(* FROM clauses with the equalities of WHERE that belong to them. *)
Eq(x, y) == <<"=", x, y>>
AB == JoinRef(Scan(1), Scan(2), <<Eq(C(1, 1), C(2, 2))>>)
Sources ==
    {[from |-> <<Scan(1)>>, where |-> << >>],
     [from |-> <<AB>>, where |-> << >>],
     [from |-> <<JoinRef(Scan(1), Scan(2), << >>)>>, where |-> << >>],
     [from |-> <<JoinRef(Scan(1), Scan(2), <<Eq(C(2, 1), C(1, 2)), Eq(C(1, 1), C(2, 2))>>)>>,
      where |-> << >>],
     [from |-> <<JoinRef(AB, Scan(3), <<Eq(C(3, 1), C(1, 2))>>)>>, where |-> << >>],
     [from |-> <<JoinRef(Scan(1), JoinRef(Scan(2), Scan(3), <<Eq(C(2, 2), C(3, 2))>>),
                    <<Eq(C(1, 1), C(3, 1))>>)>>, where |-> << >>],
     [from |-> <<Scan(1), Scan(2)>>, where |-> <<Eq(C(2, 2), C(1, 1))>>],
     [from |-> <<Scan(1), Scan(2)>>, where |-> << >>],
     [from |-> <<Scan(1), Scan(2), Scan(3)>>,
      where |-> <<Eq(C(3, 1), C(2, 2)), Eq(C(1, 1), C(2, 1))>>],
     [from |-> <<Scan(1), Scan(2), Scan(3)>>,
      where |-> <<Eq(C(1, 1), C(3, 1)), Eq(C(3, 2), C(2, 2))>>],
     [from |-> <<AB, Scan(3)>>, where |-> <<Eq(C(2, 1), C(3, 2))>>]}

(* ON conditions about one side, about a table outside the JOIN, and that  *)
(* are no equalities of columns.                                           *)
OddJoins ==
    {[from |-> <<JoinRef(Scan(1), Scan(2), <<Eq(C(1, 1), C(2, 1)), on>>)>>, where |-> << >>] :
        on \in {Eq(C(1, 1), C(1, 2)), Eq(C(2, 1), C(2, 2)), <<"<", C(1, 1), C(2, 1)>>,
                Eq(C(1, 1), K(1))}}
    \cup {[from |-> <<Scan(1), JoinRef(Scan(2), Scan(3), <<Eq(C(1, 1), C(3, 1))>>)>>,
           where |-> <<Eq(C(1, 1), C(2, 1))>>]}

(* More conjuncts of WHERE, on the tables that every clause has, or two. *)
OneTable ==
    {<< >>, << <<"<", C(1, 2), K(2)>> >>, << <<"=", C(1, 2), K(2)>> >>,
     << <<"<", C(1, 1), C(1, 2)>> >>, << <<"<", K(1), K(0)>> >>,
     << <<"=", C(1, 1), K(1)>>, <<"<", K(0), C(1, 2)>> >>}
TwoTables ==
    {<< <<"<", C(2, 1), K(1)>> >>, << <<"<", C(1, 1), C(2, 2)>> >>,
     << <<"<", C(2, 1), C(1, 2)>>, <<"<", C(1, 2), K(2)>>, <<"=", C(2, 2), K(1)>> >>}
Extra(source) ==
    IF source.from = <<Scan(1)>> THEN OneTable ELSE OneTable \cup TwoTables

(* SELECT, GROUP BY and HAVING. *)
Plain(operands) == [i \in DOMAIN operands |-> [kind |-> "col", arg |-> operands[i]]]
Column(operand) == [kind |-> "col", arg |-> operand]
Aggregate(operand) == [kind |-> "aggregate", arg |-> operand]
Count == Aggregate(RowItself)
Wildcard == [kind |-> "wildcard", arg |-> RowItself]
Shapes ==
    {[select |-> Plain(<<C(1, 2), C(1, 1)>>), group_by |-> << >>, having |-> << >>],
     [select |-> Plain(<<C(1, 2)>>), group_by |-> << >>, having |-> << >>],
     [select |-> <<Count, Aggregate(C(1, 2))>>, group_by |-> << >>, having |-> << >>],
     [select |-> <<Aggregate(C(1, 2)), Column(C(1, 1)), Count>>,
      group_by |-> <<C(1, 1)>>, having |-> << >>],
     [select |-> <<Count>>, group_by |-> <<C(1, 2), C(1, 1)>>,
      having |-> << <<"<", C(1, 1), C(1, 2)>>, <<"=", C(1, 1), K(1)>> >>],
     [select |-> <<Column(C(1, 1)), Count>>, group_by |-> <<C(1, 2), C(1, 1)>>,
      having |-> << <<"<", K(0), K(1)>> >>],
     [select |-> <<Count>>, group_by |-> <<C(1, 1)>>, having |-> << <<"<", C(1, 2), K(2)>> >>],
     [select |-> Plain(<<C(1, 2)>>), group_by |-> <<C(1, 1)>>, having |-> << >>],
     [select |-> Plain(<<K(1), C(1, 1)>>), group_by |-> << >>, having |-> << >>],
     [select |-> <<Column(C(1, 1)), Column(K(1))>>, group_by |-> <<C(1, 1)>>, having |-> << >>],
     [select |-> <<Column(C(1, 2)), Wildcard>>, group_by |-> << >>, having |-> << >>],
     [select |-> <<Wildcard>>, group_by |-> <<C(1, 1)>>, having |-> << >>],
     [select |-> <<Count>>, group_by |-> <<C(1, 1), K(1)>>, having |-> << >>],
     [select |-> <<Aggregate(K(1))>>, group_by |-> << >>, having |-> << >>]}

Combined(source, extra, shape) ==
    [from |-> source.from, where |-> source.where \o extra,
     select |-> shape.select, group_by |-> shape.group_by, having |-> shape.having]

MCQuery ==
    UNION {{Combined(s, e, shape) : e \in Extra(s), shape \in Shapes} : s \in Sources \cup OddJoins}

(* Two tables of a comma list that WHERE connects by two equalities. *)
TwiceConnected ==
    {Combined([from |-> <<Scan(1), Scan(2)>>,
               where |-> << <<"=", C(1, 1), C(2, 1)>>, <<"=", C(1, 2), C(2, 2)>> >>],
              e, shape) : e \in OneTable, shape \in Shapes}
=============================================================================
