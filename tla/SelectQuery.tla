---------------------------- MODULE SelectQuery -----------------------------
(***************************************************************************)
(* One statement SELECT <expression> FROM <table> [WHERE <expression>]:    *)
(* it is parsed, bound and optimized, SeqScanOperator returns the row      *)
(* groups its zone map does not rule out, a chunk each, FilterOperator     *)
(* and ProjectionOperator evaluate their expressions on them, and          *)
(* RunSelect prints: at the end to a terminal, chunk by chunk to a pipe.   *)
(* TableScan models the pages underneath, QueryPlanner several tables.     *)
(***************************************************************************)
EXTENDS Expressions

CONSTANTS
    Where, Item,      (* pg_query's trees of WHERE clauses and select items *)
    NoWhere,          (* a SELECT without WHERE                             *)
    Contents          (* the tables: sequences of row groups                *)

VARIABLES
    row_groups,       (* the table; a row maps columns to values            *)
    terminal,         (* StdoutIsTerminal()                                 *)
    stage,            (* "parsing", "binding", "running", "ended" or "dead" *)
    where, item,      (* the statement                                      *)
    predicate,        (* FilterOperator's predicate, or NoWhere             *)
    expression,       (* ProjectionOperator's expression                    *)
    skip,             (* the scan's zone_map_skip_, or NoWhere              *)
    row_group_index,
    rows,             (* RunSelect's rows, kept for a terminal              *)
    printed,          (* the rows on stdout                                 *)
    outcome           (* how the statement ended                            *)

query == <<where, item>>
plan == <<predicate, expression, skip>>
vars == <<row_groups, terminal, stage, query, plan, row_group_index, rows, printed, outcome>>

Init ==
    /\ row_groups \in Contents /\ terminal \in BOOLEAN
    /\ where \in Where \cup {NoWhere} /\ item \in Item
    /\ stage = "parsing"
    /\ predicate = NoWhere /\ expression = NoWhere /\ skip = NoWhere
    /\ row_group_index = 1 /\ rows = << >> /\ printed = << >> /\ outcome = "none"

-----------------------------------------------------------------------------
(* ExecuteStatement's catch, and the end of the process. *)
Fail(how) ==
    /\ stage' = IF how \in {"died", "trap"} THEN "dead" ELSE "ended"
    /\ outcome' = how
    /\ rows' = << >>

(* ConvertSelectStmt: select list, then WHERE. *)
Failures ==
    LET failures == ConversionFailures(item)
    IN  IF failures # {} \/ where = NoWhere THEN failures ELSE ConversionFailures(where)
ParseSingleStatement ==
    /\ stage = "parsing"
    /\ IF Failures = {} THEN stage' = "binding" /\ UNCHANGED <<outcome, rows>>
       ELSE \E how \in Failures : Fail(how)
    /\ UNCHANGED <<row_groups, terminal, query, plan, row_group_index, printed>>

(* BindSelect ANDs the bound conjuncts of WHERE; PushdownPredicates takes  *)
(* them apart and puts them together over the scan.                        *)
BoundWhere ==
    IF where = NoWhere THEN NoWhere
    ELSE LET conjuncts == FlattenAnd(ConvertExpr(where))
             bound == [k \in DOMAIN conjuncts |-> BindPredicate(conjuncts[k])]
         IN  IF BindError \in ToSet(bound) THEN BindError
             ELSE RebuildConjunction(FlattenAnd(RebuildConjunction(bound)))

(* TryExtractZoneMapSkip: a comparison of a column with a number.  The     *)
(* types of the two are not compared.                                      *)
TryExtractZoneMapSkip(p) ==
    IF /\ p # NoWhere /\ p.e = "bin"
       /\ p.l.e = "col" /\ p.r.e = "const" /\ p.r.type \in {"int", "float"}
    THEN [column |-> p.l.name, op |-> p.op, type |-> p.r.type, constant |-> p.r.v]
    ELSE NoWhere

Bind ==
    /\ stage = "binding"
    /\ \E p \in {BoundWhere}, x \in {BindScalarExpression(ConvertExpr(item))} :
         IF BindError \in {p, x}
         THEN Fail("error") /\ UNCHANGED plan
         ELSE /\ stage' = "running"
              /\ predicate' = p /\ expression' = x /\ skip' = TryExtractZoneMapSkip(p)
              /\ UNCHANGED <<outcome, rows>>
    /\ UNCHANGED <<row_groups, terminal, query, row_group_index, printed>>

-----------------------------------------------------------------------------
(* ZoneMapRulesOutRowGroup takes the footer entry of the constant's type.  *)
WrongFooterType == skip # NoWhere /\ skip.type # Schema[skip.column]
RuledOutTooEager(group) ==
    LET values == {group[i][skip.column] : i \in DOMAIN group}
    IN  CASE skip.op \in {">", ">="} -> ~(Max(values) > skip.constant)
          [] skip.op \in {"<", "<="} -> ~(Min(values) < skip.constant)
          [] skip.op = "=" -> skip.constant < Min(values) \/ skip.constant > Max(values)
          [] OTHER -> FALSE
RuledOut(group) ==
    LET values == {group[i][skip.column] : i \in DOMAIN group}
    IN  CASE skip.op \in {">", ">="} -> ~ApplyComparison(skip.op, Max(values), skip.constant)
          [] skip.op \in {"<", "<="} -> ~ApplyComparison(skip.op, Min(values), skip.constant)
          [] skip.op = "=" -> skip.constant < Min(values) \/ skip.constant > Max(values)
          [] OTHER -> FALSE

Usable == {g \in row_group_index .. Len(row_groups) : skip = NoWhere \/ ~RuledOut(row_groups[g])}
AtEnd == row_group_index > Len(row_groups) \/ (~WrongFooterType /\ Usable = {})

(* FilterOperator: the rows whose predicate is true and valid. *)
Everything(chunk) ==
    [type |-> "bool", v |-> [i \in DOMAIN chunk |-> TRUE], ok |-> [i \in DOMAIN chunk |-> TRUE]]
FilterResult(chunk) == IF predicate = NoWhere THEN Everything(chunk) ELSE Evaluate(predicate, chunk)

(* The cells of the selected rows: <<type, value>>, or NULL. *)
Cell(result, i) == IF result.ok[i] THEN <<result.type, result.v[i]>> ELSE <<"null", 0>>
Selected(passes, result) ==
    LET kept == SelectSeq([i \in DOMAIN result.v |-> i], LAMBDA i : passes.v[i] /\ passes.ok[i])
    IN  [k \in DOMAIN kept |-> Cell(result, kept[k])]

(* RunSelect with one more chunk. *)
OutputAtOnce(cells) == rows' = rows /\ printed' = printed \o cells
Output(cells) ==
    IF terminal THEN rows' = rows \o cells /\ UNCHANGED printed
    ELSE printed' = printed \o cells /\ UNCHANGED rows

GetNext ==
    /\ stage = "running" /\ ~AtEnd
    /\ IF WrongFooterType
       THEN Fail("bad_variant") /\ UNCHANGED <<printed, row_group_index>>
       ELSE \E g \in {Min(Usable)} :
              \E passes \in {FilterResult(row_groups[g])},
                 result \in {Evaluate(expression, row_groups[g])} :
                /\ row_group_index' = g + 1
                /\ CASE HasFailed(passes) -> Fail(passes.type) /\ UNCHANGED printed
                     [] ~HasFailed(passes) /\ HasFailed(result) ->
                          Fail(result.type) /\ UNCHANGED printed
                     [] ~HasFailed(passes) /\ result.type = "bool" ->
                          Fail("error") /\ UNCHANGED printed
                     [] OTHER -> Output(Selected(passes, result)) /\ UNCHANGED <<stage, outcome>>
    /\ UNCHANGED <<row_groups, terminal, query, plan>>

(* GetNext returned nullopt: what was kept is printed. *)
EndSelect ==
    /\ stage = "running" /\ AtEnd
    /\ stage' = "ended" /\ outcome' = "done"
    /\ printed' = printed \o rows /\ rows' = << >>
    /\ UNCHANGED <<row_groups, terminal, query, plan, row_group_index>>

Next == ParseSingleStatement \/ Bind \/ GetNext \/ EndSelect

Spec == Init /\ [][Next]_vars

-----------------------------------------------------------------------------
(* What the statement means, row by row, on pg_query's own trees: NULL is  *)
(* a value, AND and OR are three-valued, nothing is skipped.               *)
NullValue == [type |-> "null", v |-> 0]
IntOrFloat(x) == IF x.type = "float" THEN x.v ELSE Round(2 * x.v, 1)

RECURSIVE Meaning(_, _)
OfOperator(op, a, b) ==
    LET float == "float" \in {a.type, b.type}
    IN  IF "null" \in {a.type, b.type} \/ (~float /\ op = "/" /\ b.v = 0) THEN NullValue
        ELSE IF op \in Comparisons
        THEN [type |-> "bool", v |-> IF float THEN ApplyComparison(op, IntOrFloat(a), IntOrFloat(b))
                                     ELSE ApplyComparison(op, a.v, b.v)]
        ELSE IF float THEN [type |-> "float",
                            v |-> ApplyFloatArithmetic(op, IntOrFloat(a), IntOrFloat(b))]
        ELSE [type |-> "int", v |-> ApplyIntArithmetic(op, a.v, b.v)]
OfLogical(op, args) ==
    LET is(b) == \E k \in DOMAIN args : args[k].type = "bool" /\ args[k].v = b
        unknown == \E k \in DOMAIN args : args[k].type = "null"
    IN  CASE op = "not" -> IF unknown THEN NullValue ELSE [type |-> "bool", v |-> ~args[1].v]
          [] op = "and" -> IF is(FALSE) THEN [type |-> "bool", v |-> FALSE]
                           ELSE IF unknown THEN NullValue ELSE [type |-> "bool", v |-> TRUE]
          [] op = "or" -> IF is(TRUE) THEN [type |-> "bool", v |-> TRUE]
                          ELSE IF unknown THEN NullValue ELSE [type |-> "bool", v |-> FALSE]
Meaning(node, row) ==
    CASE node.n = "const" -> [type |-> node.type, v |-> node.v]
      [] node.n = "col" -> [type |-> Schema[node.name], v |-> row[node.name]]
      [] node.n = "op" -> OfOperator(ToOperator(node.name), Meaning(node.l, row),
                                     Meaning(node.r, row))
      [] node.n = "bool" ->
           OfLogical(node.op, [k \in DOMAIN node.args |-> Meaning(node.args[k], row)])

RECURSIVE Subtrees(_)
Subtrees(node) ==
    {node} \cup
    CASE node.n = "op" -> Subtrees(node.l) \cup Subtrees(node.r)
      [] node.n \in {"bool", "func"} -> UNION {Subtrees(arg) : arg \in ToSet(node.args)}
      [] node.n = "negation" -> Subtrees(node.r)
      [] OTHER -> {}
Trees == Subtrees(item) \cup (IF where = NoWhere THEN {} ELSE Subtrees(where))
Plain == \A t \in Trees : t.n = "op" => t.kind = "plain"

(* The rows the WHERE clause is true of and no part of it is NULL for. *)
Known(row) == \A t \in Subtrees(where) : Meaning(t, row) # NullValue
Satisfies(row) == where = NoWhere \/ (Known(row) /\ Meaning(where, row).v)
Answer ==
    LET passing == SelectSeq(FlattenSeq(row_groups), Satisfies)
        cell(row) == LET m == Meaning(item, row) IN <<m.type, m.v>>
    IN  [k \in DOMAIN passing |-> cell(passing[k])]

(* Each step of ExecuteStatement has what the ones before it promise: a    *)
(* bound plan while rows come, and cells of the type OutputColumn says.    *)
TypeOK ==
    /\ stage \in {"parsing", "binding", "running", "ended", "dead"}
    /\ (stage = "ended") = (outcome \in {"done", "error", "bad_variant"})
    /\ stage = "running" => expression.type \in {"int", "float", "text", "bool"}
    /\ \A k \in DOMAIN rows : rows[k][1] \in {expression.type, "null"}
    /\ \A k \in DOMAIN printed : printed[k][1] \in {expression.type, "null"}
    /\ row_group_index \in 1 .. Len(row_groups) + 1

(* A SELECT that ends normally has printed exactly the rows its WHERE      *)
(* clause is true of in SQL's three-valued logic, in order, each with the  *)
(* value of its expression, whatever the parser, the binder, the pushdown, *)
(* the zone map and the two-pass evaluator did in between: except that a   *)
(* row is left out if any part of WHERE is NULL for it.                    *)
AnswersWhere == outcome = "done" /\ Plain => printed = Answer

(* What is printed before a statement ends or fails is always a beginning  *)
(* of that answer, and a terminal sees nothing of a statement that fails.  *)
PrintsPrefix ==
    /\ terminal /\ outcome # "done" => printed = << >>
    /\ printed # << >> /\ Plain => IsPrefix(printed, Answer)

(* The binder's types are sound but for two gaps: a bound statement throws *)
(* bad_variant_access only if an operator other than AND, OR and NOT has a *)
(* Boolean operand or WHERE compares a number column with a literal of the *)
(* other number type; and the latter never gives an answer from a table    *)
(* with rows.                                                              *)
IsBoolean(t) == t.n = "bool" \/ (t.n = "op" /\ ToOperator(t.name) \in Comparisons)
UsesBoolean(t) == t.n = "op" /\ (IsBoolean(t.l) \/ IsBoolean(t.r))
ComparesAcrossTypes ==
    /\ where # NoWhere /\ where.n = "op" /\ where.l.n = "col" /\ where.r.n = "const"
    /\ where.l.name \in DOMAIN Schema /\ where.r.type # Schema[where.l.name]
TypeErrorsAreKnown ==
    /\ outcome = "bad_variant" => ComparesAcrossTypes \/ \E t \in Trees : UsesBoolean(t)
    /\ outcome = "done" => ~ComparesAcrossTypes \/ row_groups = << >>

(* A statement traps only by dividing, in some row of the table, which     *)
(* WHERE need not select, the least INTEGER by -1, where a NULL may stand  *)
(* for either: SetNull keeps the raw value that pass 1 computes with.      *)
(* Division by zero never traps.  No such quotient of values is ever       *)
(* answered for a row that WHERE selects, and a negation of anything but a *)
(* literal, be it the argument of a function, is never evaluated.          *)
OrNull(value) == {[type |-> "int", v |-> value], NullValue}
MayTrap(t, row) ==
    /\ t.n = "op" /\ t.name = "/"
    /\ Meaning(t.l, row) \in OrNull(MinInt) /\ Meaning(t.r, row) \in OrNull(-1)
Traps(t, row) == MayTrap(t, row) /\ NullValue \notin {Meaning(t.l, row), Meaning(t.r, row)}
DeathsAreKnown ==
    /\ outcome = "trap" => \E t \in Trees, row \in Range(FlattenSeq(row_groups)) : MayTrap(t, row)
    /\ outcome = "done" => \A t \in Trees, row \in Range(FlattenSeq(row_groups)) :
                              Satisfies(row) => ~Traps(t, row)
    /\ (\E t \in Trees : t.n = "negation") => outcome \in {"none", "error", "died"}
=============================================================================
