---------------------------- MODULE QueryPlanner ----------------------------
(***************************************************************************)
(* A SELECT on its way from the binder to the operators: BindFromClause    *)
(* joins the FROM items one by one, BindSelect puts filter, aggregate and  *)
(* projection on top, and the optimizer pushes predicates down, prunes     *)
(* columns and replaces every column by its position in its child's        *)
(* output.  The operators are then run and compared with what the query    *)
(* means.                                                                  *)
(*                                                                         *)
(* An operand is <<"col", binding, ordinal>>, <<"const", value, 0>> or     *)
(* RowItself, what COUNT counts when it counts rows; a conjunct is         *)
(* <<operator, operand, operand>>, a predicate the sequence of its         *)
(* conjuncts.  Columns are INTEGER; ordinals count from 1.                 *)
(***************************************************************************)
EXTENDS Integers, Sequences, FiniteSets, SequencesExt, FiniteSetsExt

CONSTANTS
    Query,         (* [from, where, group_by, having, select]: from is a   *)
                   (* sequence of ScanNodes and JoinRefs, select one of    *)
                   (* [kind |-> "col", "aggregate" or "wildcard", arg |->  *)
                   (* operand]; a constant stands for anything that is no  *)
                   (* column                                               *)
    Database,      (* the contents the tables may have: binding -> rows    *)
    NoPlan, NoSkip

VARIABLES
    query, db,
    stage,         (* what was done last: "parsed", "from", "bound",       *)
                   (* "pushed", "pruned", "translated", "rejected", "died" *)
    part,          (* the FROM item BindFromClause looks at next           *)
    joined,        (* the FROM items in DisjointSet's group of the first   *)
    plan,          (* the LogicalPlanNode                                  *)
    physical       (* the Operator                                         *)

vars == <<query, db, stage, part, joined, plan, physical>>

(* A table and a JOIN of the FROM clause as they are parsed, and the join  *)
(* of a plan; a scan starts with all columns.                              *)
ScanNode(binding_id, columns) ==
    [op |-> "scan", id |-> binding_id, required |-> [i \in 1 .. columns |-> i]]
JoinRef(left, right, on) == [op |-> "join", left |-> left, right |-> right, on |-> on]
JoinNode(left, right, conditions) ==
    [op |-> "join", left |-> left, right |-> right, equi_conditions |-> conditions]
RowItself == <<"row", 1, 0>>

(* kAggregateOutputBindingId *)
AggregateOutput == -1

(* What FindColumnPosition throws on. *)
Pruned == -1
NotReachable == -2

Init ==
    /\ query \in Query /\ db \in Database
    /\ stage = "parsed" /\ part = 1 /\ joined = {}
    /\ plan = NoPlan /\ physical = NoPlan

-----------------------------------------------------------------------------
RECURSIVE CollectBindingIds(_)
CollectBindingIds(node) ==
    CASE node.op = "scan" -> {node.id}
      [] node.op = "join" -> CollectBindingIds(node.left) \cup CollectBindingIds(node.right)
      [] OTHER -> CollectBindingIds(node.input)

Columns(operands) == {o \in operands : o[1] = "col"}
CollectColumnRefs(conjunct) == Columns({conjunct[2], conjunct[3]})
PredicateRefs(conjuncts) == UNION {CollectColumnRefs(c) : c \in ToSet(conjuncts)}
EquiRefs(conditions) == UNION {{c[1], c[2]} : c \in ToSet(conditions)}

AllColumnsAvailable(conjunct, ids) == \A ref \in CollectColumnRefs(conjunct) : ref[2] \in ids

IsEquality(conjunct) == conjunct[1] = "=" /\ conjunct[2][1] = "col" /\ conjunct[3][1] = "col"

(* BindTableRef.  A conjunct of ON must be an equality of two columns;     *)
(* which tables they belong to is not looked at.                           *)
RECURSIVE OnConjuncts(_)
OnConjuncts(ref) ==
    IF ref.op = "scan" THEN {}
    ELSE OnConjuncts(ref.left) \cup OnConjuncts(ref.right) \cup ToSet(ref.on)

RECURSIVE BindTableRef(_)
BindTableRef(ref) ==
    IF ref.op = "scan" THEN ref
    ELSE JoinNode(BindTableRef(ref.left), BindTableRef(ref.right),
                  [k \in DOMAIN ref.on |-> Tail(ref.on[k])])

(* BindFromClause binds every item before it joins the first two. *)
BindTableRefs ==
    /\ stage = "parsed"
    /\ IF \E i \in DOMAIN query.from : \E c \in OnConjuncts(query.from[i]) : ~IsEquality(c)
       THEN stage' = "rejected" /\ UNCHANGED <<part, joined, plan>>
       ELSE /\ stage' = "from" /\ part' = 2 /\ joined' = {1}
            /\ plan' = BindTableRef(query.from[1])
    /\ UNCHANGED <<query, db, physical>>

(* BindFromClause: the equalities that connect two FROM items, and the     *)
(* conjuncts of WHERE that remain.                                         *)
PartIndexOf(ref) ==
    CHOOSE i \in DOMAIN query.from : ref[2] \in CollectBindingIds(query.from[i])
IsConnecting(conjunct) ==
    /\ IsEquality(conjunct)
    /\ PartIndexOf(conjunct[2]) # PartIndexOf(conjunct[3])
Connecting == SelectSeq(query.where, IsConnecting)
Remaining == SelectSeq(query.where, LAMBDA c : ~IsConnecting(c))

(* groups.Find(i) == groups.Find(combined_root) *)
InCombined(i) == i \in joined

Links ==
    {k \in DOMAIN Connecting :
        LET a == PartIndexOf(Connecting[k][2])
            b == PartIndexOf(Connecting[k][3])
        IN  (InCombined(a) /\ b = part) \/ (InCombined(b) /\ a = part)}

(* The item is joined on the first equality that links it. *)
JoinPartToFirst ==
    /\ stage = "from" /\ part <= Len(query.from) /\ Links # {}
    /\ LET k == Min(Links)
       IN  plan' = JoinNode(BindTableRef(query.from[1]), BindTableRef(query.from[part]), <<Tail(Connecting[k])>>)
    /\ joined' = joined \cup {part}
    /\ part' = part + 1
    /\ UNCHANGED <<query, db, stage, physical>>
JoinPart ==
    /\ stage = "from" /\ part <= Len(query.from) /\ Links # {}
    /\ LET k == Min(Links)
       IN  plan' = JoinNode(plan, BindTableRef(query.from[part]), <<Tail(Connecting[k])>>)
    /\ joined' = joined \cup {part}
    /\ part' = part + 1
    /\ UNCHANGED <<query, db, stage, physical>>

RejectCartesianProduct ==
    /\ stage = "from" /\ part <= Len(query.from) /\ Links = {}
    /\ stage' = "rejected"
    /\ UNCHANGED <<query, db, part, joined, plan, physical>>

-----------------------------------------------------------------------------
FilterNode(input, conjuncts) ==
    IF conjuncts = << >> THEN input
    ELSE [op |-> "filter", input |-> input, predicate |-> conjuncts]

AggregateItems(items) == SelectSeq(items, LAMBDA item : item.kind = "aggregate")
IsAggregateQuery ==
    query.group_by # << >> \/ query.having # << >> \/ AggregateItems(query.select) # << >>

SelectsOnlyGrouped ==
    \A i \in DOMAIN query.select :
        query.select[i].kind = "col" =>
            Columns({query.select[i].arg}) \subseteq ToSet(query.group_by)

(* What BindSelect and BindAggregateCall throw on in an aggregate query. *)
RejectsAggregates ==
    \/ \E item \in ToSet(query.select) : item.kind = "wildcard"
    \/ \E key \in ToSet(query.group_by) : key[1] # "col"
    \/ \E item \in ToSet(AggregateItems(query.select)) : item.arg[1] = "const"
    \/ ~SelectsOnlyGrouped

(* An item that is neither a column nor an aggregate passes the check, and *)
(* is then followed as the ColumnRefNode it is not.                        *)
DereferencesNoColumn ==
    /\ IsAggregateQuery
    /\ \E i \in DOMAIN query.select :
          query.select[i].kind = "col" /\ Columns({query.select[i].arg}) = {}

(* Above an aggregate a column is a position in the aggregate's output;    *)
(* elsewhere a wildcard is every column of every table.                    *)
AggregateExpression(i) ==
    LET item == query.select[i]
        before == AggregateItems(SubSeq(query.select, 1, i - 1))
    IN  IF item.kind = "aggregate"
        THEN <<"col", AggregateOutput, Len(query.group_by) + Len(before) + 1>>
        ELSE <<"col", AggregateOutput,
               Min({g \in DOMAIN query.group_by : query.group_by[g] = item.arg})>>

RECURSIVE TableColumns(_)
TableColumns(ref) ==
    IF ref.op = "scan" THEN [c \in DOMAIN ref.required |-> <<"col", ref.id, c>>]
    ELSE TableColumns(ref.left) \o TableColumns(ref.right)
AllColumns == FlattenSeq([i \in DOMAIN query.from |-> TableColumns(query.from[i])])

SelectExpressions ==
    IF IsAggregateQuery THEN [i \in DOMAIN query.select |-> AggregateExpression(i)]
    ELSE FlattenSeq([i \in DOMAIN query.select |->
            IF query.select[i].kind = "wildcard" THEN AllColumns ELSE <<query.select[i].arg>>])

Grouped(input) ==
    IF ~IsAggregateQuery THEN input
    ELSE FilterNode([op |-> "aggregate", input |-> input, group_by |-> query.group_by,
                     aggregates |-> [i \in DOMAIN AggregateItems(query.select) |->
                                        AggregateItems(query.select)[i].arg]],
                    query.having)

BindSelect ==
    /\ stage = "from" /\ part > Len(query.from)
    /\ IF IsAggregateQuery /\ RejectsAggregates
       THEN stage' = "rejected" /\ UNCHANGED plan
       ELSE IF DereferencesNoColumn
       THEN stage' = "died" /\ UNCHANGED plan
       ELSE /\ stage' = "bound"
            /\ plan' = [op |-> "project", input |-> Grouped(FilterNode(plan, Remaining)),
                        expressions |-> SelectExpressions]
    /\ UNCHANGED <<query, db, part, joined, physical>>

-----------------------------------------------------------------------------
(* Predicate pushdown: conjuncts sink to the lowest node that has all      *)
(* their columns, through an aggregate if they are about its keys.         *)
ReferencesOnlyGroupByColumns(conjunct, group_by) ==
    CollectColumnRefs(conjunct) \subseteq ToSet(group_by)

RECURSIVE PlaceInto(_, _)
PlaceInto(node, conjuncts) ==
    CASE conjuncts = << >> -> node
      [] node.op = "scan" -> FilterNode(node, conjuncts)
      [] node.op = "filter" -> [node EXCEPT !.predicate = @ \o conjuncts]
      [] node.op = "join" ->
           LET left(c) == AllColumnsAvailable(c, CollectBindingIds(node.left))
               right(c) == ~left(c) /\ AllColumnsAvailable(c, CollectBindingIds(node.right))
           IN  FilterNode([node EXCEPT !.left = PlaceInto(@, SelectSeq(conjuncts, left)),
                                       !.right = PlaceInto(@, SelectSeq(conjuncts, right))],
                          SelectSeq(conjuncts, LAMBDA c : ~left(c) /\ ~right(c)))
      [] node.op = "aggregate" ->
           LET eligible(c) == ReferencesOnlyGroupByColumns(c, node.group_by)
           IN  FilterNode([node EXCEPT !.input = PlaceInto(@, SelectSeq(conjuncts, eligible))],
                          SelectSeq(conjuncts, LAMBDA c : ~eligible(c)))
      [] OTHER -> [node EXCEPT !.input = PlaceInto(@, conjuncts)]

RECURSIVE Rewrite(_)
RewriteFilterInPlace(node) == [node EXCEPT !.input = Rewrite(@)]
RewriteFilter(node) == PlaceInto(Rewrite(node.input), node.predicate)
Rewrite(node) ==
    CASE node.op = "scan" -> node
      [] node.op = "filter" -> RewriteFilter(node)
      [] node.op = "join" -> [node EXCEPT !.left = Rewrite(@), !.right = Rewrite(@)]
      [] OTHER -> [node EXCEPT !.input = Rewrite(@)]

PushdownPredicates ==
    /\ stage = "bound"
    /\ plan' = Rewrite(plan)
    /\ stage' = "pushed"
    /\ UNCHANGED <<query, db, part, joined, physical>>

(* Column pruning: what the nodes above a scan need of its columns. *)
RECURSIVE Propagate(_, _)
Propagate(node, required) ==
    CASE node.op = "scan" ->
           [node EXCEPT !.required = SetToSortSeq({r[3] : r \in {s \in required : s[2] = node.id}}, <)]
      [] node.op = "filter" ->
           [node EXCEPT !.input = Propagate(@, required \cup PredicateRefs(node.predicate))]
      [] node.op = "join" ->
           LET all == required \cup EquiRefs(node.equi_conditions)
               left == {r \in all : r[2] \in CollectBindingIds(node.left)}
               right == {r \in all \ left : r[2] \in CollectBindingIds(node.right)}
           IN  [node EXCEPT !.left = Propagate(@, left), !.right = Propagate(@, right)]
      [] node.op = "aggregate" ->
           [node EXCEPT !.input = Propagate(@, ToSet(node.group_by) \cup Columns(ToSet(node.aggregates)))]
      [] OTHER -> [node EXCEPT !.input = Propagate(@, Columns(ToSet(node.expressions)))]

PruneColumns ==
    /\ stage = "pushed"
    /\ plan' = Propagate(plan, {})
    /\ stage' = "pruned"
    /\ UNCHANGED <<query, db, part, joined, physical>>

-----------------------------------------------------------------------------
(* The number of columns of a node's output: a join's build columns (its   *)
(* right side) come before its probe columns.                              *)
RECURSIVE PhysicalOutputSchema(_)
PhysicalOutputSchema(node) ==
    CASE node.op = "scan" -> Len(node.required)
      [] node.op = "join" -> PhysicalOutputSchema(node.right) + PhysicalOutputSchema(node.left)
      [] OTHER -> PhysicalOutputSchema(node.input)

ProbePositionFirst(node, position) == position
ProbePosition(node, position) ==
    IF position < 0 THEN position ELSE PhysicalOutputSchema(node.right) + position

RECURSIVE FindColumnPosition(_, _)
FindColumnPosition(node, ref) ==
    CASE node.op = "scan" ->
           IF node.id # ref[2] THEN NotReachable
           ELSE IF ref[3] \notin ToSet(node.required) THEN Pruned
           ELSE CHOOSE k \in DOMAIN node.required : node.required[k] = ref[3]
      [] node.op = "join" ->
           IF ref[2] \in CollectBindingIds(node.left)
           THEN ProbePosition(node, FindColumnPosition(node.left, ref))
           ELSE FindColumnPosition(node.right, ref)
      [] node.op = "aggregate" -> IF ref[2] = AggregateOutput THEN ref[3] ELSE NotReachable
      [] OTHER -> FindColumnPosition(node.input, ref)

(* RewriteColumnRefsToPhysicalPositions *)
Positioned(operand, child) ==
    IF operand[1] # "col" THEN operand
    ELSE [operand EXCEPT ![3] = FindColumnPosition(child, operand)]
PositionedPredicate(conjuncts, child) ==
    [i \in DOMAIN conjuncts |->
        <<conjuncts[i][1], Positioned(conjuncts[i][2], child), Positioned(conjuncts[i][3], child)>>]
PositionedAll(operands, child) == [i \in DOMAIN operands |-> Positioned(operands[i], child)]

(* TryExtractZoneMapSkip: one comparison of a column with a constant; its  *)
(* ordinal is the table's.                                                 *)
TryExtractZoneMapSkip(conjuncts) ==
    IF Len(conjuncts) = 1 /\ conjuncts[1][2][1] = "col" /\ conjuncts[1][3][1] = "const"
    THEN [ordinal |-> conjuncts[1][2][3], op |-> conjuncts[1][1], constant |-> conjuncts[1][3][2]]
    ELSE NoSkip

JoinKey(node, condition) ==
    IF condition[1][2] \in CollectBindingIds(node.left)
    THEN [probe |-> condition[1], build |-> condition[2]]
    ELSE [probe |-> condition[2], build |-> condition[1]]

RECURSIVE TranslateNode(_)
TranslateNode(node) ==
    CASE node.op = "scan" ->
           [op |-> "scan", table |-> node.id, required |-> node.required, skip |-> NoSkip]
      [] node.op = "filter" ->
           [op |-> "filter", predicate |-> PositionedPredicate(node.predicate, node.input),
            input |-> IF node.input.op = "scan"
                      THEN [TranslateNode(node.input) EXCEPT
                               !.skip = TryExtractZoneMapSkip(node.predicate)]
                      ELSE TranslateNode(node.input)]
      [] node.op = "join" ->
           LET key(i) == JoinKey(node, node.equi_conditions[i])
           IN  [op |-> "join",
                probe |-> TranslateNode(node.left), build |-> TranslateNode(node.right),
                probe_keys |-> [i \in DOMAIN node.equi_conditions |->
                                   Positioned(key(i).probe, node.left)],
                build_keys |-> [i \in DOMAIN node.equi_conditions |->
                                   Positioned(key(i).build, node.right)]]
      [] node.op = "aggregate" ->
           [op |-> "aggregate", input |-> TranslateNode(node.input),
            group_by |-> PositionedAll(node.group_by, node.input),
            aggregates |-> PositionedAll(node.aggregates, node.input)]
      [] OTHER ->
           [op |-> "project", input |-> TranslateNode(node.input),
            expressions |-> PositionedAll(node.expressions, node.input)]

(* The operands of all operators: a position FindColumnPosition threw on   *)
(* is negative.                                                            *)
RECURSIVE OperandsOf(_)
OperandsOf(operator) ==
    CASE operator.op = "scan" -> {}
      [] operator.op = "filter" -> PredicateRefs(operator.predicate) \cup OperandsOf(operator.input)
      [] operator.op = "join" ->
           ToSet(operator.probe_keys) \cup ToSet(operator.build_keys)
             \cup OperandsOf(operator.probe) \cup OperandsOf(operator.build)
      [] operator.op = "aggregate" ->
           Columns(ToSet(operator.group_by) \cup ToSet(operator.aggregates))
             \cup OperandsOf(operator.input)
      [] OTHER -> Columns(ToSet(operator.expressions)) \cup OperandsOf(operator.input)

Translate ==
    /\ stage = "pruned"
    /\ IF \E o \in OperandsOf(TranslateNode(plan)) : o[3] < 0
       THEN stage' = "rejected" /\ UNCHANGED physical
       ELSE stage' = "translated" /\ physical' = TranslateNode(plan)
    /\ UNCHANGED <<query, db, part, joined, plan>>

Next ==
    \/ BindTableRefs \/ JoinPart \/ RejectCartesianProduct \/ BindSelect
    \/ PushdownPredicates \/ PruneColumns \/ Translate

Spec == Init /\ [][Next]_vars

-----------------------------------------------------------------------------
(* What the operators return.  A row is a tuple; a table is one row group, *)
(* which the scan leaves out if its zone map refutes the skip condition.   *)
Value(operand, row) == IF operand[1] = "col" THEN row[operand[3]] ELSE operand[2]
Compare(op, a, b) == IF op = "=" THEN a = b ELSE a < b

ZoneMapRulesOutRowGroup(rows, skip) ==
    /\ skip # NoSkip /\ rows # << >>
    /\ LET zone == {row[skip.ordinal] : row \in ToSet(rows)}
       IN  IF skip.op = "=" THEN skip.constant < Min(zone) \/ skip.constant > Max(zone)
           ELSE ~(Min(zone) < skip.constant)

Scanned(operator) ==
    LET rows == db[operator.table]
    IN  IF ZoneMapRulesOutRowGroup(rows, operator.skip) THEN << >>
        ELSE [i \in DOMAIN rows |-> [k \in DOMAIN operator.required |-> rows[i][operator.required[k]]]]

Filtered(rows, conjuncts) ==
    SelectSeq(rows, LAMBDA row : \A c \in ToSet(conjuncts) :
                        Compare(c[1], Value(c[2], row), Value(c[3], row)))

Keys(operands, row) == [k \in DOMAIN operands |-> Value(operands[k], row)]

Joined(operator, build, probe) ==
    FlattenSeq([p \in DOMAIN probe |->
        LET matches == SelectSeq(build, LAMBDA row :
                           Keys(operator.build_keys, row) = Keys(operator.probe_keys, probe[p]))
        IN  [m \in DOMAIN matches |-> matches[m] \o probe[p]]])

Aggregated(operator, rows) ==
    LET keys == IF operator.group_by = << >> THEN {<< >>}
                ELSE {Keys(operator.group_by, row) : row \in ToSet(rows)}
        group(key) == {i \in DOMAIN rows : Keys(operator.group_by, rows[i]) = key}
        row(key) == key \o [a \in DOMAIN operator.aggregates |->
                               MapThenSumSet(LAMBDA i : Value(operator.aggregates[a], rows[i]),
                                             group(key))]
    IN  SetToSeq({row(key) : key \in keys})

RECURSIVE Rows(_)
Rows(operator) ==
    CASE operator.op = "scan" -> Scanned(operator)
      [] operator.op = "filter" -> Filtered(Rows(operator.input), operator.predicate)
      [] operator.op = "join" -> Joined(operator, Rows(operator.build), Rows(operator.probe))
      [] operator.op = "aggregate" -> Aggregated(operator, Rows(operator.input))
      [] OTHER -> LET rows == Rows(operator.input)
                  IN  [i \in DOMAIN rows |-> Keys(operator.expressions, rows[i])]

-----------------------------------------------------------------------------
(* The reference: what the query means, independent of any plan.  A choice *)
(* picks one row of each table; those that satisfy every ON condition and  *)
(* all of WHERE are the rows the SELECT list ranges over.                  *)
Tables == UNION {CollectBindingIds(item) : item \in ToSet(query.from)}
Conditions == ToSet(query.where) \cup UNION {OnConjuncts(item) : item \in ToSet(query.from)}

Chosen(operand, choice) ==
    IF operand[1] = "col" THEN db[operand[2]][choice[operand[2]]][operand[3]] ELSE operand[2]
Satisfies(choice, conjuncts) ==
    \A c \in conjuncts : Compare(c[1], Chosen(c[2], choice), Chosen(c[3], choice))
Selected ==
    {choice \in [Tables -> UNION {DOMAIN db[t] : t \in Tables}] :
        /\ \A t \in Tables : choice[t] \in DOMAIN db[t]
        /\ Satisfies(choice, Conditions)}

GroupKey(choice) == [g \in DOMAIN query.group_by |-> Chosen(query.group_by[g], choice)]
Groups ==
    IF query.group_by = << >> THEN {Selected}
    ELSE {{c \in Selected : GroupKey(c) = GroupKey(d)} : d \in Selected}
GroupRow(group) ==
    [i \in DOMAIN query.select |->
        LET arg == query.select[i].arg
        IN  IF query.select[i].kind = "aggregate"
            THEN MapThenSumSet(LAMBDA c : Chosen(arg, c), group)
            ELSE Chosen(arg, CHOOSE c \in group : TRUE)]
(* HAVING of an empty group is about constants only. *)
KeptGroups ==
    {g \in Groups : \A c \in IF g = {} THEN {<< >>} ELSE g : Satisfies(c, ToSet(query.having))}

Counted(S, row(_)) == [r \in {row(x) : x \in S} |-> Cardinality({x \in S : row(x) = r})]
Meaning ==
    IF IsAggregateQuery THEN Counted(KeptGroups, GroupRow)
    ELSE Counted(Selected, LAMBDA c : [i \in DOMAIN SelectExpressions |->
                                          Chosen(SelectExpressions[i], c)])

(* A query gistdb means to answer: every ON condition is an equality       *)
(* between the two sides of its JOIN, WHERE connects the FROM items by     *)
(* equalities, in whatever order, and what an aggregate query selects or   *)
(* tests is one of its keys or an aggregate of a column.                   *)
RECURSIVE Joins(_)
Joins(ref) == IF ref.op = "scan" THEN {} ELSE {ref} \cup Joins(ref.left) \cup Joins(ref.right)
LinksSides(conjunct, join) ==
    /\ IsEquality(conjunct)
    /\ \E k \in {2, 3} : /\ conjunct[k][2] \in CollectBindingIds(join.left)
                         /\ conjunct[5 - k][2] \in CollectBindingIds(join.right)
Connects(k) == {PartIndexOf(Connecting[k][2]), PartIndexOf(Connecting[k][3])}
Supported ==
    /\ \A item \in ToSet(query.from) : \A join \in Joins(item) :
          \A conjunct \in ToSet(join.on) : LinksSides(conjunct, join)
    /\ \A S \in SUBSET DOMAIN query.from \ {{}, DOMAIN query.from} :
          \E k \in DOMAIN Connecting : Connects(k) \cap S # {} /\ ~(Connects(k) \subseteq S)
    /\ IsAggregateQuery =>
           /\ ~RejectsAggregates /\ ~DereferencesNoColumn
           /\ PredicateRefs(query.having) \subseteq ToSet(query.group_by)

(* Each FROM item is connected to one that stands before it. *)
ConnectedInOrder ==
    \A i \in 2 .. Len(query.from) : \E k \in DOMAIN Connecting : Max(Connects(k)) = i

-----------------------------------------------------------------------------
(* The loop of BindFromClause keeps DisjointSet's group of the first item  *)
(* equal to the items the plan under construction joins.                   *)
TypeOK ==
    /\ stage \in {"parsed", "from", "bound", "pushed", "pruned", "translated", "rejected", "died"}
    /\ part \in 1 .. Len(query.from) + 1
    /\ joined = 1 .. part - 1
    /\ (plan = NoPlan) = (part = 1)
    /\ plan # NoPlan => CollectBindingIds(plan) = UNION {CollectBindingIds(query.from[i]) : i \in joined}
    /\ (physical # NoPlan) = (stage = "translated")

(* The operators Optimize returns produce, row for row and with the right  *)
(* multiplicity, what the SELECT means: no pass of binder and optimizer    *)
(* loses a condition, moves it where it means something else, or resolves  *)
(* a column to another one's position.                                     *)
PlanMeansQuery ==
    stage = "translated" =>
        LET rows == Rows(physical)
        IN  Counted(DOMAIN rows, LAMBDA i : rows[i]) = Meaning


(* After PushdownPredicates, no conjunct of WHERE about one side of a join *)
(* is left above the join.  (One of HAVING may be: PlaceInto fuses it with *)
(* the filter it meets below the aggregate.)                               *)
FiltersAreDeep ==
    LET RECURSIVE Deep(_)
        Deep(node) ==
            CASE node.op = "scan" -> TRUE
              [] node.op = "join" -> Deep(node.left) /\ Deep(node.right)
              [] node.op = "filter" ->
                   /\ Deep(node.input)
                   /\ node.input.op = "join" =>
                         \A c \in ToSet(node.predicate) \cap ToSet(query.where) :
                             /\ ~AllColumnsAvailable(c, CollectBindingIds(node.input.left))
                             /\ ~AllColumnsAvailable(c, CollectBindingIds(node.input.right))
              [] OTHER -> Deep(node.input)
    IN  stage \in {"pushed", "pruned", "translated"} => Deep(plan)
=============================================================================
