---------------------------- MODULE Expressions -----------------------------
(***************************************************************************)
(* A scalar expression from pg_query's tree to its value on a chunk:       *)
(* Parser::ConvertExpr, the binder with its type rules, and                *)
(* ExpressionEvaluator.                                                    *)
(*                                                                         *)
(* pg_query's nodes are records with a field n: "const" [type, v], "col"   *)
(* [name], "op" [kind, name, l, r], "negation" [r] (no left operand),      *)
(* "bool" [op, args] and "func" [args].  INTEGER has IntBits bits.  A      *)
(* FLOAT is counted in halves and has FloatBits significant bits; texts    *)
(* are ordered like the integers that stand for them.                      *)
(***************************************************************************)
EXTENDS Integers, Sequences, FiniteSets, SequencesExt

CONSTANTS
    IntBits, FloatBits, FloatExponents,
    Schema        (* the table's columns: name -> type                     *)

Comparisons == {"=", "<>", "<", "<=", ">", ">="}
Arithmetic == {"+", "-", "*", "/"}

-----------------------------------------------------------------------------
(* ToOperator, which knows no other operator's name.  The kind of an A_Expr*)
(* (plain, IS DISTINCT FROM, NULLIF, ...) is not looked at.                *)
IsOperator(name) == name \in Comparisons \cup Arithmetic \cup {"!="}
ToOperator(name) == IF name = "!=" THEN "<>" ELSE name

(* How converting a tree may fail: an exception, or the end of the process *)
(* when ConvertAExpr follows the left operand of a negation.  The operands *)
(* of an A_Expr are converted in no given order, those of AND, OR and a    *)
(* function one after the other.                                           *)
RECURSIVE ConversionFailures(_)
FirstFailures(args) ==
    LET failing == {k \in DOMAIN args : ConversionFailures(args[k]) # {}}
    IN  IF failing = {} THEN {} ELSE ConversionFailures(args[Min(failing)])
ConversionFailures(node) ==
    CASE node.n = "const" -> IF node.type = "boolean" THEN {"error"} ELSE {}
      [] node.n = "op" -> IF ~IsOperator(node.name) THEN {"error"}
                          ELSE ConversionFailures(node.l) \cup ConversionFailures(node.r)
      [] node.n = "negation" -> {"died"} \cup ConversionFailures(node.r)
      [] node.n \in {"bool", "func"} -> FirstFailures(node.args)
      [] OTHER -> {}

BinaryOp(op, l, r) == [e |-> "bin", op |-> op, l |-> l, r |-> r]

(* ConvertBoolExpr: AND and OR of any number of operands become left-deep. *)
RECURSIVE ConvertExpr(_)
ConvertBoolExpr(op, args) ==
    IF op = "not" THEN [e |-> "not", a |-> ConvertExpr(args[1])]
    ELSE FoldLeft(LAMBDA result, arg : BinaryOp(op, result, ConvertExpr(arg)),
                  ConvertExpr(args[1]), Tail(args))

ConvertExpr(node) ==
    CASE node.n = "const" -> [e |-> "const", type |-> node.type, v |-> node.v]
      [] node.n = "col" -> [e |-> "col", name |-> node.name]
      [] node.n = "op" -> BinaryOp(ToOperator(node.name), ConvertExpr(node.l),
                                   ConvertExpr(node.r))
      [] node.n = "bool" -> ConvertBoolExpr(node.op, node.args)
      [] node.n = "func" -> [e |-> "func"]

-----------------------------------------------------------------------------
(* The binder.  A bound expression has its ResultType; "error" stands for  *)
(* an exception.                                                           *)
ResultTypeMixed(op, left, right) ==
    IF op \in {"and", "or"}
    THEN IF left = "bool" /\ right = "bool" THEN "bool" ELSE "error"
    ELSE IF op \in Comparisons THEN "bool"
    ELSE IF left = "float" \/ right = "float" THEN "float" ELSE "int"
ResultTypeForBinaryOp(op, left, right) ==
    IF op \in {"and", "or"}
    THEN IF left = "bool" /\ right = "bool" THEN "bool" ELSE "error"
    ELSE IF (left = "text") # (right = "text") THEN "error"
    ELSE IF op \in Comparisons THEN "bool"
    ELSE IF left = "text" THEN "error"
    ELSE IF left = "float" \/ right = "float" THEN "float" ELSE "int"

BindError == [e |-> "error", type |-> "error"]

RECURSIVE BindScalarExpression(_)
BindScalarExpression(raw) ==
    CASE raw.e = "col" -> IF raw.name \in DOMAIN Schema
                          THEN [e |-> "col", type |-> Schema[raw.name], name |-> raw.name]
                          ELSE BindError
      [] raw.e = "const" -> IF raw.type = "null" THEN BindError ELSE raw
      [] raw.e = "bin" ->
           LET l == BindScalarExpression(raw.l)
               r == BindScalarExpression(raw.r)
               type == ResultTypeForBinaryOp(raw.op, l.type, r.type)
           IN  IF "error" \in {l.type, r.type, type} THEN BindError
               ELSE [e |-> "bin", type |-> type, op |-> raw.op, l |-> l, r |-> r]
      [] raw.e = "not" -> LET a == BindScalarExpression(raw.a)
                          IN  IF a.type # "bool" THEN BindError
                              ELSE [e |-> "not", type |-> "bool", a |-> a]
      [] raw.e = "func" -> BindError

BindPredicate(raw) ==
    LET bound == BindScalarExpression(raw)
    IN  IF bound.type = "bool" THEN bound ELSE BindError

(* FlattenAnd, and ExtractConjuncts on bound expressions. *)
RECURSIVE FlattenAnd(_)
FlattenAnd(expr) ==
    IF expr.e = "bin" /\ expr.op = "and" THEN FlattenAnd(expr.l) \o FlattenAnd(expr.r)
    ELSE <<expr>>

RebuildConjunction(conjuncts) ==
    FoldLeft(LAMBDA result, c : [e |-> "bin", type |-> "bool", op |-> "and",
                                 l |-> result, r |-> c],
             Head(conjuncts), Tail(conjuncts))

-----------------------------------------------------------------------------
(* Machine arithmetic.  Integer overflow wraps in the builds CMakeLists    *)
(* makes; the one quotient that overflows traps (see DivisionTraps).       *)
MinInt == -(2 ^ (IntBits - 1))
Wrap(n) == ((n - MinInt) % 2 ^ IntBits) + MinInt
Abs(n) == IF n < 0 THEN -n ELSE n
Sign(n) == IF n < 0 THEN -1 ELSE IF n = 0 THEN 0 ELSE 1

DivisionTrapsOnZero(op, lhs, rhs) == op = "/" /\ (rhs = 0 \/ (rhs = -1 /\ lhs = MinInt))
DivisionTraps(op, lhs, rhs) == op = "/" /\ rhs = -1 /\ lhs = MinInt

ApplyIntArithmetic(op, lhs, rhs) ==
    CASE op = "+" -> Wrap(lhs + rhs)
      [] op = "-" -> Wrap(lhs - rhs)
      [] op = "*" -> Wrap(lhs * rhs)
      [] op = "/" -> IF rhs = 0 THEN 0 ELSE Sign(lhs) * Sign(rhs) * (Abs(lhs) \div Abs(rhs))

(* The finite floats, and rounding to nearest, ties to even. *)
Inf == 10000
NaN == 20000
Representable ==
    {s * m * 2 ^ k : s \in {-1, 1}, m \in 0 .. 2 ^ FloatBits - 1, k \in 0 .. FloatExponents}
Overflows(num, den) ==
    2 * Abs(num) >= (2 ^ (FloatBits + 1) - 1) * 2 ^ FloatExponents * den
Round(num, den) ==
    LET closer(r, s) ==
            \/ Abs(num - r * den) < Abs(num - s * den)
            \/ Abs(num - r * den) = Abs(num - s * den) /\ (r \div Abs(r - s)) % 2 = 0
    IN  IF Overflows(num, den) THEN Sign(num) * Inf
        ELSE CHOOSE r \in Representable : \A s \in Representable \ {r} : closer(r, s)

(* Zero has no sign here: no input divides by a product or a quotient. *)
RECURSIVE ApplyFloatArithmetic(_, _, _)
ApplyFloatArithmetic(op, lhs, rhs) ==
    LET infinite == Inf \in {Abs(lhs), Abs(rhs)}
        sign == Sign(lhs) * Sign(rhs)
    IN  CASE NaN \in {lhs, rhs} -> NaN
          [] op = "-" -> ApplyFloatArithmetic("+", lhs, -rhs)
          [] op = "+" -> IF infinite /\ Abs(lhs) = Abs(rhs) /\ sign < 0 THEN NaN
                         ELSE IF Abs(lhs) = Inf THEN lhs
                         ELSE IF infinite THEN rhs ELSE Round(lhs + rhs, 1)
          [] op = "*" -> IF infinite THEN IF sign = 0 THEN NaN ELSE sign * Inf
                         ELSE Round(lhs * rhs, 2)
          [] op = "/" -> IF rhs = 0 THEN IF lhs = 0 THEN NaN ELSE Sign(lhs) * Inf
                         ELSE IF Abs(rhs) = Inf THEN IF Abs(lhs) = Inf THEN NaN ELSE 0
                         ELSE IF infinite THEN sign * Inf
                         ELSE Round(Sign(rhs) * lhs * 2, Abs(rhs))

ApplyComparison(op, lhs, rhs) ==
    CASE op = "=" -> lhs = rhs /\ lhs # NaN
      [] op = "<>" -> lhs # rhs \/ lhs = NaN
      [] op = "<" -> lhs < rhs /\ rhs # NaN
      [] op = "<=" -> lhs <= rhs /\ rhs # NaN
      [] op = ">" -> lhs > rhs /\ lhs # NaN
      [] op = ">=" -> lhs >= rhs /\ lhs # NaN

-----------------------------------------------------------------------------
(* EvaluationResult: a raw value for every row of the chunk, and which of  *)
(* them are valid.  std::get on the wrong column type throws, a trapping   *)
(* division ends the process.                                              *)
Thrown == [type |-> "bad_variant", v |-> << >>, ok |-> << >>]
Trapped == [type |-> "trap", v |-> << >>, ok |-> << >>]
HasFailed(result) == result.type \in {"bad_variant", "trap"}

AsFloat(result, i) == IF result.type = "float" THEN result.v[i] ELSE Round(2 * result.v[i], 1)
BothValid(l, r) == [i \in DOMAIN l.v |-> l.ok[i] /\ r.ok[i]]

(* Two passes: every row's raw value, then the rows that are not valid. *)
DividesByZero(op, rhs) == op = "/" /\ rhs = 0
EvaluateArithmeticInt(op, l, r) ==
    IF {l.type, r.type} # {"int"} THEN Thrown
    ELSE IF \E i \in DOMAIN l.v : DivisionTraps(op, l.v[i], r.v[i]) THEN Trapped
    ELSE [type |-> "int",
          v |-> [i \in DOMAIN l.v |-> ApplyIntArithmetic(op, l.v[i], r.v[i])],
          ok |-> [i \in DOMAIN l.v |-> BothValid(l, r)[i] /\ ~DividesByZero(op, r.v[i])]]

EvaluateArithmeticFloat(op, l, r) ==
    IF ~({l.type, r.type} \subseteq {"int", "float"}) THEN Thrown
    ELSE [type |-> "float",
          v |-> [i \in DOMAIN l.v |-> ApplyFloatArithmetic(op, AsFloat(l, i), AsFloat(r, i))],
          ok |-> BothValid(l, r)]

(* CompareRow: texts as texts, as floats when one side is, else integers. *)
CompareRow(op, l, r, i) ==
    IF "float" \in {l.type, r.type} THEN ApplyComparison(op, AsFloat(l, i), AsFloat(r, i))
    ELSE ApplyComparison(op, l.v[i], r.v[i])
EvaluateComparison(op, l, r) ==
    IF "bool" \in {l.type, r.type} \/ ((l.type = "text") # (r.type = "text")) THEN Thrown
    ELSE [type |-> "bool",
          v |-> [i \in DOMAIN l.v |-> CompareRow(op, l, r, i)],
          ok |-> BothValid(l, r)]

EvaluateLogical(op, l, r) ==
    [type |-> "bool",
     v |-> [i \in DOMAIN l.v |-> IF op = "and" THEN l.v[i] /\ r.v[i] ELSE l.v[i] \/ r.v[i]],
     ok |-> BothValid(l, r)]

EvaluateUnaryOp(a) ==
    [type |-> "bool", v |-> [i \in DOMAIN a.v |-> ~a.v[i]], ok |-> a.ok]

EvaluateBinaryOpDivideAsFloat(expr, l, r) ==
    CASE expr.op \in Arithmetic -> IF expr.type = "float" \/ expr.op = "/"
                                   THEN EvaluateArithmeticFloat(expr.op, l, r)
                                   ELSE EvaluateArithmeticInt(expr.op, l, r)
      [] expr.op \in {"and", "or"} -> EvaluateLogical(expr.op, l, r)
      [] OTHER -> EvaluateComparison(expr.op, l, r)
EvaluateBinaryOp(expr, l, r) ==
    CASE expr.op \in Arithmetic -> IF expr.type = "float"
                                   THEN EvaluateArithmeticFloat(expr.op, l, r)
                                   ELSE EvaluateArithmeticInt(expr.op, l, r)
      [] expr.op \in {"and", "or"} -> EvaluateLogical(expr.op, l, r)
      [] OTHER -> EvaluateComparison(expr.op, l, r)

RECURSIVE Evaluate(_, _)
Evaluate(expr, chunk) ==
    CASE expr.e \in {"col", "const"} ->
           [type |-> expr.type,
            v |-> [i \in DOMAIN chunk |-> IF expr.e = "col" THEN chunk[i][expr.name] ELSE expr.v],
            ok |-> [i \in DOMAIN chunk |-> TRUE]]
      [] expr.e = "bin" ->
           LET l == Evaluate(expr.l, chunk)
               r == Evaluate(expr.r, chunk)
           IN  IF HasFailed(l) THEN l ELSE IF HasFailed(r) THEN r
               ELSE EvaluateBinaryOp(expr, l, r)
      [] expr.e = "not" -> LET a == Evaluate(expr.a, chunk)
                           IN  IF HasFailed(a) THEN a ELSE EvaluateUnaryOp(a)
=============================================================================
