-------------------------- MODULE AggregationProofs --------------------------
(***************************************************************************)
(* The aggregation returns the GROUP BY, for every input of its child,     *)
(* every number of GROUP BY columns and every batch size.                  *)
(*                                                                         *)
(* The inductive invariant AggregationInv says what the groups are after   *)
(* any number of rows: GroupsInv that there is exactly one for every key   *)
(* seen, in the order of the first rows, and TalliesInv that its           *)
(* accumulators are the aggregates of the rows of that key so far.         *)
(***************************************************************************)
EXTENDS Aggregation, AppendingProofs, FiniteSetTheorems

(* The rows of a key among the first n, and what accumulators say of them. *)
KeyIn(g, r) == IF g THEN r.key ELSE << >>
IsOf(g, v, r) == r.selected /\ KeyIn(g, r) = v
RowsOf(R, g, v, n) == {i \in 1 .. n : IsOf(g, v, R[i])}
ValuedRows(R, g, v, n) == {i \in RowsOf(R, g, v, n) : R[i].value # Null}
Summand(R, g, v, i) == IF i \in ValuedRows(R, g, v, i) THEN R[i].value ELSE 0
IsTotal(R, g, v, f) ==
    /\ f \in [0 .. Len(R) -> Int] /\ f[0] = 0
    /\ \A i \in 1 .. Len(R) : f[i] = f[i - 1] + Summand(R, g, v, i)

Accumulators == [rows : Nat, count : Nat, sum : Int, min : Int, max : Int]
Tally(R, g, v, n, acc) ==
    /\ acc \in Accumulators
    /\ acc.rows = Cardinality(RowsOf(R, g, v, n))
    /\ acc.count = Cardinality(ValuedRows(R, g, v, n))
    /\ \A f : IsTotal(R, g, v, f) => acc.sum = f[n]
    /\ ValuedRows(R, g, v, n) # {} =>
          /\ \E i \in ValuedRows(R, g, v, n) : acc.min = R[i].value
          /\ \E i \in ValuedRows(R, g, v, n) : acc.max = R[i].value
          /\ \A i \in ValuedRows(R, g, v, n) : acc.min <= R[i].value /\ R[i].value <= acc.max

Bytes == Seq(Nat \cup Char)
GroupKey(g) == IF g THEN [1 .. KeyColumns -> Seq(Char) \cup {Null}] ELSE {<< >>}

Typed ==
    /\ grouped \in BOOLEAN /\ drained \in BOOLEAN
    /\ rows \in Seq(Row) /\ ends \in Seq(0 .. Len(rows))
    /\ IF ends = << >> THEN rows = << >> ELSE ends[Len(ends)] = Len(rows)
    /\ fetched \in 0 .. Len(ends) /\ row \in 1 .. Len(rows) + 1
    /\ group_order \in Seq(Bytes)
    /\ emit_cursor \in 0 .. Len(group_order)

PhaseInv ==
    /\ pc \in {"idle", "drain", "emit", "done"}
    /\ ~drained => pc \in {"idle", "drain"} /\ fetched = 0 /\ row = 1 /\ group_order = << >>
    /\ drained /\ pc # "drain" => row = Len(rows) + 1
    /\ pc = "drain" => emit_cursor = 0
    /\ pc = "done" => emit_cursor = Len(group_order)

(* One group for every key, found by its bytes. *)
GroupsInv ==
    /\ \A g \in DOMAIN group_order : group_order[g] \in DOMAIN accumulators
    /\ \A k \in DOMAIN accumulators : \E g \in DOMAIN group_order : group_order[g] = k
    /\ \A g, h \in DOMAIN group_order : group_order[g] = group_order[h] => g = h
    /\ DOMAIN display_values = DOMAIN accumulators
    /\ \A k \in DOMAIN accumulators :
          display_values[k] \in GroupKey(grouped) /\ SerializeKeyBytes(display_values[k]) = k
    /\ drained /\ ~grouped => << >> \in DOMAIN accumulators

(* Which keys those are, and their order. *)
Before(R, g, k, l) == \E i \in RowsOf(R, g, k, Len(R)) : \A j \in RowsOf(R, g, l, Len(R)) : i < j
SeenInv ==
    /\ \A i \in 1 .. row - 1 :
          rows[i].selected => SerializeKeyBytes(KeyIn(grouped, rows[i])) \in DOMAIN accumulators
    /\ grouped => \A k \in DOMAIN accumulators :
          \E i \in 1 .. row - 1 : rows[i].selected /\ rows[i].key = display_values[k]
    /\ \A g, h \in DOMAIN group_order :
          g < h => Before(rows, grouped, display_values[group_order[g]], display_values[group_order[h]])

TalliesInv ==
    \A k \in DOMAIN accumulators : Tally(rows, grouped, display_values[k], row - 1, accumulators[k])

Results(g) == {Result(v, acc) : v \in GroupKey(g), acc \in Accumulators}
OutputInv ==
    /\ output \in Seq(Results(grouped)) /\ Len(output) = emit_cursor
    /\ \A i \in 1 .. emit_cursor :
          output[i] = Result(display_values[group_order[i]], accumulators[group_order[i]])

AggregationInv == Typed /\ PhaseInv /\ GroupsInv /\ SeenInv /\ TalliesInv /\ OutputInv

-----------------------------------------------------------------------------
(* SerializeKeyBytes tells keys apart. *)
KeyPart(x) == IF x = Null THEN <<1>> ELSE <<0, 2, Len(x)>> \o x
PartOf == {KeyPart(x) : x \in Seq(Char) \cup {Null}}

LEMMA KeyPartFacts ==
    ASSUME NEW x \in Seq(Char), x # Null
    PROVE  /\ KeyPart(x) \in Bytes /\ Len(KeyPart(x)) = Len(x) + 3 /\ Len(x) \in Nat
           /\ KeyPart(x)[1] = 0 /\ KeyPart(x)[3] = Len(x)
           /\ \A i \in 1 .. Len(x) : KeyPart(x)[i + 3] = x[i]
<1> DEFINE h == <<0, 2, Len(x)>>
<1>1. h \in Bytes /\ x \in Bytes /\ Len(h) = 3 /\ h[1] = 0 /\ h[3] = Len(x)
  BY DEF Bytes
<1>2. KeyPart(x) = h \o x
  BY DEF KeyPart
<1> HIDE DEF h
<1>3. /\ h \o x \in Bytes /\ Len(h \o x) = Len(h) + Len(x) /\ Len(x) \in Nat
      /\ \A i \in 1 .. Len(h) : (h \o x)[i] = h[i]
      /\ \A i \in 1 .. Len(x) : (h \o x)[Len(h) + i] = x[i]
  <2>1. PICK C : Bytes = Seq(C)
    BY DEF Bytes
  <2>2. h \in Seq(C) /\ x \in Seq(C)
    BY <1>1, <2>1
  <2> QED
    BY <2>1, <2>2, Concatenated
<1>4. Len(h \o x) = Len(x) + 3 /\ (h \o x)[1] = 0 /\ (h \o x)[3] = Len(x)
  BY <1>1, <1>3
<1>5. \A i \in 1 .. Len(x) : (h \o x)[i + 3] = x[i]
  BY <1>1, <1>3
<1> QED
  BY <1>2, <1>3, <1>4, <1>5

LEMMA PartsPrefixFree == PartOf \in SUBSET Bytes /\ PrefixFree(PartOf)
<1>0. <<1>> \in Bytes /\ Len(<<1>>) = 1 /\ <<1>>[1] = 1
  BY DEF Bytes
<1>1. ASSUME NEW x \in Seq(Char) \cup {Null} PROVE KeyPart(x) \in Bytes
  <2>1. CASE x = Null
    BY <1>0, <2>1 DEF KeyPart
  <2>2. CASE x # Null
    BY <2>2, KeyPartFacts
  <2> QED
    BY <2>1, <2>2
<1>2. ASSUME NEW x \in Seq(Char) \cup {Null}, NEW y \in Seq(Char) \cup {Null}, IsPrefixOf(KeyPart(x), KeyPart(y))
      PROVE  KeyPart(x) = KeyPart(y)
  <2>1. CASE x = Null /\ y # Null
    <3>1. KeyPart(x) = <<1>> /\ KeyPart(y)[1] = 0
      BY <2>1, KeyPartFacts DEF KeyPart
    <3>2. <<1>>[1] = KeyPart(y)[1]
      BY <1>0, <1>2, <3>1 DEF IsPrefixOf
    <3> QED
      BY <1>0, <3>1, <3>2
  <2>2. CASE x # Null /\ y = Null
    <3>1. KeyPart(y) = <<1>> /\ KeyPart(x)[1] = 0 /\ Len(KeyPart(x)) = Len(x) + 3 /\ Len(x) \in Nat
      BY <2>2, KeyPartFacts DEF KeyPart
    <3>2. KeyPart(x)[1] = <<1>>[1]
      BY <1>2, <3>1 DEF IsPrefixOf
    <3> QED
      BY <1>0, <3>1, <3>2
  <2>3. CASE x # Null /\ y # Null
    <3>1. /\ Len(KeyPart(x)) = Len(x) + 3 /\ Len(x) \in Nat /\ KeyPart(x)[3] = Len(x)
          /\ \A i \in 1 .. Len(x) : KeyPart(x)[i + 3] = x[i]
      BY <2>3, KeyPartFacts
    <3>2. /\ Len(KeyPart(y)) = Len(y) + 3 /\ Len(y) \in Nat /\ KeyPart(y)[3] = Len(y)
          /\ \A i \in 1 .. Len(y) : KeyPart(y)[i + 3] = y[i]
      BY <2>3, KeyPartFacts
    <3>3. KeyPart(x)[3] = KeyPart(y)[3]
      BY <1>2, <3>1 DEF IsPrefixOf
    <3>4. Len(x) = Len(y)
      BY <3>1, <3>2, <3>3
    <3>5. \A i \in 1 .. Len(x) : x[i] = y[i]
      <4> SUFFICES ASSUME NEW i \in 1 .. Len(x) PROVE x[i] = y[i]
        OBVIOUS
      <4>1. i + 3 \in 1 .. Len(KeyPart(x))
        BY <3>1
      <4>2. KeyPart(x)[i + 3] = KeyPart(y)[i + 3]
        BY <1>2, <4>1 DEF IsPrefixOf
      <4> QED
        BY <3>1, <3>2, <3>4, <4>2
    <3>6. x \in Seq(Char) /\ y \in Seq(Char)
      BY <2>3
    <3>7. x = y
      BY <3>4, <3>5, <3>6
    <3> QED
      BY <3>7
  <2>4. CASE x = Null /\ y = Null
    BY <2>4
  <2> QED
    BY <2>1, <2>2, <2>3, <2>4
<1> QED
  BY <1>1, <1>2 DEF PartOf, PrefixFree

(* Different values have different parts. *)
LEMMA KeyPartInjective ==
    ASSUME NEW x \in Seq(Char) \cup {Null}, NEW y \in Seq(Char) \cup {Null}, KeyPart(x) = KeyPart(y)
    PROVE  x = y
<1>1. <<1>>[1] = 1
  OBVIOUS
<1>2. ASSUME NEW z \in Seq(Char) \cup {Null}, z # Null PROVE z \in Seq(Char) /\ KeyPart(z)[1] = 0
  BY <1>2, KeyPartFacts
<1>3. x = Null <=> y = Null
  <2>1. \A z : z = Null => KeyPart(z)[1] = 1
    BY <1>1, Zenon DEF KeyPart
  <2> QED
    BY <1>2, <2>1
<1>4. CASE x # Null /\ y # Null
  <2>1. /\ x \in Seq(Char) /\ KeyPart(x)[3] = Len(x) /\ Len(x) \in Nat
        /\ \A i \in 1 .. Len(x) : KeyPart(x)[i + 3] = x[i]
    BY <1>4, KeyPartFacts
  <2>2. /\ y \in Seq(Char) /\ KeyPart(y)[3] = Len(y) /\ Len(y) \in Nat
        /\ \A i \in 1 .. Len(y) : KeyPart(y)[i + 3] = y[i]
    BY <1>4, KeyPartFacts
  <2>3. Len(x) = Len(y)
    BY <2>1, <2>2
  <2>4. \A i \in 1 .. Len(x) : x[i] = y[i]
    BY <2>1, <2>2, <2>3
  <2> QED
    BY <2>1, <2>2, <2>3, <2>4
<1> QED
  BY <1>3, <1>4

LEMMA SerializeFacts ==
    ASSUME NEW g \in BOOLEAN, NEW v \in GroupKey(g), KeyColumns \in Nat
    PROVE  /\ SerializeKeyBytes(v) \in Bytes
           /\ ~g => SerializeKeyBytes(v) = << >>
           /\ \A w \in GroupKey(g) : SerializeKeyBytes(v) = SerializeKeyBytes(w) => v = w
<1> DEFINE Parts(u) == [i \in DOMAIN u |-> KeyPart(u[i])]
<1>1. PICK C : Bytes = Seq(C)
  BY DEF Bytes
<1>2. \A u : SerializeKeyBytes(u) = Appended(Parts(u))
  BY Zenon DEF SerializeKeyBytes, KeyPart
<1>3. PartOf \in SUBSET Seq(C) /\ PrefixFree(PartOf)
  BY <1>1, PartsPrefixFree
<1>4. CASE g
  <2> DEFINE V == Seq(Char) \cup {Null}
  <2>1. GroupKey(g) = [1 .. KeyColumns -> V]
    BY <1>4 DEF GroupKey
  <2>2. \A x \in V : KeyPart(x) \in PartOf
    BY DEF PartOf
  <2>3. \A u \in [1 .. KeyColumns -> V] : Parts(u) \in [1 .. KeyColumns -> PartOf]
    BY <2>2, Zenon
  <2>4. ASSUME NEW u \in [1 .. KeyColumns -> V]
        PROVE  SerializeKeyBytes(u) \in Bytes
    <3>1. Parts(u) \in [1 .. KeyColumns -> Seq(C)]
      BY <1>3, <2>3
    <3> HIDE DEF Parts
    <3>2. Parts(u) \in Seq(Seq(C))
      BY <3>1
    <3>3. PICK f \in [0 .. Len(Parts(u)) -> Seq(C)] : Appended(Parts(u)) = f[Len(Parts(u))]
      BY <3>2, AppendedBuilt
    <3>4. Len(Parts(u)) \in 0 .. Len(Parts(u))
      BY <3>2
    <3> QED
      BY <1>1, <1>2, <3>3, <3>4
  <2>5. ASSUME NEW u \in [1 .. KeyColumns -> V], NEW w \in [1 .. KeyColumns -> V],
               SerializeKeyBytes(u) = SerializeKeyBytes(w)
        PROVE  u = w
    <3>1. Parts(u) \in [1 .. KeyColumns -> PartOf] /\ Parts(w) \in [1 .. KeyColumns -> PartOf]
      BY <2>3
    <3>2. Appended(Parts(u)) = Appended(Parts(w))
      BY <1>2, <2>5
    <3> HIDE DEF Parts
    <3>3. Parts(u) = Parts(w)
      BY <1>3, <3>1, <3>2, AppendedInjective, Zenon
    <3>4. ASSUME NEW i \in 1 .. KeyColumns PROVE u[i] = w[i]
      <4>1. Parts(u)[i] = KeyPart(u[i]) /\ Parts(w)[i] = KeyPart(w[i])
        BY Zenon DEF Parts
      <4> QED
        BY <3>3, <4>1, KeyPartInjective
    <3>5. u = [i \in 1 .. KeyColumns |-> u[i]] /\ w = [i \in 1 .. KeyColumns |-> w[i]]
      BY Zenon
    <3> QED
      BY <3>4, <3>5, Zenon
  <2> QED
    BY <1>4, <2>1, <2>4, <2>5, Zenon
<1>5. CASE ~g
  <2>1. v = << >> /\ \A w \in GroupKey(g) : w = << >>
    BY <1>5 DEF GroupKey
  <2>2. DOMAIN << >> = {}
    OBVIOUS
  <2>3. Parts(<< >>) = << >>
    BY <2>2
  <2> HIDE DEF Parts
  <2>4. << >> \in Seq(Seq(C)) /\ Len(<< >>) = 0
    OBVIOUS
  <2>5. PICK f \in [0 .. 0 -> Seq(C)] : IsBuilt(<< >>, 0, f) /\ Appended(<< >>) = f[0]
    BY <2>4, AppendedBuilt, Zenon
  <2>6. SerializeKeyBytes(<< >>) = << >>
    BY <1>2, <2>3, <2>5 DEF IsBuilt
  <2>7. << >> \in Bytes
    BY DEF Bytes
  <2> QED
    BY <1>5, <2>1, <2>6, <2>7
<1> QED
  BY <1>4, <1>5

-----------------------------------------------------------------------------
(* The rows of a key, one row on. *)
LEMMA RowsOfFacts ==
    ASSUME NEW R, NEW g, NEW v, NEW n \in Nat
    PROVE  /\ IsFiniteSet(RowsOf(R, g, v, n)) /\ IsFiniteSet(ValuedRows(R, g, v, n))
           /\ n + 1 \notin RowsOf(R, g, v, n) /\ n + 1 \notin ValuedRows(R, g, v, n)
<1>1. IsFiniteSet(1 .. n)
  BY FS_Interval
<1>2. RowsOf(R, g, v, n) \subseteq 1 .. n /\ ValuedRows(R, g, v, n) \subseteq 1 .. n
  BY DEF RowsOf, ValuedRows
<1>3. IsFiniteSet(RowsOf(R, g, v, n)) /\ IsFiniteSet(ValuedRows(R, g, v, n))
  BY <1>1, <1>2, FS_Subset
<1>4. n + 1 \notin 1 .. n
  OBVIOUS
<1> QED
  BY <1>2, <1>3, <1>4

LEMMA RowsOfNext ==
    ASSUME NEW R, NEW g, NEW v, NEW n \in Nat
    PROVE  /\ ~IsOf(g, v, R[n + 1]) =>
                 /\ RowsOf(R, g, v, n + 1) = RowsOf(R, g, v, n)
                 /\ ValuedRows(R, g, v, n + 1) = ValuedRows(R, g, v, n)
           /\ IsOf(g, v, R[n + 1]) =>
                 /\ RowsOf(R, g, v, n + 1) = RowsOf(R, g, v, n) \cup {n + 1}
                 /\ R[n + 1].value = Null => ValuedRows(R, g, v, n + 1) = ValuedRows(R, g, v, n)
                 /\ R[n + 1].value # Null => ValuedRows(R, g, v, n + 1) = ValuedRows(R, g, v, n) \cup {n + 1}
<1>1. 1 .. n + 1 = (1 .. n) \cup {n + 1}
  OBVIOUS
<1>2. \A i : i \in RowsOf(R, g, v, n + 1) <=>
                i \in RowsOf(R, g, v, n) \/ (i = n + 1 /\ IsOf(g, v, R[n + 1]))
  BY <1>1, Zenon DEF RowsOf, IsOf
<1>3. \A i : i \in ValuedRows(R, g, v, n + 1) <=>
                \/ i \in ValuedRows(R, g, v, n)
                \/ i = n + 1 /\ IsOf(g, v, R[n + 1]) /\ R[n + 1].value # Null
  BY <1>2, Zenon DEF ValuedRows
<1>4. CASE ~IsOf(g, v, R[n + 1])
  BY <1>2, <1>3, <1>4, Zenon
<1>5. CASE IsOf(g, v, R[n + 1])
  BY <1>2, <1>3, <1>5, Zenon
<1> QED
  BY <1>4, <1>5, Zenon

LEMMA RowFacts ==
    ASSUME NEW R \in Seq(Row), NEW i \in 1 .. Len(R)
    PROVE  /\ R[i] \in Row /\ R[i].value \in Int \cup {Null} /\ R[i].selected \in BOOLEAN
           /\ R[i].key \in [1 .. KeyColumns -> Seq(Char) \cup {Null}]
<1>1. R[i] \in Row
  OBVIOUS
<1> QED
  BY <1>1 DEF Row

(* A row that is not of the key. *)
LEMMA TallyOther ==
    ASSUME NEW R \in Seq(Row), NEW g, NEW v, NEW n \in 0 .. Len(R) - 1, NEW acc,
           Tally(R, g, v, n, acc), ~IsOf(g, v, R[n + 1])
    PROVE  Tally(R, g, v, n + 1, acc)
<1>0. n \in Nat
  OBVIOUS
<1>1. n + 1 \in 1 .. Len(R) /\ (n + 1) - 1 = n
  OBVIOUS
<1>2. RowsOf(R, g, v, n + 1) = RowsOf(R, g, v, n) /\ ValuedRows(R, g, v, n + 1) = ValuedRows(R, g, v, n)
  BY <1>0, RowsOfNext
<1>3. Summand(R, g, v, n + 1) = 0
  BY <1>0, <1>2, RowsOfFacts DEF Summand
<1>4. ASSUME NEW f, IsTotal(R, g, v, f) PROVE f[n + 1] = f[n]
  <2>1. f[n + 1] = f[(n + 1) - 1] + 0 /\ f[n] \in Int
    BY <1>1, <1>3, <1>4 DEF IsTotal
  <2> QED
    BY <1>1, <2>1
<1> QED
  BY <1>2, <1>4 DEF Tally

(* A row of the key: what Add does. *)
LEMMA TallyAdd ==
    ASSUME NEW R \in Seq(Row), NEW g, NEW v, NEW n \in 0 .. Len(R) - 1, NEW acc,
           Tally(R, g, v, n, acc), IsOf(g, v, R[n + 1])
    PROVE  Tally(R, g, v, n + 1, Add(acc, R[n + 1].value))
<1> DEFINE x == R[n + 1].value
<1> DEFINE A == RowsOf(R, g, v, n)
<1> DEFINE B == ValuedRows(R, g, v, n)
<1> DEFINE new == Add(acc, x)
<1>0. n \in Nat
  OBVIOUS
<1>1. n + 1 \in 1 .. Len(R) /\ (n + 1) - 1 = n
  OBVIOUS
<1>2. x \in Int \cup {Null}
  BY <1>1, RowFacts
<1>3. /\ acc \in Accumulators /\ acc.rows \in Nat /\ acc.count \in Nat /\ acc.sum \in Int
      /\ acc.min \in Int /\ acc.max \in Int
      /\ acc.rows = Cardinality(A) /\ acc.count = Cardinality(B)
  BY DEF Tally, Accumulators
<1>4. \A f : IsTotal(R, g, v, f) => acc.sum = f[n]
  BY DEF Tally
<1>5. B # {} =>
          /\ \E i \in B : acc.min = R[i].value
          /\ \E i \in B : acc.max = R[i].value
          /\ \A i \in B : acc.min <= R[i].value /\ R[i].value <= acc.max
  BY DEF Tally
<1>6. /\ IsFiniteSet(A) /\ IsFiniteSet(B) /\ n + 1 \notin A /\ n + 1 \notin B
      /\ RowsOf(R, g, v, n + 1) = A \cup {n + 1}
      /\ x = Null => ValuedRows(R, g, v, n + 1) = B
      /\ x # Null => ValuedRows(R, g, v, n + 1) = B \cup {n + 1}
  BY <1>0, RowsOfFacts, RowsOfNext
<1>7. \A i \in B : R[i].value \in Int
  <2> SUFFICES ASSUME NEW i \in B PROVE R[i].value \in Int
    OBVIOUS
  <2>1. i \in 1 .. Len(R) /\ R[i].value # Null
    BY DEF ValuedRows, RowsOf
  <2> QED
    BY <2>1, RowFacts
<1> HIDE DEF A, B, x
<1>8. Cardinality(A \cup {n + 1}) = acc.rows + 1 /\ Cardinality(B \cup {n + 1}) = acc.count + 1
  <2>1. Cardinality(A \cup {n + 1}) = Cardinality(A) + 1
    BY <1>6, FS_AddElement, Zenon
  <2>2. Cardinality(B \cup {n + 1}) = Cardinality(B) + 1
    BY <1>6, FS_AddElement, Zenon
  <2> QED
    BY <1>3, <2>1, <2>2
<1>9. ASSUME NEW f, IsTotal(R, g, v, f) PROVE f[n + 1] = acc.sum + (IF x # Null THEN x ELSE 0)
  <2>1. Summand(R, g, v, n + 1) = IF x # Null THEN x ELSE 0
    BY <1>6 DEF Summand, x
  <2>2. f[n + 1] = f[(n + 1) - 1] + Summand(R, g, v, n + 1)
    BY <1>1, <1>9 DEF IsTotal
  <2> QED
    BY <1>1, <1>4, <1>9, <2>1, <2>2
<1>10. CASE x = Null
  <2>1. /\ new \in Accumulators /\ new.rows = acc.rows + 1 /\ new.count = acc.count /\ new.sum = acc.sum
        /\ new.min = acc.min /\ new.max = acc.max
    BY <1>3, <1>10 DEF Add, Accumulators
  <2> HIDE DEF new
  <2>2. ValuedRows(R, g, v, n + 1) = B
    BY <1>6, <1>10
  <2>3. \A f : IsTotal(R, g, v, f) => new.sum = f[n + 1]
    BY <1>3, <1>9, <1>10, <2>1
  <2>4. Tally(R, g, v, n + 1, new)
    BY <1>3, <1>5, <1>6, <1>8, <2>1, <2>2, <2>3, Zenon DEF Tally
  <2> QED
    BY <2>4 DEF new, x
<1>11. CASE x # Null
  <2>0. x \in Int
    BY <1>2, <1>11
  <2>1. /\ new.rows = acc.rows + 1 /\ new.count = acc.count + 1 /\ new.sum = acc.sum + x
        /\ new.min = (IF acc.count = 0 \/ x < acc.min THEN x ELSE acc.min)
        /\ new.max = (IF acc.count = 0 \/ x > acc.max THEN x ELSE acc.max)
        /\ new = [rows |-> new.rows, count |-> new.count, sum |-> new.sum, min |-> new.min, max |-> new.max]
    BY <1>11 DEF Add
  <2> HIDE DEF new
  <2>2. new.rows \in Nat /\ new.count \in Nat /\ new.sum \in Int /\ new.min \in Int /\ new.max \in Int
    BY <1>3, <2>0, <2>1
  <2>3. new \in Accumulators
    BY <2>1, <2>2 DEF Accumulators
  <2>4. ValuedRows(R, g, v, n + 1) = B \cup {n + 1} /\ R[n + 1].value = x
    BY <1>6, <1>11 DEF x
  <2>5. \A f : IsTotal(R, g, v, f) => new.sum = f[n + 1]
    BY <1>9, <1>11, <2>1
  <2>6. acc.count = 0 <=> B = {}
    BY <1>3, <1>6, FS_EmptySet
  <2>7. /\ \E i \in B \cup {n + 1} : new.min = R[i].value
        /\ \E i \in B \cup {n + 1} : new.max = R[i].value
    BY <1>5, <2>1, <2>4, <2>6
  <2>8. ASSUME NEW i \in B \cup {n + 1} PROVE new.min <= R[i].value /\ R[i].value <= new.max
    <3>1. CASE i \in B
      <4>1. acc.min <= R[i].value /\ R[i].value <= acc.max /\ R[i].value \in Int /\ acc.count # 0
        BY <1>5, <1>7, <2>6, <3>1
      <4>2. new.min <= R[i].value
        BY <1>3, <2>0, <2>1, <4>1
      <4>3. R[i].value <= new.max
        BY <1>3, <2>0, <2>1, <4>1
      <4> QED
        BY <4>2, <4>3
    <3>2. CASE i = n + 1
      BY <1>3, <2>0, <2>1, <2>4, <3>2
    <3> QED
      BY <3>1, <3>2
  <2>9. Tally(R, g, v, n + 1, new)
    BY <1>6, <1>8, <2>1, <2>3, <2>4, <2>5, <2>7, <2>8, Zenon DEF Tally
  <2> QED
    BY <2>9 DEF new, x
<1> QED
  BY <1>10, <1>11

(* No row of the key yet. *)
LEMMA TallyStart ==
    ASSUME NEW R \in Seq(Row), NEW g, NEW v, NEW n \in 0 .. Len(R), RowsOf(R, g, v, n) = {}
    PROVE  Tally(R, g, v, n, NewAccumulators)
<1>0. n \in Nat /\ n <= Len(R) /\ Len(R) \in Nat
  OBVIOUS
<1>1. ValuedRows(R, g, v, n) = {}
  BY DEF ValuedRows
<1>2. ASSUME NEW i \in 1 .. n PROVE Summand(R, g, v, i) = 0
  <2>1. i \in 1 .. i
    BY <1>0
  <2>2. ~IsOf(g, v, R[i])
    BY DEF RowsOf
  <2> QED
    BY <2>1, <2>2 DEF Summand, ValuedRows, RowsOf
<1>3. ASSUME NEW f, IsTotal(R, g, v, f) PROVE f[n] = 0
  <2> DEFINE T == {m \in 0 .. n : f[m] = 0}
  <2>1. 0 \in T
    BY <1>0, <1>3 DEF IsTotal
  <2>2. ASSUME NEW m \in 0 .. n - 1, m \in T PROVE m + 1 \in T
    <3>1. m + 1 \in 1 .. n /\ m + 1 \in 1 .. Len(R) /\ (m + 1) - 1 = m /\ f[m] = 0
      BY <1>0, <2>2
    <3>2. f[m + 1] = f[(m + 1) - 1] + Summand(R, g, v, m + 1)
      BY <1>3, <3>1 DEF IsTotal
    <3>3. f[m + 1] = 0
      BY <1>2, <3>1, <3>2
    <3> QED
      BY <3>1, <3>3
  <2> HIDE DEF T
  <2>3. 0 .. n \subseteq T
    BY <1>0, <2>1, <2>2, Upwards
  <2>4. n \in T
    BY <1>0, <2>3
  <2> QED
    BY <2>4 DEF T
<1>4. /\ NewAccumulators \in Accumulators /\ NewAccumulators.rows = 0 /\ NewAccumulators.count = 0
      /\ NewAccumulators.sum = 0
  BY DEF NewAccumulators, Accumulators
<1>5. Cardinality({}) = 0
  BY FS_EmptySet
<1> QED
  BY <1>1, <1>3, <1>4, <1>5 DEF Tally

-----------------------------------------------------------------------------
(* Sum is the last of the totals. *)
LEMMA TotalsExist ==
    ASSUME NEW N \in Nat, NEW h \in [1 .. N -> Int]
    PROVE  \E f \in [0 .. N -> Int] : f[0] = 0 /\ \A i \in 1 .. N : f[i] = f[i - 1] + h[i]
<1> DEFINE Totals(m, f) == f[0] = 0 /\ \A i \in 1 .. m : f[i] = f[i - 1] + h[i]
<1> DEFINE T == {m \in 0 .. N : \E f \in [0 .. m -> Int] : Totals(m, f)}
<1>1. 0 \in T
  <2> DEFINE f == [i \in 0 .. 0 |-> 0]
  <2>1. f \in [0 .. 0 -> Int] /\ Totals(0, f)
    OBVIOUS
  <2>2. 0 \in 0 .. N
    OBVIOUS
  <2> HIDE DEF Totals, f
  <2> QED
    BY <2>1, <2>2
<1>2. ASSUME NEW m \in 0 .. N - 1, m \in T PROVE m + 1 \in T
  <2>1. PICK f \in [0 .. m -> Int] : Totals(m, f)
    BY <1>2
  <2> DEFINE k == [i \in 0 .. m + 1 |-> IF i = m + 1 THEN f[m] + h[m + 1] ELSE f[i]]
  <2>2. f[m] + h[m + 1] \in Int
    OBVIOUS
  <2>3. k \in [0 .. m + 1 -> Int] /\ k[0] = 0
    BY <2>1, <2>2
  <2>4. ASSUME NEW i \in 1 .. m + 1 PROVE k[i] = k[i - 1] + h[i]
    <3>1. CASE i = m + 1
      BY <3>1
    <3>2. CASE i # m + 1
      <4>1. i \in 1 .. m /\ k[i] = f[i] /\ k[i - 1] = f[i - 1]
        BY <3>2
      <4> QED
        BY <2>1, <4>1
    <3> QED
      BY <3>1, <3>2
  <2> HIDE DEF k
  <2>5. Totals(m + 1, k) /\ m + 1 \in 0 .. N
    BY <2>3, <2>4
  <2> HIDE DEF Totals
  <2> QED
    BY <2>3, <2>5
<1> HIDE DEF T
<1>3. 0 .. N \subseteq T
  BY <1>1, <1>2, Upwards, Zenon
<1>4. N \in T
  BY <1>3
<1>5. \E f \in [0 .. N -> Int] : Totals(N, f)
  BY <1>4, Zenon DEF T
<1> QED
  BY <1>5, Zenon

LEMMA SumIsTotal ==
    ASSUME rows \in Seq(Row), NEW v
    PROVE  \E f : IsTotal(rows, grouped, v, f) /\ Sum(v) = f[Len(rows)]
<1> DEFINE N == Len(rows)
<1> DEFINE h == [i \in 1 .. N |-> Summand(rows, grouped, v, i)]
<1> DEFINE Steps(f) == f = [n \in 0 .. N |-> IF n = 0 THEN 0 ELSE f[n - 1] + (IF n \in Valued(v) THEN rows[n].value ELSE 0)]
<1>1. N \in Nat
  OBVIOUS
<1>2. ASSUME NEW i \in 1 .. N
      PROVE  /\ Summand(rows, grouped, v, i) \in Int
             /\ Summand(rows, grouped, v, i) = IF i \in Valued(v) THEN rows[i].value ELSE 0
  <2>1. i \in ValuedRows(rows, grouped, v, i) <=> i \in Valued(v)
    <3>1. i \in 1 .. i /\ i \in DOMAIN rows
      BY <1>1
    <3> QED
      BY <3>1 DEF ValuedRows, RowsOf, IsOf, KeyIn, Valued, Of, KeyOf
  <2>2. i \in Valued(v) => rows[i].value # Null
    BY DEF Valued
  <2>3. rows[i].value \in Int \cup {Null}
    BY RowFacts
  <2> QED
    BY <2>1, <2>2, <2>3 DEF Summand
<1>3. h \in [1 .. N -> Int] /\ \A i \in 1 .. N : h[i] = IF i \in Valued(v) THEN rows[i].value ELSE 0
  BY <1>2
<1> HIDE DEF h
<1>4. PICK f \in [0 .. N -> Int] : f[0] = 0 /\ \A i \in 1 .. N : f[i] = f[i - 1] + h[i]
  BY <1>1, <1>3, TotalsExist, Zenon
<1>5. Steps(f)
  <2>1. \A n \in 0 .. N : n = 0 \/ n \in 1 .. N
    BY <1>1
  <2>2. \A n \in 0 .. N : f[n] = IF n = 0 THEN 0 ELSE f[n - 1] + (IF n \in Valued(v) THEN rows[n].value ELSE 0)
    BY <1>3, <1>4, <2>1, Zenon
  <2>3. f = [n \in 0 .. N |-> f[n]]
    OBVIOUS
  <2> QED
    BY <2>2, <2>3, Zenon
<1> DEFINE t == CHOOSE f_1 : Steps(f_1)
<1>6. Steps(t)
  BY <1>5, Zenon
<1>7. Sum(v) = t[N]
  BY Zenon DEF Sum
<1> HIDE DEF t, N
<1>8. t[0] = 0 /\ \A i \in 1 .. N : t[i] = t[i - 1] + h[i]
  <2>1. \A n \in 0 .. N : t[n] = IF n = 0 THEN 0 ELSE t[n - 1] + (IF n \in Valued(v) THEN rows[n].value ELSE 0)
    BY <1>6, Zenon
  <2>2. 0 \in 0 .. N /\ \A i \in 1 .. N : i \in 0 .. N /\ i # 0
    BY <1>1
  <2> QED
    BY <1>3, <2>1, <2>2, Zenon
<1>9. \A n \in 0 .. N : t[n] \in Int
  <2> DEFINE T == {n \in 0 .. N : t[n] \in Int}
  <2>1. 0 \in T
    BY <1>1, <1>8
  <2>2. ASSUME NEW n \in 0 .. N - 1, n \in T PROVE n + 1 \in T
    <3>1. n + 1 \in 1 .. N /\ (n + 1) - 1 = n
      BY <1>1
    <3>2. t[n + 1] = t[n] + h[n + 1]
      BY <1>8, <3>1
    <3> QED
      BY <1>3, <2>2, <3>1, <3>2
  <2> HIDE DEF T
  <2>3. 0 .. N \subseteq T
    BY <1>1, <2>1, <2>2, Upwards, Zenon
  <2> QED
    BY <2>3 DEF T
<1>10. t \in [0 .. N -> Int]
  <2>1. t = [n \in 0 .. N |-> t[n]]
    BY <1>6, Zenon
  <2> QED
    BY <1>9, <2>1, Zenon
<1>11. IsTotal(rows, grouped, v, t)
  BY <1>8, <1>10 DEF IsTotal, h, N
<1> QED
  BY <1>7, <1>11 DEF N

-----------------------------------------------------------------------------
(* After the last row the accumulators are the aggregates. *)
LEMMA LeastIs ==
    ASSUME NEW S \in SUBSET Int, NEW m \in S, \A y \in S : m <= y
    PROVE  Min(S) = m
<1>1. \A x \in S : (\A y \in S : x <= y) => x = m
  OBVIOUS
<1> QED
  BY <1>1, Zenon DEF Min

LEMMA GreatestIs ==
    ASSUME NEW S \in SUBSET Int, NEW m \in S, \A y \in S : m >= y
    PROVE  Max(S) = m
<1>1. \A x \in S : (\A y \in S : x >= y) => x = m
  OBVIOUS
<1> QED
  BY <1>1, Zenon DEF Max

(* The cast keeps every INTEGER. *)
LEMMA NarrowShows ==
    ASSUME NEW n \in Int
    PROVE  Shows(Narrow(n), n)
<1> SUFFICES ASSUME n \in -Limit .. Limit - 1 PROVE Narrow(n) = n
  BY DEF Shows
<1> DEFINE m == n + Limit
           w == 2 * Limit
<1>1. Limit \in Nat \ {0}
  BY AggregationAssumption
<1>2. w \in Nat \ {0} /\ m \in 0 .. w - 1 /\ m - Limit = n
  BY <1>1
<1> HIDE DEF m, w
<1>3. m % w = m
  BY <1>2
<1> QED
  BY <1>2, <1>3 DEF Narrow, m, w

LEMMA TallyIsAggregates ==
    ASSUME rows \in Seq(Row), NEW v, NEW acc, Tally(rows, grouped, v, Len(rows), acc)
    PROVE  ShowsAggregates(Result(v, acc))
<1>1. RowsOf(rows, grouped, v, Len(rows)) = Of(v)
  BY DEF RowsOf, IsOf, KeyIn, Of, KeyOf
<1>2. ValuedRows(rows, grouped, v, Len(rows)) = Valued(v)
  BY <1>1, Zenon DEF ValuedRows, Valued
<1>3. /\ acc.rows = Cardinality(Of(v)) /\ acc.count = Cardinality(Valued(v))
      /\ acc.min \in Int /\ acc.max \in Int
  BY <1>1, <1>2 DEF Tally, Accumulators
<1>4. acc.sum = Sum(v)
  <2>1. PICK f : IsTotal(rows, grouped, v, f) /\ Sum(v) = f[Len(rows)]
    BY SumIsTotal
  <2> QED
    BY <2>1 DEF Tally
<1>5. Cardinality(Valued(v)) = 0 <=> Valued(v) = {}
  <2>1. IsFiniteSet(Valued(v))
    BY <1>2, RowsOfFacts
  <2> QED
    BY <2>1, FS_EmptySet
<1>6. Valued(v) # {} => acc.min = Min(Values(v)) /\ acc.max = Max(Values(v))
  <2> SUFFICES ASSUME Valued(v) # {} PROVE acc.min = Min(Values(v)) /\ acc.max = Max(Values(v))
    OBVIOUS
  <2>1. /\ \E i \in Valued(v) : acc.min = rows[i].value
        /\ \E i \in Valued(v) : acc.max = rows[i].value
        /\ \A i \in Valued(v) : acc.min <= rows[i].value /\ rows[i].value <= acc.max
    BY <1>2 DEF Tally
  <2>2. ASSUME NEW i \in Valued(v) PROVE rows[i].value \in Int
    <3>1. i \in 1 .. Len(rows) /\ rows[i].value # Null
      BY DEF Valued, Of
    <3> QED
      BY <3>1, RowFacts
  <2>3. Values(v) \in SUBSET Int
    BY <2>2 DEF Values
  <2>4. acc.min \in Values(v) /\ acc.max \in Values(v)
    BY <2>1 DEF Values
  <2>5. \A y \in Values(v) : acc.min <= y /\ acc.max >= y
    <3> SUFFICES ASSUME NEW i \in Valued(v) PROVE acc.min <= rows[i].value /\ acc.max >= rows[i].value
      BY DEF Values
    <3> QED
      BY <1>3, <2>1, <2>2
  <2> QED
    BY <2>3, <2>4, <2>5, LeastIs, GreatestIs
<1>7. acc.rows \in Int /\ acc.count \in Int /\ acc.sum \in Int
  BY DEF Tally, Accumulators
<1>8. /\ Shows(Narrow(acc.rows), acc.rows) /\ Shows(Narrow(acc.count), acc.count)
      /\ Shows(Narrow(acc.sum), acc.sum) /\ Shows(Null, Null)
  BY <1>7, NarrowShows, Zenon DEF Shows
<1> DEFINE r == Result(v, acc)
           exact == Aggregates(v)
<1>9. r.key = v
  BY DEF Result
<1>10. Shows(r.count_star, exact.count_star) /\ Shows(r.count, exact.count)
  BY <1>3, <1>8, Zenon DEF Result, Aggregates
<1>11. Shows(r.sum, exact.sum)
  <2>1. CASE Valued(v) = {}
    BY <1>3, <1>5, <1>8, <2>1, Zenon DEF Result, Aggregates
  <2>2. CASE Valued(v) # {}
    BY <1>3, <1>4, <1>5, <1>8, <2>2, Zenon DEF Result, Aggregates
  <2> QED
    BY <2>1, <2>2
<1>12. r.avg = exact.avg /\ r.min = exact.min /\ r.max = exact.max
  BY <1>3, <1>4, <1>5, <1>6, Zenon DEF Result, Aggregates
<1> HIDE DEF r, exact
<1>13. exact = Aggregates(r.key)
  BY <1>9 DEF exact
<1> QED
  BY <1>10, <1>11, <1>12, <1>13, Zenon DEF ShowsAggregates, r

-----------------------------------------------------------------------------
(* The invariant is inductive: one lemma per action. *)
LEMMA InitInv == Init => AggregationInv
<1> SUFFICES ASSUME Init PROVE AggregationInv
  OBVIOUS
<1>1. PICK in \in Input : rows = in.rows /\ ends = in.ends
  BY DEF Init
<1>2. /\ rows \in Seq(Row) /\ ends \in Seq(0 .. Len(rows))
      /\ IF ends = << >> THEN rows = << >> ELSE ends[Len(ends)] = Len(rows)
  BY <1>1, AggregationAssumption, Zenon
<1>3. << >> \in Seq(Bytes) /\ Len(<< >>) = 0 /\ DOMAIN << >> = {} /\ << >> \in Seq(Results(grouped))
  OBVIOUS
<1>4. 0 \in 0 .. Len(ends) /\ 1 \in 1 .. Len(rows) + 1 /\ 0 \in 0 .. 0 /\ 1 .. 0 = {} /\ 1 .. 1 - 1 = {}
  BY <1>2
<1>5. Typed
  BY <1>2, <1>3, <1>4, Zenon DEF Init, Typed
<1>6. PhaseInv
  BY DEF Init, PhaseInv
<1>7. GroupsInv
  BY <1>3, Zenon DEF Init, GroupsInv
<1>8. SeenInv
  BY <1>3, <1>4, Zenon DEF Init, SeenInv
<1>9. TalliesInv
  BY <1>3, Zenon DEF Init, TalliesInv
<1>10. OutputInv
  BY <1>3, <1>4, Zenon DEF Init, OutputInv
<1> QED
  BY <1>5, <1>6, <1>7, <1>8, <1>9, <1>10 DEF AggregationInv

(* A step that leaves the groups alone. *)
LEMMA GroupsKept ==
    ASSUME AggregationInv, UNCHANGED <<child, row, drained, groups>>
    PROVE  GroupsInv' /\ SeenInv' /\ TalliesInv'
<1>p. GroupsInv /\ SeenInv /\ TalliesInv
  BY DEF AggregationInv
<1>0. UNCHANGED <<grouped, rows, row, drained, group_order, display_values, accumulators>>
  BY DEF child, groups
<1>1. GroupsInv'
  BY <1>p, <1>0 DEF GroupsInv
<1>2. SeenInv'
  BY <1>p, <1>0 DEF SeenInv
<1>3. TalliesInv'
  BY <1>p, <1>0, Zenon DEF TalliesInv
<1> QED
  BY <1>1, <1>2, <1>3

LEMMA OutputKept ==
    ASSUME AggregationInv, UNCHANGED <<child, groups, emit_cursor, output>>
    PROVE  OutputInv'
<1>1. UNCHANGED <<grouped, group_order, display_values, accumulators>>
  BY DEF child, groups
<1> QED
  BY <1>1, Zenon DEF AggregationInv, OutputInv

LEMMA GetNextInv ==
    ASSUME AggregationInv, GetNext
    PROVE  AggregationInv'
<1>p. Typed /\ PhaseInv
  BY DEF AggregationInv
<1>0. UNCHANGED <<child, fetched, row, drained, groups, emit_cursor, output>>
  BY DEF GetNext
<1>1. Typed'
  BY <1>p, <1>0 DEF Typed, child, groups
<1>2. PhaseInv'
  BY <1>p, <1>0 DEF GetNext, PhaseInv, Typed, child, groups
<1> QED
  BY <1>0, <1>1, <1>2, GroupsKept, OutputKept DEF AggregationInv

LEMMA NextChunkInv ==
    ASSUME AggregationInv, NextChunk
    PROVE  AggregationInv'
<1>p. Typed /\ PhaseInv
  BY DEF AggregationInv
<1>0. UNCHANGED <<child, row, drained, groups, emit_cursor, pc, output>>
  BY DEF NextChunk
<1>1. Typed'
  BY <1>p, <1>0 DEF NextChunk, Typed, child, groups
<1>2. PhaseInv'
  BY <1>p, <1>0 DEF NextChunk, PhaseInv, child, groups
<1> QED
  BY <1>0, <1>1, <1>2, GroupsKept, OutputKept DEF AggregationInv

LEMMA EndDrainInv ==
    ASSUME AggregationInv, EndDrain
    PROVE  AggregationInv'
<1>p. Typed /\ PhaseInv
  BY DEF AggregationInv
<1>0. UNCHANGED <<child, fetched, row, drained, groups, emit_cursor, output>>
  BY DEF EndDrain
<1>1. Typed'
  BY <1>p, <1>0 DEF Typed, child, groups
<1>2. row = Len(rows) + 1
  <2>1. row > ChunkEnd /\ fetched = Len(ends) /\ row \in 1 .. Len(rows) + 1 /\ Len(rows) \in Nat /\ Len(ends) \in Nat
    BY <1>p DEF EndDrain, Typed
  <2>2. CASE ends = << >>
    <3>1. rows = << >> /\ Len(<< >>) = 0
      BY <1>p, <2>2 DEF Typed
    <3> QED
      BY <2>1, <3>1
  <2>3. CASE ends # << >>
    <3>1. fetched # 0
      BY <1>p, <2>1, <2>3 DEF Typed
    <3>2. ChunkEnd = Len(rows)
      BY <1>p, <2>1, <2>3, <3>1 DEF ChunkEnd, Typed
    <3> QED
      BY <2>1, <3>2
  <2> QED
    BY <2>2, <2>3
<1>3. PhaseInv'
  BY <1>p, <1>0, <1>2 DEF EndDrain, PhaseInv, child, groups
<1> QED
  BY <1>0, <1>1, <1>3, GroupsKept, OutputKept DEF AggregationInv

LEMMA NothingLeftInv ==
    ASSUME AggregationInv, NothingLeft
    PROVE  AggregationInv'
<1>p. Typed /\ PhaseInv
  BY DEF AggregationInv
<1>0. UNCHANGED <<child, fetched, row, drained, groups, emit_cursor, output>>
  BY DEF NothingLeft
<1>1. Typed'
  BY <1>p, <1>0 DEF Typed, child, groups
<1>2. emit_cursor = Len(group_order)
  BY <1>p DEF NothingLeft, Typed
<1>3. PhaseInv'
  BY <1>p, <1>0, <1>2 DEF NothingLeft, PhaseInv, child, groups
<1> QED
  BY <1>0, <1>1, <1>3, GroupsKept, OutputKept DEF AggregationInv

LEMMA StartDrainInv ==
    ASSUME AggregationInv, StartDrain
    PROVE  AggregationInv'
<1>p. Typed /\ PhaseInv /\ GroupsInv /\ SeenInv /\ TalliesInv
  BY DEF AggregationInv
<1>0. UNCHANGED <<child, fetched, row, emit_cursor, pc, output>> /\ drained' = TRUE /\ ~drained /\ pc = "drain"
  BY DEF StartDrain
<1>1. row = 1 /\ group_order = << >> /\ emit_cursor = 0 /\ fetched = 0
  BY <1>p, <1>0 DEF PhaseInv
<1>2. CASE grouped
  <2>1. UNCHANGED groups
    BY <1>2 DEF StartDrain
  <2>2. Typed' /\ PhaseInv'
    BY <1>p, <1>0, <2>1 DEF Typed, PhaseInv, child, groups
  <2>3. UNCHANGED <<grouped, rows, row, group_order, display_values, accumulators>>
    BY <1>0, <2>1 DEF child, groups
  <2>4. GroupsInv' /\ TalliesInv'
    BY <1>p, <1>2, <2>3, Zenon DEF GroupsInv, TalliesInv
  <2>5. SeenInv'
    BY <1>p, <2>3 DEF SeenInv
  <2> QED
    BY <1>0, <2>1, <2>2, <2>4, <2>5, OutputKept DEF AggregationInv
<1>3. CASE ~grouped
  <2>1. /\ group_order' = << << >> >> /\ display_values' = [k \in {<< >>} |-> << >>]
        /\ accumulators' = [k \in {<< >>} |-> NewAccumulators]
    BY <1>3 DEF StartDrain
  <2>2. << << >> >> \in Seq(Bytes) /\ Len(<< << >> >>) = 1 /\ << << >> >>[1] = << >> /\ DOMAIN << << >> >> = {1}
    BY DEF Bytes
  <2>3. UNCHANGED <<grouped, rows, ends, row, fetched>>
    BY <1>0 DEF child
  <2>4. Typed'
    BY <1>p, <1>0, <1>1, <2>1, <2>2, <2>3 DEF Typed
  <2>5. PhaseInv'
    BY <1>p, <1>0, <1>1 DEF PhaseInv
  <2>6. DOMAIN accumulators' = {<< >>} /\ DOMAIN display_values' = {<< >>}
        /\ display_values'[<< >>] = << >> /\ accumulators'[<< >>] = NewAccumulators
    BY <2>1, Zenon
  <2>7. << >> \in GroupKey(grouped) /\ SerializeKeyBytes(<< >>) = << >>
    <3>1. << >> \in GroupKey(FALSE)
      BY DEF GroupKey
    <3>2. grouped = FALSE
      BY <1>p, <1>3 DEF Typed
    <3> QED
      BY <3>1, <3>2, SerializeFacts, AggregationAssumption, Zenon
  <2>8. GroupsInv'
    BY <2>1, <2>2, <2>3, <2>6, <2>7, Zenon DEF GroupsInv
  <2>9. SeenInv'
    <3>1. 1 .. 1 - 1 = {} /\ \A g, h \in {1} : ~(g < h)
      OBVIOUS
    <3> QED
      BY <1>1, <1>3, <2>1, <2>2, <2>3, <3>1, Zenon DEF SeenInv
  <2>10. Tally(rows, grouped, << >>, 0, NewAccumulators)
    <3>1. rows \in Seq(Row) /\ 0 \in 0 .. Len(rows)
      BY <1>p DEF Typed
    <3>2. RowsOf(rows, grouped, << >>, 0) = {}
      BY DEF RowsOf
    <3> QED
      BY <3>1, <3>2, TallyStart
  <2>11. TalliesInv'
    <3>1. row' - 1 = 0
      BY <1>1, <2>3
    <3> QED
      BY <2>3, <2>6, <2>10, <3>1, Zenon DEF TalliesInv
  <2>12. OutputInv'
    <3>1. 1 .. 0 = {}
      OBVIOUS
    <3> QED
      BY <1>0, <1>1, <2>3, <3>1, Zenon DEF AggregationInv, OutputInv
  <2> QED
    BY <2>4, <2>5, <2>8, <2>9, <2>11, <2>12 DEF AggregationInv
<1> QED
  BY <1>2, <1>3

(* Where Drain is when it takes a row of the chunk at hand. *)
LEMMA RowAtHand ==
    ASSUME Typed, PhaseInv, pc = "drain", row <= ChunkEnd
    PROVE  /\ drained /\ row \in 1 .. Len(rows) /\ rows[row] \in Row
           /\ row - 1 \in 0 .. Len(rows) - 1 /\ row - 1 + 1 = row
           /\ row + 1 \in 1 .. Len(rows) + 1 /\ row + 1 - 1 = row
           /\ 1 .. row = (1 .. row - 1) \cup {row}
           /\ KeyIn(grouped, rows[row]) \in GroupKey(grouped)
<1>1. Len(rows) \in Nat /\ Len(ends) \in Nat /\ row \in Nat /\ row >= 1
  BY DEF Typed
<1>2. fetched # 0
  BY <1>1 DEF ChunkEnd
<1>3. fetched \in 1 .. Len(ends)
  BY <1>1, <1>2 DEF Typed
<1>4. ends[fetched] \in 0 .. Len(rows)
  BY <1>3 DEF Typed
<1>5. row \in 1 .. Len(rows)
  BY <1>1, <1>2, <1>4 DEF ChunkEnd
<1>6. drained
  BY <1>2 DEF PhaseInv, Typed
<1>7. rows[row] \in Row /\ rows[row].key \in [1 .. KeyColumns -> Seq(Char) \cup {Null}]
  BY <1>5, RowFacts DEF Typed
<1>8. KeyIn(grouped, rows[row]) \in GroupKey(grouped)
  BY <1>7 DEF KeyIn, GroupKey
<1> QED
  BY <1>1, <1>5, <1>6, <1>7, <1>8

LEMMA SkipRowInv ==
    ASSUME AggregationInv, SkipRow
    PROVE  AggregationInv'
<1>p. Typed /\ PhaseInv /\ GroupsInv /\ SeenInv /\ TalliesInv
  BY DEF AggregationInv
<1>0. /\ UNCHANGED <<child, fetched, drained, groups, emit_cursor, pc, output>>
      /\ row' = row + 1 /\ pc = "drain" /\ row <= ChunkEnd /\ ~rows[row].selected
  BY DEF SkipRow
<1>a. UNCHANGED <<grouped, rows, ends, fetched, drained, group_order, display_values, accumulators, emit_cursor, pc>>
  BY <1>0 DEF child, groups
<1>1. /\ drained /\ row \in 1 .. Len(rows)
      /\ row - 1 \in 0 .. Len(rows) - 1 /\ row - 1 + 1 = row
      /\ row + 1 \in 1 .. Len(rows) + 1 /\ row + 1 - 1 = row
      /\ 1 .. row = (1 .. row - 1) \cup {row}
  BY <1>p, <1>0, RowAtHand
<1>2. Typed'
  BY <1>p, <1>0, <1>a, <1>1, Zenon DEF Typed
<1>3. PhaseInv'
  BY <1>p, <1>0, <1>a, <1>1 DEF PhaseInv
<1>4. GroupsInv'
  BY <1>p, <1>a DEF GroupsInv
<1>5. SeenInv'
  <2>1. \A i \in 1 .. row :
          rows[i].selected => SerializeKeyBytes(KeyIn(grouped, rows[i])) \in DOMAIN accumulators
    BY <1>p, <1>0, <1>1, Zenon DEF SeenInv
  <2>2. grouped => \A k \in DOMAIN accumulators :
          \E i \in 1 .. row : rows[i].selected /\ rows[i].key = display_values[k]
    BY <1>p, <1>1, Zenon DEF SeenInv
  <2>3. row' - 1 = row
    BY <1>0, <1>1
  <2> QED
    BY <1>p, <1>a, <2>1, <2>2, <2>3 DEF SeenInv
<1>6. TalliesInv'
  <2>1. \A k \in DOMAIN accumulators : Tally(rows, grouped, display_values[k], row, accumulators[k])
    <3> TAKE k \in DOMAIN accumulators
    <3>1. Tally(rows, grouped, display_values[k], row - 1, accumulators[k])
      BY <1>p, Zenon DEF TalliesInv
    <3>2. ~IsOf(grouped, display_values[k], rows[row - 1 + 1])
      BY <1>0, <1>1, Zenon DEF IsOf
    <3>3. Tally(rows, grouped, display_values[k], row - 1 + 1, accumulators[k])
      BY <1>p, <1>1, <3>1, <3>2, TallyOther, Zenon DEF Typed
    <3> QED
      BY <1>1, <3>3
  <2>2. row' - 1 = row
    BY <1>0, <1>1
  <2> QED
    BY <1>a, <2>1, <2>2, Zenon DEF TalliesInv
<1> QED
  BY <1>0, <1>2, <1>3, <1>4, <1>5, <1>6, OutputKept DEF AggregationInv

(* The accumulators after a row of v: a group's tally grows by the row when *)
(* the group is the row's, and stays otherwise.                             *)
LEMMA TalliesAdded ==
    ASSUME AggregationInv, NEW v \in GroupKey(grouped), v = KeyIn(grouped, rows[row]),
           pc = "drain", row <= ChunkEnd, rows[row].selected,
           NEW k \in DOMAIN accumulators
    PROVE  /\ k = SerializeKeyBytes(v) =>
                 /\ display_values[k] = v
                 /\ Tally(rows, grouped, v, row, Add(accumulators[k], rows[row].value))
           /\ k # SerializeKeyBytes(v) => Tally(rows, grouped, display_values[k], row, accumulators[k])
<1>p. Typed /\ PhaseInv /\ GroupsInv /\ TalliesInv
  BY DEF AggregationInv
<1>1. row - 1 \in 0 .. Len(rows) - 1 /\ row - 1 + 1 = row
  BY <1>p, RowAtHand
<1>2. Tally(rows, grouped, display_values[k], row - 1, accumulators[k])
  BY <1>p, Zenon DEF TalliesInv
<1>3. display_values[k] \in GroupKey(grouped) /\ SerializeKeyBytes(display_values[k]) = k
  BY <1>p, Zenon DEF GroupsInv
<1>t. rows \in Seq(Row) /\ grouped \in BOOLEAN /\ KeyColumns \in Nat
  BY <1>p, AggregationAssumption DEF Typed
<1>4. ASSUME k = SerializeKeyBytes(v)
      PROVE  display_values[k] = v /\ Tally(rows, grouped, v, row, Add(accumulators[k], rows[row].value))
  <2>1. display_values[k] = v
    BY <1>3, <1>4, <1>t, SerializeFacts
  <2>2. IsOf(grouped, v, rows[row - 1 + 1])
    BY <1>1, Zenon DEF IsOf
  <2>3. Tally(rows, grouped, v, row - 1, accumulators[k])
    BY <1>2, <2>1
  <2>4. Tally(rows, grouped, v, row - 1 + 1, Add(accumulators[k], rows[row - 1 + 1].value))
    BY <1>1, <1>t, <2>2, <2>3, TallyAdd
  <2> QED
    BY <1>1, <2>1, <2>4
<1>5. ASSUME k # SerializeKeyBytes(v)
      PROVE  Tally(rows, grouped, display_values[k], row, accumulators[k])
  <2>1. ~IsOf(grouped, display_values[k], rows[row - 1 + 1])
    BY <1>1, <1>3, <1>5, Zenon DEF IsOf
  <2>2. Tally(rows, grouped, display_values[k], row - 1 + 1, accumulators[k])
    BY <1>1, <1>2, <1>t, <2>1, TallyOther
  <2> QED
    BY <1>1, <2>2
<1> QED
  BY <1>4, <1>5

(* What a row does to Typed and PhaseInv, whether its group is new or not. *)
LEMMA AccumulateRowShape ==
    ASSUME AggregationInv, AccumulateRow, group_order' \in Seq(Bytes), Len(group_order') >= Len(group_order)
    PROVE  Typed' /\ PhaseInv' /\ OutputInv'
<1>p. Typed /\ PhaseInv /\ OutputInv
  BY DEF AggregationInv
<1>0. /\ UNCHANGED <<grouped, rows, ends, fetched, drained, emit_cursor, pc, output>>
      /\ row' = row + 1 /\ pc = "drain" /\ row <= ChunkEnd
  BY DEF AccumulateRow, child
<1>1. drained /\ row + 1 \in 1 .. Len(rows) + 1
  BY <1>p, <1>0, RowAtHand
<1>2. emit_cursor = 0 /\ emit_cursor' \in 0 .. Len(group_order')
  BY <1>p, <1>0 DEF PhaseInv, Typed
<1>3. Typed'
  BY <1>p, <1>0, <1>1, <1>2, Zenon DEF Typed
<1>4. PhaseInv'
  BY <1>p, <1>0, <1>1, <1>2 DEF PhaseInv
<1>5. 1 .. 0 = {}
  OBVIOUS
<1>6. OutputInv'
  BY <1>p, <1>0, <1>2, <1>5, Zenon DEF OutputInv
<1> QED
  BY <1>3, <1>4, <1>6

LEMMA AccumulateRowFound ==
    ASSUME AggregationInv, AccumulateRow,
           SerializeKeyBytes(KeyOf(rows[row])) \in DOMAIN accumulators
    PROVE  AggregationInv'
<1>p. Typed /\ PhaseInv /\ GroupsInv /\ SeenInv /\ TalliesInv
  BY DEF AggregationInv
<1>0. /\ UNCHANGED <<grouped, rows, drained>>
      /\ row' = row + 1 /\ pc = "drain" /\ row <= ChunkEnd /\ rows[row].selected
  BY DEF AccumulateRow, child
<1>1. PICK v : v = KeyIn(grouped, rows[row])
  OBVIOUS
<1>2. KeyOf(rows[row]) = v
  BY <1>1, Zenon DEF KeyOf, KeyIn
<1>3. PICK key : key = SerializeKeyBytes(v)
  OBVIOUS
<1>4. key \in DOMAIN accumulators /\ DOMAIN accumulators \cup {key} = DOMAIN accumulators
  BY <1>2, <1>3
<1>5. PICK acc : acc = Add(accumulators[key], rows[row].value)
  OBVIOUS
<1>6. /\ accumulators' = [k \in DOMAIN accumulators |-> IF k = key THEN acc ELSE accumulators[k]]
      /\ UNCHANGED <<group_order, display_values>>
  BY <1>2, <1>3, <1>4, <1>5, Zenon DEF AccumulateRow, Put, Found
<1>7. DOMAIN accumulators' = DOMAIN accumulators
  BY <1>6, Zenon
<1>8. v \in GroupKey(grouped) /\ row + 1 - 1 = row /\ 1 .. row = (1 .. row - 1) \cup {row}
  BY <1>p, <1>0, <1>1, RowAtHand
<1>9. GroupsInv'
  BY <1>p, <1>0, <1>6, <1>7, Zenon DEF GroupsInv
<1>10. row' - 1 = row
  BY <1>0, <1>8
<1>11. SeenInv'
  <2>1. \A i \in 1 .. row :
          rows[i].selected => SerializeKeyBytes(KeyIn(grouped, rows[i])) \in DOMAIN accumulators
    BY <1>p, <1>1, <1>3, <1>4, <1>8, Zenon DEF SeenInv
  <2>2. grouped => \A k \in DOMAIN accumulators :
          \E i \in 1 .. row : rows[i].selected /\ rows[i].key = display_values[k]
    BY <1>p, <1>8, Zenon DEF SeenInv
  <2> QED
    BY <1>p, <1>0, <1>6, <1>7, <1>10, <2>1, <2>2 DEF SeenInv
<1>12. TalliesInv'
  <2>1. ASSUME NEW k \in DOMAIN accumulators
        PROVE  Tally(rows, grouped, display_values[k], row, IF k = key THEN acc ELSE accumulators[k])
    BY <1>0, <1>1, <1>3, <1>5, <1>8, TalliesAdded, Zenon
  <2>2. \A k \in DOMAIN accumulators : accumulators'[k] = IF k = key THEN acc ELSE accumulators[k]
    BY <1>6, Zenon
  <2>3. \A k \in DOMAIN accumulators : Tally(rows, grouped, display_values[k], row, accumulators'[k])
    BY <2>1, <2>2, Zenon
  <2> QED
    BY <1>0, <1>6, <1>7, <1>10, <2>3, Zenon DEF TalliesInv
<1>13. group_order' \in Seq(Bytes) /\ Len(group_order') >= Len(group_order)
  BY <1>p, <1>6 DEF Typed
<1> QED
  BY <1>9, <1>11, <1>12, <1>13, AccumulateRowShape DEF AggregationInv

(* Why the groups before the new one come before it. *)
LEMMA OldBeforeNew ==
    ASSUME AggregationInv, pc = "drain", row <= ChunkEnd, grouped,
           NEW v, v = KeyIn(grouped, rows[row]), SerializeKeyBytes(v) \notin DOMAIN accumulators
    PROVE  /\ RowsOf(rows, grouped, v, row - 1) = {}
           /\ \A k \in DOMAIN accumulators : Before(rows, grouped, display_values[k], v)
<1>p. Typed /\ PhaseInv /\ SeenInv
  BY DEF AggregationInv
<1>t. Len(rows) \in Nat
  BY <1>p DEF Typed
<1>1. row \in 1 .. Len(rows) /\ row - 1 \in 0 .. Len(rows) - 1 /\ Len(rows) \in Nat
  BY <1>p, <1>t, RowAtHand
<1>2. RowsOf(rows, grouped, v, row - 1) = {}
  BY <1>p, Zenon DEF RowsOf, IsOf, SeenInv
<1>3. ASSUME NEW k \in DOMAIN accumulators
      PROVE  Before(rows, grouped, display_values[k], v)
  <2>1. PICK i \in 1 .. row - 1 : rows[i].selected /\ rows[i].key = display_values[k]
    BY <1>p, Zenon DEF SeenInv
  <2>2. i \in 1 .. Len(rows)
    BY <1>1
  <2>3. i \in RowsOf(rows, grouped, display_values[k], Len(rows))
    BY <2>1, <2>2, Zenon DEF RowsOf, IsOf, KeyIn
  <2>4. ASSUME NEW j \in RowsOf(rows, grouped, v, Len(rows))
        PROVE  i < j
    <3>1. j \in 1 .. Len(rows) /\ j \notin 1 .. row - 1
      BY <1>2, Zenon DEF RowsOf
    <3> QED
      BY <1>1, <3>1
  <2> QED
    BY <2>3, <2>4, Zenon DEF Before
<1> QED
  BY <1>2, <1>3, Zenon

LEMMA AccumulateRowNew ==
    ASSUME AggregationInv, AccumulateRow,
           SerializeKeyBytes(KeyOf(rows[row])) \notin DOMAIN accumulators
    PROVE  AggregationInv'
<1>p. Typed /\ PhaseInv /\ GroupsInv /\ SeenInv /\ TalliesInv
  BY DEF AggregationInv
<1>0. /\ UNCHANGED <<grouped, rows, drained>>
      /\ row' = row + 1 /\ pc = "drain" /\ row <= ChunkEnd /\ rows[row].selected
  BY DEF AccumulateRow, child
<1>1. PICK v : v = KeyIn(grouped, rows[row])
  OBVIOUS
<1>2. KeyOf(rows[row]) = v
  BY <1>1, Zenon DEF KeyOf, KeyIn
<1>3. PICK key : key = SerializeKeyBytes(v)
  OBVIOUS
<1>4. key \notin DOMAIN accumulators
  BY <1>2, <1>3
<1>5. PICK acc : acc = Add(NewAccumulators, rows[row].value)
  OBVIOUS
<1>6. /\ accumulators' = [k \in DOMAIN accumulators \cup {key} |-> IF k = key THEN acc ELSE accumulators[k]]
      /\ display_values' = [k \in DOMAIN display_values \cup {key} |-> IF k = key THEN v ELSE display_values[k]]
      /\ group_order' = Append(group_order, key)
  BY <1>2, <1>3, <1>4, <1>5, Zenon DEF AccumulateRow, Put, Found
<1>7. DOMAIN accumulators' = DOMAIN accumulators \cup {key} /\ DOMAIN display_values' = DOMAIN display_values \cup {key}
  BY <1>6, Zenon
<1>8. /\ v \in GroupKey(grouped) /\ drained /\ row + 1 - 1 = row /\ 1 .. row = (1 .. row - 1) \cup {row}
      /\ row - 1 \in 0 .. Len(rows) - 1 /\ row - 1 + 1 = row
  BY <1>p, <1>0, <1>1, RowAtHand
<1>t. rows \in Seq(Row) /\ grouped \in BOOLEAN /\ KeyColumns \in Nat
  BY <1>p, AggregationAssumption DEF Typed
<1>9. key \in Bytes /\ (~grouped => key = << >>)
  BY <1>3, <1>8, <1>t, SerializeFacts
<1>10. grouped
  BY <1>p, <1>4, <1>8, <1>9, Zenon DEF GroupsInv
<1>11. RowsOf(rows, grouped, v, row - 1) = {} /\ \A k \in DOMAIN accumulators : Before(rows, grouped, display_values[k], v)
  BY <1>0, <1>1, <1>3, <1>4, <1>10, OldBeforeNew, Zenon
<1>12. DOMAIN display_values = DOMAIN accumulators
  BY <1>p DEF GroupsInv
<1>13. /\ \A k \in DOMAIN accumulators : display_values'[k] = display_values[k] /\ accumulators'[k] = accumulators[k]
       /\ display_values'[key] = v /\ accumulators'[key] = acc
  BY <1>4, <1>6, <1>12, Zenon
<1>14. row' - 1 = row
  BY <1>0, <1>8
<1>15. PICK n \in Nat : n = Len(group_order)
  BY <1>p DEF Typed
<1>16. /\ group_order' \in Seq(Bytes) /\ Len(group_order') = n + 1
       /\ DOMAIN group_order = 1 .. n /\ DOMAIN group_order' = (1 .. n) \cup {n + 1}
       /\ \A g \in 1 .. n : group_order'[g] = group_order[g]
       /\ group_order'[n + 1] = key
  BY <1>p, <1>6, <1>9, <1>15 DEF Typed
<1>17. GroupsInv'
  <2>1. \A g \in DOMAIN group_order' : group_order'[g] \in DOMAIN accumulators'
    BY <1>p, <1>7, <1>16, Zenon DEF GroupsInv
  <2>2. \A k \in DOMAIN accumulators' : \E g \in DOMAIN group_order' : group_order'[g] = k
    BY <1>p, <1>7, <1>16, Zenon DEF GroupsInv
  <2>3. \A g, h \in DOMAIN group_order' : group_order'[g] = group_order'[h] => g = h
    BY <1>p, <1>4, <1>16, Zenon DEF GroupsInv
  <2>4. \A k \in DOMAIN accumulators' :
          display_values'[k] \in GroupKey(grouped) /\ SerializeKeyBytes(display_values'[k]) = k
    BY <1>p, <1>3, <1>7, <1>8, <1>13, Zenon DEF GroupsInv
  <2>5. DOMAIN display_values' = DOMAIN accumulators'
    BY <1>7, <1>12
  <2> QED
    BY <1>0, <1>10, <2>1, <2>2, <2>3, <2>4, <2>5, Zenon DEF GroupsInv
<1>18. SeenInv'
  <2>1. \A i \in 1 .. row :
          rows[i].selected => SerializeKeyBytes(KeyIn(grouped, rows[i])) \in DOMAIN accumulators'
    BY <1>p, <1>1, <1>3, <1>7, <1>8, Zenon DEF SeenInv
  <2>2. \A k \in DOMAIN accumulators' :
          \E i \in 1 .. row : rows[i].selected /\ rows[i].key = display_values'[k]
    <3>1. rows[row].key = v
      BY <1>1, <1>10, Zenon DEF KeyIn
    <3> QED
      BY <1>p, <1>0, <1>7, <1>8, <1>10, <1>13, <3>1, Zenon DEF SeenInv
  <2>3. ASSUME NEW g \in DOMAIN group_order', NEW h \in DOMAIN group_order', g < h
        PROVE  Before(rows, grouped, display_values'[group_order'[g]], display_values'[group_order'[h]])
    <3>1. g \in 1 .. n
      BY <1>16, <2>3
    <3>2. group_order'[g] = group_order[g] /\ group_order[g] \in DOMAIN accumulators
          /\ display_values'[group_order'[g]] = display_values[group_order[g]]
      BY <1>p, <1>13, <1>16, <3>1, Zenon DEF GroupsInv
    <3>3. CASE h = n + 1
      BY <1>11, <1>13, <1>16, <3>2, <3>3, Zenon
    <3>4. CASE h \in 1 .. n
      <4>1. display_values'[group_order'[h]] = display_values[group_order[h]]
        BY <1>p, <1>13, <1>16, <3>4, Zenon DEF GroupsInv
      <4> QED
        BY <1>p, <1>16, <2>3, <3>1, <3>2, <3>4, <4>1, Zenon DEF SeenInv
    <3> QED
      BY <1>16, <3>3, <3>4, Zenon
  <2> QED
    BY <1>0, <1>14, <2>1, <2>2, <2>3, Zenon DEF SeenInv
<1>19. TalliesInv'
  <2>1. Tally(rows, grouped, v, row - 1, NewAccumulators)
    <3>1. row - 1 \in 0 .. Len(rows)
      BY <1>8, <1>t
    <3> QED
      BY <1>11, <1>t, <3>1, TallyStart
  <2>2. IsOf(grouped, v, rows[row - 1 + 1])
    BY <1>0, <1>1, <1>8, Zenon DEF IsOf
  <2>3. Tally(rows, grouped, v, row - 1 + 1, Add(NewAccumulators, rows[row - 1 + 1].value))
    BY <1>8, <1>t, <2>1, <2>2, TallyAdd
  <2>4. Tally(rows, grouped, v, row, acc)
    BY <1>5, <1>8, <2>3
  <2>5. \A k \in DOMAIN accumulators : Tally(rows, grouped, display_values[k], row, accumulators[k])
    BY <1>0, <1>1, <1>3, <1>4, <1>8, TalliesAdded, Zenon
  <2>6. \A k \in DOMAIN accumulators' : Tally(rows, grouped, display_values'[k], row, accumulators'[k])
    BY <1>7, <1>13, <2>4, <2>5, Zenon
  <2> QED
    BY <1>0, <1>14, <2>6, Zenon DEF TalliesInv
<1>20. Len(group_order') >= Len(group_order)
  BY <1>15, <1>16
<1> QED
  BY <1>16, <1>17, <1>18, <1>19, <1>20, AccumulateRowShape DEF AggregationInv

LEMMA EmitBatchInv ==
    ASSUME AggregationInv, EmitBatch
    PROVE  AggregationInv'
<1>p. Typed /\ PhaseInv /\ GroupsInv /\ TalliesInv /\ OutputInv
  BY DEF AggregationInv
<1>0. /\ UNCHANGED <<child, fetched, row, drained, groups>>
      /\ output' = output \o Batch /\ emit_cursor' = emit_cursor + BatchSize /\ pc' = "idle"
      /\ pc = "emit" /\ emit_cursor < Len(group_order)
  BY DEF EmitBatch
<1>a. UNCHANGED <<grouped, rows, ends, fetched, row, drained, group_order, display_values, accumulators>>
  BY <1>0 DEF child, groups
<1>1. PICK c \in Nat, m \in Nat : c = emit_cursor /\ m = BatchSize /\ c + m <= Len(group_order)
  <2>1. Len(group_order) \in Nat /\ emit_cursor \in Nat
    BY <1>p DEF Typed
  <2>2. BatchSize \in Nat /\ emit_cursor + BatchSize <= Len(group_order)
    BY <1>0, <2>1, AggregationAssumption DEF BatchSize, GroupsLeft
  <2> QED
    BY <2>1, <2>2
<1>2. Typed'
  <2>1. emit_cursor' \in 0 .. Len(group_order')
    BY <1>p, <1>0, <1>a, <1>1 DEF Typed
  <2> QED
    BY <1>p, <1>a, <2>1, Zenon DEF Typed
<1>3. PhaseInv'
  BY <1>p, <1>0, <1>a DEF PhaseInv, Typed
<1>4. PICK F : F = [i \in 1 .. c + m |-> Result(display_values[group_order[i]], accumulators[group_order[i]])]
  BY Zenon
<1>5. ASSUME NEW i \in 1 .. c + m
      PROVE  F[i] \in Results(grouped) /\ F[i] = Result(display_values[group_order[i]], accumulators[group_order[i]])
  <2>1. i \in DOMAIN group_order
    BY <1>p, <1>1 DEF Typed
  <2>2. group_order[i] \in DOMAIN accumulators
    BY <1>p, <2>1, Zenon DEF GroupsInv
  <2>3. display_values[group_order[i]] \in GroupKey(grouped) /\ accumulators[group_order[i]] \in Accumulators
    BY <1>p, <2>2, Zenon DEF GroupsInv, TalliesInv, Tally
  <2>4. F[i] = Result(display_values[group_order[i]], accumulators[group_order[i]])
    BY <1>4, Zenon
  <2>5. PICK v \in GroupKey(grouped), acc \in Accumulators :
          v = display_values[group_order[i]] /\ acc = accumulators[group_order[i]]
    BY <2>3, Zenon
  <2>6. Result(v, acc) \in Results(grouped)
    BY DEF Results
  <2> QED
    BY <2>4, <2>5, <2>6, Zenon
<1>6. Batch = [i \in 1 .. m |-> F[c + i]]
  <2>1. \A i \in 1 .. m : c + i \in 1 .. c + m
    BY <1>1
  <2>2. \A i \in 1 .. m : F[c + i] = Result(display_values[group_order[c + i]], accumulators[group_order[c + i]])
    BY <1>5, <2>1, Zenon
  <2> QED
    BY <1>1, <2>2, Zenon DEF Batch
<1>7. PICK S : S = Results(grouped)
  OBVIOUS
<1>8. Batch \in Seq(S) /\ Len(Batch) = m /\ \A i \in 1 .. m : Batch[i] = F[c + i]
  <2>1. \A i \in 1 .. m : c + i \in 1 .. c + m
    BY <1>1
  <2>2. \A i \in 1 .. m : F[c + i] \in S
    BY <1>5, <1>7, <2>1, Zenon
  <2>3. PICK b : b = Batch
    OBVIOUS
  <2>4. b \in Seq(S) /\ Len(b) = m /\ \A i \in 1 .. m : b[i] = F[c + i]
    BY <1>6, <2>2, <2>3
  <2> QED
    BY <2>3, <2>4
<1>9. output \in Seq(S) /\ Len(output) = c /\ \A i \in 1 .. c : output[i] = F[i]
  <2>1. \A i \in 1 .. c : i \in 1 .. c + m
    BY <1>1
  <2> QED
    BY <1>p, <1>1, <1>5, <1>7, <2>1, Zenon DEF OutputInv
<1>10. output' \in Seq(S) /\ Len(output') = c + m /\ \A i \in 1 .. c + m : output'[i] = F[i]
  <2>1. PICK b, o : b = Batch /\ o = output
    OBVIOUS
  <2>2. b \in Seq(S) /\ Len(b) = m /\ (\A i \in 1 .. m : b[i] = F[c + i]) /\ output' = o \o b
        /\ o \in Seq(S) /\ Len(o) = c
    BY <1>0, <1>8, <1>9, <2>1, Zenon
  <2>s. o \o b \in Seq(S) /\ Len(o \o b) = c + m
    BY <2>2, Concatenated, Zenon
  <2>3. output' \in Seq(S) /\ Len(output') = c + m
    BY <2>2, <2>s
  <2>4. ASSUME NEW i \in 1 .. c + m
        PROVE  output'[i] = F[i]
    <3>1. CASE i <= c
      BY <1>9, <2>1, <2>2, <3>1
    <3>2. CASE i > c
      <4>1. i - c \in 1 .. m /\ c + (i - c) = i
        BY <3>2
      <4>t. o \in Seq(S) /\ b \in Seq(S) /\ Len(o) = c /\ Len(b) = m
        BY <2>2, Zenon
      <4>c. \A j \in 1 .. Len(b) : (o \o b)[Len(o) + j] = b[j]
        BY <4>t, Concatenated
      <4>2. \A j \in 1 .. m : (o \o b)[c + j] = b[j]
        BY <4>c, <4>t
      <4>3. output'[i] = b[i - c]
        BY <2>2, <4>1, <4>2, Zenon
      <4> QED
        BY <2>2, <4>1, <4>3, Zenon
    <3> QED
      BY <3>1, <3>2
  <2> QED
    BY <2>3, <2>4
<1>11. OutputInv'
  <2>1. emit_cursor' = c + m
    BY <1>0, <1>1
  <2> QED
    BY <1>5, <1>7, <1>10, <1>a, <2>1, Zenon DEF OutputInv
<1> QED
  BY <1>0, <1>2, <1>3, <1>11, GroupsKept DEF AggregationInv

LEMMA NextInv == AggregationInv /\ [Next]_vars => AggregationInv'
<1> SUFFICES ASSUME AggregationInv, [Next]_vars PROVE AggregationInv'
  OBVIOUS
<1>1. CASE AccumulateRow
  BY <1>1, AccumulateRowFound, AccumulateRowNew
<1>2. CASE UNCHANGED vars
  <2>1. UNCHANGED <<grouped, rows, ends, fetched, row, drained, emit_cursor, pc>>
        /\ UNCHANGED <<child, row, drained, groups>> /\ UNCHANGED <<child, groups, emit_cursor, output>>
        /\ UNCHANGED group_order
    BY <1>2 DEF vars, child, groups
  <2>2. Typed' /\ PhaseInv'
    BY <2>1 DEF AggregationInv, Typed, PhaseInv
  <2> QED
    BY <2>1, <2>2, GroupsKept, OutputKept DEF AggregationInv
<1> QED
  BY <1>1, <1>2, GetNextInv, StartDrainInv, NextChunkInv, SkipRowInv, EndDrainInv, EmitBatchInv, NothingLeftInv
     DEF Next

(* In every reachable state of the aggregation its groups hold the tallies *)
(* of the rows drained so far, one group for each key, in the order of     *)
(* their first rows: the invariant that Drain's loop keeps.                *)
THEOREM AggregationInvariant == Spec => []AggregationInv
<1> QED
  BY InitInv, NextInv, PTL DEF Spec

(* No group is kept twice in group_order, the two maps hold exactly its    *)
(* keys, and the emit cursor stays inside it.                              *)
THEOREM AggregationTypes == Spec => []TypeOK
<1>1. AggregationInv => TypeOK
  <2> SUFFICES ASSUME AggregationInv PROVE TypeOK
    OBVIOUS
  <2>1. DOMAIN accumulators = Range(group_order)
    <3>1. /\ \A g \in DOMAIN group_order : group_order[g] \in DOMAIN accumulators
          /\ \A k \in DOMAIN accumulators : \E g \in DOMAIN group_order : group_order[g] = k
      BY DEF AggregationInv, GroupsInv
    <3>2. \A k : k \in Range(group_order) <=> \E g \in DOMAIN group_order : group_order[g] = k
      BY DEF Range
    <3> QED
      BY <3>1, <3>2, Zenon
  <2> QED
    BY <2>1 DEF AggregationInv, Typed, PhaseInv, GroupsInv, TypeOK
<1> QED
  BY <1>1, AggregationInvariant, PTL

(* After Drain every key has its group. *)
LEMMA KeyHasGroup ==
    ASSUME AggregationInv, drained, pc # "drain", NEW l \in Keys
    PROVE  \E h \in DOMAIN group_order : display_values[group_order[h]] = l
<1>p. Typed /\ PhaseInv /\ GroupsInv /\ SeenInv
  BY DEF AggregationInv
<1>t. rows \in Seq(Row) /\ grouped \in BOOLEAN /\ KeyColumns \in Nat
  BY <1>p, AggregationAssumption DEF Typed
<1>1. l \in GroupKey(grouped) /\ SerializeKeyBytes(l) \in DOMAIN accumulators
  <2>1. CASE grouped
    <3>1. PICK i \in DOMAIN rows : rows[i].selected /\ rows[i].key = l
      BY <2>1 DEF Keys
    <3>2. i \in 1 .. Len(rows) /\ i \in 1 .. row - 1
      BY <1>p, <1>t DEF PhaseInv
    <3>3. KeyIn(grouped, rows[i]) = l
      BY <2>1, <3>1 DEF KeyIn
    <3>4. l \in [1 .. KeyColumns -> Seq(Char) \cup {Null}]
      BY <1>t, <3>1, <3>2, RowFacts
    <3> QED
      BY <1>p, <2>1, <3>1, <3>2, <3>3, <3>4, Zenon DEF SeenInv, GroupKey
  <2>2. CASE ~grouped
    <3>1. l = << >>
      BY <2>2 DEF Keys
    <3>2. l \in GroupKey(grouped)
      BY <2>2, <3>1 DEF GroupKey
    <3>3. SerializeKeyBytes(l) = << >>
      BY <1>t, <2>2, <3>2, SerializeFacts
    <3> QED
      BY <1>p, <2>2, <3>2, <3>3 DEF GroupsInv
  <2> QED
    BY <2>1, <2>2
<1>2. PICK h \in DOMAIN group_order : group_order[h] = SerializeKeyBytes(l)
  BY <1>p, <1>1, Zenon DEF GroupsInv
<1>3. display_values[group_order[h]] \in GroupKey(grouped)
      /\ SerializeKeyBytes(display_values[group_order[h]]) = SerializeKeyBytes(l)
  BY <1>p, <1>1, <1>2, Zenon DEF GroupsInv
<1>4. display_values[group_order[h]] = l
  BY <1>1, <1>3, <1>t, SerializeFacts
<1> QED
  BY <1>4

(* What a returned row is, and its place. *)
LEMMA ReturnedRow ==
    ASSUME AggregationInv, NEW i \in DOMAIN output
    PROVE  /\ drained /\ pc # "drain" /\ i \in DOMAIN group_order /\ i <= emit_cursor
           /\ output[i].key = display_values[group_order[i]]
           /\ output[i].key \in Keys /\ ShowsAggregates(output[i])
<1>p. Typed /\ PhaseInv /\ GroupsInv /\ SeenInv /\ TalliesInv /\ OutputInv
  BY DEF AggregationInv
<1>1. DOMAIN output = 1 .. emit_cursor
  <2>1. PICK S : S = Results(grouped)
    OBVIOUS
  <2>2. output \in Seq(S) /\ Len(output) = emit_cursor
    BY <1>p, <2>1, Zenon DEF OutputInv
  <2> QED
    BY <2>2
<1>2. i \in 1 .. emit_cursor /\ i \in DOMAIN group_order /\ emit_cursor # 0 /\ i <= emit_cursor
  BY <1>p, <1>1 DEF Typed
<1>3. drained /\ pc # "drain"
  <2>1. group_order # << >>
    BY <1>2
  <2> QED
    BY <1>p, <1>2, <2>1 DEF PhaseInv
<1>4. row - 1 = Len(rows)
  BY <1>p, <1>3 DEF PhaseInv, Typed
<1>5. PICK key, v, acc : key = group_order[i] /\ v = display_values[key] /\ acc = accumulators[key]
  OBVIOUS
<1>6. key \in DOMAIN accumulators
  BY <1>p, <1>2, <1>5, Zenon DEF GroupsInv
<1>7. Tally(rows, grouped, v, Len(rows), acc)
  BY <1>p, <1>4, <1>5, <1>6, Zenon DEF TalliesInv
<1>8. output[i] = Result(v, acc)
  BY <1>p, <1>2, <1>5, Zenon DEF OutputInv
<1>9. ShowsAggregates(output[i]) /\ output[i].key = v
  <2>1. rows \in Seq(Row)
    BY <1>p DEF Typed
  <2>2. ShowsAggregates(Result(v, acc))
    BY <1>7, <2>1, TallyIsAggregates
  <2>3. Result(v, acc).key = v
    BY DEF Result
  <2> QED
    BY <1>8, <2>2, <2>3
<1>10. v \in Keys
  <2>1. CASE grouped
    <3>1. PICK j \in 1 .. row - 1 : rows[j].selected /\ rows[j].key = v
      BY <1>p, <1>5, <1>6, <2>1, Zenon DEF SeenInv
    <3>2. j \in DOMAIN rows
      BY <1>p, <1>4 DEF Typed
    <3> QED
      BY <2>1, <3>1, <3>2 DEF Keys
  <2>2. CASE ~grouped
    <3>1. v \in GroupKey(grouped)
      BY <1>p, <1>5, <1>6, Zenon DEF GroupsInv
    <3> QED
      BY <2>2, <3>1 DEF GroupKey, Keys
  <2> QED
    BY <2>1, <2>2
<1> QED
  BY <1>2, <1>3, <1>5, <1>9, <1>10

(* What the operator returns is the GROUP BY of its input: the rows so far *)
(* are its first rows in order of first appearance, each with the          *)
(* aggregates of exactly its selected rows (a COUNT or SUM that is no      *)
(* INTEGER excepted), and when GetNext returns nullopt they are all of     *)
(* them.  For every input, number of key columns, alphabet, vector size    *)
(* and range of INTEGER.                                                   *)
THEOREM OutputIsTheGroupBy == Spec => []OutputIsGroupBy
<1>1. AggregationInv => OutputIsGroupBy
  <2> SUFFICES ASSUME AggregationInv PROVE OutputIsGroupBy
    OBVIOUS
  <2>p. Typed /\ PhaseInv /\ SeenInv /\ OutputInv
    BY DEF AggregationInv
  <2>1. \A i \in DOMAIN output : output[i].key \in Keys /\ ShowsAggregates(output[i])
    BY ReturnedRow, Zenon
  <2>b. \A k, l : Before(rows, grouped, k, l) => Precedes(k, l)
    <3>1. DOMAIN rows = 1 .. Len(rows)
      BY <2>p DEF Typed
    <3>2. \A k : RowsOf(rows, grouped, k, Len(rows)) = Of(k)
      BY <3>1, Zenon DEF RowsOf, IsOf, Of, KeyOf, KeyIn
    <3> QED
      BY <3>2, Zenon DEF Before, Precedes
  <2>2. ASSUME NEW i \in DOMAIN output, NEW h \in DOMAIN group_order, i < h
        PROVE  Precedes(output[i].key, display_values[group_order[h]])
    <3>1. i \in DOMAIN group_order /\ output[i].key = display_values[group_order[i]]
      BY ReturnedRow, Zenon
    <3>2. Before(rows, grouped, display_values[group_order[i]], display_values[group_order[h]])
      BY <2>p, <2>2, <3>1, Zenon DEF SeenInv
    <3>3. Precedes(display_values[group_order[i]], display_values[group_order[h]])
      BY <2>b, <3>2, Zenon
    <3> QED
      BY <3>1, <3>3, Zenon
  <2>3. \A i, j \in DOMAIN output : i < j => Precedes(output[i].key, output[j].key)
    <3> SUFFICES ASSUME NEW i \in DOMAIN output, NEW j \in DOMAIN output, i < j
                 PROVE  Precedes(output[i].key, output[j].key)
      BY Zenon
    <3>1. j \in DOMAIN group_order /\ output[j].key = display_values[group_order[j]]
      BY ReturnedRow, Zenon
    <3>2. Precedes(output[i].key, display_values[group_order[j]])
      BY <2>2, <3>1, Zenon
    <3> QED
      BY <3>1, <3>2, Zenon
  <2>4. DOMAIN output = 1 .. emit_cursor
    <3>1. PICK S : S = Results(grouped)
      OBVIOUS
    <3>2. output \in Seq(S) /\ Len(output) = emit_cursor
      BY <2>p, <3>1, Zenon DEF OutputInv
    <3> QED
      BY <3>2
  <2>5. ASSUME drained, pc # "drain", NEW l \in Keys \ Returned
        PROVE  \E h \in DOMAIN group_order : h > emit_cursor /\ display_values[group_order[h]] = l
    <3>1. PICK h \in DOMAIN group_order : display_values[group_order[h]] = l
      BY <2>5, KeyHasGroup, Zenon
    <3>2. h \notin DOMAIN output
      <4> SUFFICES ASSUME h \in DOMAIN output PROVE FALSE
        OBVIOUS
      <4>1. output[h].key = l
        BY <3>1, ReturnedRow, Zenon
      <4> QED
        BY <2>5, <4>1, Zenon DEF Returned
    <3>3. h \in Int /\ h >= 1 /\ emit_cursor \in Int
      BY <2>p DEF Typed
    <3>4. h > emit_cursor
      BY <2>4, <3>2, <3>3
    <3> QED
      BY <3>1, <3>4
  <2>6. \A k \in Returned, l \in Keys \ Returned : Precedes(k, l)
    <3> SUFFICES ASSUME NEW k \in Returned, NEW l \in Keys \ Returned
                 PROVE  Precedes(k, l)
      BY Zenon
    <3>1. PICK i \in DOMAIN output : output[i].key = k
      BY DEF Returned
    <3>2. drained /\ pc # "drain" /\ i <= emit_cursor
      BY ReturnedRow, Zenon
    <3>3. PICK h \in DOMAIN group_order : h > emit_cursor /\ display_values[group_order[h]] = l
      BY <2>5, <3>2, Zenon
    <3>4. i < h
      BY <2>p, <2>4, <3>2, <3>3 DEF Typed
    <3>5. Precedes(output[i].key, display_values[group_order[h]])
      BY <2>2, <3>4, Zenon
    <3> QED
      BY <3>1, <3>3, <3>5, Zenon
  <2>7. pc = "done" => Returned = Keys
    <3> SUFFICES ASSUME pc = "done" PROVE Returned = Keys
      OBVIOUS
    <3>1. drained /\ pc # "drain" /\ emit_cursor = Len(group_order)
      BY <2>p DEF PhaseInv, Typed
    <3>2. ASSUME NEW l \in Keys \ Returned PROVE FALSE
      <4>1. PICK h \in DOMAIN group_order : h > emit_cursor
        BY <2>5, <3>1, <3>2, Zenon
      <4> QED
        BY <2>p, <3>1, <4>1 DEF Typed
    <3>3. Returned \subseteq Keys
      BY <2>1, Zenon DEF Returned
    <3> QED
      BY <3>2, <3>3
  <2> QED
    BY <2>1, <2>3, <2>6, <2>7, Zenon DEF OutputIsGroupBy
<1> QED
  BY <1>1, AggregationInvariant, PTL
=============================================================================
