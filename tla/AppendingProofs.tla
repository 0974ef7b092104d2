-------------------------- MODULE AppendingProofs ---------------------------
(***************************************************************************)
(* What is built by appending: its value after each part, what parts leave *)
(* it as it is, and that the parts can be read back if none begins another *)
(* (join and group keys are told apart by their bytes, for every number of *)
(* columns).                                                               *)
(***************************************************************************)
EXTENDS Appending, WellFoundedInduction, TLAPS

(* A non-empty set of numbers has a least element. *)
LEMMA LeastExists ==
    ASSUME NEW T \in SUBSET Nat, T # {}
    PROVE  \E x \in T : \A y \in T : x <= y
<1>1. PICK x \in T : \A y \in T : <<y, x>> \notin OpToRel(<, Nat)
  BY NatLessThanWellFounded, WFMin, Zenon
<1>2. \A y \in T : ~(y < x)
  BY <1>1, Zenon DEF OpToRel
<1> QED
  BY <1>2

LEMMA Concatenated ==
    ASSUME NEW C, NEW s \in Seq(C), NEW t \in Seq(C)
    PROVE  /\ s \o t \in Seq(C) /\ Len(s \o t) = Len(s) + Len(t) /\ Len(s) \in Nat /\ Len(t) \in Nat
           /\ \A i \in 1 .. Len(s) : (s \o t)[i] = s[i]
           /\ \A i \in 1 .. Len(t) : (s \o t)[Len(s) + i] = t[i]
  OBVIOUS

(* Induction up to N: what holds of 0, and of n + 1 when it holds of n,    *)
(* holds up to N.                                                          *)
LEMMA Upwards ==
    ASSUME NEW N \in Nat, NEW T, 0 \in T,
           \A n \in 0 .. N - 1 : n \in T => n + 1 \in T
    PROVE  0 .. N \subseteq T
<1> DEFINE U == (0 .. N) \ T
<1> SUFFICES ASSUME U # {} PROVE FALSE
  OBVIOUS
<1>1. U \in SUBSET Nat
  OBVIOUS
<1>2. PICK m \in U : \A y \in U : m <= y
  BY <1>1, LeastExists, Zenon
<1>3. m \in 1 .. N
  BY <1>2
<1>4. m - 1 \in T
  BY <1>2, <1>3
<1>5. (m - 1) + 1 \in T
  BY <1>3, <1>4
<1> QED
  BY <1>2, <1>3, <1>5

-----------------------------------------------------------------------------
(* The value after each of its parts. *)
IsBuilt(parts, n, f) ==
    /\ f[0] = << >>
    /\ \A i \in 1 .. n : f[i] = f[i - 1] \o parts[i]

LEMMA BuiltUpTo ==
    ASSUME NEW C, NEW parts \in Seq(Seq(C)), NEW n \in 0 .. Len(parts)
    PROVE  \E f \in [0 .. n -> Seq(C)] : IsBuilt(parts, n, f)
<1> DEFINE N == Len(parts)
<1> DEFINE T == {m \in 0 .. N : \E f \in [0 .. m -> Seq(C)] : IsBuilt(parts, m, f)}
<1>1. N \in Nat
  OBVIOUS
<1>2. 0 \in T
  <2> DEFINE f == [i \in 0 .. 0 |-> << >>]
  <2>1. f \in [0 .. 0 -> Seq(C)] /\ f[0] = << >>
    OBVIOUS
  <2>2. IsBuilt(parts, 0, f)
    BY <2>1 DEF IsBuilt
  <2> HIDE DEF f
  <2>3. 0 \in 0 .. N
    BY <1>1
  <2> QED
    BY <2>1, <2>2, <2>3, Zenon
<1>3. ASSUME NEW m \in 0 .. N - 1, m \in T
      PROVE  m + 1 \in T
  <2>1. PICK f \in [0 .. m -> Seq(C)] : IsBuilt(parts, m, f)
    BY <1>3
  <2> DEFINE g == [i \in 0 .. m + 1 |-> IF i = m + 1 THEN f[m] \o parts[m + 1] ELSE f[i]]
  <2>2. f[m] \in Seq(C) /\ parts[m + 1] \in Seq(C)
    BY <1>1
  <2>3. f[m] \o parts[m + 1] \in Seq(C)
    BY <2>2
  <2>4. \A i \in 0 .. m + 1 : i # m + 1 => f[i] \in Seq(C)
    OBVIOUS
  <2>5. g \in [0 .. m + 1 -> Seq(C)]
    BY <2>3, <2>4
  <2>6. g[0] = << >>
    BY <2>1 DEF IsBuilt
  <2>7. ASSUME NEW i \in 1 .. m + 1 PROVE g[i] = g[i - 1] \o parts[i]
    <3>1. CASE i = m + 1
      <4>1. g[i] = f[m] \o parts[m + 1] /\ g[i - 1] = f[m]
        BY <3>1
      <4> QED
        BY <3>1, <4>1, Zenon
    <3>2. CASE i # m + 1
      <4>1. i \in 1 .. m /\ g[i] = f[i] /\ g[i - 1] = f[i - 1]
        BY <3>2
      <4> QED
        BY <2>1, <4>1, Zenon DEF IsBuilt
    <3> QED
      BY <3>1, <3>2, Zenon
  <2> HIDE DEF g
  <2>8. IsBuilt(parts, m + 1, g)
    BY <2>6, <2>7, Zenon DEF IsBuilt
  <2> QED
    BY <1>1, <2>5, <2>8
<1> HIDE DEF T
<1>4. 0 .. N \subseteq T
  BY <1>1, <1>2, <1>3, Upwards, Zenon
<1> QED
  BY <1>4 DEF T

(* What Appended returns is the last of them. *)
LEMMA AppendedBuilt ==
    ASSUME NEW C, NEW parts \in Seq(Seq(C))
    PROVE  \E f \in [0 .. Len(parts) -> Seq(C)] :
              IsBuilt(parts, Len(parts), f) /\ Appended(parts) = f[Len(parts)]
<1> DEFINE N == Len(parts)
<1> DEFINE Steps(f) == f = [n \in 0 .. N |-> IF n = 0 THEN << >> ELSE f[n - 1] \o parts[n]]
<1>1. N \in Nat
  OBVIOUS
<1>2. PICK f \in [0 .. N -> Seq(C)] : IsBuilt(parts, N, f)
  BY <1>1, BuiltUpTo
<1>3. Steps(f)
  <2>1. \A n \in 0 .. N : f[n] = IF n = 0 THEN << >> ELSE f[n - 1] \o parts[n]
    <3>1. \A n \in 0 .. N : n = 0 \/ n \in 1 .. N
      BY <1>1
    <3> QED
      BY <1>2, <3>1, Zenon DEF IsBuilt
  <2>2. f = [n \in 0 .. N |-> f[n]]
    OBVIOUS
  <2> QED
    BY <2>1, <2>2, Zenon
<1>4. ASSUME NEW g, Steps(g) PROVE g = f
  <2>1. /\ g = [n \in 0 .. N |-> g[n]]
        /\ \A n \in 0 .. N : g[n] = IF n = 0 THEN << >> ELSE g[n - 1] \o parts[n]
    BY <1>4, Zenon
  <2> DEFINE T == {n \in 0 .. N : g[n] = f[n]}
  <2>2. 0 \in T
    <3>1. 0 \in 0 .. N
      BY <1>1
    <3> QED
      BY <1>2, <2>1, <3>1, Zenon DEF IsBuilt
  <2>3. ASSUME NEW n \in 0 .. N - 1, n \in T PROVE n + 1 \in T
    <3>1. n + 1 \in 1 .. N /\ n + 1 \in 0 .. N /\ n + 1 # 0 /\ (n + 1) - 1 = n
      BY <1>1
    <3>2. g[n + 1] = g[n] \o parts[n + 1]
      BY <2>1, <3>1, Zenon
    <3>3. f[n + 1] = f[n] \o parts[n + 1]
      BY <1>2, <3>1, Zenon DEF IsBuilt
    <3> QED
      BY <2>3, <3>1, <3>2, <3>3, Zenon
  <2> HIDE DEF T
  <2>4. 0 .. N \subseteq T
    BY <1>1, <2>2, <2>3, Upwards, Zenon
  <2>5. \A n \in 0 .. N : g[n] = f[n]
    BY <2>4 DEF T
  <2> QED
    BY <2>1, <2>5
<1> HIDE DEF Steps
<1>5. (CHOOSE g : Steps(g)) = f
  BY <1>3, <1>4
<1>6. Appended(parts) = (CHOOSE g : Steps(g))[N]
  BY Zenon DEF Appended, Steps
<1> QED
  BY <1>2, <1>5, <1>6, Zenon

-----------------------------------------------------------------------------
(* Equal parts give equal values, and empty parts leave the value alone. *)
Agree(a, b, n) == \A i \in 1 .. n : a[i] = b[i]
SameUpTo(f, g, n) == \A i \in 0 .. n : f[i] = g[i]
Empty(parts, m, n) == \A i \in m + 1 .. n : parts[i] = << >>
Stays(f, m, n) == f[n] = f[m]

LEMMA BuiltAgree ==
    ASSUME NEW N \in Nat, NEW a, NEW b, Agree(a, b, N),
           NEW f, NEW g, IsBuilt(a, N, f), IsBuilt(b, N, g)
    PROVE  SameUpTo(f, g, N)
<1> DEFINE T == {i \in 0 .. N : f[i] = g[i]}
<1>1. 0 \in T
  BY DEF IsBuilt
<1>2. ASSUME NEW i \in 0 .. N - 1, i \in T PROVE i + 1 \in T
  <2>1. i + 1 \in 1 .. N /\ i + 1 \in 0 .. N /\ (i + 1) - 1 = i
    OBVIOUS
  <2>2. f[i + 1] = f[i] \o a[i + 1] /\ g[i + 1] = g[i] \o b[i + 1]
    BY <2>1, Zenon DEF IsBuilt
  <2>3. a[i + 1] = b[i + 1]
    BY <2>1, Zenon DEF Agree
  <2> QED
    BY <1>2, <2>1, <2>2, <2>3, Zenon
<1> HIDE DEF T
<1>3. 0 .. N \subseteq T
  BY <1>1, <1>2, Upwards
<1> QED
  BY <1>3 DEF T, SameUpTo

LEMMA BuiltStays ==
    ASSUME NEW C, NEW N \in Nat, NEW parts, NEW f \in [0 .. N -> Seq(C)], IsBuilt(parts, N, f),
           NEW m \in 0 .. N, NEW n \in m .. N, Empty(parts, m, n)
    PROVE  Stays(f, m, n)
<1> DEFINE T == {d \in 0 .. n - m : f[m + d] = f[m]}
<1>1. 0 \in T
  OBVIOUS
<1>2. ASSUME NEW d \in 0 .. (n - m) - 1, d \in T PROVE d + 1 \in T
  <2> DEFINE k == m + d
  <2>1. k + 1 \in 1 .. N /\ k + 1 \in m + 1 .. n /\ k \in 0 .. N /\ d + 1 \in 0 .. n - m
    OBVIOUS
  <2>2. (k + 1) - 1 = k /\ m + (d + 1) = k + 1
    OBVIOUS
  <2>3. f[k] = f[m]
    BY <1>2
  <2> HIDE DEF k
  <2>4. f[k + 1] = f[k] \o << >> /\ f[k] \in Seq(C)
    BY <2>1, <2>2, Zenon DEF IsBuilt, Empty
  <2>5. f[k + 1] = f[k]
    BY <2>4
  <2> QED
    BY <2>1, <2>2, <2>3, <2>5, Zenon
<1> HIDE DEF T
<1>3. n - m \in Nat
  OBVIOUS
<1>4. 0 .. n - m \subseteq T
  BY <1>1, <1>2, <1>3, Upwards, Zenon
<1>5. m + (n - m) = n /\ n - m \in 0 .. n - m
  OBVIOUS
<1>6. n - m \in T
  BY <1>4, <1>5, Zenon
<1>7. f[m + (n - m)] = f[m]
  BY <1>6 DEF T
<1> QED
  BY <1>5, <1>7, Zenon DEF Stays

(* One more part. *)
LEMMA AppendedNext ==
    ASSUME NEW C, NEW parts \in Seq(Seq(C)), NEW x \in Seq(C)
    PROVE  Appended(Append(parts, x)) = Appended(parts) \o x /\ Appended(parts) \in Seq(C)
<1> DEFINE more == Append(parts, x)
<1>1. PICK N \in Nat : N = Len(parts)
  OBVIOUS
<1>2. more \in Seq(Seq(C)) /\ Len(more) = N + 1 /\ more[N + 1] = x /\ Agree(parts, more, N)
  BY <1>1 DEF Agree
<1> HIDE DEF more
<1>3. PICK f \in [0 .. N -> Seq(C)] : IsBuilt(parts, N, f) /\ Appended(parts) = f[N]
  BY <1>1, AppendedBuilt
<1>4. PICK g \in [0 .. N + 1 -> Seq(C)] : IsBuilt(more, N + 1, g) /\ Appended(more) = g[N + 1]
  <2>1. \E g \in [0 .. Len(more) -> Seq(C)] : IsBuilt(more, Len(more), g) /\ Appended(more) = g[Len(more)]
    BY <1>2, AppendedBuilt, Zenon
  <2> QED
    BY <1>2, <2>1, Zenon
<1>5. IsBuilt(more, N, g) /\ g[N + 1] = g[N] \o x
  <2>1. (\A i \in 1 .. N : i \in 1 .. N + 1) /\ N + 1 \in 1 .. N + 1 /\ (N + 1) - 1 = N
    OBVIOUS
  <2> QED
    BY <1>2, <1>4, <2>1, Zenon DEF IsBuilt
<1>6. f[N] \in Seq(C) /\ N \in 0 .. N
  OBVIOUS
<1>7. f[N] = g[N]
  <2>1. Agree(parts, more, N) /\ IsBuilt(parts, N, f) /\ IsBuilt(more, N, g)
    BY <1>2, <1>3, <1>5
  <2>2. SameUpTo(f, g, N)
    BY <2>1, BuiltAgree, Zenon
  <2> QED
    BY <1>6, <2>2, Zenon DEF SameUpTo
<1> QED
  BY <1>3, <1>4, <1>5, <1>6, <1>7 DEF more

LEMMA AppendedNothing == Appended(<< >>) = << >>
<1>1. << >> \in Seq(Seq({})) /\ Len(<< >>) = 0
  OBVIOUS
<1>2. PICK f \in [0 .. Len(<< >>) -> Seq({})] : IsBuilt(<< >>, Len(<< >>), f) /\ Appended(<< >>) = f[Len(<< >>)]
  BY <1>1, AppendedBuilt, Zenon
<1> QED
  BY <1>1, <1>2 DEF IsBuilt

(* Leading parts that are empty do not count. *)
LEMMA AppendedShift ==
    ASSUME NEW C, NEW a \in Seq(Seq(C)), NEW b \in Seq(Seq(C)), NEW d \in Nat,
           Len(a) = d + Len(b),
           \A i \in 1 .. d : a[i] = << >>, \A i \in 1 .. Len(b) : a[d + i] = b[i]
    PROVE  Appended(a) = Appended(b)
<1>1. PICK N \in Nat : N = Len(b)
  OBVIOUS
<1>2. PICK f \in [0 .. d + N -> Seq(C)] : IsBuilt(a, d + N, f) /\ Appended(a) = f[d + N]
  <2>1. \E f \in [0 .. Len(a) -> Seq(C)] : IsBuilt(a, Len(a), f) /\ Appended(a) = f[Len(a)]
    BY AppendedBuilt, Zenon
  <2> QED
    BY <1>1, <2>1, Zenon
<1>3. PICK g \in [0 .. N -> Seq(C)] : IsBuilt(b, N, g) /\ Appended(b) = g[N]
  BY <1>1, AppendedBuilt
<1> DEFINE T == {i \in 0 .. N : f[d + i] = g[i]}
<1>4. 0 \in T
  <2>1. d + N \in Nat /\ 0 \in 0 .. d + N /\ d \in 0 .. d + N
    OBVIOUS
  <2>2. Empty(a, 0, d)
    BY DEF Empty
  <2>3. f[d] = f[0]
    <3>1. IsBuilt(a, d + N, f)
      BY <1>2
    <3>2. PICK M \in Nat : M = d + N
      BY <2>1
    <3>3. f \in [0 .. M -> Seq(C)] /\ IsBuilt(a, M, f) /\ 0 \in 0 .. M /\ d \in 0 .. M
      BY <2>1, <3>1, <3>2
    <3>4. Stays(f, 0, d)
      BY <2>2, <3>3, BuiltStays, Zenon
    <3> QED
      BY <3>4, Zenon DEF Stays
  <2> QED
    BY <1>2, <1>3, <2>3 DEF IsBuilt
<1>5. ASSUME NEW i \in 0 .. N - 1, i \in T PROVE i + 1 \in T
  <2>1. i + 1 \in 1 .. N /\ i + 1 \in 0 .. N /\ d + (i + 1) \in 1 .. d + N
    OBVIOUS
  <2>2. (i + 1) - 1 = i /\ (d + (i + 1)) - 1 = d + i
    OBVIOUS
  <2>3. g[i + 1] = g[i] \o b[i + 1]
    BY <1>3, <2>1, <2>2, Zenon DEF IsBuilt
  <2>4. f[d + (i + 1)] = f[d + i] \o a[d + (i + 1)]
    BY <1>2, <2>1, <2>2, Zenon DEF IsBuilt
  <2>5. a[d + (i + 1)] = b[i + 1]
    BY <1>1, <2>1
  <2> QED
    BY <1>5, <2>1, <2>3, <2>4, <2>5, Zenon
<1> HIDE DEF T
<1>6. 0 .. N \subseteq T
  BY <1>4, <1>5, Upwards, Zenon
<1> QED
  BY <1>2, <1>3, <1>6 DEF T

-----------------------------------------------------------------------------
(* It only grows. *)
IsPrefixOf(s, t) == Len(s) <= Len(t) /\ \A i \in 1 .. Len(s) : s[i] = t[i]

LEMMA PrefixOfConcat ==
    ASSUME NEW C, NEW x \in Seq(C), NEW y \in Seq(C), NEW t \in Seq(C), IsPrefixOf(x \o y, t)
    PROVE  IsPrefixOf(x, t) /\ \A i \in 1 .. Len(y) : t[Len(x) + i] = y[i]
<1>1. Len(x \o y) = Len(x) + Len(y) /\ Len(x) \in Nat /\ Len(y) \in Nat /\ Len(t) \in Nat
  OBVIOUS
<1>2. \A i \in 1 .. Len(x) : (x \o y)[i] = x[i]
  OBVIOUS
<1>3. \A i \in 1 .. Len(y) : Len(x) + i \in 1 .. Len(x \o y) /\ (x \o y)[Len(x) + i] = y[i]
  OBVIOUS
<1>4. IsPrefixOf(x, t)
  BY <1>1, <1>2 DEF IsPrefixOf
<1>5. \A i \in 1 .. Len(y) : t[Len(x) + i] = y[i]
  BY <1>3, Zenon DEF IsPrefixOf
<1> QED
  BY <1>4, <1>5

LEMMA PrefixesCompare ==
    ASSUME NEW C, NEW p \in Seq(C), NEW x \in Seq(C), NEW y \in Seq(C), NEW t \in Seq(C),
           IsPrefixOf(p \o x, t), IsPrefixOf(p \o y, t)
    PROVE  IsPrefixOf(x, y) \/ IsPrefixOf(y, x)
<1>1. \A i \in 1 .. Len(x) : t[Len(p) + i] = x[i]
  BY PrefixOfConcat
<1>2. \A i \in 1 .. Len(y) : t[Len(p) + i] = y[i]
  BY PrefixOfConcat
<1>3. Len(x) \in Nat /\ Len(y) \in Nat
  OBVIOUS
<1>4. \A i \in 1 .. Len(x) : i \in 1 .. Len(y) => x[i] = y[i]
  BY <1>1, <1>2, Zenon
<1>5. CASE Len(x) <= Len(y)
  BY <1>3, <1>4, <1>5 DEF IsPrefixOf
<1>6. CASE Len(y) <= Len(x)
  BY <1>3, <1>4, <1>6 DEF IsPrefixOf
<1> QED
  BY <1>3, <1>5, <1>6

LEMMA BuiltGrows ==
    ASSUME NEW C, NEW N \in Nat, NEW parts \in [1 .. N -> Seq(C)],
           NEW f \in [0 .. N -> Seq(C)], IsBuilt(parts, N, f), NEW n \in 0 .. N
    PROVE  IsPrefixOf(f[n], f[N])
<1> DEFINE T == {d \in 0 .. N : IsPrefixOf(f[N - d], f[N])}
<1>1. 0 \in T
  <2>1. f[N] \in Seq(C) /\ N - 0 = N /\ 0 \in 0 .. N
    OBVIOUS
  <2> QED
    BY <2>1 DEF IsPrefixOf
<1>2. ASSUME NEW d \in 0 .. N - 1, d \in T PROVE d + 1 \in T
  <2> DEFINE m == N - d
  <2>1. m \in 1 .. N /\ m - 1 = N - (d + 1) /\ d + 1 \in 0 .. N /\ m - 1 \in 0 .. N /\ m \in 0 .. N
    OBVIOUS
  <2>2. IsPrefixOf(f[m], f[N])
    BY <1>2
  <2> HIDE DEF m
  <2>3. f[m] = f[m - 1] \o parts[m]
    BY <2>1, Zenon DEF IsBuilt
  <2>4. f[m - 1] \in Seq(C) /\ parts[m] \in Seq(C) /\ f[N] \in Seq(C)
    BY <2>1
  <2>5. IsPrefixOf(f[m - 1], f[N])
    BY <2>2, <2>3, <2>4, PrefixOfConcat
  <2> QED
    BY <2>1, <2>5
<1> HIDE DEF T
<1>3. 0 .. N \subseteq T
  BY <1>1, <1>2, Upwards, Zenon
<1>4. N - n \in T /\ N - (N - n) = n
  BY <1>3
<1> QED
  BY <1>4 DEF T

(* No part begins another. *)
PrefixFree(P) == \A x, y \in P : IsPrefixOf(x, y) => x = y

(* The parts of a key can be read back from its bytes: two rows have the   *)
(* same key bytes only if they agree in every key column, also when one    *)
(* column's text ends where another one's begins.                          *)
THEOREM AppendedInjective ==
    ASSUME NEW C, NEW P \in SUBSET Seq(C), PrefixFree(P),
           NEW N \in Nat, NEW a \in [1 .. N -> P], NEW b \in [1 .. N -> P],
           Appended(a) = Appended(b)
    PROVE  a = b
<1>1. /\ a \in Seq(Seq(C)) /\ Len(a) = N /\ a \in [1 .. N -> Seq(C)]
      /\ b \in Seq(Seq(C)) /\ Len(b) = N /\ b \in [1 .. N -> Seq(C)]
  OBVIOUS
<1>2. PICK f \in [0 .. N -> Seq(C)] : IsBuilt(a, N, f) /\ Appended(a) = f[N]
  <2>1. \E f \in [0 .. Len(a) -> Seq(C)] : IsBuilt(a, Len(a), f) /\ Appended(a) = f[Len(a)]
    BY <1>1, AppendedBuilt, Zenon
  <2> QED
    BY <1>1, <2>1, Zenon
<1>3. PICK g \in [0 .. N -> Seq(C)] : IsBuilt(b, N, g) /\ Appended(b) = g[N]
  <2>1. \E g \in [0 .. Len(b) -> Seq(C)] : IsBuilt(b, Len(b), g) /\ Appended(b) = g[Len(b)]
    BY <1>1, AppendedBuilt, Zenon
  <2> QED
    BY <1>1, <2>1, Zenon
<1>4. f[N] = g[N]
  BY <1>2, <1>3, Zenon
<1>5. ASSUME NEW n \in 0 .. N - 1, f[n] = g[n]
      PROVE  a[n + 1] = b[n + 1] /\ f[n + 1] = g[n + 1]
  <2> DEFINE m == n + 1
  <2> DEFINE p == f[n]
  <2>1. m \in 1 .. N /\ m - 1 = n /\ m \in 0 .. N
    OBVIOUS
  <2>2. p \in Seq(C) /\ a[m] \in Seq(C) /\ b[m] \in Seq(C) /\ a[m] \in P /\ b[m] \in P
    BY <1>1, <2>1
  <2>3. f[m] = p \o a[m] /\ g[m] = p \o b[m]
    BY <1>2, <1>3, <1>5, <2>1, Zenon DEF IsBuilt
  <2>4. IsPrefixOf(f[m], f[N]) /\ IsPrefixOf(g[m], f[N])
    BY <1>1, <1>2, <1>3, <1>4, <2>1, BuiltGrows, Zenon
  <2> HIDE DEF m, p
  <2>5. f[N] \in Seq(C)
    OBVIOUS
  <2>6. IsPrefixOf(a[m], b[m]) \/ IsPrefixOf(b[m], a[m])
    BY <2>2, <2>3, <2>4, <2>5, PrefixesCompare
  <2>7. a[m] = b[m]
    BY <2>2, <2>6 DEF PrefixFree
  <2> QED
    BY <2>3, <2>7 DEF m
<1>6. \A n \in 0 .. N : f[n] = g[n]
  <2> DEFINE T == {n \in 0 .. N : f[n] = g[n]}
  <2>1. 0 \in T
    BY <1>2, <1>3 DEF IsBuilt
  <2>2. \A n \in 0 .. N - 1 : n \in T => n + 1 \in T
    BY <1>5
  <2> HIDE DEF T
  <2>3. 0 .. N \subseteq T
    BY <2>1, <2>2, Upwards, Zenon
  <2> QED
    BY <2>3 DEF T
<1>7. ASSUME NEW i \in 1 .. N PROVE a[i] = b[i]
  <2>1. i - 1 \in 0 .. N - 1 /\ f[i - 1] = g[i - 1] /\ (i - 1) + 1 = i
    BY <1>6
  <2> QED
    BY <1>5, <2>1
<1> QED
  BY <1>7
=============================================================================
