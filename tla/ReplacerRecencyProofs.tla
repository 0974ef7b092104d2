----------------------- MODULE ReplacerRecencyProofs -----------------------
(***************************************************************************)
(* The theorems about LruReplacer: for any number of frames and calls, the *)
(* list is the order of the last accesses, Size() is exact and Evict       *)
(* returns the evictable frame accessed longest ago.                       *)
(***************************************************************************)
EXTENDS ReplacerRecency, FiniteSetTheorems, WellFoundedInduction, TLAPS

(* The list s without its k-th link. *)
Dropped(s, k) == SubSeq(s, 1, k - 1) \o SubSeq(s, k + 1, Len(s))

(* Every other link moves up by at most one place. *)
LEMMA DroppedLinks ==
    ASSUME NEW S, NEW s \in Seq(S), NEW k \in 1 .. Len(s)
    PROVE  /\ Dropped(s, k) \in Seq(S)
           /\ Len(Dropped(s, k)) = Len(s) - 1
           /\ \A i \in 1 .. Len(s) - 1 : Dropped(s, k)[i] = IF i < k THEN s[i] ELSE s[i + 1]
<1> DEFINE a == SubSeq(s, 1, k - 1)
           b == SubSeq(s, k + 1, Len(s))
           c == a \o b
<1>1. a \in Seq(S) /\ Len(a) = k - 1 /\ \A i \in 1 .. k - 1 : a[i] = s[i]
  OBVIOUS
<1>2. b \in Seq(S) /\ Len(b) = Len(s) - k /\ \A i \in 1 .. Len(s) - k : b[i] = s[k + i]
  OBVIOUS
<1>3. Dropped(s, k) = c
  BY DEF Dropped
<1> HIDE DEF a, b
<1>0. a \in Seq(S) /\ b \in Seq(S)
  BY <1>1, <1>2
<1>4. c \in Seq(S) /\ Len(c) = Len(a) + Len(b)
  BY <1>0
<1>5. \A i \in 1 .. Len(a) : c[i] = a[i]
  BY <1>0
<1>6. \A i \in 1 .. Len(a) + Len(b) : i > Len(a) => c[i] = b[i - Len(a)]
  BY <1>0
<1> HIDE DEF c
<1>7. ASSUME NEW i \in 1 .. Len(s) - 1
      PROVE  c[i] = IF i < k THEN s[i] ELSE s[i + 1]
  <2>1. CASE i < k
    BY <2>1, <1>1, <1>5
  <2>2. CASE i >= k
    <3>1. i > Len(a) /\ i \in 1 .. Len(a) + Len(b) /\ i - Len(a) \in 1 .. Len(s) - k
      BY <2>2, <1>1, <1>2
    <3>2. c[i] = b[i - Len(a)]
      BY <3>1, <1>6
    <3>3. b[i - Len(a)] = s[k + (i - Len(a))]
      BY <3>1, <1>2, Zenon
    <3>4. k + (i - Len(a)) = i + 1
      BY <1>1
    <3> QED
      BY <2>2, <3>2, <3>3, <3>4
  <2> QED
    BY <2>1, <2>2
<1> QED
  BY <1>1, <1>2, <1>3, <1>4, <1>7

(* A list that holds exactly the frames of E, in the order of their        *)
(* stamps.                                                                 *)
Ordered(s, E, t) ==
    /\ s \in Seq(Frame)
    /\ \A i \in 1 .. Len(s) : s[i] \in E
    /\ \A f \in E : \E i \in 1 .. Len(s) : s[i] = f
    /\ \A i, j \in 1 .. Len(s) : i < j => t[s[i]] < t[s[j]]

(* Unlinking a frame leaves the others in order. *)
LEMMA UnlinkedOrdered ==
    ASSUME NEW r, NEW t \in [Frame -> Nat], r.entries \subseteq Frame,
           Ordered(r.lru_order, r.entries, t), NEW f \in r.entries
    PROVE  Ordered(Unlinked(r, f), r.entries \ {f}, t)
<1> DEFINE s == r.lru_order
           k == Position(r, f)
           u == Dropped(s, k)
           n == Len(s)
<1>1. s \in Seq(Frame) /\ n \in Nat /\ DOMAIN s = 1 .. n
  BY DEF Ordered
<1>2. \A i \in 1 .. n : s[i] \in r.entries
  BY DEF Ordered
<1>3. \A g \in r.entries : \E i \in 1 .. n : s[i] = g
  BY DEF Ordered
<1>4. \A i, j \in 1 .. n : i < j => t[s[i]] < t[s[j]]
  BY Zenon DEF Ordered
<1>5. k \in 1 .. n /\ s[k] = f
  <2>1. \E i \in DOMAIN s : s[i] = f
    BY <1>1, <1>3
  <2> QED
    BY <1>1, <2>1, Zenon DEF Position
<1>6. Unlinked(r, f) = u
  BY DEF Unlinked, Dropped
<1> HIDE DEF s, k
<1>7. /\ u \in Seq(Frame) /\ Len(u) = n - 1
      /\ \A i \in 1 .. n - 1 : u[i] = IF i < k THEN s[i] ELSE s[i + 1]
  BY <1>1, <1>5, DroppedLinks, Zenon
<1> HIDE DEF u, n
<1>8. \A i \in 1 .. n : i # k => s[i] # f
  <2> SUFFICES ASSUME NEW i \in 1 .. n, i # k, s[i] = f PROVE FALSE
    OBVIOUS
  <2>1. t[f] \in Nat
    OBVIOUS
  <2>2. i < k \/ k < i
    BY <1>5
  <2> QED
    BY <1>4, <1>5, <2>1, <2>2
<1>9. ASSUME NEW i \in 1 .. n - 1
      PROVE  \E x \in 1 .. n : u[i] = s[x] /\ x # k /\ x = IF i < k THEN i ELSE i + 1
  <2>1. CASE i < k
    BY <2>1, <1>1, <1>5, <1>7
  <2>2. CASE ~(i < k)
    BY <2>2, <1>1, <1>5, <1>7
  <2> QED
    BY <2>1, <2>2
<1>10. \A i \in 1 .. Len(u) : u[i] \in r.entries \ {f}
  <2> SUFFICES ASSUME NEW i \in 1 .. n - 1 PROVE u[i] \in r.entries \ {f}
    BY <1>7
  <2>1. PICK x \in 1 .. n : u[i] = s[x] /\ x # k
    BY <1>9
  <2> QED
    BY <1>2, <1>8, <2>1
<1>11. \A g \in r.entries \ {f} : \E i \in 1 .. Len(u) : u[i] = g
  <2> SUFFICES ASSUME NEW g \in r.entries, g # f PROVE \E i \in 1 .. n - 1 : u[i] = g
    BY <1>7
  <2>1. PICK j \in 1 .. n : s[j] = g
    BY <1>3
  <2>2. j # k
    BY <2>1, <1>5
  <2>3. CASE j < k
    <3>1. j \in 1 .. n - 1
      BY <2>3, <1>1, <1>5
    <3> QED
      BY <2>1, <2>3, <3>1, <1>7
  <2>4. CASE j > k
    <3>1. j - 1 \in 1 .. n - 1 /\ ~(j - 1 < k) /\ (j - 1) + 1 = j
      BY <2>4, <1>1, <1>5
    <3>2. u[j - 1] = s[(j - 1) + 1]
      BY <3>1, <1>7
    <3> QED
      BY <2>1, <3>1, <3>2
  <2> QED
    BY <2>2, <2>3, <2>4, <1>5
<1>12. ASSUME NEW i \in 1 .. n - 1, NEW j \in 1 .. n - 1, i < j
       PROVE  t[u[i]] < t[u[j]]
  <2>1. PICK x \in 1 .. n : u[i] = s[x] /\ x = IF i < k THEN i ELSE i + 1
    BY <1>9
  <2>2. PICK y \in 1 .. n : u[j] = s[y] /\ y = IF j < k THEN j ELSE j + 1
    BY <1>9
  <2>3. x < y
    BY <1>1, <1>5, <1>12, <2>1, <2>2
  <2>4. t[s[x]] < t[s[y]]
    BY <1>4, <2>3
  <2> QED
    BY <2>1, <2>2, <2>4
<1>13. \A i, j \in 1 .. Len(u) : i < j => t[u[i]] < t[u[j]]
  BY <1>7, <1>12
<1> QED
  BY <1>6, <1>7, <1>10, <1>11, <1>13, Zenon DEF Ordered

(* Linking the frame accessed last at the back keeps the order. *)
LEMMA AppendedOrdered ==
    ASSUME NEW s, NEW E \in SUBSET Frame, NEW t \in [Frame -> Nat], Ordered(s, E, t),
           NEW f \in Frame, f \notin E, NEW c \in Nat, \A g \in Frame : t[g] < c
    PROVE  Ordered(Append(s, f), E \cup {f}, [t EXCEPT ![f] = c])
<1> DEFINE u == Append(s, f)
           v == [t EXCEPT ![f] = c]
           n == Len(s)
<1>1. s \in Seq(Frame) /\ n \in Nat
  BY DEF Ordered
<1>2. \A i \in 1 .. n : s[i] \in E
  BY DEF Ordered
<1>3. \A g \in E : \E i \in 1 .. n : s[i] = g
  BY DEF Ordered
<1>4. \A i, j \in 1 .. n : i < j => t[s[i]] < t[s[j]]
  BY DEF Ordered
<1>5. u \in Seq(Frame) /\ Len(u) = n + 1 /\ u[n + 1] = f
  BY <1>1
<1>6. \A i \in 1 .. n : u[i] = s[i]
  BY <1>1
<1>7. v[f] = c /\ \A g \in E : v[g] = t[g]
  <2>1. \A g \in E : g \in Frame /\ g # f
    OBVIOUS
  <2> QED
    BY <2>1, Zenon
<1> HIDE DEF u, v, n
<1>8. \A i \in 1 .. n + 1 : i \in 1 .. n \/ i = n + 1
  BY <1>1
<1>9. \A i \in 1 .. n : i \in 1 .. n + 1
  BY <1>1
<1>10. n + 1 \in 1 .. n + 1
  BY <1>1
<1>11. \A i \in 1 .. n + 1 : u[i] \in E \cup {f}
  BY <1>2, <1>5, <1>6, <1>8, Zenon
<1>12. \A g \in E \cup {f} : \E i \in 1 .. n + 1 : u[i] = g
  BY <1>3, <1>5, <1>6, <1>9, <1>10, Zenon
<1>13. ASSUME NEW i \in 1 .. n + 1, NEW j \in 1 .. n + 1, i < j
       PROVE  v[u[i]] < v[u[j]]
  <2>0. i \in 1 .. n
    BY <1>1, <1>13
  <2>1. u[i] = s[i] /\ v[u[i]] = t[s[i]]
    BY <2>0, <1>2, <1>6, <1>7
  <2>2. CASE j = n + 1
    <3>1. v[u[j]] = c /\ s[i] \in Frame
      BY <2>0, <2>2, <1>2, <1>5, <1>7
    <3> QED
      BY <2>1, <3>1
  <2>3. CASE j \in 1 .. n
    <3>1. v[u[j]] = t[s[j]]
      BY <2>3, <1>2, <1>6, <1>7
    <3> QED
      BY <2>0, <2>1, <2>3, <3>1, <1>4, <1>13
  <2> QED
    BY <2>2, <2>3, <1>8
<1>14. \A i, j \in 1 .. Len(u) : i < j => v[u[i]] < v[u[j]]
  BY <1>5, <1>13
<1>15. Ordered(u, E \cup {f}, v)
  BY <1>5, <1>11, <1>12, <1>14, Zenon DEF Ordered
<1> QED
  BY <1>15 DEF u, v

-----------------------------------------------------------------------------
(* The inductive invariant: the types, the exact size, the list in the     *)
(* order of the stamps, and a clock ahead of every stamp, so that the next *)
(* access goes to the back.                                                *)
RecencyInv ==
    /\ TypeOK
    /\ SizeIsExact
    /\ Ordered(replacer.lru_order, replacer.entries, stamp)
    /\ \A f \in Frame : stamp[f] <= clock

(* In words of the list alone: Evict finds an evictable frame, and no      *)
(* other is older.                                                         *)
LEMMA VictimIsOldest ==
    ASSUME RecencyInv, Candidates(replacer) # {}
    PROVE  /\ Victim(replacer) \in replacer.evictable
           /\ \A f \in replacer.evictable : stamp[Victim(replacer)] <= stamp[f]
<1> DEFINE s == replacer.lru_order
           C == Candidates(replacer)
           i == CHOOSE x \in C : \A y \in C : x <= y
<1>1. /\ s \in Seq(Frame) /\ replacer.evictable \subseteq replacer.entries
      /\ replacer.entries \subseteq Frame /\ stamp \in [Frame -> Nat]
      /\ DOMAIN s = 1 .. Len(s) /\ C = {x \in 1 .. Len(s) : s[x] \in replacer.evictable}
  BY DEF RecencyInv, TypeOK, Candidates
<1>2. \A f \in replacer.entries : \E x \in 1 .. Len(s) : s[x] = f
  BY DEF RecencyInv, Ordered
<1>3. \A x, y \in 1 .. Len(s) : x < y => stamp[s[x]] < stamp[s[y]]
  BY Zenon DEF RecencyInv, Ordered
<1>4. C \in SUBSET Nat /\ C # {}
  BY <1>1
<1>5. i \in C /\ \A y \in C : i <= y
  <2>1. PICK x \in C : \A y \in C : <<y, x>> \notin OpToRel(<, Nat)
    BY <1>4, NatLessThanWellFounded, WFMin, Zenon
  <2>2. \A y \in C : ~(y < x)
    BY <1>4, <2>1, Zenon DEF OpToRel
  <2>3. \A y \in C : x <= y
    BY <1>4, <2>2
  <2> HIDE DEF C
  <2> QED
    BY <2>1, <2>3, Zenon
<1>6. Victim(replacer) = s[i]
  BY DEF Victim
<1> HIDE DEF i, C, s
<1>7. i \in 1 .. Len(s) /\ s[i] \in replacer.evictable
  BY <1>1, <1>5
<1>8. ASSUME NEW f \in replacer.evictable
      PROVE  stamp[s[i]] <= stamp[f]
  <2>1. PICK x \in 1 .. Len(s) : s[x] = f
    BY <1>1, <1>2
  <2>2. x \in C
    BY <2>1, <1>1
  <2>3. i = x \/ i < x
    BY <2>2, <1>5, <1>7
  <2>4. stamp[f] \in Nat /\ stamp[s[i]] \in Nat
    BY <1>1, <1>7
  <2>5. CASE i = x
    BY <2>1, <2>4, <2>5
  <2>6. CASE i < x
    BY <2>1, <2>4, <2>6, <1>3, <1>7
  <2> QED
    BY <2>3, <2>5, <2>6
<1> QED
  BY <1>6, <1>7, <1>8

(* The set of evictable frames is finite, which its size is about. *)
LEMMA EvictableFinite ==
    ASSUME RecencyInv
    PROVE  IsFiniteSet(replacer.evictable) /\ Cardinality(replacer.evictable) \in Nat
<1>1. replacer.evictable \in SUBSET Frame
  BY DEF RecencyInv, TypeOK
<1> QED
  BY <1>1, RecencyAssumption, FS_Subset, FS_CardinalityType

(* A new replacer satisfies the invariant. *)
LEMMA InitRecency == Init => RecencyInv
<1> SUFFICES ASSUME Init PROVE RecencyInv
  OBVIOUS
<1>1. /\ replacer.lru_order = << >> /\ replacer.entries = {} /\ replacer.evictable = {}
      /\ replacer.evictable_count = 0 /\ stamp = [f \in Frame |-> 0] /\ clock = 0
      /\ evicted = NoVictim
  BY DEF Init, EmptyReplacer
<1>2. TypeOK
  BY <1>1, RecencyAssumption DEF TypeOK
<1>3. SizeIsExact
  BY <1>1, FS_EmptySet DEF SizeIsExact
<1>4. Ordered(replacer.lru_order, replacer.entries, stamp)
  BY <1>1 DEF Ordered
<1> QED
  BY <1>1, <1>2, <1>3, <1>4 DEF RecencyInv

(* A step that keeps the replacer, whatever it returns. *)
LEMMA SameReplacer ==
    ASSUME RecencyInv, UNCHANGED <<replacer, stamp, clock>>, evicted' \in Frame \cup {NoVictim}
    PROVE  RecencyInv'
<1>1. TypeOK'
  BY Zenon DEF RecencyInv, TypeOK
<1> QED
  BY <1>1, Zenon DEF RecencyInv, SizeIsExact, Ordered

(* RecordAccess moves the frame to the back. *)
LEMMA RecordAccessRecency ==
    ASSUME RecencyInv, NEW f \in Frame, CallRecordAccess(f)
    PROVE  RecencyInv'
<1> DEFINE E == replacer.entries
           s == IF f \in E THEN Unlinked(replacer, f) ELSE replacer.lru_order
<1>1. /\ replacer'.lru_order = Append(s, f)
      /\ replacer'.entries = E \cup {f}
      /\ replacer'.evictable = replacer.evictable
      /\ replacer'.evictable_count = replacer.evictable_count
      /\ clock' = clock + 1 /\ clock < MaxAccesses
      /\ stamp' = [stamp EXCEPT ![f] = clock + 1]
      /\ evicted' = NoVictim
  BY DEF CallRecordAccess, RecordAccess
<1>2. /\ E \subseteq Frame /\ replacer.evictable \subseteq E /\ replacer.evictable_count \in Nat
      /\ stamp \in [Frame -> Nat] /\ clock \in 0 .. MaxAccesses
      /\ SizeIsExact /\ Ordered(replacer.lru_order, E, stamp)
      /\ \A g \in Frame : stamp[g] <= clock
  BY DEF RecencyInv, TypeOK
<1>3. Ordered(s, E \ {f}, stamp)
  <2>1. CASE f \in E
    BY <2>1, <1>2, UnlinkedOrdered
  <2>2. CASE f \notin E
    <3>1. E \ {f} = E
      BY <2>2
    <3> QED
      BY <2>2, <3>1, <1>2
  <2> QED
    BY <2>1, <2>2
<1> HIDE DEF s
<1>4. clock \in Nat /\ clock + 1 \in Nat /\ clock' \in 0 .. MaxAccesses
  BY <1>1, <1>2, RecencyAssumption
<1>5. \A g \in Frame : stamp[g] < clock + 1
  BY <1>2, <1>4
<1>6. E \ {f} \in SUBSET Frame /\ f \notin E \ {f} /\ (E \ {f}) \cup {f} = E \cup {f}
  BY <1>2
<1>7. Ordered(Append(s, f), E \cup {f}, stamp')
  <2> HIDE DEF E
  <2>1. Ordered(Append(s, f), (E \ {f}) \cup {f}, [stamp EXCEPT ![f] = clock + 1])
    BY <1>2, <1>3, <1>4, <1>5, <1>6, AppendedOrdered, Zenon
  <2> QED
    BY <2>1, <1>1, <1>6, Zenon
<1>8. stamp' \in [Frame -> Nat] /\ \A g \in Frame : stamp'[g] <= clock'
  BY <1>1, <1>2, <1>4
<1>9. TypeOK'
  <2>1. replacer'.lru_order \in Seq(Frame)
    BY <1>1, <1>7 DEF Ordered
  <2>2. replacer'.entries \subseteq Frame /\ replacer'.evictable \subseteq replacer'.entries
    BY <1>1, <1>2
  <2> QED
    BY <1>1, <1>2, <1>4, <1>8, <2>1, <2>2 DEF TypeOK
<1> QED
  BY <1>1, <1>2, <1>7, <1>8, <1>9 DEF RecencyInv, SizeIsExact

(* SetEvictable counts exactly the changes of a flag. *)
LEMMA SetEvictableRecency ==
    ASSUME RecencyInv, NEW f \in Frame, NEW b \in BOOLEAN, CallSetEvictable(f, b)
    PROVE  RecencyInv'
<1> DEFINE V == replacer.evictable
<1>1. evicted' = NoVictim /\ UNCHANGED <<stamp, clock>>
  BY DEF CallSetEvictable
<1>2. CASE replacer' = replacer
  BY <1>1, <1>2, SameReplacer
<1>3. CASE replacer' # replacer
  <2>1. f \in replacer.entries /\ replacer' = SetEvictable(replacer, f, b)
        /\ ~((f \in V) = b)
    BY <1>3, Zenon DEF CallSetEvictable, SetEvictable
  <2>2. /\ replacer'.lru_order = replacer.lru_order /\ replacer'.entries = replacer.entries
        /\ replacer'.evictable = IF b THEN V \cup {f} ELSE V \ {f}
        /\ replacer'.evictable_count = replacer.evictable_count + (IF b THEN 1 ELSE -1)
    BY <2>1 DEF SetEvictable
  <2>3. /\ V \subseteq replacer.entries /\ replacer.entries \subseteq Frame
        /\ replacer.evictable_count = Cardinality(V)
    BY DEF RecencyInv, TypeOK, SizeIsExact
  <2>4. IsFiniteSet(V) /\ Cardinality(V) \in Nat
    BY EvictableFinite
  <2> HIDE DEF V
  <2>5. /\ replacer'.evictable \subseteq replacer.entries
        /\ replacer'.evictable_count = Cardinality(replacer'.evictable)
        /\ replacer'.evictable_count \in Nat
    <3>1. CASE b
      <4>1. f \notin V
        BY <2>1, <3>1, Zenon
      <4>2. Cardinality(V \cup {f}) = Cardinality(V) + 1
        BY <2>4, <4>1, FS_AddElement, Zenon
      <4> QED
        BY <2>1, <2>2, <2>3, <2>4, <3>1, <4>2
    <3>2. CASE ~b
      <4>1. f \in V
        BY <2>1, <3>2
      <4>2. Cardinality(V \ {f}) = Cardinality(V) - 1 /\ Cardinality(V \ {f}) \in Nat
        BY <2>4, <4>1, FS_RemoveElement, FS_CardinalityType
      <4> QED
        BY <2>2, <2>3, <2>4, <3>2, <4>2
    <3> QED
      BY <3>1, <3>2
  <2>6. TypeOK'
    BY <1>1, <2>2, <2>5 DEF RecencyInv, TypeOK
  <2> QED
    BY <1>1, <2>2, <2>5, <2>6 DEF RecencyInv, SizeIsExact
<1> QED
  BY <1>2, <1>3

(* Forgetting an evictable frame, as Evict and Remove do. *)
LEMMA ForgetRecency ==
    ASSUME RecencyInv, NEW f \in replacer.evictable, replacer' = Forget(replacer, f),
           UNCHANGED <<stamp, clock>>, evicted' \in Frame \cup {NoVictim}
    PROVE  RecencyInv'
<1> DEFINE V == replacer.evictable
<1>1. /\ replacer'.lru_order = Unlinked(replacer, f)
      /\ replacer'.entries = replacer.entries \ {f}
      /\ replacer'.evictable = V \ {f}
      /\ replacer'.evictable_count = replacer.evictable_count - 1
  BY DEF Forget
<1>2. /\ V \subseteq replacer.entries /\ replacer.entries \subseteq Frame
      /\ stamp \in [Frame -> Nat] /\ replacer.evictable_count = Cardinality(V)
      /\ Ordered(replacer.lru_order, replacer.entries, stamp)
  BY DEF RecencyInv, TypeOK, SizeIsExact
<1>3. Ordered(Unlinked(replacer, f), replacer.entries \ {f}, stamp)
  BY <1>2, UnlinkedOrdered
<1>4. IsFiniteSet(V)
  BY EvictableFinite
<1>5. Cardinality(V \ {f}) = Cardinality(V) - 1 /\ Cardinality(V \ {f}) \in Nat
  BY <1>4, FS_RemoveElement, FS_CardinalityType
<1>6. TypeOK'
  <2>1. replacer'.lru_order \in Seq(Frame)
    BY <1>1, <1>3 DEF Ordered
  <2>2. replacer'.entries \subseteq Frame /\ replacer'.evictable \subseteq replacer'.entries
    BY <1>1, <1>2
  <2>3. replacer'.evictable_count \in Nat
    BY <1>1, <1>2, <1>5
  <2> QED
    BY <2>1, <2>2, <2>3 DEF RecencyInv, TypeOK
<1> QED
  BY <1>1, <1>2, <1>3, <1>5, <1>6 DEF RecencyInv, SizeIsExact

(* Every call preserves the invariant. *)
LEMMA NextRecency == RecencyInv /\ [Next]_vars => RecencyInv'
<1> SUFFICES ASSUME RecencyInv, [Next]_vars PROVE RecencyInv'
  OBVIOUS
<1>1. ASSUME NEW f \in Frame, CallRecordAccess(f) PROVE RecencyInv'
  BY <1>1, RecordAccessRecency
<1>2. ASSUME NEW f \in Frame, NEW b \in BOOLEAN, CallSetEvictable(f, b) PROVE RecencyInv'
  BY <1>2, SetEvictableRecency
<1>3. CASE CallEvict
  <2>1. CASE Candidates(replacer) # {}
    <3>1. /\ evicted' = Victim(replacer) /\ replacer' = Forget(replacer, Victim(replacer))
          /\ UNCHANGED <<stamp, clock>>
      BY <1>3, <2>1 DEF CallEvict
    <3>2. Victim(replacer) \in replacer.evictable
      BY <2>1, VictimIsOldest
    <3>3. Victim(replacer) \in Frame
      BY <3>2 DEF RecencyInv, TypeOK
    <3> QED
      BY <3>1, <3>2, <3>3, ForgetRecency
  <2>2. CASE Candidates(replacer) = {}
    BY <1>3, <2>2, SameReplacer DEF CallEvict
  <2> QED
    BY <2>1, <2>2
<1>4. ASSUME NEW f \in Frame, CallRemove(f) PROVE RecencyInv'
  <2>1. CASE f \in replacer.evictable
    BY <1>4, <2>1, ForgetRecency DEF CallRemove
  <2>2. CASE f \notin replacer.evictable
    BY <1>4, <2>2, SameReplacer DEF CallRemove
  <2> QED
    BY <2>1, <2>2
<1>5. CASE UNCHANGED vars
  BY <1>5, SameReplacer DEF vars, RecencyInv, TypeOK
<1> QED
  BY <1>1, <1>2, <1>3, <1>4, <1>5, Zenon DEF Next

(* The inductive invariant holds after any sequence of calls. *)
LEMMA RecencyInvariant == Spec => []RecencyInv
BY InitRecency, NextRecency, PTL DEF Spec

(* The types of the replacer's maps, list and counter, for any frames. *)
THEOREM ReplacerTypes == Spec => []TypeOK
<1>1. RecencyInv => TypeOK
  BY DEF RecencyInv
<1> QED
  BY <1>1, RecencyInvariant, PTL

(* Size() is the number of evictable frames after any sequence of calls.   *)
THEOREM SizeStaysExact == Spec => []SizeIsExact
<1>1. RecencyInv => SizeIsExact
  BY DEF RecencyInv
<1> QED
  BY <1>1, RecencyInvariant, PTL

(* lru_order holds every entry once, in the order of the last accesses.    *)
THEOREM OrderStaysRecency == Spec => []OrderIsRecency
<1>1. ASSUME RecencyInv PROVE OrderIsRecency
  <2> DEFINE s == replacer.lru_order
  <2>1. s \in Seq(Frame) /\ DOMAIN s = 1 .. Len(s)
    BY <1>1 DEF RecencyInv, Ordered
  <2>2. \A i \in 1 .. Len(s) : s[i] \in replacer.entries
    BY <1>1 DEF RecencyInv, Ordered
  <2>3. \A f \in replacer.entries : \E i \in 1 .. Len(s) : s[i] = f
    BY <1>1 DEF RecencyInv, Ordered
  <2>4. \A i, j \in 1 .. Len(s) : i < j => stamp[s[i]] < stamp[s[j]]
    BY <1>1, Zenon DEF RecencyInv, Ordered
  <2> HIDE DEF s
  <2>5. {s[i] : i \in DOMAIN s} = replacer.entries
    BY <2>1, <2>2, <2>3, Zenon
  <2> QED
    BY <2>1, <2>4, <2>5, Zenon DEF OrderIsRecency, s
<1> QED
  BY <1>1, RecencyInvariant, PTL

(* Evict returns an evictable frame that no evictable frame is older than. *)
THEOREM EvictionIsOldest == Spec => EvictsOldest
<1> DEFINE Oldest == evicted' # NoVictim /\ replacer' # replacer =>
                        /\ evicted' \in replacer.evictable
                        /\ \A f \in replacer.evictable : stamp[evicted'] <= stamp[f]
<1>1. ASSUME RecencyInv, Next PROVE Oldest
  <2>1. CASE evicted' = NoVictim
    BY <2>1
  <2>2. CASE evicted' # NoVictim
    <3>1. CallEvict /\ Candidates(replacer) # {} /\ evicted' = Victim(replacer)
      BY <1>1, <2>2, Zenon
         DEF Next, CallRecordAccess, CallSetEvictable, CallEvict, CallRemove
    <3> QED
      BY <1>1, <3>1, VictimIsOldest, Zenon
  <2> QED
    BY <2>1, <2>2
<1>2. RecencyInv /\ [Next]_vars => [Oldest]_vars
  BY <1>1
<1> QED
  BY <1>2, RecencyInvariant, PTL DEF Spec, EvictsOldest
=============================================================================
