--------------------------- MODULE HashJoinProofs ----------------------------
(***************************************************************************)
(* The hash join returns the join, for every input of its children, every  *)
(* number of key columns and every batch size.                             *)
(*                                                                         *)
(* The inductive invariant JoinInv says where the operator is.  TableInv:  *)
(* the hash table has exactly the build rows that BuildPhase has passed,   *)
(* in their order, under their keys.  PlaceInv: the matches at hand are    *)
(* all those of the probe row at hand.  OutputInv: what has been returned  *)
(* is what lies before that place in the order of the join.                *)
(***************************************************************************)
EXTENDS HashJoin, AppendingProofs

Place == (Nat \ {0}) \X (Nat \ {0})

Typed ==
    /\ build \in Seq(Seq(Row)) /\ probe \in Seq(Seq(Row))
    /\ build_place \in Place /\ build_rows \in Seq(Place)
    /\ built \in BOOLEAN /\ has_probe_chunk \in BOOLEAN
    /\ current_probe_row \in Nat \ {0} /\ current_match_index \in Nat \ {0}
    /\ current_matches \in Seq(Nat)
    /\ batch \in Seq(Place \X Place) /\ output \in Seq(Place \X Place)

(* Where the probe side is, and how full the batch. *)
Cursors ==
    /\ fetched \in 0 .. Len(probe)
    /\ has_probe_chunk => fetched # 0 /\ current_probe_row <= Len(probe[fetched]) + 1
    /\ Len(batch) <= VectorSize

(* The build rows kept are the joinable ones passed, in order. *)
RowsInv ==
    /\ \A i \in DOMAIN build_rows : build_rows[i] \in Joinable(build) /\ Before(build_rows[i], build_place)
    /\ \A i, j \in DOMAIN build_rows : i < j => Before(build_rows[i], build_rows[j])
    /\ \A p \in Joinable(build) : Before(p, build_place) => \E i \in DOMAIN build_rows : build_rows[i] = p

(* The hash table has the index of every one of them, under its key. *)
KeyOf(i) == ComputeJoinKey(RowAt(build, build_rows[i]).key)
Increasing(s) == \A m, n \in DOMAIN s : m < n => s[m] < s[n]
TableInv ==
    /\ \A i \in DOMAIN build_rows :
          KeyOf(i) \in DOMAIN hash_table /\ \E n \in DOMAIN hash_table[KeyOf(i)] : hash_table[KeyOf(i)][n] = i
    /\ \A k \in DOMAIN hash_table :
          /\ hash_table[k] \in Seq(Nat) /\ Increasing(hash_table[k])
          /\ \A n \in DOMAIN hash_table[k] :
                hash_table[k][n] \in DOMAIN build_rows /\ KeyOf(hash_table[k][n]) = k

(* What each phase may rely on. *)
PhaseInv ==
    /\ pc \in {"idle", "build", "probe", "loop", "done"}
    /\ pc \in {"probe", "loop", "done"} => built
    /\ pc = "build" => ~built
    /\ built => build_place[1] > Len(build)
    /\ ~built => fetched = 0 /\ ~has_probe_chunk /\ output = << >>
    /\ pc \in {"build", "probe"} => batch = << >>
    /\ pc = "loop" => has_probe_chunk
    /\ pc = "done" => ~has_probe_chunk /\ fetched = Len(probe)

PlaceInv ==
    /\ current_matches = << >> => current_match_index = 1
    /\ current_matches # << >> =>
          /\ has_probe_chunk /\ current_match_index <= Len(current_matches)
          /\ ProbePlace \in Joinable(probe)
          /\ current_matches = Matches(ComputeJoinKey(ProbeRow.key))

(* The next probe row, and what lies before it and its next match. *)
Frontier == IF has_probe_chunk THEN ProbePlace ELSE <<fetched + 1, 1>>
Passed(m) ==
    \/ Before(m[2], Frontier)
    \/ /\ m[2] = Frontier
       /\ \E n \in DOMAIN current_matches : n < current_match_index /\ m[1] = build_rows[current_matches[n]]
Ascending(s) == \A i, j \in DOMAIN s : i < j => Earlier(s[i], s[j])
OutputInv ==
    /\ \A i \in DOMAIN Returned : Returned[i] \in Join /\ Passed(Returned[i])
    /\ \A m \in Join : Passed(m) => \E i \in DOMAIN Returned : Returned[i] = m
    /\ Ascending(Returned)

JoinInv == Typed /\ Cursors /\ RowsInv /\ TableInv /\ PhaseInv /\ PlaceInv /\ OutputInv

-----------------------------------------------------------------------------
(* Facts about the operators of the model. *)

(* The order of places is total, and no place is before itself. *)
LEMMA PlacesOrdered ==
    ASSUME NEW p \in Place, NEW q \in Place
    PROVE  /\ Before(p, q) \/ p = q \/ Before(q, p)
           /\ Before(p, q) => p # q /\ ~Before(q, p)
<1>1. PICK a \in Nat, b \in Nat : p = <<a, b>>
  BY DEF Place
<1>2. PICK c \in Nat, d \in Nat : q = <<c, d>>
  BY DEF Place
<1> QED
  BY <1>1, <1>2 DEF Before

LEMMA PlacesTransitive ==
    ASSUME NEW p \in Place, NEW q \in Place, NEW r \in Place, Before(p, q), Before(q, r)
    PROVE  Before(p, r)
<1>1. p[1] \in Nat /\ p[2] \in Nat /\ q[1] \in Nat /\ q[2] \in Nat /\ r[1] \in Nat /\ r[2] \in Nat
  BY DEF Place
<1> QED
  BY <1>1 DEF Before

(* The places of a child's rows. *)
InChild(child, p) == p[1] \in 1 .. Len(child) /\ p[2] \in 1 .. Len(child[p[1]])
LEMMA PlacesOfChild ==
    ASSUME NEW child \in Seq(Seq(Row)), NEW p
    PROVE  p \in Places(child) <=> p \in Place /\ InChild(child, p)
<1>1. /\ DOMAIN child = 1 .. Len(child) /\ Len(child) \in Nat
      /\ \A c \in DOMAIN child : DOMAIN child[c] = 1 .. Len(child[c]) /\ Len(child[c]) \in Nat
  OBVIOUS
<1>2. p \in Places(child) <=> \E c \in DOMAIN child : \E r \in DOMAIN child[c] : p = <<c, r>>
  BY DEF Places
<1>3. ASSUME NEW c \in DOMAIN child, NEW r \in DOMAIN child[c], p = <<c, r>>
      PROVE  p \in Place /\ InChild(child, p)
  BY <1>1, <1>3 DEF Place, InChild
<1>4. ASSUME p \in Place, InChild(child, p)
      PROVE  \E c \in DOMAIN child : \E r \in DOMAIN child[c] : p = <<c, r>>
  <2>1. p = <<p[1], p[2]>>
    BY <1>4 DEF Place
  <2>2. p[1] \in DOMAIN child /\ p[2] \in DOMAIN child[p[1]]
    BY <1>1, <1>4 DEF InChild
  <2> QED
    BY <2>1, <2>2
<1> QED
  BY <1>2, <1>3, <1>4

(* A joinable row has a key without a NULL. *)
Key == [1 .. KeyColumns -> Seq(Char)]
LEMMA JoinableRows ==
    ASSUME NEW child \in Seq(Seq(Row)), NEW p
    PROVE  /\ p \in Joinable(child) <=>
                 p \in Place /\ InChild(child, p) /\ RowAt(child, p).selected /\ HasKey(RowAt(child, p))
           /\ p \in Joinable(child) => RowAt(child, p).key \in Key
<1>1. p \in Joinable(child) <=>
         p \in Place /\ InChild(child, p) /\ RowAt(child, p).selected /\ HasKey(RowAt(child, p))
  BY PlacesOfChild, Zenon DEF Joinable
<1>2. ASSUME InChild(child, p), HasKey(RowAt(child, p)) PROVE RowAt(child, p).key \in Key
  <2> DEFINE row == RowAt(child, p)
  <2>1. row \in Row
    BY <1>2 DEF InChild, RowAt
  <2>2. HasKey(row)
    BY <1>2
  <2> HIDE DEF row
  <2>3. row.key \in [1 .. KeyColumns -> Seq(Char) \cup {Null}]
    BY <2>1 DEF Row
  <2>4. \A i \in 1 .. KeyColumns : row.key[i] # Null
    BY <2>2, <2>3, Zenon DEF HasKey, Range
  <2>5. row.key \in Key
    BY <2>3, <2>4, Zenon DEF Key
  <2> QED
    BY <2>5 DEF row
<1> QED
  BY <1>1, <1>2

(* ComputeJoinKey tells keys apart. *)
LEMMA JoinKeysDiffer ==
    ASSUME NEW k \in Key, NEW l \in Key, ComputeJoinKey(k) = ComputeJoinKey(l)
    PROVE  k = l
<1> DEFINE C == Nat \cup Char
<1> DEFINE Part(t) == <<Len(t)>> \o t
<1> DEFINE P == {Part(t) : t \in Seq(Char)}
<1> DEFINE a == [i \in 1 .. KeyColumns |-> Part(k[i])]
<1> DEFINE b == [i \in 1 .. KeyColumns |-> Part(l[i])]
<1>1. ASSUME NEW t \in Seq(Char)
      PROVE  /\ Part(t) \in Seq(C) /\ Len(Part(t)) = Len(t) + 1 /\ Part(t)[1] = Len(t)
             /\ \A i \in 1 .. Len(t) : Part(t)[i + 1] = t[i]
  <2>1. <<Len(t)>> \in Seq(C) /\ t \in Seq(C) /\ Len(<<Len(t)>>) = 1 /\ <<Len(t)>>[1] = Len(t)
    OBVIOUS
  <2> QED
    BY <2>1
<1> HIDE DEF Part
<1>2. ASSUME NEW t \in Seq(Char), NEW u \in Seq(Char), IsPrefixOf(Part(t), Part(u))
      PROVE  t = u
  <2>1. Len(t) \in Nat /\ Len(u) \in Nat
    OBVIOUS
  <2>2. Part(t)[1] = Part(u)[1]
    BY <1>1, <1>2, <2>1 DEF IsPrefixOf
  <2>3. Len(t) = Len(u)
    BY <1>1, <2>2
  <2>4. \A i \in 1 .. Len(t) : t[i] = u[i]
    <3> SUFFICES ASSUME NEW i \in 1 .. Len(t) PROVE t[i] = u[i]
      OBVIOUS
    <3>1. i + 1 \in 1 .. Len(Part(t))
      BY <1>1, <2>1
    <3>2. Part(t)[i + 1] = Part(u)[i + 1]
      BY <1>2, <3>1 DEF IsPrefixOf
    <3> QED
      BY <1>1, <2>3, <3>2
  <2> QED
    BY <2>3, <2>4
<1>3. P \in SUBSET Seq(C) /\ PrefixFree(P)
  BY <1>1, <1>2 DEF PrefixFree
<1>4. a \in [1 .. KeyColumns -> P] /\ b \in [1 .. KeyColumns -> P]
  BY DEF Key
<1>5. Appended(a) = Appended(b)
  BY Zenon DEF ComputeJoinKey, Part
<1>6. KeyColumns \in Nat
  BY JoinAssumption
<1> HIDE DEF P, a, b, C
<1>7. a = b
  BY <1>3, <1>4, <1>5, <1>6, AppendedInjective, Zenon
<1>8. ASSUME NEW i \in 1 .. KeyColumns PROVE k[i] = l[i]
  <2>1. a[i] = Part(k[i]) /\ b[i] = Part(l[i])
    BY DEF a, b
  <2>2. k[i] \in Seq(Char) /\ l[i] \in Seq(Char)
    BY DEF Key
  <2>3. IsPrefixOf(Part(k[i]), Part(l[i]))
    BY <1>1, <1>7, <2>1, <2>2 DEF IsPrefixOf
  <2> QED
    BY <1>2, <2>2, <2>3
<1>9. k = [i \in 1 .. KeyColumns |-> k[i]] /\ l = [i \in 1 .. KeyColumns |-> l[i]]
  BY Zenon DEF Key
<1> QED
  BY <1>8, <1>9, Zenon

-----------------------------------------------------------------------------
(* The matches of a joinable probe row q are the build rows it joins.      *)
AllMatches(q, s) ==
    /\ s \in Seq(Nat) /\ Increasing(s)
    /\ \A n \in DOMAIN s : s[n] \in DOMAIN build_rows /\ <<build_rows[s[n]], q>> \in Join
    /\ \A m \in Join : m[2] = q => \E n \in DOMAIN s : m[1] = build_rows[s[n]]

LEMMA MatchesAreJoined ==
    ASSUME Typed, RowsInv, TableInv, PhaseInv, built, NEW q \in Joinable(probe)
    PROVE  AllMatches(q, Matches(ComputeJoinKey(RowAt(probe, q).key)))
<1> DEFINE l == RowAt(probe, q).key
<1> DEFINE k == ComputeJoinKey(l)
<1> DEFINE s == Matches(k)
<1>1. l \in Key
  BY JoinableRows DEF Typed
<1>2. \A i \in DOMAIN build_rows :
         build_rows[i] \in Joinable(build) /\ RowAt(build, build_rows[i]).key \in Key
  BY JoinableRows DEF Typed, RowsInv
<1>3. \A p \in Joinable(build) : \E i \in DOMAIN build_rows : build_rows[i] = p
  <2> SUFFICES ASSUME NEW p \in Joinable(build) PROVE \E i \in DOMAIN build_rows : build_rows[i] = p
    OBVIOUS
  <2>1. p \in Place /\ InChild(build, p)
    BY JoinableRows DEF Typed
  <2>2. Before(p, build_place)
    BY <2>1 DEF Before, InChild, PhaseInv, Typed, Place
  <2> QED
    BY <2>2 DEF RowsInv
<1> HIDE DEF l
<1>4. \A i \in DOMAIN build_rows : KeyOf(i) = k <=> RowAt(build, build_rows[i]).key = l
  BY <1>1, <1>2, JoinKeysDiffer DEF KeyOf
<1> HIDE DEF k
<1>5. s \in Seq(Nat) /\ Increasing(s) /\ \A n \in DOMAIN s : s[n] \in DOMAIN build_rows /\ KeyOf(s[n]) = k
  <2>1. CASE k \in DOMAIN hash_table
    BY <2>1 DEF TableInv, Matches
  <2>2. CASE k \notin DOMAIN hash_table
    BY <2>2 DEF Matches, Increasing
  <2> QED
    BY <2>1, <2>2
<1>6. \A i \in DOMAIN build_rows : KeyOf(i) = k => \E n \in DOMAIN s : s[n] = i
  BY DEF TableInv, Matches
<1> HIDE DEF s
<1>7. ASSUME NEW n \in DOMAIN s PROVE <<build_rows[s[n]], q>> \in Join
  <2>1. build_rows[s[n]] \in Joinable(build) /\ RowAt(build, build_rows[s[n]]).key = l
    BY <1>2, <1>4, <1>5
  <2> QED
    BY <2>1, Zenon DEF Join, l
<1>8. ASSUME NEW m \in Join, m[2] = q PROVE \E n \in DOMAIN s : m[1] = build_rows[s[n]]
  <2>1. m[1] \in Joinable(build) /\ RowAt(build, m[1]).key = l
    BY <1>8 DEF Join, l
  <2>2. PICK i \in DOMAIN build_rows : build_rows[i] = m[1]
    BY <1>3, <2>1
  <2>3. KeyOf(i) = k
    BY <1>4, <2>1, <2>2
  <2> QED
    BY <1>6, <2>2, <2>3
<1> QED
  BY <1>5, <1>7, <1>8, Zenon DEF AllMatches, s, k, l

(* A pair of the join is one of places. *)
LEMMA JoinedPlaces ==
    ASSUME Typed, NEW m \in Join
    PROVE  /\ m \in Place \X Place /\ m = <<m[1], m[2]>>
           /\ m[1] \in Joinable(build) /\ m[2] \in Joinable(probe)
           /\ m[1] \in Place /\ m[2] \in Place /\ InChild(probe, m[2])
<1>1. m[1] \in Joinable(build) /\ m[2] \in Joinable(probe) /\ m = <<m[1], m[2]>>
  BY DEF Join
<1>2. m[1] \in Place /\ m[2] \in Place /\ InChild(probe, m[2])
  BY <1>1, JoinableRows DEF Typed
<1> QED
  BY <1>1, <1>2

(* The matches at hand are those of the row at hand. *)
LEMMA MatchesAtHand ==
    ASSUME JoinInv, current_matches # << >>
    PROVE  /\ has_probe_chunk /\ built /\ Frontier = ProbePlace
           /\ ProbePlace \in Joinable(probe) /\ AllMatches(ProbePlace, current_matches)
<1>1. has_probe_chunk /\ built
  BY DEF JoinInv, PlaceInv, PhaseInv, Typed
<1>2. ProbePlace \in Joinable(probe) /\ current_matches = Matches(ComputeJoinKey(ProbeRow.key))
  BY DEF JoinInv, PlaceInv
<1>3. AllMatches(ProbePlace, Matches(ComputeJoinKey(RowAt(probe, ProbePlace).key)))
  BY <1>1, <1>2, MatchesAreJoined DEF JoinInv
<1> QED
  BY <1>1, <1>2, <1>3 DEF ProbeRow, Frontier

LEMMA FrontierIsPlace ==
    ASSUME Typed, Cursors
    PROVE  Frontier \in Place
<1>1. fetched \in Nat /\ current_probe_row \in Nat \ {0}
  BY DEF Typed, Cursors
<1>2. has_probe_chunk => fetched # 0
  BY DEF Cursors
<1>3. CASE has_probe_chunk
  BY <1>1, <1>2, <1>3 DEF Frontier, ProbePlace, Place
<1>4. CASE ~has_probe_chunk
  BY <1>1, <1>4 DEF Frontier, Place
<1> QED
  BY <1>3, <1>4

(* What has been passed is earlier than what has not. *)
LEMMA PassedIsEarlier ==
    ASSUME JoinInv, NEW m \in Join, NEW n \in Join, Passed(m), ~Passed(n)
    PROVE  Earlier(m, n)
<1> DEFINE F == Frontier
<1>1. F \in Place
  BY FrontierIsPlace DEF JoinInv
<1>2. m[1] \in Place /\ m[2] \in Place /\ n[1] \in Place /\ n[2] \in Place
  BY JoinedPlaces DEF JoinInv
<1>3. ~Before(n[2], F)
  BY DEF Passed
<1>4. n[2] = F \/ Before(F, n[2])
  BY <1>1, <1>2, <1>3, PlacesOrdered
<1>5. CASE Before(m[2], F)
  <2>1. Before(m[2], n[2])
    BY <1>1, <1>2, <1>4, <1>5, PlacesTransitive
  <2> QED
    BY <2>1 DEF Earlier
<1>6. CASE ~Before(m[2], F)
  <2>1. PICK i \in DOMAIN current_matches : i < current_match_index /\ m[1] = build_rows[current_matches[i]]
    BY <1>6 DEF Passed
  <2>2. m[2] = F
    BY <1>6 DEF Passed
  <2>3. CASE Before(F, n[2])
    BY <2>2, <2>3 DEF Earlier
  <2>4. CASE n[2] = F
    <3>1. current_matches # << >>
      BY <2>1
    <3>2. F = ProbePlace /\ AllMatches(F, current_matches)
      BY <3>1, MatchesAtHand
    <3>3. PICK j \in DOMAIN current_matches : n[1] = build_rows[current_matches[j]]
      BY <2>4, <3>2 DEF AllMatches
    <3>4. ~(j < current_match_index)
      BY <2>4, <3>3 DEF Passed
    <3>5. i \in Nat /\ j \in Nat /\ current_match_index \in Nat
      BY DEF JoinInv, Typed
    <3>6. i < j
      BY <2>1, <3>4, <3>5
    <3>7. /\ current_matches[i] < current_matches[j]
          /\ current_matches[i] \in DOMAIN build_rows /\ current_matches[j] \in DOMAIN build_rows
      BY <3>2, <3>6, Zenon DEF AllMatches, Increasing
    <3>8. Before(m[1], n[1])
      BY <2>1, <3>3, <3>7 DEF JoinInv, RowsInv
    <3> QED
      BY <2>2, <2>4, <3>8 DEF Earlier
  <2> QED
    BY <1>4, <2>3, <2>4
<1> QED
  BY <1>5, <1>6

-----------------------------------------------------------------------------
(* The invariant is inductive: one lemma per action. *)
LEMMA InitInv == Init => JoinInv
<1> SUFFICES ASSUME Init PROVE JoinInv
  OBVIOUS
<1>1. Typed
  <2>1. build \in Seq(Seq(Row)) /\ probe \in Seq(Seq(Row))
    BY JoinAssumption DEF Init
  <2>2. build_place \in Place
    BY DEF Init, Place
  <2>3. << >> \in Seq(Place) /\ << >> \in Seq(Nat) /\ << >> \in Seq(Place \X Place) /\ 1 \in Nat \ {0}
    OBVIOUS
  <2> QED
    BY <2>1, <2>2, <2>3, Zenon DEF Init, Typed
<1>2. Cursors /\ PhaseInv /\ PlaceInv
  BY <1>1, JoinAssumption DEF Init, Cursors, PhaseInv, PlaceInv, Typed
<1>3. ASSUME NEW p \in Place PROVE ~Before(p, <<1, 1>>)
  BY DEF Place, Before
<1>4. RowsInv
  <2>1. \A p \in Joinable(build) : p \in Place
    BY <1>1, JoinableRows DEF Typed
  <2> QED
    BY <1>3, <2>1 DEF Init, RowsInv
<1>5. TableInv
  BY DEF Init, TableInv
<1>6. OutputInv
  <2>1. Returned = << >> /\ Frontier = <<1, 1>> /\ current_matches = << >>
    BY DEF Init, Returned, Frontier
  <2>2. ASSUME NEW m \in Join PROVE ~Passed(m)
    BY <1>1, <1>3, <2>1, JoinedPlaces DEF Passed
  <2> QED
    BY <2>1, <2>2 DEF OutputInv, Ascending
<1> QED
  BY <1>1, <1>2, <1>4, <1>5, <1>6 DEF JoinInv

(* A step that returns no row and passes none. *)
LEMMA OutputKept ==
    ASSUME JoinInv, UNCHANGED children, Returned' = Returned,
           \A m \in Join : Passed(m)' <=> Passed(m)
    PROVE  OutputInv'
<1>1. Join' = Join
  BY DEF children, Join
<1> QED
  BY <1>1 DEF JoinInv, OutputInv, Ascending

(* A step that leaves the table and the place alone. *)
LEMMA TableKept ==
    ASSUME JoinInv, UNCHANGED <<children, table>>
    PROVE  RowsInv' /\ TableInv'
<1>1. RowsInv /\ TableInv
  BY DEF JoinInv
<1>2. RowsInv'
  BY <1>1 DEF RowsInv, children, table
<1>3. TableInv'
  BY <1>1 DEF TableInv, KeyOf, children, table
<1> QED
  BY <1>2, <1>3

LEMMA PlaceKept ==
    ASSUME JoinInv, UNCHANGED <<children, table, fetched, has_probe_chunk, place>>
    PROVE  /\ RowsInv' /\ TableInv' /\ PlaceInv'
           /\ \A m \in Join : Passed(m)' <=> Passed(m)
<1>1. PlaceInv
  BY DEF JoinInv
<1>2. PlaceInv'
  BY <1>1 DEF PlaceInv, ProbePlace, ProbeRow, Matches, children, table, place
<1>3. Frontier' = Frontier
  BY DEF Frontier, ProbePlace, place
<1>4. \A m \in Join : Passed(m)' <=> Passed(m)
  BY <1>3, Zenon DEF Passed, place, table
<1> QED
  BY <1>2, <1>4, TableKept

LEMMA GetNextInv ==
    ASSUME JoinInv, GetNext
    PROVE  JoinInv'
<1>p. Typed /\ Cursors /\ PhaseInv
  BY DEF JoinInv
<1>1. Typed' /\ Cursors'
  BY <1>p, JoinAssumption DEF GetNext, Typed, Cursors, children, table, place
<1>2. PhaseInv'
  BY <1>p DEF GetNext, PhaseInv, Typed, children, table, place
<1>3. UNCHANGED <<children, table, fetched, has_probe_chunk, place>>
  BY DEF GetNext
<1>4. Returned' = Returned
  BY <1>p DEF GetNext, Returned, Typed
<1> QED
  BY <1>1, <1>2, <1>3, <1>4, PlaceKept, OutputKept DEF JoinInv

(* While the table is built nothing has been returned or passed. *)
LEMMA BuildingInv ==
    ASSUME JoinInv, pc = "build", pc' = "build",
           UNCHANGED <<children, built, fetched, has_probe_chunk, place, batch, output>>,
           build_place' \in Place, build_rows' \in Seq(Place)
    PROVE  Typed' /\ Cursors' /\ PhaseInv' /\ PlaceInv' /\ OutputInv'
<1>p. Typed /\ Cursors /\ PhaseInv /\ PlaceInv
  BY DEF JoinInv
<1>1. ~built /\ fetched = 0 /\ ~has_probe_chunk /\ batch = << >> /\ output = << >>
  BY <1>p DEF PhaseInv
<1>2. current_matches = << >>
  BY <1>p, <1>1 DEF PlaceInv
<1>3. Typed' /\ Cursors'
  BY <1>p DEF Typed, Cursors, children, place
<1>4. PhaseInv' /\ PlaceInv'
  BY <1>p, <1>1, <1>2 DEF PhaseInv, PlaceInv, children, place
<1>5. Returned' = Returned
  BY DEF Returned
<1>6. Frontier' = Frontier
  BY DEF Frontier, ProbePlace, place
<1>7. \A m \in Join : Passed(m)' <=> Passed(m)
  BY <1>2, <1>6 DEF Passed, place
<1> QED
  BY <1>3, <1>4, <1>5, <1>7, OutputKept

(* The places before the next one of a chunk, and before the next chunk. *)
LEMMA NextPlace ==
    ASSUME NEW child \in Seq(Seq(Row)), NEW p \in Place, p[1] <= Len(child)
    PROVE  /\ <<p[1], p[2] + 1>> \in Place /\ <<p[1] + 1, 1>> \in Place
           /\ Before(p, <<p[1], p[2] + 1>>) /\ Before(p, <<p[1] + 1, 1>>)
           /\ \A q \in Place : Before(q, <<p[1], p[2] + 1>>) => Before(q, p) \/ q = p
           /\ p[2] > Len(child[p[1]]) =>
                 \A q \in Joinable(child) : Before(q, <<p[1] + 1, 1>>) => Before(q, p)
<1>1. PICK a \in Nat \ {0}, b \in Nat \ {0} : p = <<a, b>>
  BY DEF Place
<1>2. <<a, b + 1>> \in Place /\ <<a + 1, 1>> \in Place /\ Before(p, <<a, b + 1>>) /\ Before(p, <<a + 1, 1>>)
  BY <1>1 DEF Place, Before
<1>3. ASSUME NEW q \in Place, Before(q, <<a, b + 1>>) PROVE Before(q, p) \/ q = p
  <2>1. PICK c \in Nat \ {0}, d \in Nat \ {0} : q = <<c, d>>
    BY DEF Place
  <2> QED
    BY <1>1, <1>3, <2>1 DEF Before
<1>4. ASSUME b > Len(child[a]), NEW q \in Joinable(child), Before(q, <<a + 1, 1>>) PROVE Before(q, p)
  <2>1. q \in Place /\ InChild(child, q)
    BY JoinableRows
  <2>2. PICK c \in Nat \ {0}, d \in Nat \ {0} : q = <<c, d>>
    BY <2>1 DEF Place
  <2>3. c \in 1 .. Len(child) /\ d \in 1 .. Len(child[c]) /\ Len(child[c]) \in Nat
    BY <2>1, <2>2 DEF InChild
  <2>4. c < a \/ c = a
    BY <1>4, <2>2 DEF Before
  <2>5. c = a => d < b
    BY <1>4, <2>3
  <2> QED
    BY <1>1, <2>2, <2>4, <2>5 DEF Before
<1> QED
  BY <1>1, <1>2, <1>3, <1>4, Zenon

LEMMA NextBuildChunkInv ==
    ASSUME JoinInv, NextBuildChunk
    PROVE  JoinInv'
<1>p. Typed /\ RowsInv /\ TableInv
  BY DEF JoinInv
<1> DEFINE p == build_place
<1>1. build \in Seq(Seq(Row)) /\ p \in Place /\ p[1] <= Len(build) /\ p[2] > Len(build[p[1]])
  BY <1>p DEF Typed, NextBuildChunk
<1>2. build_place' = <<p[1] + 1, 1>> /\ UNCHANGED <<build, build_rows, hash_table>>
  BY DEF NextBuildChunk, children
<1> HIDE DEF p
<1>3. build_place' \in Place /\ Before(p, build_place')
  BY <1>1, <1>2, NextPlace, Zenon
<1>4. \A q \in Joinable(build) : Before(q, build_place') => Before(q, p)
  BY <1>1, <1>2, NextPlace, Zenon
<1>5. \A i \in DOMAIN build_rows : Before(build_rows[i], build_place')
  BY <1>p, <1>1, <1>3, PlacesTransitive DEF Typed, RowsInv, p
<1>6. RowsInv'
  BY <1>p, <1>2, <1>4, <1>5 DEF RowsInv, p
<1>7. TableInv'
  BY <1>p, <1>2 DEF TableInv, KeyOf
<1>8. Typed' /\ Cursors' /\ PhaseInv' /\ PlaceInv' /\ OutputInv'
  BY <1>p, <1>2, <1>3, BuildingInv DEF NextBuildChunk, Typed
<1> QED
  BY <1>6, <1>7, <1>8 DEF JoinInv

(* A row that is not kept. *)
LEMMA BuildRowSkipsInv ==
    ASSUME JoinInv, BuildRow, build_place \notin Joinable(build), UNCHANGED <<build_rows, hash_table>>
    PROVE  JoinInv'
<1>p. Typed /\ RowsInv /\ TableInv
  BY DEF JoinInv
<1> DEFINE p == build_place
<1>1. build \in Seq(Seq(Row)) /\ p \in Place /\ p[1] <= Len(build)
  BY <1>p DEF Typed, BuildRow
<1>2. build_place' = <<p[1], p[2] + 1>> /\ UNCHANGED build
  BY DEF BuildRow, children
<1> HIDE DEF p
<1>3. build_place' \in Place /\ Before(p, build_place')
  BY <1>1, <1>2, NextPlace, Zenon
<1>4. \A q \in Joinable(build) : Before(q, build_place') => Before(q, p)
  <2>1. \A q \in Joinable(build) : q \in Place /\ q # p
    BY <1>1, JoinableRows DEF p
  <2> QED
    BY <1>1, <1>2, <2>1, NextPlace, Zenon
<1>5. \A i \in DOMAIN build_rows : Before(build_rows[i], build_place')
  BY <1>p, <1>1, <1>3, PlacesTransitive DEF Typed, RowsInv, p
<1>6. RowsInv'
  BY <1>p, <1>2, <1>4, <1>5 DEF RowsInv, p
<1>7. TableInv'
  BY <1>p, <1>2 DEF TableInv, KeyOf
<1>8. Typed' /\ Cursors' /\ PhaseInv' /\ PlaceInv' /\ OutputInv'
  BY <1>p, <1>2, <1>3, BuildingInv DEF BuildRow, Typed
<1> QED
  BY <1>6, <1>7, <1>8 DEF JoinInv

(* A row that is kept. *)
LEMMA BuildRowKeepsInv ==
    ASSUME JoinInv, BuildRow, build_place \in Joinable(build),
           NEW key, key = ComputeJoinKey(RowAt(build, build_place).key),
           build_rows' = Append(build_rows, build_place),
           hash_table' = [k \in DOMAIN hash_table \cup {key} |->
               IF k = key THEN Append(Matches(key), Len(build_rows) + 1) ELSE hash_table[k]]
    PROVE  JoinInv'
<1>p. Typed /\ RowsInv /\ TableInv
  BY DEF JoinInv
<1> DEFINE p == build_place
<1> DEFINE N == Len(build_rows)
<1>1. build \in Seq(Seq(Row)) /\ p \in Place /\ p[1] <= Len(build)
  BY <1>p DEF Typed, BuildRow
<1>2. build_place' = <<p[1], p[2] + 1>> /\ UNCHANGED build
  BY DEF BuildRow, children
<1>3. /\ build_rows \in Seq(Place) /\ N \in Nat /\ DOMAIN build_rows = 1 .. N
      /\ build_rows' \in Seq(Place) /\ DOMAIN build_rows' = 1 .. N + 1
      /\ build_rows'[N + 1] = p /\ \A i \in 1 .. N : build_rows'[i] = build_rows[i]
  BY <1>p DEF Typed
<1>4. p \in Joinable(build)
  OBVIOUS
<1> HIDE DEF p, N
<1>5. build_place' \in Place /\ Before(p, build_place')
  BY <1>1, <1>2, NextPlace, Zenon
<1>6. \A q \in Joinable(build) : Before(q, build_place') => Before(q, p) \/ q = p
  <2>1. \A q \in Joinable(build) : q \in Place
    BY <1>1, JoinableRows
  <2> QED
    BY <1>1, <1>2, <2>1, NextPlace, Zenon
<1>7. \A i \in 1 .. N : build_rows[i] \in Joinable(build) /\ Before(build_rows[i], p)
  BY <1>p, <1>3 DEF RowsInv, p
<1>8. \A i \in 1 .. N : Before(build_rows[i], build_place')
  BY <1>1, <1>3, <1>5, <1>7, PlacesTransitive
<1>9. RowsInv'
  <2>1. ASSUME NEW i \in 1 .. N + 1
        PROVE  build_rows'[i] \in Joinable(build) /\ Before(build_rows'[i], build_place')
    BY <1>3, <1>4, <1>5, <1>7, <1>8
  <2>2. ASSUME NEW i \in 1 .. N + 1, NEW j \in 1 .. N + 1, i < j
        PROVE  Before(build_rows'[i], build_rows'[j])
    <3>1. CASE j = N + 1
      BY <1>3, <1>7, <2>2, <3>1
    <3>2. CASE j # N + 1
      <4>1. i \in DOMAIN build_rows /\ j \in DOMAIN build_rows
        BY <1>3, <2>2, <3>2
      <4> QED
        BY <1>p, <1>3, <2>2, <4>1 DEF RowsInv
    <3> QED
      BY <3>1, <3>2, Zenon
  <2>3. ASSUME NEW q \in Joinable(build), Before(q, build_place')
        PROVE  \E i \in 1 .. N + 1 : build_rows'[i] = q
    <3>1. CASE q = p
      BY <1>3, <3>1
    <3>2. CASE Before(q, p)
      <4>1. PICK i \in DOMAIN build_rows : build_rows[i] = q
        BY <1>p, <3>2 DEF RowsInv, p
      <4> QED
        BY <1>3, <4>1
    <3> QED
      BY <1>6, <2>3, <3>1, <3>2, Zenon
  <2> QED
    BY <1>2, <1>3, <2>1, <2>2, <2>3, Zenon DEF RowsInv
<1> DEFINE K(i) == ComputeJoinKey(RowAt(build, build_rows'[i]).key)
<1>10. K(N + 1) = key /\ \A i \in 1 .. N : K(i) = KeyOf(i)
  BY <1>3 DEF KeyOf, p
<1> HIDE DEF K
<1> DEFINE s == Matches(key)
<1>11. /\ s \in Seq(Nat) /\ Increasing(s)
       /\ \A n \in DOMAIN s : s[n] \in 1 .. N /\ KeyOf(s[n]) = key
  <2>1. CASE key \in DOMAIN hash_table
    BY <1>p, <1>3, <2>1 DEF TableInv, Matches
  <2>2. CASE key \notin DOMAIN hash_table
    BY <2>2 DEF Matches, Increasing
  <2> QED
    BY <2>1, <2>2
<1>12. key \in DOMAIN hash_table => hash_table[key] = s
  BY DEF Matches
<1>13. /\ DOMAIN hash_table' = DOMAIN hash_table \cup {key}
       /\ hash_table'[key] = Append(s, N + 1)
       /\ \A k \in DOMAIN hash_table : k # key => hash_table'[k] = hash_table[k]
  BY DEF N
<1> HIDE DEF s
<1> DEFINE t == Append(s, N + 1)
<1>14. /\ t \in Seq(Nat) /\ DOMAIN t = 1 .. Len(s) + 1 /\ DOMAIN s = 1 .. Len(s) /\ Len(s) \in Nat
       /\ t[Len(s) + 1] = N + 1 /\ \A n \in 1 .. Len(s) : t[n] = s[n]
  BY <1>3, <1>11
<1> HIDE DEF t
<1>15. Increasing(t)
  <2> SUFFICES ASSUME NEW m \in DOMAIN t, NEW n \in DOMAIN t, m < n PROVE t[m] < t[n]
    BY DEF Increasing
  <2>1. m \in DOMAIN s /\ t[m] = s[m] /\ s[m] \in 1 .. N
    BY <1>11, <1>14
  <2>2. CASE n = Len(s) + 1
    BY <1>3, <1>14, <2>1, <2>2
  <2>3. CASE n # Len(s) + 1
    <3>1. n \in DOMAIN s /\ t[n] = s[n]
      BY <1>14, <2>3
    <3>2. s[m] < s[n]
      BY <1>11, <2>1, <3>1 DEF Increasing
    <3> QED
      BY <2>1, <3>1, <3>2
  <2> QED
    BY <2>2, <2>3
<1>16. \A n \in DOMAIN t : t[n] \in 1 .. N + 1 /\ K(t[n]) = key
  <2> SUFFICES ASSUME NEW n \in DOMAIN t PROVE t[n] \in 1 .. N + 1 /\ K(t[n]) = key
    OBVIOUS
  <2>1. CASE n = Len(s) + 1
    BY <1>3, <1>10, <1>14, <2>1
  <2>2. CASE n # Len(s) + 1
    <3>1. n \in DOMAIN s /\ t[n] = s[n]
      BY <1>14, <2>2
    <3>2. s[n] \in 1 .. N /\ KeyOf(s[n]) = key
      BY <1>11, <3>1
    <3>3. K(s[n]) = key
      BY <1>10, <3>2
    <3> QED
      BY <1>3, <3>1, <3>2, <3>3
  <2> QED
    BY <2>1, <2>2
<1>17. TableInv'
  <2>1. ASSUME NEW i \in 1 .. N + 1
        PROVE  /\ K(i) \in DOMAIN hash_table'
               /\ \E n \in DOMAIN hash_table'[K(i)] : hash_table'[K(i)][n] = i
    <3>1. CASE i = N + 1
      <4>1. K(i) = key /\ hash_table'[key] = t
        BY <1>10, <1>13, <3>1 DEF t
      <4>2. Len(s) + 1 \in DOMAIN t /\ t[Len(s) + 1] = i
        BY <1>14, <3>1
      <4> QED
        BY <1>13, <4>1, <4>2, Zenon
    <3>2. CASE i # N + 1
      <4>1. i \in 1 .. N /\ K(i) = KeyOf(i)
        BY <1>3, <1>10, <3>2
      <4>2. KeyOf(i) \in DOMAIN hash_table /\ \E n \in DOMAIN hash_table[KeyOf(i)] : hash_table[KeyOf(i)][n] = i
        BY <1>p, <1>3, <4>1 DEF TableInv
      <4>3. CASE KeyOf(i) # key
        BY <1>13, <4>1, <4>2, <4>3
      <4>4. CASE KeyOf(i) = key
        <5>1. PICK n \in DOMAIN s : s[n] = i
          BY <1>12, <4>2, <4>4
        <5>2. n \in DOMAIN t /\ t[n] = i
          BY <1>14, <5>1
        <5> QED
          BY <1>13, <4>1, <4>4, <5>2 DEF t
      <4> QED
        BY <4>3, <4>4, Zenon
    <3> QED
      BY <3>1, <3>2, Zenon
  <2>2. ASSUME NEW k \in DOMAIN hash_table'
        PROVE  /\ hash_table'[k] \in Seq(Nat) /\ Increasing(hash_table'[k])
               /\ \A n \in DOMAIN hash_table'[k] :
                     hash_table'[k][n] \in 1 .. N + 1 /\ K(hash_table'[k][n]) = k
    <3>1. CASE k = key
      <4>1. hash_table'[k] = t
        BY <1>13, <3>1 DEF t
      <4> QED
        BY <1>14, <1>15, <1>16, <3>1, <4>1, Zenon
    <3>2. CASE k # key
      <4>1. k \in DOMAIN hash_table /\ hash_table'[k] = hash_table[k]
        BY <1>13, <3>2
      <4>2. /\ hash_table[k] \in Seq(Nat) /\ Increasing(hash_table[k])
            /\ \A n \in DOMAIN hash_table[k] : hash_table[k][n] \in 1 .. N /\ KeyOf(hash_table[k][n]) = k
        BY <1>p, <1>3, <4>1 DEF TableInv
      <4>3. \A n \in DOMAIN hash_table[k] : hash_table[k][n] \in 1 .. N + 1 /\ K(hash_table[k][n]) = k
        BY <1>3, <1>10, <4>2
      <4> QED
        BY <4>1, <4>2, <4>3, Zenon
    <3> QED
      BY <3>1, <3>2, Zenon
  <2>3. \A i : K(i) = ComputeJoinKey(RowAt(build', build_rows'[i]).key)
    BY <1>2 DEF K
  <2>4. \A i \in DOMAIN build_rows' :
           KeyOf(i)' \in DOMAIN hash_table' /\ \E n \in DOMAIN hash_table'[KeyOf(i)'] : hash_table'[KeyOf(i)'][n] = i
    BY <1>3, <2>1, <2>3, Zenon DEF KeyOf
  <2>5. \A k \in DOMAIN hash_table' : \A n \in DOMAIN hash_table'[k] :
           hash_table'[k][n] \in DOMAIN build_rows' /\ KeyOf(hash_table[k][n])' = k
    BY <1>3, <2>2, <2>3, Zenon DEF KeyOf
  <2> QED
    BY <2>2, <2>4, <2>5, Zenon DEF TableInv
<1>18. Typed' /\ Cursors' /\ PhaseInv' /\ PlaceInv' /\ OutputInv'
  BY <1>3, <1>5, BuildingInv DEF BuildRow
<1> QED
  BY <1>9, <1>17, <1>18 DEF JoinInv

LEMMA BuildRowInv ==
    ASSUME JoinInv, BuildRow
    PROVE  JoinInv'
<1> DEFINE row == RowAt(build, build_place)
<1>p. build \in Seq(Seq(Row)) /\ build_place \in Place
  BY DEF JoinInv, Typed
<1>1. InChild(build, build_place)
  BY <1>p DEF BuildRow, InChild, Place
<1>2. build_place \in Joinable(build) <=> row.selected /\ HasKey(row)
  BY <1>p, <1>1, JoinableRows
<1>3. CASE row.selected /\ HasKey(row)
  BY <1>2, <1>3, BuildRowKeepsInv DEF BuildRow
<1>4. CASE ~(row.selected /\ HasKey(row))
  BY <1>2, <1>4, BuildRowSkipsInv DEF BuildRow
<1> QED
  BY <1>3, <1>4

LEMMA BuildEndInv ==
    ASSUME JoinInv, BuildEnd
    PROVE  JoinInv'
<1>p. Typed /\ Cursors /\ PhaseInv
  BY DEF JoinInv
<1>1. Typed' /\ Cursors'
  BY <1>p DEF BuildEnd, Typed, Cursors, children, table, place
<1>2. PhaseInv'
  BY <1>p DEF BuildEnd, PhaseInv, Typed, children, table, place
<1>3. UNCHANGED <<children, table, fetched, has_probe_chunk, place>>
  BY DEF BuildEnd
<1>4. Returned' = Returned
  BY DEF BuildEnd, Returned
<1> QED
  BY <1>1, <1>2, <1>3, <1>4, PlaceKept, OutputKept DEF JoinInv

-----------------------------------------------------------------------------
(* Between two chunks of the probe child, and at the end of a batch, the   *)
(* place and the rows returned stay.                                       *)
LEMMA ProbeExhaustedInv ==
    ASSUME JoinInv, ProbeExhausted
    PROVE  JoinInv'
<1>p. Typed /\ Cursors /\ PhaseInv
  BY DEF JoinInv
<1>1. Typed' /\ Cursors'
  BY <1>p DEF ProbeExhausted, Typed, Cursors, children, table, place
<1>2. PhaseInv'
  BY <1>p DEF ProbeExhausted, PhaseInv, Typed, children, table, place
<1>3. UNCHANGED <<children, table, fetched, has_probe_chunk, place>>
  BY DEF ProbeExhausted
<1>4. batch = << >> /\ output \o << >> = output
  BY <1>p DEF ProbeExhausted, PhaseInv, Typed
<1>5. Returned' = Returned
  BY <1>4 DEF ProbeExhausted, Returned
<1> QED
  BY <1>1, <1>2, <1>3, <1>5, PlaceKept, OutputKept DEF JoinInv

LEMMA ResumeProbeChunkInv ==
    ASSUME JoinInv, ResumeProbeChunk
    PROVE  JoinInv'
<1>p. Typed /\ Cursors /\ PhaseInv
  BY DEF JoinInv
<1>1. Typed' /\ Cursors'
  BY <1>p DEF ResumeProbeChunk, Typed, Cursors, children, table, place
<1>2. PhaseInv'
  BY <1>p DEF ResumeProbeChunk, PhaseInv, Typed, children, table, place
<1>3. UNCHANGED <<children, table, fetched, has_probe_chunk, place>>
  BY DEF ResumeProbeChunk
<1>4. Returned' = Returned
  BY DEF ResumeProbeChunk, Returned
<1> QED
  BY <1>1, <1>2, <1>3, <1>4, PlaceKept, OutputKept DEF JoinInv

LEMMA BatchFullInv ==
    ASSUME JoinInv, BatchFull
    PROVE  JoinInv'
<1>p. Typed /\ Cursors /\ PhaseInv
  BY DEF JoinInv
<1>1. Typed' /\ Cursors'
  BY <1>p DEF BatchFull, Typed, Cursors, children, table, place
<1>2. PhaseInv'
  BY <1>p DEF BatchFull, PhaseInv, Typed, children, table, place
<1>3. UNCHANGED <<children, table, fetched, has_probe_chunk, place>>
  BY DEF BatchFull
<1>4. Returned' = Returned
  BY DEF BatchFull, Returned
<1> QED
  BY <1>1, <1>2, <1>3, <1>4, PlaceKept, OutputKept DEF JoinInv

LEMMA NextProbeChunkInv ==
    ASSUME JoinInv, NextProbeChunk
    PROVE  JoinInv'
<1>p. Typed /\ Cursors /\ PhaseInv /\ PlaceInv
  BY DEF JoinInv
<1>0. /\ fetched' = fetched + 1 /\ has_probe_chunk' = TRUE /\ current_probe_row' = 1
      /\ current_matches' = << >> /\ current_match_index' = 1
      /\ UNCHANGED <<children, table, built, batch, output>>
  BY DEF NextProbeChunk
<1>1. current_matches = << >> /\ ~has_probe_chunk
  BY <1>p DEF NextProbeChunk, PlaceInv
<1>2. fetched + 1 \in 1 .. Len(probe) /\ fetched \in Nat /\ Len(probe) \in Nat /\ probe \in Seq(Seq(Row))
  BY <1>p DEF NextProbeChunk, Typed, Cursors
<1>3. Len(probe[fetched + 1]) \in Nat
  BY <1>2
<1>4. Typed'
  BY <1>p, <1>0 DEF Typed, children, table
<1>5. Cursors'
  BY <1>p, <1>0, <1>2, <1>3 DEF Cursors, children
<1>6. PhaseInv'
  BY <1>p, <1>0 DEF NextProbeChunk, PhaseInv, Typed, children, table
<1>7. PlaceInv'
  BY <1>0 DEF PlaceInv
<1>8. Frontier' = Frontier
  BY <1>0, <1>1 DEF Frontier, ProbePlace
<1>9. \A m \in Join : Passed(m)' <=> Passed(m)
  BY <1>0, <1>1, <1>8 DEF Passed
<1>10. Returned' = Returned
  BY <1>0 DEF NextProbeChunk, Returned
<1> QED
  BY <1>0, <1>4, <1>5, <1>6, <1>7, <1>9, <1>10, TableKept, OutputKept DEF JoinInv

(* The row at hand, and what lies before the one after it. *)
LEMMA RowAtHand ==
    ASSUME JoinInv, Looping
    PROVE  /\ ProbePlace \in Place /\ Frontier = ProbePlace /\ has_probe_chunk /\ built
           /\ fetched \in 1 .. Len(probe) /\ Len(probe[fetched]) \in Nat
           /\ RowsLeft <=> InChild(probe, ProbePlace)
           /\ ~MatchesLeft => current_matches = << >>
           /\ \A m \in Join : Before(m[2], <<fetched, current_probe_row + 1>>) <=>
                                 Before(m[2], ProbePlace) \/ m[2] = ProbePlace
<1>p. Typed /\ Cursors /\ PhaseInv /\ PlaceInv
  BY DEF JoinInv
<1>1. has_probe_chunk /\ built
  BY <1>p DEF Looping, PhaseInv
<1>2. Frontier = ProbePlace
  BY <1>1 DEF Frontier
<1>3. ProbePlace \in Place
  BY <1>p, <1>2, FrontierIsPlace
<1>4. fetched \in 1 .. Len(probe) /\ Len(probe) \in Nat /\ probe \in Seq(Seq(Row))
  BY <1>p, <1>1 DEF Typed, Cursors
<1>5. Len(probe[fetched]) \in Nat
  BY <1>4
<1>6. ProbePlace[1] = fetched /\ ProbePlace[2] = current_probe_row
  BY DEF ProbePlace
<1>7. RowsLeft <=> InChild(probe, ProbePlace)
  BY <1>p, <1>4, <1>5, <1>6 DEF RowsLeft, InChild, Typed
<1>8. ~MatchesLeft => current_matches = << >>
  BY <1>p DEF MatchesLeft, PlaceInv, Typed
<1> DEFINE n == <<fetched, current_probe_row + 1>>
<1>9. n \in Place /\ Before(ProbePlace, n) /\ \A q \in Place : Before(q, n) => Before(q, ProbePlace) \/ q = ProbePlace
  <2>1. n = <<ProbePlace[1], ProbePlace[2] + 1>> /\ ProbePlace[1] <= Len(probe)
    BY <1>4, <1>6
  <2> HIDE DEF n
  <2> QED
    BY <1>3, <1>4, <2>1, NextPlace, Zenon
<1> HIDE DEF n
<1>10. ASSUME NEW m \in Join
       PROVE  Before(m[2], n) <=> Before(m[2], ProbePlace) \/ m[2] = ProbePlace
  <2>1. m[2] \in Place
    BY <1>p, JoinedPlaces
  <2> QED
    BY <1>3, <1>9, <2>1, PlacesTransitive
<1> QED
  BY <1>1, <1>2, <1>3, <1>4, <1>5, <1>7, <1>8, <1>10 DEF n

(* A step to the next row, when the row at hand joins nothing. *)
LEMMA RowWithoutMatches ==
    ASSUME JoinInv, Looping, RowsLeft, current_matches = << >>, current_matches' = << >>,
           current_match_index' = 1, current_probe_row' = current_probe_row + 1,
           UNCHANGED <<children, table, built, fetched, has_probe_chunk, batch, pc, output>>,
           \A m \in Join : m[2] # ProbePlace
    PROVE  JoinInv'
<1>p. Typed /\ Cursors /\ PhaseInv
  BY DEF JoinInv
<1>1. /\ Frontier = ProbePlace /\ has_probe_chunk
      /\ \A m \in Join : Before(m[2], <<fetched, current_probe_row + 1>>) <=>
                            Before(m[2], ProbePlace) \/ m[2] = ProbePlace
      /\ fetched \in 1 .. Len(probe) /\ Len(probe[fetched]) \in Nat
  BY RowAtHand
<1>2. Typed'
  BY <1>p DEF Typed, children, table
<1>3. Cursors'
  BY <1>p, <1>1 DEF Cursors, RowsLeft, Typed, children
<1>4. PhaseInv'
  BY <1>p DEF PhaseInv, children, table
<1>5. PlaceInv'
  BY DEF PlaceInv
<1>6. Frontier' = <<fetched, current_probe_row + 1>>
  BY <1>1 DEF Frontier, ProbePlace
<1>7. \A m \in Join : Passed(m)' <=> Passed(m)
  BY <1>1, <1>6 DEF Passed
<1>8. Returned' = Returned
  BY DEF Returned
<1> QED
  BY <1>2, <1>3, <1>4, <1>5, <1>7, <1>8, TableKept, OutputKept DEF JoinInv

LEMMA SkipRowInv ==
    ASSUME JoinInv, SkipRow
    PROVE  JoinInv'
<1>1. Looping /\ RowsLeft /\ ~MatchesLeft /\ ~(ProbeRow.selected /\ HasKey(ProbeRow))
  BY DEF SkipRow
<1>2. current_matches = << >> /\ probe \in Seq(Seq(Row))
  BY <1>1, RowAtHand DEF JoinInv, Typed
<1>3. current_match_index = 1
  BY <1>2 DEF JoinInv, PlaceInv
<1>4. ProbePlace \notin Joinable(probe)
  BY <1>1, <1>2, JoinableRows DEF ProbeRow
<1>5. \A m \in Join : m[2] # ProbePlace
  BY <1>4, JoinedPlaces DEF JoinInv
<1> QED
  BY <1>1, <1>2, <1>3, <1>5, RowWithoutMatches DEF SkipRow

LEMMA FindMatchesInv ==
    ASSUME JoinInv, FindMatches
    PROVE  JoinInv'
<1>p. Typed /\ Cursors /\ PhaseInv /\ RowsInv /\ TableInv
  BY DEF JoinInv
<1>1. Looping /\ RowsLeft /\ ~MatchesLeft /\ ProbeRow.selected /\ HasKey(ProbeRow)
  BY DEF FindMatches
<1>2. /\ current_matches' = Matches(ComputeJoinKey(ProbeRow.key)) /\ current_match_index' = 1
      /\ UNCHANGED <<children, table, built, fetched, has_probe_chunk, batch, pc, output>>
  BY DEF FindMatches
<1>3. /\ ProbePlace \in Place /\ InChild(probe, ProbePlace) /\ current_matches = << >>
      /\ has_probe_chunk /\ built /\ Frontier = ProbePlace
  BY <1>1, RowAtHand
<1>4. ProbePlace \in Joinable(probe)
  BY <1>p, <1>1, <1>3, JoinableRows DEF ProbeRow, Typed
<1>5. AllMatches(ProbePlace, current_matches')
  BY <1>p, <1>2, <1>3, <1>4, MatchesAreJoined DEF ProbeRow
<1>6. CASE current_matches' = << >>
  <2>1. \A m \in Join : m[2] # ProbePlace
    BY <1>5, <1>6 DEF AllMatches
  <2>2. current_probe_row' = current_probe_row + 1
    BY <1>6 DEF FindMatches
  <2> QED
    BY <1>1, <1>2, <1>3, <1>6, <2>1, <2>2, RowWithoutMatches
<1>7. CASE current_matches' # << >>
  <2>1. current_probe_row' = current_probe_row /\ current_matches' \in Seq(Nat)
    BY <1>5, <1>7 DEF FindMatches, AllMatches
  <2>2. Typed'
    BY <1>p, <1>2, <2>1 DEF Typed, children, table
  <2>3. Cursors' /\ PhaseInv'
    BY <1>p, <1>2, <2>1 DEF Cursors, PhaseInv, children, table
  <2>4. UNCHANGED <<ProbePlace, ProbeRow, probe, hash_table>>
    BY <1>2, <2>1 DEF ProbePlace, ProbeRow, children, table
  <2>5. 1 <= Len(current_matches')
    <3>1. PICK s \in Seq(Nat) : s = current_matches'
      BY <2>1
    <3>2. Len(s) \in Nat /\ (Len(s) = 0 => s = << >>)
      OBVIOUS
    <3> QED
      BY <1>7, <3>1, <3>2
  <2>6. PlaceInv'
    BY <1>2, <1>3, <1>4, <1>7, <2>4, <2>5, Zenon DEF PlaceInv, Matches
  <2>7. Frontier' = Frontier
    BY <1>2, <2>4 DEF Frontier
  <2>8. \A n \in DOMAIN current_matches' : ~(n < 1)
    BY <2>1
  <2>9. \A m \in Join : Passed(m)' <=> Passed(m)
    BY <1>2, <1>3, <2>7, <2>8 DEF Passed
  <2>10. Returned' = Returned
    BY <1>2 DEF Returned
  <2> QED
    BY <1>2, <2>2, <2>3, <2>6, <2>9, <2>10, TableKept, OutputKept DEF JoinInv
<1> QED
  BY <1>6, <1>7

(* A step that returns the next row of the join. *)
LEMMA OutputGrows ==
    ASSUME JoinInv, UNCHANGED children, NEW e \in Join, ~Passed(e), Returned' = Append(Returned, e),
           \A m \in Join : Passed(m)' <=> Passed(m) \/ m = e
    PROVE  OutputInv'
<1> DEFINE R == Returned
<1> DEFINE S == Append(R, e)
<1>1. R \in Seq(Place \X Place) /\ e \in Place \X Place
  BY JoinedPlaces DEF JoinInv, Typed, Returned
<1>2. /\ \A i \in DOMAIN R : R[i] \in Join /\ Passed(R[i])
      /\ \A m \in Join : Passed(m) => \E i \in DOMAIN R : R[i] = m
      /\ Ascending(R)
  BY DEF JoinInv, OutputInv
<1>3. \A i \in DOMAIN R : Earlier(R[i], e)
  BY <1>2, PassedIsEarlier
<1>4. Join' = Join
  BY DEF children, Join
<1> HIDE DEF R
<1>5. /\ DOMAIN R = 1 .. Len(R) /\ Len(R) \in Nat /\ DOMAIN S = 1 .. Len(R) + 1
      /\ S[Len(R) + 1] = e /\ \A i \in 1 .. Len(R) : S[i] = R[i]
  BY <1>1
<1> HIDE DEF S
<1>6. ASSUME NEW i \in DOMAIN S
      PROVE  S[i] \in Join /\ (Passed(S[i]) \/ S[i] = e)
  BY <1>2, <1>5
<1>7. ASSUME NEW m \in Join, Passed(m) \/ m = e
      PROVE  \E i \in DOMAIN S : S[i] = m
  <2>1. CASE m = e
    BY <1>5, <2>1
  <2>2. CASE Passed(m)
    <3>1. PICK i \in DOMAIN R : R[i] = m
      BY <1>2, <2>2
    <3> QED
      BY <1>5, <3>1
  <2> QED
    BY <1>7, <2>1, <2>2
<1>8. ASSUME NEW i \in DOMAIN S, NEW j \in DOMAIN S, i < j
      PROVE  Earlier(S[i], S[j])
  <2>1. i \in DOMAIN R /\ S[i] = R[i]
    BY <1>5, <1>8
  <2>2. CASE j = Len(R) + 1
    BY <1>3, <1>5, <2>1, <2>2
  <2>3. CASE j # Len(R) + 1
    <3>1. j \in DOMAIN R /\ S[j] = R[j]
      BY <1>5, <2>3
    <3> QED
      BY <1>2, <1>8, <2>1, <3>1 DEF Ascending
  <2> QED
    BY <2>2, <2>3
<1>9. Returned' = S
  BY DEF S, R
<1>10. \A i \in DOMAIN S : S[i] \in Join /\ Passed(Returned[i])'
  <2> SUFFICES ASSUME NEW i \in DOMAIN S PROVE S[i] \in Join /\ Passed(Returned[i])'
    BY Zenon
  <2>1. PICK m \in Join : m = S[i]
    BY <1>6
  <2>2. Passed(m)'
    BY <1>6, <2>1
  <2> QED
    BY <1>9, <2>1, <2>2 DEF Passed
<1> QED
  BY <1>4, <1>7, <1>8, <1>9, <1>10, Zenon DEF OutputInv, Ascending

(* The pair to return, and what is passed once it has been. *)
LEMMA NextMatch ==
    ASSUME JoinInv, Looping, RowsLeft, MatchesLeft,
           NEW e, e = <<build_rows[current_matches[current_match_index]], ProbePlace>>
    PROVE  /\ e \in Join /\ ~Passed(e) /\ current_matches # << >>
           /\ current_match_index \in DOMAIN current_matches
           /\ \A m \in Join : (m[2] = ProbePlace => \E n \in DOMAIN current_matches :
                                                      m[1] = build_rows[current_matches[n]])
<1> DEFINE c == current_match_index
<1>p. Typed /\ Cursors /\ RowsInv
  BY DEF JoinInv
<1>1. c \in DOMAIN current_matches /\ current_matches # << >>
  BY <1>p DEF Typed, MatchesLeft
<1>2. AllMatches(ProbePlace, current_matches) /\ Frontier = ProbePlace
  BY <1>1, MatchesAtHand
<1>3. e \in Join
  BY <1>1, <1>2 DEF AllMatches
<1>4. ~Passed(e)
  <2>1. ProbePlace \in Place
    BY RowAtHand
  <2>2. ~Before(e[2], Frontier)
    BY <1>2, <2>1, PlacesOrdered
  <2>3. ASSUME NEW n \in DOMAIN current_matches, n < c PROVE e[1] # build_rows[current_matches[n]]
    <3>1. /\ current_matches[n] < current_matches[c]
          /\ current_matches[n] \in DOMAIN build_rows /\ current_matches[c] \in DOMAIN build_rows
      BY <1>1, <1>2, <2>3, Zenon DEF AllMatches, Increasing
    <3>2. Before(build_rows[current_matches[n]], build_rows[current_matches[c]])
      BY <1>p, <3>1 DEF RowsInv
    <3>3. build_rows[current_matches[n]] \in Place /\ build_rows[current_matches[c]] \in Place
      BY <1>p, <3>1 DEF Typed
    <3>4. build_rows[current_matches[n]] # build_rows[current_matches[c]]
      BY <3>2, <3>3, PlacesOrdered
    <3> QED
      BY <3>4
  <2> QED
    BY <2>2, <2>3 DEF Passed
<1> QED
  BY <1>1, <1>2, <1>3, <1>4 DEF AllMatches

LEMMA EmitMatchInv ==
    ASSUME JoinInv, EmitMatch
    PROVE  JoinInv'
<1>p. Typed /\ Cursors /\ PhaseInv /\ PlaceInv
  BY DEF JoinInv
<1> DEFINE c == current_match_index
<1>0. Looping /\ RowsLeft /\ MatchesLeft /\ pc = "loop"
  BY DEF EmitMatch, Looping
<1>1. PICK e : e = <<build_rows[current_matches[c]], ProbePlace>>
  BY Zenon
<1>2. /\ e \in Join /\ ~Passed(e) /\ current_matches # << >> /\ c \in DOMAIN current_matches
      /\ \A m \in Join : m[2] = ProbePlace => \E n \in DOMAIN current_matches :
                                                m[1] = build_rows[current_matches[n]]
  BY <1>0, <1>1, NextMatch
<1>3. /\ batch' = Append(batch, e)
      /\ UNCHANGED <<children, table, built, fetched, has_probe_chunk, pc, output>>
  BY <1>1 DEF EmitMatch
<1>4. /\ Frontier = ProbePlace /\ has_probe_chunk
      /\ \A m \in Join : Before(m[2], <<fetched, current_probe_row + 1>>) <=>
                            Before(m[2], ProbePlace) \/ m[2] = ProbePlace
      /\ fetched \in 1 .. Len(probe) /\ Len(probe[fetched]) \in Nat
  BY <1>0, RowAtHand
<1>5. /\ current_matches \in Seq(Nat) /\ Len(current_matches) \in Nat
      /\ DOMAIN current_matches = 1 .. Len(current_matches) /\ c \in 1 .. Len(current_matches)
  BY <1>p, <1>2 DEF Typed
<1>6. e \in Place \X Place /\ \A m \in Join : m = <<m[1], m[2]>>
  BY <1>p, <1>2, JoinedPlaces
<1>7. /\ batch' \in Seq(Place \X Place) /\ Len(batch') <= VectorSize
      /\ output \o Append(batch, e) = Append(output \o batch, e)
  <2>1. batch \in Seq(Place \X Place) /\ output \in Seq(Place \X Place) /\ Len(batch) < VectorSize
    BY <1>p, <1>0 DEF Typed, Looping
  <2> QED
    BY <1>3, <1>6, <2>1, JoinAssumption
<1>8. Returned' = Append(Returned, e)
  BY <1>0, <1>3, <1>7 DEF Returned
<1>9. PhaseInv'
  BY <1>p, <1>0, <1>3 DEF PhaseInv, children, table
<1>10. \A m \in Join : m = e <=> m[2] = ProbePlace /\ m[1] = build_rows[current_matches[c]]
  BY <1>1, <1>6
<1>11. \A m \in Join : Passed(m) <=>
          \/ Before(m[2], ProbePlace)
          \/ m[2] = ProbePlace /\ \E n \in DOMAIN current_matches : n < c /\ m[1] = build_rows[current_matches[n]]
  BY <1>4 DEF Passed
<1>12. CASE c < Len(current_matches)
  <2>1. current_match_index' = c + 1 /\ UNCHANGED <<current_probe_row, current_matches>>
    BY <1>12 DEF EmitMatch
  <2>2. Typed'
    BY <1>p, <1>3, <1>7, <2>1 DEF Typed, children, table
  <2>3. Cursors'
    BY <1>p, <1>3, <1>7, <2>1 DEF Cursors, children
  <2>4. UNCHANGED <<ProbePlace, ProbeRow, probe, hash_table, build_rows>>
    BY <1>3, <2>1 DEF ProbePlace, ProbeRow, children, table
  <2>5. PlaceInv'
    BY <1>p, <1>2, <1>3, <1>5, <1>12, <2>1, <2>4 DEF PlaceInv, Matches
  <2>6. Frontier' = ProbePlace
    BY <1>3, <1>4, <2>4 DEF Frontier
  <2>7. \A m \in Join : Passed(m)' <=>
           \/ Before(m[2], ProbePlace)
           \/ m[2] = ProbePlace /\ \E n \in DOMAIN current_matches : n < c + 1 /\ m[1] = build_rows[current_matches[n]]
    BY <2>1, <2>4, <2>6 DEF Passed
  <2>8. \A n \in DOMAIN current_matches : n < c + 1 <=> n < c \/ n = c
    BY <1>5
  <2>9. \A m \in Join : Passed(m)' <=> Passed(m) \/ m = e
    BY <1>2, <1>10, <1>11, <2>7, <2>8
  <2> QED
    BY <1>2, <1>3, <1>8, <1>9, <2>2, <2>3, <2>5, <2>9, TableKept, OutputGrows DEF JoinInv
<1>13. CASE ~(c < Len(current_matches))
  <2>1. /\ current_probe_row' = current_probe_row + 1
        /\ current_matches' = << >> /\ current_match_index' = 1
    BY <1>13 DEF EmitMatch
  <2>2. Typed'
    BY <1>p, <1>3, <1>7, <2>1 DEF Typed, children, table
  <2>3. Cursors'
    BY <1>p, <1>0, <1>3, <1>4, <1>7, <2>1 DEF Cursors, RowsLeft, Typed, children
  <2>4. PlaceInv'
    BY <2>1 DEF PlaceInv
  <2>5. Frontier' = <<fetched, current_probe_row + 1>>
    BY <1>3, <1>4, <2>1 DEF Frontier, ProbePlace
  <2>6. \A m \in Join : Passed(m)' <=> Before(m[2], ProbePlace) \/ m[2] = ProbePlace
    BY <1>4, <2>1, <2>5 DEF Passed
  <2>7. \A n \in DOMAIN current_matches : n < c \/ n = c
    BY <1>5, <1>13
  <2>8. \A m \in Join : Passed(m)' <=> Passed(m) \/ m = e
    BY <1>2, <1>10, <1>11, <2>6, <2>7
  <2> QED
    BY <1>2, <1>3, <1>8, <1>9, <2>2, <2>3, <2>4, <2>8, TableKept, OutputGrows DEF JoinInv
<1> QED
  BY <1>12, <1>13

LEMMA EndOfChunkInv ==
    ASSUME JoinInv, EndOfChunk
    PROVE  JoinInv'
<1>p. Typed /\ Cursors /\ PhaseInv /\ PlaceInv
  BY DEF JoinInv
<1>0. /\ Looping /\ ~RowsLeft /\ pc = "loop" /\ has_probe_chunk' = FALSE /\ output' = output \o batch /\ pc' = "idle"
      /\ UNCHANGED <<children, table, built, fetched, place, batch>>
  BY DEF EndOfChunk, Looping
<1>1. /\ ProbePlace \in Place /\ Frontier = ProbePlace /\ has_probe_chunk /\ built
      /\ fetched \in 1 .. Len(probe) /\ Len(probe[fetched]) \in Nat /\ ~InChild(probe, ProbePlace)
  BY <1>0, RowAtHand
<1>2. current_matches = << >> /\ probe \in Seq(Seq(Row))
  BY <1>p, <1>1, JoinableRows DEF PlaceInv, Typed
<1>3. Typed'
  <2>1. output \o batch \in Seq(Place \X Place)
    BY <1>p DEF Typed
  <2> QED
    BY <1>p, <1>0, <2>1, Zenon DEF Typed, children, table, place
<1>4. Cursors'
  BY <1>p, <1>0, Zenon DEF Cursors, children
<1>5. PhaseInv' /\ PlaceInv'
  BY <1>p, <1>0, <1>1, <1>2 DEF PhaseInv, PlaceInv, children, table, place
<1> DEFINE n == <<fetched + 1, 1>>
<1>6. n = <<ProbePlace[1] + 1, 1>> /\ ProbePlace[1] <= Len(probe) /\ ProbePlace[2] > Len(probe[ProbePlace[1]])
  <2>1. current_probe_row \in Nat
    BY <1>p DEF Typed
  <2>2. current_probe_row > Len(probe[fetched])
    BY <1>0, <1>1, <2>1 DEF RowsLeft
  <2> QED
    BY <1>1, <2>2 DEF ProbePlace
<1>7. Frontier' = n
  BY <1>0 DEF Frontier
<1> HIDE DEF n
<1>8. n \in Place /\ Before(ProbePlace, n) /\ \A q \in Joinable(probe) : Before(q, n) => Before(q, ProbePlace)
  BY <1>1, <1>2, <1>6, NextPlace, Zenon
<1>9. ASSUME NEW m \in Join PROVE Passed(m)' <=> Passed(m)
  <2>1. m[2] \in Joinable(probe) /\ m[2] \in Place
    BY <1>p, JoinedPlaces
  <2>2. Before(m[2], n) <=> Before(m[2], ProbePlace)
    BY <1>1, <1>8, <2>1, PlacesTransitive
  <2> QED
    BY <1>0, <1>1, <1>2, <1>7, <2>2 DEF Passed, place
<1>10. Returned' = Returned
  BY <1>0 DEF Returned
<1> QED
  BY <1>0, <1>3, <1>4, <1>5, <1>9, <1>10, TableKept, OutputKept DEF JoinInv

LEMMA NextInv ==
    ASSUME JoinInv, [Next]_vars
    PROVE  JoinInv'
<1>1. CASE UNCHANGED vars
  <2>1. Typed' /\ Cursors' /\ PhaseInv'
    BY <1>1 DEF JoinInv, Typed, Cursors, PhaseInv, vars, children, table, place
  <2>2. UNCHANGED <<children, table, fetched, has_probe_chunk, place>> /\ Returned' = Returned
    BY <1>1 DEF vars, Returned
  <2> QED
    BY <2>1, <2>2, PlaceKept, OutputKept DEF JoinInv
<1>2. CASE Next
  BY <1>2, GetNextInv, BuildRowInv, NextBuildChunkInv, BuildEndInv, NextProbeChunkInv, ProbeExhaustedInv,
     ResumeProbeChunkInv, SkipRowInv, FindMatchesInv, EmitMatchInv, EndOfChunkInv, BatchFullInv DEF Next
<1> QED
  BY <1>1, <1>2

-----------------------------------------------------------------------------
(* JoinInv holds throughout. *)
THEOREM JoinInvariant == Spec => []JoinInv
<1>1. JoinInv /\ [Next]_vars => JoinInv'
  BY NextInv
<1> QED
  BY <1>1, InitInv, PTL DEF Spec

LEMMA InvTypes == JoinInv => TypeOK
<1> SUFFICES ASSUME JoinInv PROVE TypeOK
  OBVIOUS
<1>p. Typed /\ Cursors /\ RowsInv /\ TableInv /\ PhaseInv /\ PlaceInv
  BY DEF JoinInv
<1>1. build_rows \in Seq(Joinable(build))
  <2>1. build_rows \in Seq(Place) /\ \A i \in DOMAIN build_rows : build_rows[i] \in Joinable(build)
    BY <1>p DEF Typed, RowsInv
  <2> QED
    BY <2>1
<1>2. \A k \in DOMAIN hash_table : Range(hash_table[k]) \subseteq DOMAIN build_rows
  BY <1>p DEF TableInv, Range
<1>3. current_matches # << >> => has_probe_chunk /\ RowsLeft /\ Range(current_matches) \subseteq DOMAIN build_rows
  <2> SUFFICES ASSUME current_matches # << >>
               PROVE  has_probe_chunk /\ RowsLeft /\ Range(current_matches) \subseteq DOMAIN build_rows
    OBVIOUS
  <2>1. has_probe_chunk /\ ProbePlace \in Joinable(probe) /\ AllMatches(ProbePlace, current_matches)
    BY MatchesAtHand
  <2>2. InChild(probe, ProbePlace)
    BY <1>p, <2>1, JoinableRows DEF Typed
  <2>3. RowsLeft
    BY <2>2 DEF InChild, ProbePlace, RowsLeft
  <2>4. Range(current_matches) \subseteq DOMAIN build_rows
    BY <2>1, Zenon DEF AllMatches, Range
  <2> QED
    BY <2>1, <2>3, <2>4
<1>4. Range(current_matches) \subseteq DOMAIN build_rows
  BY <1>3 DEF Range
<1>5. current_match_index \in 1 .. Len(current_matches) + 1
  BY <1>p DEF Typed, PlaceInv
<1>6. fetched \in 0 .. Len(probe) /\ (has_probe_chunk => fetched # 0) /\ Len(batch) <= VectorSize
  BY <1>p DEF Cursors
<1>7. has_probe_chunk => current_probe_row \in 1 .. Len(probe[fetched]) + 1
  <2> SUFFICES ASSUME has_probe_chunk PROVE current_probe_row \in 1 .. Len(probe[fetched]) + 1
    OBVIOUS
  <2>1. fetched \in 1 .. Len(probe) /\ probe \in Seq(Seq(Row))
    BY <1>p DEF Typed, Cursors
  <2>2. Len(probe[fetched]) \in Nat
    BY <2>1
  <2> QED
    BY <1>p, <2>2 DEF Typed, Cursors
<1>8. pc \in {"idle", "build", "probe", "loop", "done"}
  BY <1>p DEF PhaseInv
<1> QED
  BY <1>1, <1>2, <1>3, <1>4, <1>5, <1>6, <1>7, <1>8, Zenon DEF TypeOK

(* The operator never leaves its types: every index of the hash table is   *)
(* that of a build row, the place in a probe chunk is one the loop can go  *)
(* on from and no chunk has more than kVectorSize rows.                    *)
THEOREM JoinTypes == Spec => []TypeOK
<1> QED
  BY JoinInvariant, InvTypes, PTL

LEMMA InvOutput == JoinInv => OutputIsJoin
<1> SUFFICES ASSUME JoinInv PROVE OutputIsJoin
  OBVIOUS
<1>p. Typed /\ PhaseInv
  BY DEF JoinInv
<1>1. /\ \A i \in DOMAIN Returned : Returned[i] \in Join /\ Passed(Returned[i])
      /\ \A m \in Join : Passed(m) => \E i \in DOMAIN Returned : Returned[i] = m
      /\ Ascending(Returned)
  BY DEF JoinInv, OutputInv
<1>2. \A m : m \in Range(Returned) <=> m \in Join /\ Passed(m)
  BY <1>1 DEF Range
<1>3. Range(Returned) \subseteq Join
  BY <1>2
<1>4. \A i, j \in DOMAIN Returned : i < j => Earlier(Returned[i], Returned[j])
  BY <1>1 DEF Ascending
<1>5. \A m \in Range(Returned), n \in Join \ Range(Returned) : Earlier(m, n)
  <2> SUFFICES ASSUME NEW m \in Range(Returned), NEW n \in Join \ Range(Returned) PROVE Earlier(m, n)
    OBVIOUS
  <2>1. m \in Join /\ Passed(m) /\ n \in Join /\ ~Passed(n)
    BY <1>2
  <2> QED
    BY <2>1, PassedIsEarlier
<1>6. pc = "done" => Range(output) = Join
  <2> SUFFICES ASSUME pc = "done" PROVE Range(output) = Join
    OBVIOUS
  <2>1. Returned = output /\ ~has_probe_chunk /\ fetched = Len(probe)
    BY <1>p DEF Returned, PhaseInv
  <2>2. ASSUME NEW m \in Join PROVE Passed(m)
    <3>1. m[2] \in Place /\ InChild(probe, m[2])
      BY <1>p, JoinedPlaces
    <3>2. m[2][1] < Len(probe) + 1
      BY <1>p, <3>1 DEF InChild, Typed
    <3>3. Frontier = <<Len(probe) + 1, 1>>
      BY <2>1 DEF Frontier
    <3>4. Before(m[2], Frontier)
      BY <3>2, <3>3 DEF Before
    <3> QED
      BY <3>4 DEF Passed
  <2> QED
    BY <1>2, <2>1, <2>2, Zenon
<1> QED
  BY <1>3, <1>4, <1>5, <1>6, Zenon DEF OutputIsJoin

(* HashJoinOperator is a join: at every moment the rows returned are the   *)
(* first ones of the join of the two children, in its order and each once, *)
(* and GetNext returns nullopt only after all of them.                     *)
THEOREM OutputIsTheJoin == Spec => []OutputIsJoin
<1> QED
  BY JoinInvariant, InvOutput, PTL
=============================================================================
