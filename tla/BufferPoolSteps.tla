-------------------------- MODULE BufferPoolSteps --------------------------
(***************************************************************************)
(* Lemmas for the proofs about BufferPool: the replacer's methods,         *)
(* FindFreeFrame, and every call of a session, each of which preserves the *)
(* pool's invariant PoolInv.                                               *)
(***************************************************************************)
EXTENDS BufferPool, TLAPS

(***************************************************************************)
(* Sequences and minima.                                                   *)
(***************************************************************************)

(* A list without its i-th link. *)
Without(s, i) == SubSeq(s, 1, i - 1) \o SubSeq(s, i + 1, Len(s))

(* Taking one link out of a list keeps all the others. *)
LEMMA WithoutKeepsOthers ==
    ASSUME NEW S, NEW s \in Seq(S), NEW i \in 1 .. Len(s)
    PROVE  /\ Without(s, i) \in Seq(S)
           /\ \A j \in 1 .. Len(s) : j # i =>
                 \E k \in DOMAIN Without(s, i) : Without(s, i)[k] = s[j]
<1> DEFINE a == SubSeq(s, 1, i - 1)
           b == SubSeq(s, i + 1, Len(s))
           c == a \o b
<1>1. /\ a \in Seq(S) /\ Len(a) = i - 1
      /\ \A k \in 1 .. i - 1 : a[k] = s[k]
  OBVIOUS
<1>2. /\ b \in Seq(S) /\ Len(b) = Len(s) - i
      /\ \A k \in 1 .. Len(s) - i : b[k] = s[i + k]
  OBVIOUS
<1>3. Without(s, i) = c
  BY DEF Without
<1> HIDE DEF a, b
<1>4. /\ c \in Seq(S) /\ Len(c) = Len(a) + Len(b)
      /\ \A k \in 1 .. Len(a) : c[k] = a[k]
      /\ \A k \in 1 .. Len(b) : c[Len(a) + k] = b[k]
  <2>1. a \in Seq(S) /\ b \in Seq(S)
    BY <1>1, <1>2
  <2>2. c \in Seq(S) /\ Len(c) = Len(a) + Len(b)
    BY <2>1
  <2>3. \A k \in 1 .. Len(a) : c[k] = a[k]
    BY <2>1
  <2>4. \A k \in 1 .. Len(b) : c[Len(a) + k] = b[k]
    BY <2>1
  <2> QED
    BY <2>2, <2>3, <2>4, Zenon
<1> HIDE DEF c
<1>5. DOMAIN c = 1 .. Len(s) - 1
  BY <1>1, <1>2, <1>4
<1>6. ASSUME NEW j \in 1 .. Len(s), j # i
      PROVE  \E k \in DOMAIN c : c[k] = s[j]
  <2>1. CASE j < i
    <3>1. j \in 1 .. Len(s) - 1 /\ j \in 1 .. i - 1 /\ j \in 1 .. Len(a)
      BY <2>1, <1>1, <1>2
    <3>2. c[j] = a[j]
      BY <3>1, <1>4
    <3>3. a[j] = s[j]
      BY <3>1, <1>1
    <3> QED
      BY <3>1, <3>2, <3>3, <1>5
  <2>2. CASE j > i
    <3>1. /\ j - 1 \in 1 .. Len(s) - 1 /\ j - i \in 1 .. Len(s) - i
          /\ j - i \in 1 .. Len(b) /\ Len(a) + (j - i) = j - 1
      BY <2>2, <1>1, <1>2
    <3>2. c[j - 1] = b[j - i]
      BY <3>1, <1>4, Zenon
    <3>3. b[j - i] = s[j]
      BY <3>1, <1>2
    <3> QED
      BY <3>1, <3>2, <3>3, <1>5
  <2> QED
    BY <1>6, <2>1, <2>2
<1> QED
  BY <1>3, <1>4, <1>6

(* A non-empty set of naturals has a least member.  The lemmas that need   *)
(* it name it as a hypothesis; BufferPoolProofs proves it.                 *)
NatWellOrdered ==
    \A T \in SUBSET Nat : T # {} => \E x \in T : \A y \in T : x <= y

(***************************************************************************)
(* The replacer: every entry is linked in lru_order, only entries are      *)
(* evictable.  Each method preserves this, and its effect on the two sets  *)
(* is all that the pool depends on.                                        *)
(***************************************************************************)

(* Unlinking an entry's frame keeps every other frame linked. *)
LEMMA UnlinkedKeepsOthers ==
    ASSUME NEW r, WellLinked(r), NEW f \in r.entries
    PROVE  /\ Unlinked(r, f) \in Seq(Frame)
           /\ \A g \in r.entries \ {f} :
                 \E k \in DOMAIN Unlinked(r, f) : Unlinked(r, f)[k] = g
<1> DEFINE s == r.lru_order
           i == Position(r, f)
<1>1. s \in Seq(Frame)
  BY DEF WellLinked, ReplacerState
<1>2. i \in DOMAIN s /\ s[i] = f
  BY DEF WellLinked, Position
<1>3. DOMAIN s = 1 .. Len(s)
  BY <1>1
<1> HIDE DEF i, s
<1>4. /\ Without(s, i) \in Seq(Frame)
      /\ \A j \in 1 .. Len(s) : j # i =>
            \E k \in DOMAIN Without(s, i) : Without(s, i)[k] = s[j]
  BY <1>1, <1>2, <1>3, WithoutKeepsOthers
<1>5. Unlinked(r, f) = Without(s, i)
  BY DEF Unlinked, Without, i, s
<1>6. ASSUME NEW g \in r.entries \ {f}
      PROVE  \E k \in DOMAIN Without(s, i) : Without(s, i)[k] = g
  <2>1. PICK j \in DOMAIN s : s[j] = g
    BY DEF WellLinked, s
  <2>2. j # i
    BY <2>1, <1>2
  <2> QED
    BY <2>1, <2>2, <1>3, <1>4
<1> QED
  BY <1>4, <1>5, <1>6

(* Evict and Remove forget exactly one frame. *)
LEMMA ForgetForgets ==
    ASSUME NEW r, WellLinked(r), NEW f \in r.entries
    PROVE  /\ WellLinked(Forget(r, f))
           /\ Forget(r, f).entries = r.entries \ {f}
           /\ Forget(r, f).evictable = r.evictable \ {f}
<1>1. r.evictable_count \in Int /\ r.entries \in SUBSET Frame /\ r.evictable \in SUBSET Frame
  BY DEF WellLinked, ReplacerState
<1> QED
  BY <1>1, UnlinkedKeepsOthers DEF Forget, WellLinked, ReplacerState

(* FetchPage's RecordAccess and SetEvictable(false): the frame is known to *)
(* the replacer and not evictable.                                         *)
LEMMA PinnedPins ==
    ASSUME NEW r, WellLinked(r), NEW f \in Frame
    PROVE  /\ WellLinked(Pinned(r, f))
           /\ Pinned(r, f).entries = r.entries \cup {f}
           /\ Pinned(r, f).evictable = r.evictable \ {f}
<1> DEFINE u == IF f \in r.entries THEN Unlinked(r, f) ELSE r.lru_order
           l == Append(u, f)
           n == IF f \in r.evictable THEN r.evictable_count + (-1) ELSE r.evictable_count
           q == [lru_order |-> l, entries |-> r.entries \cup {f},
                 evictable |-> r.evictable, evictable_count |-> r.evictable_count]
           e == r.entries \cup {f}
           v == r.evictable \ {f}
<1>1. /\ r.entries \in SUBSET Frame /\ r.evictable \in SUBSET r.entries
      /\ r.evictable_count \in Int /\ r.lru_order \in Seq(Frame)
      /\ \A g \in r.entries : \E i \in DOMAIN r.lru_order : r.lru_order[i] = g
  BY DEF WellLinked, ReplacerState
<1>2. /\ u \in Seq(Frame)
      /\ \A g \in r.entries \ {f} : \E k \in DOMAIN u : u[k] = g
  <2>1. CASE f \in r.entries
    BY <2>1, UnlinkedKeepsOthers
  <2>2. CASE f \notin r.entries
    BY <2>2, <1>1
  <2> QED
    BY <2>1, <2>2
<1>3. RecordAccess(r, f) = q
  BY DEF RecordAccess
<1> HIDE DEF u
<1>4. l \in Seq(Frame) /\ \A g \in e : \E k \in DOMAIN l : l[k] = g
  <2>1. /\ l \in Seq(Frame) /\ DOMAIN l = 1 .. Len(u) + 1
        /\ DOMAIN u = 1 .. Len(u) /\ Len(u) \in Nat
    BY <1>2
  <2>2. l[Len(u) + 1] = f /\ \A k \in 1 .. Len(u) : l[k] = u[k]
    BY <1>2
  <2> HIDE DEF l
  <2>3. ASSUME NEW g \in r.entries \ {f} PROVE \E k \in DOMAIN l : l[k] = g
    BY <1>2, <2>1, <2>2
  <2>4. \E k \in DOMAIN l : l[k] = f
    BY <2>1, <2>2
  <2> QED
    BY <2>1, <2>3, <2>4, Zenon
<1> HIDE DEF l
<1>5. Pinned(r, f) = [lru_order |-> l, entries |-> e, evictable |-> v, evictable_count |-> n]
  <2>1. Pinned(r, f) = SetEvictable(q, f, FALSE)
    BY <1>3 DEF Pinned
  <2>2. CASE f \notin r.evictable
    <3>1. r.evictable = v /\ r.evictable_count = n
      BY <2>2
    <3>2. SetEvictable(q, f, FALSE) = q
      BY <2>2 DEF SetEvictable
    <3> QED
      BY <2>1, <3>1, <3>2, Zenon
  <2>3. CASE f \in r.evictable
    BY <2>1, <2>3 DEF SetEvictable
  <2> QED
    BY <2>2, <2>3
<1>6. e \in SUBSET Frame /\ v \in SUBSET Frame /\ v \subseteq e /\ n \in Int
  BY <1>1
<1> HIDE DEF e, v, n
<1>7. /\ Pinned(r, f) \in ReplacerState /\ Pinned(r, f).lru_order = l
      /\ Pinned(r, f).entries = e /\ Pinned(r, f).evictable = v
  BY <1>4, <1>5, <1>6 DEF ReplacerState
<1>8. WellLinked(Pinned(r, f))
  BY <1>4, <1>6, <1>7, Zenon DEF WellLinked
<1> QED
  BY <1>7, <1>8, Zenon DEF e, v

(* The last UnpinPage's SetEvictable(true). *)
MadeEvictable(r, f) == SetEvictable(r, f, TRUE)

(* SetEvictable(frame, true) adds one known frame to the candidates. *)
LEMMA SetEvictableAdds ==
    ASSUME NEW r, WellLinked(r), NEW f \in r.entries,
           NEW s, s = MadeEvictable(r, f)
    PROVE  /\ WellLinked(s)
           /\ s.entries = r.entries
           /\ s.evictable = r.evictable \cup {f}
<1>1. CASE f \in r.evictable
  BY <1>1 DEF SetEvictable, MadeEvictable
<1>2. CASE f \notin r.evictable
  <2>1. s = [lru_order |-> r.lru_order, entries |-> r.entries,
             evictable |-> r.evictable \cup {f}, evictable_count |-> r.evictable_count + 1]
    BY <1>2 DEF SetEvictable, MadeEvictable
  <2>2. /\ r.lru_order \in Seq(Frame) /\ r.entries \in SUBSET Frame
        /\ r.evictable \cup {f} \in SUBSET r.entries
        /\ r.evictable_count + 1 \in Int
        /\ \A g \in r.entries : \E i \in DOMAIN r.lru_order : r.lru_order[i] = g
    BY DEF WellLinked, ReplacerState
  <2>3. WellLinked(s)
    BY <2>1, <2>2 DEF WellLinked, ReplacerState
  <2>4. s.entries = r.entries /\ s.evictable = r.evictable \cup {f}
    BY <2>1
  <2> QED
    BY <2>3, <2>4
<1> QED
  BY <1>1, <1>2

(* Evict returns an evictable frame whenever there is a candidate. *)
LEMMA VictimIsEvictable ==
    ASSUME NatWellOrdered, NEW r, WellLinked(r), Candidates(r) # {}
    PROVE  Victim(r) \in r.evictable
<1>1. Candidates(r) \in SUBSET Nat
  BY DEF Candidates, WellLinked, ReplacerState
<1>2. \E i \in Candidates(r) : \A j \in Candidates(r) : i <= j
  BY <1>1 DEF NatWellOrdered
<1> QED
  BY <1>2 DEF Victim, Candidates

(***************************************************************************)
(* FindFreeFrame and the clean-up of the frame it returns.                 *)
(***************************************************************************)
(* The lookup's "not found" is no frame id. *)
LEMMA FrameIsNotNoFrame == NoFrame \notin Frame
BY PoolAssumption DEF Frame

(* The frame FindFreeFrame returns is unpinned and forgotten by the        *)
(* replacer, and only the page it holds, if any, is mapped to it.          *)
LEMMA TakeFrame ==
    ASSUME NatWellOrdered, PoolInv, FrameAvailable, NEW f, f = FreeFrame
    PROVE  /\ f \in Frame
           /\ frames[f].pin_count = 0
           /\ frames[f].in_use => page_table[frames[f].page_id] = f
           /\ WellLinked(TakenReplacer)
           /\ TakenReplacer.entries = replacer.entries \ {f}
           /\ TakenReplacer.evictable = replacer.evictable \ {f}
           /\ TakenFreeList \in Seq(Frame)
           /\ \A i \in DOMAIN TakenFreeList :
                 /\ i \in DOMAIN free_list
                 /\ TakenFreeList[i] = free_list[i]
                 /\ TakenFreeList[i] # f
<1>p. /\ TypeOK /\ MappedFrames /\ UsedFrames /\ PinsCounted /\ PinnedFrames
      /\ EvictableFrames /\ WellLinked(replacer) /\ FreeFrames /\ Coherent
  BY DEF PoolInv
<1> USE <1>p
<1>1. CASE free_list # << >>
  <2>1. /\ free_list \in Seq(Frame) /\ Len(free_list) \in 1 .. Len(free_list)
        /\ DOMAIN free_list = 1 .. Len(free_list)
    BY <1>1 DEF TypeOK
  <2>2. f = free_list[Len(free_list)] /\ TakenReplacer = replacer
    BY <1>1 DEF FreeFrame, TakenReplacer
  <2>3. f \in Frame /\ ~frames[f].in_use /\ f \notin replacer.entries
    BY <2>1, <2>2 DEF FreeFrames
  <2>4. frames[f].pin_count = 0
    BY <2>3 DEF PinnedFrames, TypeOK, FrameMeta
  <2>5. f \notin replacer.evictable
    BY <2>3 DEF WellLinked
  <2>6. TakenFreeList = SubSeq(free_list, 1, Len(free_list) - 1)
    BY <1>1 DEF TakenFreeList
  <2>7. /\ TakenFreeList \in Seq(Frame)
        /\ DOMAIN TakenFreeList = 1 .. Len(free_list) - 1
        /\ \A i \in 1 .. Len(free_list) - 1 : TakenFreeList[i] = free_list[i]
    BY <2>1, <2>6
  <2>8. \A i \in 1 .. Len(free_list) - 1 : free_list[i] # f
    BY <2>1, <2>2 DEF FreeFrames
  <2> QED
    BY <2>1, <2>2, <2>3, <2>4, <2>5, <2>7, <2>8
<1>2. CASE free_list = << >>
  <2>1. Candidates(replacer) # {}
    BY <1>2 DEF FrameAvailable
  <2>2. f = Victim(replacer) /\ TakenReplacer = Forget(replacer, f) /\ TakenFreeList = << >>
    BY <1>2 DEF FreeFrame, TakenReplacer, TakenFreeList
  <2>3. f \in replacer.evictable
    BY <2>1, <2>2, VictimIsEvictable
  <2>4. f \in replacer.entries /\ f \in Frame
    BY <2>3 DEF WellLinked, ReplacerState
  <2>5. /\ WellLinked(TakenReplacer)
        /\ TakenReplacer.entries = replacer.entries \ {f}
        /\ TakenReplacer.evictable = replacer.evictable \ {f}
    BY <2>2, <2>4, ForgetForgets
  <2> QED
    BY <2>2, <2>3, <2>4, <2>5 DEF EvictableFrames
<1> QED
  BY <1>1, <1>2

(* Write-back and unmapping: the page mapped to the frame, if any, leaves  *)
(* the page table with its contents on disk; no other page is touched.     *)
LEMMA CleanFrame ==
    ASSUME PoolInv, NEW f \in Frame, frames[f].pin_count = 0,
           frames[f].in_use => page_table[frames[f].page_id] = f
    PROVE  /\ WrittenBack(f) \in [Page -> Value \cup {Unwritten}]
           /\ Unmapped(f) \in [Page -> Frame \cup {NoFrame}]
           /\ \A q \in Page :
                 /\ WrittenBack(f)[q] = IF page_table[q] = f THEN pages[f] ELSE disk[q]
                 /\ Unmapped(f)[q] = IF page_table[q] = f THEN NoFrame ELSE page_table[q]
<1>p. /\ TypeOK /\ MappedFrames /\ UsedFrames /\ PinsCounted /\ PinnedFrames
      /\ EvictableFrames /\ WellLinked(replacer) /\ FreeFrames /\ Coherent
  BY DEF PoolInv
<1> USE <1>p
<1>1. \A q \in Page : page_table[q] = f =>
          /\ frames[f].in_use /\ frames[f].page_id = q
          /\ ~frames[f].is_dirty => pages[f] = disk[q]
  <2> SUFFICES ASSUME NEW q \in Page, page_table[q] = f
               PROVE  /\ frames[f].in_use /\ frames[f].page_id = q
                      /\ ~frames[f].is_dirty => pages[f] = disk[q]
    OBVIOUS
  <2>1. page_table[q] # NoFrame
    BY FrameIsNotNoFrame
  <2>2. ~wrote[q]
    BY <2>1 DEF PinsCounted
  <2> QED
    BY <2>1, <2>2 DEF MappedFrames, Coherent
<1>2. disk \in [Page -> Value \cup {Unwritten}] /\ pages[f] \in Value \cup {Unwritten}
      /\ page_table \in [Page -> Frame \cup {NoFrame}]
  BY DEF TypeOK
<1>3. CASE frames[f].in_use
  <2>1. frames[f].page_id \in Page
    BY <1>3 DEF UsedFrames
  <2>2. Unmapped(f) = [page_table EXCEPT ![frames[f].page_id] = NoFrame]
    BY <1>3 DEF Unmapped
  <2>3. CASE frames[f].is_dirty
    <3>1. WrittenBack(f) = [disk EXCEPT ![frames[f].page_id] = pages[f]]
      BY <1>3, <2>3 DEF WrittenBack, NeedsWriteBack
    <3> QED
      BY <1>1, <1>2, <1>3, <2>1, <2>2, <3>1
  <2>4. CASE ~frames[f].is_dirty
    <3>1. WrittenBack(f) = disk
      BY <2>4 DEF WrittenBack, NeedsWriteBack
    <3> QED
      BY <1>1, <1>2, <1>3, <2>1, <2>2, <2>4, <3>1
  <2> QED
    BY <2>3, <2>4
<1>4. CASE ~frames[f].in_use
  <2>1. WrittenBack(f) = disk /\ Unmapped(f) = page_table
    BY <1>4 DEF WrittenBack, NeedsWriteBack, Unmapped
  <2> QED
    BY <1>1, <1>2, <1>4, <2>1
<1> QED
  BY <1>3, <1>4

(* A FetchPage hit preserves the invariant. *)
LEMMA FetchHitInv ==
    ASSUME PoolInv, NEW p \in Page, FetchHit(p)
    PROVE  PoolInv'
<1> DEFINE f == page_table[p]
           meta == [frames[f] EXCEPT !.pin_count = @ + 1]
<1>p. /\ TypeOK /\ MappedFrames /\ UsedFrames /\ PinsCounted /\ PinnedFrames
      /\ EvictableFrames /\ WellLinked(replacer) /\ FreeFrames /\ Coherent
  BY DEF PoolInv
<1> USE <1>p
<1>1. /\ f \in Frame /\ f # NoFrame /\ frames[f].in_use /\ frames[f].page_id = p
      /\ pins[p] = frames[f].pin_count
  BY DEF FetchHit, TypeOK, MappedFrames, PinsCounted
<1>2. /\ WellLinked(replacer')
      /\ replacer'.entries = replacer.entries \cup {f}
      /\ replacer'.evictable = replacer.evictable \ {f}
  BY <1>1, PinnedPins DEF FetchHit
<1>3. /\ frames' = [frames EXCEPT ![f] = meta]
      /\ pins' = [pins EXCEPT ![p] = @ + 1]
      /\ ptr' = [ptr EXCEPT ![p] = f]
      /\ result' = "ok"
      /\ UNCHANGED <<page_table, pages, free_list, disk, wrote, read_errors, write_errors>>
  BY DEF FetchHit, HandOut, errorVars
<1>4. page_table[p] = f /\ \A q \in Page \ {p} : page_table[q] # f
  BY <1>1 DEF MappedFrames
<1> HIDE DEF f
<1>5. frames \in [Frame -> FrameMeta] /\ frames[f] \in FrameMeta /\ frames[f].pin_count \in Nat
  BY <1>1 DEF TypeOK, FrameMeta
<1>6. /\ meta \in FrameMeta /\ meta.page_id = frames[f].page_id /\ meta.in_use = frames[f].in_use
      /\ meta.is_dirty = frames[f].is_dirty /\ meta.pin_count = frames[f].pin_count + 1
  BY <1>5 DEF FrameMeta
<1> HIDE DEF meta
<1>7. frames' \in [Frame -> FrameMeta] /\ frames'[f] = meta
      /\ \A g \in Frame \ {f} : frames'[g] = frames[g]
  BY <1>1, <1>3, <1>5, <1>6
<1>8. \A g \in Frame :
         /\ frames'[g].page_id = frames[g].page_id
         /\ frames'[g].in_use = frames[g].in_use
         /\ frames'[g].is_dirty = frames[g].is_dirty
  BY <1>6, <1>7, Zenon
<1>9. TypeOK'
  <2>1. pins' \in [Page -> Nat] /\ ptr' \in [Page -> Frame \cup {NoFrame}]
    BY <1>1, <1>3 DEF TypeOK
  <2>2. replacer' \in ReplacerState /\ result' \in {"ok", "no_frame", "io_error"}
    BY <1>2, <1>3 DEF WellLinked
  <2> QED
    BY <1>3, <1>7, <2>1, <2>2, Zenon DEF TypeOK
<1>10. page_table \in [Page -> Frame \cup {NoFrame}] /\ \A q \in Page : page_table[q] # NoFrame =>
          page_table[q] \in Frame
  BY DEF TypeOK
<1>11. MappedFrames'
  <2> SUFFICES ASSUME NEW q \in Page, page_table[q] # NoFrame
               PROVE  /\ frames'[page_table[q]].in_use
                      /\ frames'[page_table[q]].page_id = q
                      /\ pages[page_table[q]] \in Value
                      /\ disk[q] \in Value
    BY <1>3 DEF MappedFrames
  <2> QED
    BY <1>8, <1>10 DEF MappedFrames
<1>12. UsedFrames'
  BY <1>3, <1>8, Zenon DEF UsedFrames
<1>13. Coherent'
  BY <1>3, <1>8, <1>10, Zenon DEF Coherent
<1>14. PinsCounted'
  <2>1. pins'[p] = frames'[f].pin_count /\ ptr'[p] = f
    BY <1>1, <1>3, <1>6, <1>7 DEF TypeOK
  <2>2. pins'[p] > 0
    BY <1>5, <1>6, <1>7, <2>1
  <2>3. \A q \in Page \ {p} : pins'[q] = pins[q] /\ ptr'[q] = ptr[q]
    BY <1>3 DEF TypeOK
  <2>4. \A q \in Page \ {p} : page_table[q] # NoFrame => frames'[page_table[q]] = frames[page_table[q]]
    BY <1>4, <1>7, <1>10, Zenon
  <2> QED
    BY <1>1, <1>3, <1>4, <2>1, <2>2, <2>3, <2>4 DEF PinsCounted
<1>15. PinnedFrames'
  <2> SUFFICES ASSUME NEW g \in Frame, frames'[g].pin_count > 0
               PROVE  /\ g \in replacer'.entries \ replacer'.evictable
                      /\ frames'[g].in_use
                      /\ page_table'[frames'[g].page_id] = g
    BY DEF PinnedFrames
  <2>1. CASE g = f
    BY <2>1, <1>1, <1>2, <1>3, <1>4, <1>8
  <2>2. CASE g # f
    BY <2>2, <1>2, <1>3, <1>7 DEF PinnedFrames
  <2> QED
    BY <2>1, <2>2
<1>16. EvictableFrames'
  <2> SUFFICES ASSUME NEW g \in replacer.evictable \ {f}
               PROVE  /\ frames'[g].pin_count = 0
                      /\ frames'[g].in_use
                      /\ page_table'[frames'[g].page_id] = g
    BY <1>2 DEF EvictableFrames
  <2>1. g \in Frame /\ g # f
    BY DEF WellLinked, ReplacerState
  <2> QED
    BY <2>1, <1>3, <1>7 DEF EvictableFrames
<1>17. FreeFrames'
  <2> SUFFICES ASSUME NEW i \in DOMAIN free_list
               PROVE  /\ free_list[i] \notin replacer'.entries
                      /\ ~frames'[free_list[i]].in_use
                      /\ \A j \in DOMAIN free_list : i # j => free_list[i] # free_list[j]
    BY <1>3 DEF FreeFrames
  <2>1. /\ free_list[i] \notin replacer.entries /\ ~frames[free_list[i]].in_use
        /\ \A j \in DOMAIN free_list : i # j => free_list[i] # free_list[j]
    BY DEF FreeFrames
  <2>2. free_list[i] \in Frame /\ free_list[i] # f
    BY <2>1, <1>1 DEF TypeOK
  <2> QED
    BY <2>1, <2>2, <1>2, <1>8
<1> QED
  BY <1>2, <1>9, <1>11, <1>12, <1>13, <1>14, <1>15, <1>16, <1>17 DEF PoolInv

(* A FetchPage miss, with its eviction and write-back, preserves it. *)
LEMMA FetchMissInv ==
    ASSUME NatWellOrdered, PoolInv, NEW p \in Page, FetchMiss(p)
    PROVE  PoolInv'
<1> DEFINE f == FreeFrame
           meta == [page_id |-> p, pin_count |-> 1, is_dirty |-> FALSE, in_use |-> TRUE]
<1>p. /\ TypeOK /\ MappedFrames /\ UsedFrames /\ PinsCounted /\ PinnedFrames
      /\ EvictableFrames /\ WellLinked(replacer) /\ FreeFrames /\ Coherent
  BY DEF PoolInv
<1> USE <1>p
<1>1. /\ f \in Frame /\ frames[f].pin_count = 0
      /\ frames[f].in_use => page_table[frames[f].page_id] = f
  BY TakeFrame DEF FetchMiss
<1>r. /\ WellLinked(TakenReplacer)
      /\ TakenReplacer.entries = replacer.entries \ {f}
      /\ TakenReplacer.evictable = replacer.evictable \ {f}
  BY TakeFrame DEF FetchMiss
<1>l. /\ TakenFreeList \in Seq(Frame)
      /\ \A i \in DOMAIN TakenFreeList :
            /\ i \in DOMAIN free_list
            /\ TakenFreeList[i] = free_list[i]
            /\ TakenFreeList[i] # f
  BY TakeFrame DEF FetchMiss
<1>2. /\ disk[p] # Unwritten /\ page_table[p] = NoFrame /\ pins[p] = 0 /\ ~wrote[p]
      /\ disk[p] \in Value
  BY DEF FetchMiss, CanFetch, PinsCounted, TypeOK
<1>3. /\ disk' = WrittenBack(f)
      /\ page_table' = [Unmapped(f) EXCEPT ![p] = f]
      /\ pages' = [pages EXCEPT ![f] = disk'[p]]
      /\ frames' = [frames EXCEPT ![f] = meta]
      /\ replacer' = Pinned(TakenReplacer, f)
      /\ free_list' = TakenFreeList
      /\ pins' = [pins EXCEPT ![p] = @ + 1]
      /\ ptr' = [ptr EXCEPT ![p] = f]
      /\ result' = "ok"
      /\ UNCHANGED <<wrote, read_errors, write_errors>>
  BY DEF FetchMiss, HandOut, errorVars
<1> HIDE DEF f
<1>4. /\ WellLinked(replacer')
      /\ replacer'.entries = replacer.entries \cup {f}
      /\ replacer'.evictable = replacer.evictable \ {f}
  BY <1>1, <1>r, <1>3, PinnedPins
<1>5. /\ disk' \in [Page -> Value \cup {Unwritten}]
      /\ page_table' \in [Page -> Frame \cup {NoFrame}]
      /\ \A q \in Page :
            /\ disk'[q] = IF page_table[q] = f THEN pages[f] ELSE disk[q]
            /\ q # p => page_table'[q] = IF page_table[q] = f THEN NoFrame ELSE page_table[q]
      /\ page_table'[p] = f
  BY <1>1, <1>3, CleanFrame
<1>6. disk'[p] = disk[p]
  BY <1>1, <1>2, <1>5, FrameIsNotNoFrame
<1>7. /\ \A g \in Frame : g # f => frames'[g] = frames[g] /\ pages'[g] = pages[g]
      /\ frames'[f] = meta /\ pages'[f] = disk[p]
  <2> HIDE DEF meta
  <2> QED
    BY <1>1, <1>3, <1>6 DEF TypeOK
<1>t. /\ page_table \in [Page -> Frame \cup {NoFrame}] /\ frames \in [Frame -> FrameMeta]
      /\ pages \in [Frame -> Value \cup {Unwritten}] /\ NoFrame \notin Frame
      /\ pins \in [Page -> Nat] /\ ptr \in [Page -> Frame \cup {NoFrame}]
  BY FrameIsNotNoFrame DEF TypeOK
<1>8. TypeOK'
  <2>1. meta \in FrameMeta
    BY DEF FrameMeta
  <2>2. frames' \in [Frame -> FrameMeta]
    <3> HIDE DEF meta
    <3> QED
      BY <1>1, <1>3, <1>t, <2>1
  <2>3. pages' \in [Frame -> Value \cup {Unwritten}]
    BY <1>1, <1>2, <1>3, <1>6, <1>t
  <2>4. pins' \in [Page -> Nat] /\ ptr' \in [Page -> Frame \cup {NoFrame}]
    BY <1>1, <1>3, <1>t
  <2>5. replacer' \in ReplacerState /\ result' \in {"ok", "no_frame", "io_error"}
    BY <1>3, <1>4 DEF WellLinked
  <2> QED
    BY <1>l, <1>3, <1>5, <2>2, <2>3, <2>4, <2>5, Zenon DEF TypeOK
<1>m. /\ frames'[f].page_id = p /\ frames'[f].pin_count = 1
      /\ ~frames'[f].is_dirty /\ frames'[f].in_use
  BY <1>7
<1> HIDE DEF meta
<1>9. MappedFrames'
  <2> SUFFICES ASSUME NEW q \in Page, page_table'[q] # NoFrame
               PROVE  /\ frames'[page_table'[q]].in_use
                      /\ frames'[page_table'[q]].page_id = q
                      /\ pages'[page_table'[q]] \in Value
                      /\ disk'[q] \in Value
    BY DEF MappedFrames
  <2>1. CASE q = p
    BY <2>1, <1>2, <1>5, <1>6, <1>7, <1>m
  <2>2. CASE q # p
    <3>1. /\ page_table[q] # f /\ page_table[q] # NoFrame /\ page_table'[q] = page_table[q]
          /\ page_table[q] \in Frame /\ disk'[q] = disk[q]
      BY <2>2, <1>5 DEF TypeOK
    <3> QED
      BY <3>1, <1>7 DEF MappedFrames
  <2> QED
    BY <2>1, <2>2
<1>10. UsedFrames'
  <2> SUFFICES ASSUME NEW g \in Frame, frames'[g].in_use
               PROVE  /\ frames'[g].page_id \in Page
                      /\ read_errors = 0 => page_table'[frames'[g].page_id] = g
    BY <1>3 DEF UsedFrames
  <2>1. CASE g = f
    BY <2>1, <1>5, <1>m
  <2>2. CASE g # f
    <3>1. frames'[g] = frames[g] /\ frames[g].page_id \in Page
          /\ (read_errors = 0 => page_table[frames[g].page_id] = g)
      BY <2>2, <1>7 DEF UsedFrames
    <3> QED
      BY <2>2, <3>1, <1>2, <1>5, <1>t
  <2> QED
    BY <2>1, <2>2
<1>11. PinsCounted'
  <2> SUFFICES ASSUME NEW q \in Page
               PROVE  /\ page_table'[q] = NoFrame => pins'[q] = 0
                      /\ page_table'[q] # NoFrame => pins'[q] = frames'[page_table'[q]].pin_count
                      /\ pins'[q] > 0 => ptr'[q] = page_table'[q]
                      /\ wrote[q] => pins'[q] > 0
    BY <1>3 DEF PinsCounted
  <2>1. CASE q = p
    BY <2>1, <1>1, <1>2, <1>3, <1>5, <1>m, <1>t
  <2>2. CASE q # p
    <3>1. pins'[q] = pins[q] /\ ptr'[q] = ptr[q]
      BY <2>2, <1>3, <1>t
    <3>2. CASE page_table[q] = f
      BY <2>2, <3>1, <3>2, <1>1, <1>5, <1>t DEF PinsCounted
    <3>3. CASE page_table[q] # f
      <4>1. page_table'[q] = page_table[q]
            /\ (page_table[q] # NoFrame => frames'[page_table[q]] = frames[page_table[q]])
        BY <2>2, <3>3, <1>5, <1>7, <1>t
      <4> QED
        BY <3>1, <4>1 DEF PinsCounted
    <3> QED
      BY <3>2, <3>3
  <2> QED
    BY <2>1, <2>2
<1>12. PinnedFrames'
  <2> SUFFICES ASSUME NEW g \in Frame, frames'[g].pin_count > 0
               PROVE  /\ g \in replacer'.entries \ replacer'.evictable
                      /\ frames'[g].in_use
                      /\ page_table'[frames'[g].page_id] = g
    BY DEF PinnedFrames
  <2>1. CASE g = f
    BY <2>1, <1>4, <1>5, <1>m
  <2>2. CASE g # f
    <3>1. /\ frames'[g] = frames[g] /\ g \in replacer.entries \ replacer.evictable
          /\ frames[g].in_use /\ page_table[frames[g].page_id] = g /\ frames[g].page_id \in Page
      BY <2>2, <1>7 DEF PinnedFrames, UsedFrames
    <3> QED
      BY <2>2, <3>1, <1>2, <1>4, <1>5, <1>t
  <2> QED
    BY <2>1, <2>2
<1>13. EvictableFrames'
  <2> SUFFICES ASSUME NEW g \in replacer.evictable \ {f}
               PROVE  /\ frames'[g].pin_count = 0
                      /\ frames'[g].in_use
                      /\ page_table'[frames'[g].page_id] = g
    BY <1>4 DEF EvictableFrames
  <2>1. g \in Frame /\ g # f /\ frames'[g] = frames[g]
    BY <1>7 DEF WellLinked, ReplacerState
  <2>2. /\ frames[g].pin_count = 0 /\ frames[g].in_use
        /\ page_table[frames[g].page_id] = g
    BY DEF EvictableFrames
  <2>3. frames[g].page_id \in Page /\ frames[g].page_id # p
    BY <1>2, <2>1, <2>2, FrameIsNotNoFrame DEF UsedFrames
  <2> QED
    BY <1>5, <2>1, <2>2, <2>3
<1>14. FreeFrames'
  <2> SUFFICES ASSUME NEW i \in DOMAIN TakenFreeList
               PROVE  /\ TakenFreeList[i] \notin replacer'.entries
                      /\ ~frames'[TakenFreeList[i]].in_use
                      /\ \A j \in DOMAIN TakenFreeList : i # j => TakenFreeList[i] # TakenFreeList[j]
    BY <1>3 DEF FreeFrames
  <2>1. /\ i \in DOMAIN free_list /\ TakenFreeList[i] = free_list[i] /\ free_list[i] \in Frame
        /\ free_list[i] # f
    BY <1>l DEF TypeOK
  <2>2. free_list[i] \notin replacer.entries /\ ~frames[free_list[i]].in_use
    BY <2>1 DEF FreeFrames
  <2>3. \A j \in DOMAIN TakenFreeList : i # j => TakenFreeList[i] # TakenFreeList[j]
    BY <1>l, <2>1 DEF FreeFrames
  <2> QED
    BY <1>4, <1>7, <2>1, <2>2, <2>3
<1>15. Coherent'
  <2> SUFFICES ASSUME NEW q \in Page, page_table'[q] # NoFrame,
                      ~frames'[page_table'[q]].is_dirty, ~wrote[q]
               PROVE  pages'[page_table'[q]] = disk'[q]
    BY <1>3 DEF Coherent
  <2>1. CASE q = p
    BY <2>1, <1>5, <1>6, <1>7
  <2>2. CASE q # p
    <3>1. /\ page_table[q] # f /\ page_table[q] # NoFrame /\ page_table'[q] = page_table[q]
          /\ page_table[q] \in Frame /\ disk'[q] = disk[q]
      BY <2>2, <1>5, <1>t
    <3> QED
      BY <3>1, <1>7 DEF Coherent
  <2> QED
    BY <2>1, <2>2
<1> QED
  BY <1>4, <1>8, <1>9, <1>10, <1>11, <1>12, <1>13, <1>14, <1>15 DEF PoolInv

(* A step that touches only result keeps the invariant.               *)
LEMMA UnchangedInv ==
    ASSUME PoolInv, result' \in {"ok", "no_frame", "io_error"},
           UNCHANGED <<page_table, frames, pages, free_list, replacer, disk, pins, ptr, wrote,
                       read_errors, write_errors>>
    PROVE  PoolInv'
<1>1. TypeOK'
  BY Zenon DEF PoolInv, TypeOK
<1>2. MappedFrames'
  BY DEF PoolInv, MappedFrames
<1>3. UsedFrames'
  BY DEF PoolInv, UsedFrames
<1>4. PinsCounted'
  BY DEF PoolInv, PinsCounted
<1>5. PinnedFrames'
  BY DEF PoolInv, PinnedFrames
<1>6. EvictableFrames'
  BY DEF PoolInv, EvictableFrames
<1>7. WellLinked(replacer)'
  BY DEF PoolInv, WellLinked
<1>8. FreeFrames'
  BY DEF PoolInv, FreeFrames
<1>9. Coherent'
  BY DEF PoolInv, Coherent
<1> QED
  BY <1>1, <1>2, <1>3, <1>4, <1>5, <1>6, <1>7, <1>8, <1>9 DEF PoolInv

(* FetchPage that throws because no frame is left changes nothing. *)
LEMMA FetchNoFrameInv ==
    ASSUME PoolInv, NEW p \in Page, FetchNoFrame(p)
    PROVE  PoolInv'
BY UnchangedInv DEF FetchNoFrame, poolVars, clientVars, errorVars

(***************************************************************************)
(* The invariant is inductive: one lemma per action.                       *)
(***************************************************************************)
(* A newly constructed pool that nobody has used, whatever is on disk. *)
FreshPool ==
    /\ Construct(page_table, frames, pages, free_list, replacer)
    /\ disk \in [Page -> Value \cup {Unwritten}]
    /\ pins = [p \in Page |-> 0]
    /\ ptr = [p \in Page |-> NoFrame]
    /\ wrote = [p \in Page |-> FALSE]
    /\ result = "ok"
    /\ read_errors \in 0 .. MaxReadErrors
    /\ write_errors \in 0 .. MaxWriteErrors

(* What the constructor builds satisfies the invariant. *)
LEMMA FreshPoolInv == FreshPool => PoolInv
<1> SUFFICES ASSUME FreshPool PROVE PoolInv
  OBVIOUS
<1> USE DEF FreshPool, Construct
<1>1. free_list \in Seq(Frame) /\ DOMAIN free_list = 1 .. PoolSize
  BY PoolAssumption DEF Frame
<1>2. /\ replacer.lru_order = << >> /\ replacer.entries = {} /\ replacer.evictable = {}
      /\ replacer.evictable_count = 0
  BY DEF EmptyReplacer
<1>3. WellLinked(replacer)
  BY DEF WellLinked, EmptyReplacer, ReplacerState
<1>4. TypeOK
  <2>1. frames \in [Frame -> FrameMeta]
    BY DEF UnusedFrame, FrameMeta
  <2>2. pins \in [Page -> Nat] /\ result \in {"ok", "no_frame", "io_error"}
    OBVIOUS
  <2>3. replacer \in ReplacerState
    BY <1>3 DEF WellLinked
  <2> QED
    BY <1>1, <2>1, <2>2, <2>3 DEF TypeOK
<1>5. \A f \in Frame : frames[f].pin_count = 0 /\ ~frames[f].in_use
  BY DEF UnusedFrame
<1>6. MappedFrames /\ UsedFrames /\ PinsCounted /\ PinnedFrames /\ EvictableFrames /\ Coherent
  BY <1>2, <1>5 DEF MappedFrames, UsedFrames, PinsCounted, PinnedFrames, EvictableFrames, Coherent
<1>7. FreeFrames
  <2>1. \A i \in 1 .. PoolSize : free_list[i] = i - 1 /\ i - 1 \in Frame
    BY PoolAssumption DEF Frame
  <2>2. \A i, j \in 1 .. PoolSize : i # j => i - 1 # j - 1
    BY PoolAssumption
  <2> QED
    BY <1>1, <1>2, <1>5, <2>1, <2>2 DEF FreeFrames
<1> QED
  BY <1>3, <1>4, <1>6, <1>7 DEF PoolInv

(* The first session starts from a fresh pool. *)
LEMMA InitInv == Init => PoolInv
BY FreshPoolInv, PoolAssumption DEF Init, FreshPool

(* FetchPage whose write-back throws leaks a mapped frame, no more. *)
LEMMA FetchWriteFailsInv ==
    ASSUME NatWellOrdered, PoolInv, NEW p \in Page, FetchWriteFails(p)
    PROVE  PoolInv'
<1> DEFINE f == FreeFrame
           q == frames[f].page_id
<1>p. /\ TypeOK /\ MappedFrames /\ UsedFrames /\ PinsCounted /\ PinnedFrames
      /\ EvictableFrames /\ WellLinked(replacer) /\ FreeFrames /\ Coherent
  BY DEF PoolInv
<1> USE <1>p
<1>1. /\ f \in Frame /\ frames[f].pin_count = 0
      /\ frames[f].in_use => page_table[frames[f].page_id] = f
  BY TakeFrame DEF FetchWriteFails
<1>r. /\ WellLinked(TakenReplacer)
      /\ TakenReplacer.entries = replacer.entries \ {f}
      /\ TakenReplacer.evictable = replacer.evictable \ {f}
  BY TakeFrame DEF FetchWriteFails
<1>l. /\ TakenFreeList \in Seq(Frame)
      /\ \A i \in DOMAIN TakenFreeList :
            /\ i \in DOMAIN free_list
            /\ TakenFreeList[i] = free_list[i]
            /\ TakenFreeList[i] # f
  BY TakeFrame DEF FetchWriteFails
<1>2. frames[f].in_use /\ frames[f].is_dirty
  BY DEF FetchWriteFails, NeedsWriteBack
<1>3. PICK v \in Value : disk' = [disk EXCEPT ![q] = v]
  BY Zenon DEF FetchWriteFails
<1>4. /\ free_list' = TakenFreeList /\ replacer' = TakenReplacer
      /\ result' = "io_error"
      /\ write_errors' = write_errors + 1 /\ write_errors < MaxWriteErrors
      /\ UNCHANGED <<page_table, frames, pages, pins, ptr, wrote, read_errors>>
  BY DEF FetchWriteFails, clientVars
<1>e. write_errors' \in 0 .. MaxWriteErrors
  BY <1>4, PoolAssumption DEF TypeOK
<1> HIDE DEF f
<1>5. q \in Page /\ page_table[q] = f
  BY <1>1, <1>2 DEF UsedFrames
<1> HIDE DEF q
<1>6. disk' \in [Page -> Value \cup {Unwritten}] /\ disk'[q] = v
      /\ \A x \in Page : x # q => disk'[x] = disk[x]
  BY <1>3, <1>5 DEF TypeOK
<1>7. TypeOK'
  <2>1. replacer' \in ReplacerState /\ result' \in {"ok", "no_frame", "io_error"}
    BY <1>r, <1>4 DEF WellLinked
  <2> QED
    BY <1>l, <1>4, <1>e, <1>6, <2>1, Zenon DEF TypeOK
<1>8. MappedFrames'
  BY <1>4, <1>6 DEF MappedFrames
<1>9. UsedFrames' /\ PinsCounted'
  <2>1. UsedFrames'
    BY <1>4, Zenon DEF UsedFrames
  <2>2. PinsCounted'
    BY <1>4, Zenon DEF PinsCounted
  <2> QED
    BY <2>1, <2>2, Zenon
<1>10. PinnedFrames'
  <2> SUFFICES ASSUME NEW g \in Frame, frames[g].pin_count > 0
               PROVE  /\ g \in TakenReplacer.entries \ TakenReplacer.evictable
                      /\ frames[g].in_use /\ page_table[frames[g].page_id] = g
    BY <1>4, Zenon DEF PinnedFrames
  <2>1. g # f
    BY <1>1
  <2> QED
    BY <1>r, <2>1, Zenon DEF PinnedFrames
<1>11. EvictableFrames'
  BY <1>r, <1>4 DEF EvictableFrames
<1>12. FreeFrames'
  <2> SUFFICES ASSUME NEW i \in DOMAIN TakenFreeList
               PROVE  /\ TakenFreeList[i] \notin TakenReplacer.entries
                      /\ ~frames[TakenFreeList[i]].in_use
                      /\ \A j \in DOMAIN TakenFreeList : i # j => TakenFreeList[i] # TakenFreeList[j]
    BY <1>4 DEF FreeFrames
  <2>1. i \in DOMAIN free_list /\ TakenFreeList[i] = free_list[i]
    BY <1>l
  <2>2. free_list[i] \notin replacer.entries /\ ~frames[free_list[i]].in_use
    BY <2>1 DEF FreeFrames
  <2>3. \A j \in DOMAIN TakenFreeList : i # j => TakenFreeList[i] # TakenFreeList[j]
    BY <1>l, <2>1 DEF FreeFrames
  <2> QED
    BY <1>r, <2>1, <2>2, <2>3
<1>13. Coherent'
  BY <1>2, <1>4, <1>5, <1>6 DEF Coherent
<1>14. WellLinked(replacer')
  BY <1>r, <1>4
<1> QED
  BY <1>7, <1>8, <1>9, <1>10, <1>11, <1>12, <1>13, <1>14 DEF PoolInv

(* FetchPage whose read throws leaks an unmapped frame, no more. *)
LEMMA FetchReadFailsInv ==
    ASSUME NatWellOrdered, PoolInv, NEW p \in Page, FetchReadFails(p)
    PROVE  PoolInv'
<1> DEFINE f == FreeFrame
<1>p. /\ TypeOK /\ MappedFrames /\ UsedFrames /\ PinsCounted /\ PinnedFrames
      /\ EvictableFrames /\ WellLinked(replacer) /\ FreeFrames /\ Coherent
  BY DEF PoolInv
<1> USE <1>p
<1>1. /\ f \in Frame /\ frames[f].pin_count = 0
      /\ frames[f].in_use => page_table[frames[f].page_id] = f
  BY TakeFrame DEF FetchReadFails
<1>r. /\ WellLinked(TakenReplacer)
      /\ TakenReplacer.entries = replacer.entries \ {f}
      /\ TakenReplacer.evictable = replacer.evictable \ {f}
  BY TakeFrame DEF FetchReadFails
<1>l. /\ TakenFreeList \in Seq(Frame)
      /\ \A i \in DOMAIN TakenFreeList :
            /\ i \in DOMAIN free_list
            /\ TakenFreeList[i] = free_list[i]
            /\ TakenFreeList[i] # f
  BY TakeFrame DEF FetchReadFails
<1>2. /\ disk' = WrittenBack(f) /\ page_table' = Unmapped(f)
      /\ free_list' = TakenFreeList /\ replacer' = TakenReplacer
      /\ result' = "io_error"
      /\ read_errors' = read_errors + 1 /\ read_errors < MaxReadErrors
      /\ UNCHANGED <<frames, pages, pins, ptr, wrote, write_errors>>
  BY DEF FetchReadFails, clientVars
<1>e. read_errors' \in 0 .. MaxReadErrors /\ read_errors' # 0
  BY <1>2, PoolAssumption DEF TypeOK
<1> HIDE DEF f
<1>3. /\ disk' \in [Page -> Value \cup {Unwritten}]
      /\ page_table' \in [Page -> Frame \cup {NoFrame}]
      /\ \A q \in Page :
            /\ disk'[q] = IF page_table[q] = f THEN pages[f] ELSE disk[q]
            /\ page_table'[q] = IF page_table[q] = f THEN NoFrame ELSE page_table[q]
  BY <1>1, <1>2, CleanFrame
<1>t. page_table \in [Page -> Frame \cup {NoFrame}] /\ NoFrame \notin Frame
  BY FrameIsNotNoFrame DEF TypeOK
<1>4. TypeOK'
  <2>1. replacer' \in ReplacerState /\ result' \in {"ok", "no_frame", "io_error"}
    BY <1>r, <1>2 DEF WellLinked
  <2> QED
    BY <1>l, <1>2, <1>e, <1>3, <2>1, Zenon DEF TypeOK
<1>5. MappedFrames'
  <2> SUFFICES ASSUME NEW q \in Page, page_table'[q] # NoFrame
               PROVE  /\ frames[page_table'[q]].in_use
                      /\ frames[page_table'[q]].page_id = q
                      /\ pages[page_table'[q]] \in Value
                      /\ disk'[q] \in Value
    BY <1>2 DEF MappedFrames
  <2>1. page_table[q] # NoFrame /\ page_table'[q] = page_table[q] /\ disk'[q] = disk[q]
    BY <1>3
  <2> QED
    BY <2>1 DEF MappedFrames
<1>6. UsedFrames'
  BY <1>2, <1>e DEF UsedFrames
<1>7. PinsCounted'
  <2> SUFFICES ASSUME NEW q \in Page
               PROVE  /\ page_table'[q] = NoFrame => pins[q] = 0
                      /\ page_table'[q] # NoFrame => pins[q] = frames[page_table'[q]].pin_count
                      /\ pins[q] > 0 => ptr[q] = page_table'[q]
                      /\ wrote[q] => pins[q] > 0
    BY <1>2 DEF PinsCounted
  <2>1. CASE page_table[q] = f
    BY <2>1, <1>1, <1>3, <1>t DEF PinsCounted
  <2>2. CASE page_table[q] # f
    BY <2>2, <1>3 DEF PinsCounted
  <2> QED
    BY <2>1, <2>2
<1>8. PinnedFrames'
  <2> SUFFICES ASSUME NEW g \in Frame, frames[g].pin_count > 0
               PROVE  /\ g \in TakenReplacer.entries \ TakenReplacer.evictable
                      /\ frames[g].in_use
                      /\ page_table'[frames[g].page_id] = g
    BY <1>2 DEF PinnedFrames
  <2>1. g # f
    BY <1>1
  <2>2. /\ g \in replacer.entries \ replacer.evictable /\ frames[g].in_use
        /\ page_table[frames[g].page_id] = g /\ frames[g].page_id \in Page
    BY DEF PinnedFrames, UsedFrames
  <2> QED
    BY <1>r, <1>3, <2>1, <2>2
<1>9. EvictableFrames'
  <2> SUFFICES ASSUME NEW g \in replacer.evictable \ {f}
               PROVE  /\ frames[g].pin_count = 0
                      /\ frames[g].in_use
                      /\ page_table'[frames[g].page_id] = g
    BY <1>r, <1>2 DEF EvictableFrames
  <2>1. g \in Frame /\ g # f
    BY DEF WellLinked, ReplacerState
  <2>2. /\ frames[g].pin_count = 0 /\ frames[g].in_use
        /\ page_table[frames[g].page_id] = g /\ frames[g].page_id \in Page
    BY <2>1 DEF EvictableFrames, UsedFrames
  <2> QED
    BY <1>3, <2>1, <2>2
<1>10. FreeFrames'
  <2> SUFFICES ASSUME NEW i \in DOMAIN TakenFreeList
               PROVE  /\ TakenFreeList[i] \notin TakenReplacer.entries
                      /\ ~frames[TakenFreeList[i]].in_use
                      /\ \A j \in DOMAIN TakenFreeList : i # j => TakenFreeList[i] # TakenFreeList[j]
    BY <1>2 DEF FreeFrames
  <2>1. i \in DOMAIN free_list /\ TakenFreeList[i] = free_list[i]
    BY <1>l
  <2>2. free_list[i] \notin replacer.entries /\ ~frames[free_list[i]].in_use
    BY <2>1 DEF FreeFrames
  <2>3. \A j \in DOMAIN TakenFreeList : i # j => TakenFreeList[i] # TakenFreeList[j]
    BY <1>l, <2>1 DEF FreeFrames
  <2> QED
    BY <1>r, <2>1, <2>2, <2>3
<1>11. Coherent'
  <2> SUFFICES ASSUME NEW q \in Page, page_table'[q] # NoFrame,
                      ~frames[page_table'[q]].is_dirty, ~wrote[q]
               PROVE  pages[page_table'[q]] = disk'[q]
    BY <1>2 DEF Coherent
  <2>1. page_table[q] # NoFrame /\ page_table'[q] = page_table[q] /\ disk'[q] = disk[q]
    BY <1>3
  <2> QED
    BY <2>1 DEF Coherent
<1>12. WellLinked(replacer')
  BY <1>r, <1>2
<1> QED
  BY <1>4, <1>5, <1>6, <1>7, <1>8, <1>9, <1>10, <1>11, <1>12 DEF PoolInv

(* A client's UnpinPage preserves the invariant. *)
LEMMA ReleaseInv ==
    ASSUME PoolInv, NEW p \in Page, NEW is_dirty \in BOOLEAN
    PROVE  Release(p, is_dirty) => PoolInv'
<1>0. SUFFICES ASSUME Release(p, is_dirty) PROVE PoolInv'
  OBVIOUS
<1> DEFINE f == page_table[p]
<1>p. /\ TypeOK /\ MappedFrames /\ UsedFrames /\ PinsCounted /\ PinnedFrames
      /\ EvictableFrames /\ WellLinked(replacer) /\ FreeFrames /\ Coherent
  BY DEF PoolInv
<1> USE <1>p
<1>1. /\ f \in Frame /\ f # NoFrame /\ frames[f].in_use /\ frames[f].page_id = p
      /\ pins[p] = frames[f].pin_count /\ pins[p] > 0 /\ pins[p] \in Nat
      /\ f \in replacer.entries
  BY <1>0 DEF Release, TypeOK, MappedFrames, PinsCounted, PinnedFrames
<1>2. /\ frames' = [frames EXCEPT ![f] = Unpinned(@, is_dirty)]
      /\ replacer' = IF frames[f].pin_count = 1 THEN SetEvictable(replacer, f, TRUE)
                                                ELSE replacer
  <2>1. ~(f = NoFrame \/ frames[f].pin_count = 0)
    BY <1>1
  <2> QED
    BY <1>0, <2>1, Zenon DEF Release, UnpinPage
<1>3. /\ pins' = [pins EXCEPT ![p] = @ - 1]
      /\ wrote' = [wrote EXCEPT ![p] = FALSE]
      /\ wrote[p] => is_dirty
      /\ result' = "ok"
      /\ UNCHANGED <<page_table, pages, free_list, disk, ptr, read_errors, write_errors>>
  BY <1>0 DEF Release, errorVars
<1>4. /\ WellLinked(replacer') /\ replacer'.entries = replacer.entries
      /\ replacer'.evictable = IF frames[f].pin_count = 1 THEN replacer.evictable \cup {f}
                                                          ELSE replacer.evictable
  <2>1. CASE frames[f].pin_count = 1
    <3>1. replacer' = MadeEvictable(replacer, f)
      BY <2>1, <1>2, Zenon DEF MadeEvictable
    <3>2. /\ WellLinked(replacer') /\ replacer'.entries = replacer.entries
          /\ replacer'.evictable = replacer.evictable \cup {f}
      BY <3>1, <1>1, SetEvictableAdds
    <3> QED
      BY <2>1, <3>2
  <2>2. CASE frames[f].pin_count # 1
    <3>1. replacer' = replacer
      BY <2>2, <1>2, Zenon
    <3> QED
      BY <2>2, <3>1
  <2> QED
    BY <2>1, <2>2
<1> HIDE DEF f
<1> DEFINE meta == [page_id |-> frames[f].page_id, pin_count |-> frames[f].pin_count - 1,
                    is_dirty |-> frames[f].is_dirty \/ is_dirty, in_use |-> frames[f].in_use]
<1>5. frames' = [frames EXCEPT ![f] = meta]
  BY <1>2, Zenon DEF Unpinned
<1>6. \A g \in Frame :
         /\ frames'[g].page_id = frames[g].page_id
         /\ frames'[g].in_use = frames[g].in_use
         /\ g # f => /\ frames'[g].pin_count = frames[g].pin_count
                     /\ frames'[g].is_dirty = frames[g].is_dirty
  BY <1>1, <1>5, Zenon DEF TypeOK
<1>16. frames'[f] = meta
  <2> HIDE DEF meta
  <2> QED
    BY <1>1, <1>5, Zenon DEF TypeOK
<1>13. frames'[f].pin_count = frames[f].pin_count - 1
  BY <1>16
<1>14. ~frames'[f].is_dirty => ~frames[f].is_dirty /\ ~is_dirty
  BY <1>1, <1>5, Zenon DEF TypeOK
<1>7. TypeOK'
  <2>1. frames \in [Frame -> FrameMeta] /\ frames[f] \in FrameMeta
    BY <1>1 DEF TypeOK
  <2>2. meta \in FrameMeta
    <3>1. frames[f].pin_count - 1 \in Nat
      BY <1>1
    <3>2. (frames[f].is_dirty \/ is_dirty) \in BOOLEAN
      BY Zenon
    <3>3. frames[f].page_id \in Page \cup {NoPage} /\ frames[f].in_use \in BOOLEAN
      BY <2>1 DEF FrameMeta
    <3> QED
      BY <3>1, <3>2, <3>3, Zenon DEF FrameMeta
  <2> HIDE DEF meta
  <2>3. frames' \in [Frame -> FrameMeta]
    BY <1>5, <2>1, <2>2, Zenon
  <2>4. pins' \in [Page -> Nat] /\ wrote' \in [Page -> BOOLEAN]
    BY <1>1, <1>3 DEF TypeOK
  <2>5. replacer' \in ReplacerState /\ result' \in {"ok", "no_frame", "io_error"}
    BY <1>3, <1>4 DEF WellLinked
  <2> QED
    BY <1>3, <2>3, <2>4, <2>5, Zenon DEF TypeOK
<1> HIDE DEF meta
<1>17. \A q \in Page : page_table[q] # NoFrame => page_table[q] \in Frame
  BY DEF TypeOK
<1>8. MappedFrames'
  <2> SUFFICES ASSUME NEW q \in Page, page_table[q] # NoFrame
               PROVE  /\ frames'[page_table[q]].in_use
                      /\ frames'[page_table[q]].page_id = q
                      /\ pages[page_table[q]] \in Value
                      /\ disk[q] \in Value
    BY <1>3 DEF MappedFrames
  <2> QED
    BY <1>6, <1>17 DEF MappedFrames
<1>18. UsedFrames'
  BY <1>3, <1>6, Zenon DEF UsedFrames
<1>15. page_table[p] = f /\ \A q \in Page \ {p} : page_table[q] # f
  BY <1>1 DEF MappedFrames, f
<1>9. PinsCounted'
  <2>1. pins'[p] = frames'[f].pin_count /\ ~wrote'[p] /\ (pins'[p] > 0 => ptr'[p] = f)
    BY <1>1, <1>3, <1>13, <1>15 DEF PinsCounted, TypeOK
  <2>2. \A q \in Page \ {p} : /\ pins'[q] = pins[q] /\ ptr'[q] = ptr[q] /\ wrote'[q] = wrote[q]
                              /\ page_table[q] # NoFrame =>
                                   frames'[page_table[q]].pin_count = frames[page_table[q]].pin_count
    <3> SUFFICES ASSUME NEW q \in Page \ {p}
                 PROVE  /\ pins'[q] = pins[q] /\ ptr'[q] = ptr[q] /\ wrote'[q] = wrote[q]
                        /\ page_table[q] # NoFrame =>
                             frames'[page_table[q]].pin_count = frames[page_table[q]].pin_count
      OBVIOUS
    <3>1. pins'[q] = pins[q] /\ ptr'[q] = ptr[q] /\ wrote'[q] = wrote[q]
      BY <1>3 DEF TypeOK
    <3> QED
      BY <1>6, <1>15, <1>17, <3>1
  <2> QED
    BY <1>1, <1>3, <1>15, <2>1, <2>2 DEF PinsCounted
<1>10. PinnedFrames' /\ EvictableFrames'
  <2>1. PinnedFrames'
    <3> SUFFICES ASSUME NEW g \in Frame, frames'[g].pin_count > 0
                 PROVE  /\ g \in replacer'.entries \ replacer'.evictable
                        /\ frames'[g].in_use
                        /\ page_table'[frames'[g].page_id] = g
      BY DEF PinnedFrames
    <3>1. frames[g].pin_count > 0 /\ (g = f => frames[f].pin_count # 1)
      BY <1>1, <1>6, <1>13
    <3> QED
      BY <1>3, <1>4, <1>6, <3>1 DEF PinnedFrames
  <2>2. EvictableFrames'
    <3> SUFFICES ASSUME NEW g \in replacer'.evictable
                 PROVE  /\ frames'[g].pin_count = 0
                        /\ frames'[g].in_use
                        /\ page_table'[frames'[g].page_id] = g
      BY DEF EvictableFrames
    <3>1. CASE g = f
      <4>1. frames[f].pin_count = 1
        BY <3>1, <1>1, <1>4 DEF EvictableFrames
      <4> QED
        BY <3>1, <4>1, <1>1, <1>3, <1>6, <1>13, <1>15
    <3>2. CASE g # f
      <4>1. g \in replacer.evictable /\ g \in Frame
        BY <3>2, <1>4 DEF WellLinked, ReplacerState
      <4> QED
        BY <3>2, <4>1, <1>3, <1>6 DEF EvictableFrames
    <3> QED
      BY <3>1, <3>2
  <2> QED
    BY <2>1, <2>2
<1>11. FreeFrames'
  <2> SUFFICES ASSUME NEW i \in DOMAIN free_list
               PROVE  /\ free_list[i] \notin replacer'.entries
                      /\ ~frames'[free_list[i]].in_use
                      /\ \A j \in DOMAIN free_list : i # j => free_list[i] # free_list[j]
    BY <1>3 DEF FreeFrames
  <2>1. free_list[i] \in Frame
    BY DEF TypeOK
  <2> QED
    BY <1>4, <1>6, <2>1 DEF FreeFrames
<1>12. Coherent'
  <2>1. ~frames'[f].is_dirty => pages[f] = disk[p]
    BY <1>1, <1>3, <1>14, <1>15 DEF Coherent
  <2>2. \A q \in Page \ {p} : /\ wrote'[q] = wrote[q]
                              /\ page_table[q] # NoFrame =>
                                   frames'[page_table[q]].is_dirty = frames[page_table[q]].is_dirty
    BY <1>3, <1>6, <1>15, <1>17 DEF TypeOK
  <2> QED
    BY <1>3, <1>15, <2>1, <2>2, Zenon DEF Coherent
<1> QED
  BY <1>4, <1>7, <1>8, <1>18, <1>9, <1>10, <1>11, <1>12 DEF PoolInv

(* Unpinning a page nobody holds takes one of the early returns. *)
LEMMA StrayUnpinInv ==
    ASSUME PoolInv, NEW p \in Page, NEW is_dirty \in BOOLEAN
    PROVE  StrayUnpin(p, is_dirty) =>
             /\ PoolInv'
             /\ UNCHANGED <<page_table, frames, pages, disk, pins>>
<1>0. SUFFICES ASSUME StrayUnpin(p, is_dirty)
               PROVE  PoolInv' /\ UNCHANGED <<page_table, frames, pages, disk, pins>>
  OBVIOUS
<1>1. pins[p] = 0
  BY <1>0 DEF StrayUnpin
<1>2. page_table[p] = NoFrame \/ frames[page_table[p]].pin_count = 0
  BY <1>1 DEF PoolInv, PinsCounted
<1>3. UNCHANGED <<frames, replacer>>
  BY <1>0, <1>2, Zenon DEF StrayUnpin, UnpinPage
<1>4. /\ UNCHANGED <<page_table, pages, free_list, disk, pins, ptr, wrote,
                     read_errors, write_errors>>
      /\ result' = "ok"
  BY <1>0 DEF StrayUnpin, clientVars, errorVars
<1> QED
  BY <1>3, <1>4, UnchangedInv

(* A write through a pinned pointer reaches only that frame. *)
LEMMA WriteThroughPointerInv ==
    ASSUME PoolInv, NEW p \in Page, NEW v \in Value, WriteThroughPointer(p, v)
    PROVE  PoolInv'
<1> DEFINE f == page_table[p]
<1>p. /\ TypeOK /\ MappedFrames /\ UsedFrames /\ PinsCounted /\ PinnedFrames
      /\ EvictableFrames /\ WellLinked(replacer) /\ FreeFrames /\ Coherent
  BY DEF PoolInv
<1> USE <1>p
<1>1. f \in Frame /\ f # NoFrame /\ ptr[p] = f /\ pins[p] > 0
  BY DEF WriteThroughPointer, PinsCounted, TypeOK
<1>2. \A q \in Page \ {p} : page_table[q] # f
  BY <1>1 DEF MappedFrames
<1>3. /\ pages' = [pages EXCEPT ![f] = v]
      /\ wrote' = [wrote EXCEPT ![p] = TRUE]
      /\ result' = "ok"
      /\ UNCHANGED <<page_table, frames, free_list, replacer, disk, pins, ptr,
                     read_errors, write_errors>>
  BY <1>1 DEF WriteThroughPointer, errorVars
<1>4. pages' \in [Frame -> Value \cup {Unwritten}] /\ pages'[f] = v
      /\ \A g \in Frame \ {f} : pages'[g] = pages[g]
  BY <1>1, <1>3 DEF TypeOK
<1>5. wrote' \in [Page -> BOOLEAN] /\ wrote'[p] /\ \A q \in Page \ {p} : wrote'[q] = wrote[q]
  BY <1>3 DEF TypeOK
<1>6. \A q \in Page \ {p} : page_table[q] # NoFrame => page_table[q] \in Frame \ {f}
  BY <1>2 DEF TypeOK
<1>7. TypeOK'
  <2>1. result' \in {"ok", "no_frame", "io_error"}
    BY <1>3
  <2> QED
    BY <1>3, <1>4, <1>5, <2>1, Zenon DEF TypeOK
<1>8. MappedFrames'
  <2> SUFFICES ASSUME NEW q \in Page, page_table[q] # NoFrame
               PROVE  /\ frames[page_table[q]].in_use
                      /\ frames[page_table[q]].page_id = q
                      /\ pages'[page_table[q]] \in Value
                      /\ disk[q] \in Value
    BY <1>3 DEF MappedFrames
  <2> QED
    BY <1>4, <1>6 DEF MappedFrames
<1>9. PinsCounted'
  <2>1. \A q \in Page : wrote'[q] => pins[q] > 0
    BY <1>1, <1>5 DEF PinsCounted
  <2> QED
    BY <1>3, <2>1, Zenon DEF PinsCounted
<1>10. Coherent'
  <2> SUFFICES ASSUME NEW q \in Page, page_table[q] # NoFrame,
                      ~frames[page_table[q]].is_dirty, ~wrote'[q]
               PROVE  pages'[page_table[q]] = disk[q]
    BY <1>3 DEF Coherent
  <2> QED
    BY <1>4, <1>5, <1>6 DEF Coherent
<1>11. UsedFrames' /\ PinnedFrames' /\ EvictableFrames'
  BY <1>3, Zenon DEF UsedFrames, PinnedFrames, EvictableFrames
<1>12. WellLinked(replacer') /\ FreeFrames'
  BY <1>3, Zenon DEF FreeFrames
<1> QED
  BY <1>7, <1>8, <1>9, <1>10, <1>11, <1>12 DEF PoolInv

(* What the allocator has not handed out yet is neither in the file nor in *)
(* a frame.                                                                *)
FreshPages ==
    /\ next_free_page_id \in Nat
    /\ \A p \in Page : disk[p] # Unwritten => p < next_free_page_id
    /\ \A f \in Frame : frames[f].in_use => frames[f].page_id < next_free_page_id

(* INSERT's writes around the pool reach only pages nobody caches. *)
LEMMA InsertWritesInv ==
    ASSUME PoolInv, FreshPages, NEW p \in Page, NEW v \in Value, InsertWrites(p, v)
    PROVE  PoolInv' /\ disk[p] = Unwritten
<1>p. /\ TypeOK /\ MappedFrames /\ UsedFrames /\ PinsCounted /\ PinnedFrames
      /\ EvictableFrames /\ WellLinked(replacer) /\ FreeFrames /\ Coherent
  BY DEF PoolInv
<1> USE <1>p
<1>0. disk[p] = Unwritten
  BY DEF InsertWrites, AllocatePage, FreshPages
<1>1. page_table[p] = NoFrame
  BY <1>0, PoolAssumption DEF MappedFrames
<1>2. /\ disk' = [disk EXCEPT ![p] = v]
      /\ result' = "ok"
      /\ UNCHANGED <<page_table, frames, pages, free_list, replacer, pins, ptr, wrote,
                     read_errors, write_errors>>
  BY DEF InsertWrites, poolVars, clientVars, errorVars
<1>3. disk' \in [Page -> Value \cup {Unwritten}]
      /\ \A q \in Page : page_table[q] # NoFrame => disk'[q] = disk[q]
  BY <1>1, <1>2 DEF TypeOK
<1>4. TypeOK'
  <2>1. result' \in {"ok", "no_frame", "io_error"}
    BY <1>2
  <2> QED
    BY <1>2, <1>3, <2>1, Zenon DEF TypeOK
<1>5. MappedFrames'
  BY <1>2, <1>3, Zenon DEF MappedFrames
<1>6. Coherent'
  BY <1>2, <1>3, Zenon DEF Coherent
<1>7. UsedFrames' /\ PinsCounted' /\ PinnedFrames' /\ EvictableFrames'
  BY <1>2, Zenon DEF UsedFrames, PinsCounted, PinnedFrames, EvictableFrames
<1>8. WellLinked(replacer') /\ FreeFrames'
  BY <1>2, Zenon DEF FreeFrames
<1> QED
  BY <1>0, <1>4, <1>5, <1>6, <1>7, <1>8 DEF PoolInv

(* A write that fails leaves the pool and the pages of row groups alone. *)
LEMMA InsertFailsInv ==
    ASSUME PoolInv, NEW p \in Page, InsertFails(p)
    PROVE  PoolInv'
BY UnchangedInv DEF InsertFails, poolVars, clientVars, errorVars
=============================================================================
