-------------------------- MODULE BufferPoolProofs --------------------------
(***************************************************************************)
(* The theorems about BufferPool, for every pool size and any number of    *)
(* I/O errors: PoolInv is inductive, and with it the clients' pointers     *)
(* stay valid, clean pages equal the disk, the replacer and the pool       *)
(* agree, pinned bytes are stable, the pool implements PageStore, and      *)
(* FetchPage loses a frame only to an I/O error, and then one.             *)
(* BufferPoolSteps has the lemmas about the calls of a session; here are   *)
(* the restart and the conclusions.                                        *)
(***************************************************************************)
EXTENDS BufferPoolSteps, WellFoundedInduction, FiniteSetTheorems

(* A non-empty set of numbers has a least element. *)
LEMMA LeastExists == NatWellOrdered
<1> SUFFICES ASSUME NEW T \in SUBSET Nat, T # {}
             PROVE  \E x \in T : \A y \in T : x <= y
  BY DEF NatWellOrdered
<1>1. PICK x \in T : \A y \in T : <<y, x>> \notin OpToRel(<, Nat)
  BY NatLessThanWellFounded, WFMin, Zenon
<1>2. \A y \in T : ~(y < x)
  BY <1>1, Zenon DEF OpToRel
<1> QED
  BY <1>2

(* Of several frames holding a page, the destructor writes the highest     *)
(* last.                                                                   *)
LEMMA HighestExists ==
    ASSUME NEW T \in SUBSET Frame, T # {}
    PROVE  \E f \in T : \A g \in T : g <= f
<1> DEFINE U == {PoolSize - f : f \in T}
<1>1. U \in SUBSET Nat /\ U # {}
  <2>1. \A f \in T : PoolSize - f \in Nat
    BY PoolAssumption DEF Frame
  <2> QED
    BY <2>1
<1>2. PICK x \in U : \A y \in U : x <= y
  BY <1>1, LeastExists, Zenon DEF NatWellOrdered
<1>3. PICK f \in T : x = PoolSize - f
  BY <1>2
<1>4. ASSUME NEW g \in T PROVE g <= f
  <2>1. x <= PoolSize - g
    BY <1>2
  <2> QED
    BY <1>3, <2>1, PoolAssumption DEF Frame
<1> QED
  BY <1>4

(* What the destructor leaves on disk, wherever it stops. *)
LEMMA WrittenBackTyped ==
    ASSUME TypeOK, NEW n, NEW p \in Page
    PROVE  WrittenBackBelow(n, p) \in Value \cup {Unwritten}
<1> DEFINE written == {f \in DirtyFrames(p) : f < n}
<1>1. WrittenBackBelow(n, p) = IF written = {} THEN disk[p]
                               ELSE pages[CHOOSE f \in written : \A g \in written : g <= f]
  BY Zenon DEF WrittenBackBelow
<1>2. written \in SUBSET Frame
  BY DEF DirtyFrames
<1> HIDE DEF written
<1>3. CASE written = {}
  BY <1>1, <1>3 DEF TypeOK
<1>4. CASE written # {}
  <2>1. \E f \in written : \A g \in written : g <= f
    BY <1>2, <1>4, HighestExists
  <2>2. (CHOOSE f \in written : \A g \in written : g <= f) \in Frame
    BY <1>2, <2>1
  <2> QED
    BY <1>1, <1>4, <2>2 DEF TypeOK
<1> QED
  BY <1>3, <1>4

(* The destructor, whether it returns or not, and the next session's       *)
(* constructor preserve it.                                                *)
LEMMA ReopenInv ==
    ASSUME PoolInv, Reopen \/ ReopenFails
    PROVE  PoolInv'
<1>0. TypeOK
  BY DEF PoolInv
<1>1. disk' \in [Page -> Value \cup {Unwritten}] /\ Rebuild
  <2>1. CASE Reopen
    BY <1>0, <2>1, WrittenBackTyped DEF Reopen
  <2>2. CASE ReopenFails
    <3>1. PICK f \in Frame, v \in Value :
            disk' = [p \in Page |-> IF p = frames[f].page_id THEN v ELSE WrittenBackBelow(f, p)]
      BY <2>2, Zenon DEF ReopenFails
    <3> QED
      BY <1>0, <2>2, <3>1, WrittenBackTyped DEF ReopenFails
  <2> QED
    BY <2>1, <2>2
<1>2. wrote' = [p \in Page |-> FALSE]
  BY <1>0, <1>1 DEF Rebuild, TypeOK
<1>3. read_errors' \in 0 .. MaxReadErrors /\ write_errors' \in 0 .. MaxWriteErrors
  BY <1>0, <1>1, PoolAssumption DEF Reopen, ReopenFails, Rebuild, TypeOK
<1>4. FreshPool'
  BY <1>1, <1>2, <1>3, Zenon DEF FreshPool, Rebuild
<1>5. FreshPool' => PoolInv'
  BY FreshPoolInv, PTL
<1> QED
  BY <1>4, <1>5

(* So does a step that changes nothing. *)
LEMMA StutterInv ==
    ASSUME PoolInv, UNCHANGED vars
    PROVE  PoolInv'
<1>1. result' \in {"ok", "no_frame", "io_error"}
  BY DEF vars, PoolInv, TypeOK
<1> QED
  BY <1>1, UnchangedInv DEF vars

(* Every call of the pool and every client step preserves the invariant. *)
LEMMA NextInv ==
    ASSUME PoolInv, FreshPages, [Next]_vars
    PROVE  PoolInv'
<1>1. ASSUME NEW p \in Page,
             FetchHit(p) \/ FetchMiss(p) \/ FetchNoFrame(p)
               \/ FetchWriteFails(p) \/ FetchReadFails(p)
      PROVE  PoolInv'
  BY <1>1, LeastExists, FetchHitInv, FetchMissInv, FetchNoFrameInv, FetchWriteFailsInv,
     FetchReadFailsInv
<1>2. ASSUME NEW p \in Page, NEW is_dirty \in BOOLEAN,
             Release(p, is_dirty) \/ StrayUnpin(p, is_dirty)
      PROVE  PoolInv'
  BY <1>2, ReleaseInv, StrayUnpinInv, Zenon
<1>3. ASSUME NEW p \in Page, NEW v \in Value,
             WriteThroughPointer(p, v) \/ InsertWrites(p, v)
      PROVE  PoolInv'
  BY <1>3, WriteThroughPointerInv, InsertWritesInv
<1>4. ASSUME NEW p \in Page, InsertFails(p)
      PROVE  PoolInv'
  BY <1>4, InsertFailsInv
<1>5. CASE Reopen \/ ReopenFails
  BY <1>5, ReopenInv
<1>6. CASE UNCHANGED vars
  BY <1>6, StutterInv
<1> QED
  BY <1>1, <1>2, <1>3, <1>4, <1>5, <1>6, Zenon DEF Next

(* The allocator stays ahead of the file and of the frames when a step     *)
(* writes only pages that were written, that a frame holds, or that it     *)
(* has just handed out.                                                    *)
LEMMA AllocatorAhead ==
    ASSUME FreshPages, PoolInv, next_free_page_id' \in Nat, next_free_page_id <= next_free_page_id',
           \A q \in Page : disk'[q] # Unwritten =>
              \/ disk[q] # Unwritten
              \/ \E f \in Frame : frames[f].in_use /\ frames[f].page_id = q
              \/ q < next_free_page_id',
           \A f \in Frame : frames'[f].in_use =>
              \/ frames[f].in_use /\ frames'[f].page_id = frames[f].page_id
              \/ frames'[f].page_id \in Page /\ disk[frames'[f].page_id] # Unwritten
    PROVE  FreshPages'
<1>1. next_free_page_id \in Nat /\ Page \subseteq Nat
  BY PoolAssumption DEF FreshPages
<1>2. \A q \in Page : disk'[q] # Unwritten => q < next_free_page_id'
  BY <1>1 DEF FreshPages
<1>3. \A f \in Frame : frames[f].in_use => frames[f].page_id \in Page
  BY DEF PoolInv, UsedFrames
<1>4. \A f \in Frame : frames'[f].in_use => frames'[f].page_id < next_free_page_id'
  BY <1>1, <1>3 DEF FreshPages
<1> QED
  BY <1>2, <1>4 DEF FreshPages

LEMMA FreshNext ==
    ASSUME PoolInv, FreshPages, [Next]_vars
    PROVE  FreshPages'
<1>0. next_free_page_id \in Nat /\ TypeOK
  BY DEF FreshPages, PoolInv
<1>1. ASSUME NEW p \in Page, FetchMiss(p) \/ FetchReadFails(p)
      PROVE  FreshPages'
  <2> DEFINE f == FreeFrame
  <2>1. f \in Frame
    BY <1>1, LeastExists, TakeFrame DEF FetchMiss, FetchReadFails
  <2>2. disk' = WrittenBack(f) /\ next_free_page_id' = next_free_page_id
    BY <1>1, Zenon DEF FetchMiss, FetchReadFails
  <2>3. \/ frames' = frames
        \/ /\ frames' = [frames EXCEPT ![f] = [page_id |-> p, pin_count |-> 1,
                                               is_dirty |-> FALSE, in_use |-> TRUE]]
           /\ disk[p] # Unwritten
    BY <1>1, Zenon DEF FetchMiss, FetchReadFails, CanFetch
  <2> HIDE DEF f
  <2>4. \A q \in Page : disk'[q] # disk[q] => frames[f].in_use /\ frames[f].page_id = q
    BY <1>0, <2>2 DEF WrittenBack, NeedsWriteBack, TypeOK
  <2>5. \A g \in Frame : \/ frames'[g] = frames[g]
                         \/ frames'[g].page_id = p /\ disk[p] # Unwritten
    BY <1>0, <2>1, <2>3 DEF TypeOK
  <2> QED
    BY <1>0, <2>1, <2>2, <2>4, <2>5, AllocatorAhead
<1>2. ASSUME NEW p \in Page, FetchWriteFails(p)
      PROVE  FreshPages'
  <2> DEFINE f == FreeFrame
             x == frames[f].page_id
  <2>1. f \in Frame /\ frames[f].in_use
    BY <1>2, LeastExists, TakeFrame DEF FetchWriteFails, NeedsWriteBack
  <2>2. /\ \E v \in Value : disk' = [disk EXCEPT ![x] = v]
        /\ UNCHANGED <<frames, next_free_page_id>>
    BY <1>2, Zenon DEF FetchWriteFails
  <2> HIDE DEF f, x
  <2>3. \A q \in Page \ {x} : disk'[q] = disk[q]
    BY <1>0, <2>2 DEF TypeOK
  <2> QED
    BY <1>0, <2>1, <2>2, <2>3, AllocatorAhead DEF x
<1>3. ASSUME NEW p \in Page, FetchHit(p)
      PROVE  FreshPages'
  <2>1. /\ UNCHANGED <<disk, next_free_page_id>>
        /\ frames' = [frames EXCEPT ![page_table[p]].pin_count = @ + 1]
    BY <1>3, Zenon DEF FetchHit
  <2>2. \A g \in Frame : frames'[g].in_use = frames[g].in_use /\ frames'[g].page_id = frames[g].page_id
    BY <1>0, <2>1 DEF TypeOK, FrameMeta
  <2> QED
    BY <1>0, <2>1, <2>2, AllocatorAhead
<1>4. ASSUME NEW p \in Page, NEW is_dirty \in BOOLEAN,
             Release(p, is_dirty) \/ StrayUnpin(p, is_dirty)
      PROVE  FreshPages'
  <2>1. /\ UNCHANGED <<disk, next_free_page_id>>
        /\ \/ frames' = frames
           \/ frames' = [frames EXCEPT ![page_table[p]] = Unpinned(@, is_dirty)]
    BY <1>4, Zenon DEF Release, StrayUnpin, UnpinPage
  <2>2. \A meta : Unpinned(meta, is_dirty).in_use = meta.in_use
                 /\ Unpinned(meta, is_dirty).page_id = meta.page_id
    BY DEF Unpinned
  <2>3. \A g \in Frame : frames'[g] = frames[g] \/ frames'[g] = Unpinned(frames[g], is_dirty)
    BY <1>0, <2>1, Zenon DEF TypeOK
  <2>4. \A g \in Frame : frames'[g].in_use = frames[g].in_use /\ frames'[g].page_id = frames[g].page_id
    BY <2>2, <2>3, Zenon
  <2> QED
    BY <1>0, <2>1, <2>4, AllocatorAhead
<1>5. ASSUME NEW p \in Page, InsertFails(p) \/ \E v \in Value : InsertWrites(p, v)
      PROVE  FreshPages'
  <2>1. /\ frames' = frames /\ p = next_free_page_id /\ next_free_page_id' = p + 1
        /\ \A q \in Page \ {p} : disk'[q] = disk[q]
    BY <1>0, <1>5 DEF InsertFails, InsertWrites, AllocatePage, poolVars, TypeOK
  <2> QED
    BY <1>0, <2>1, AllocatorAhead
<1>6. CASE Reopen \/ ReopenFails
  <2>1. UNCHANGED next_free_page_id /\ \A f \in Frame : ~frames'[f].in_use
    BY <1>6 DEF Reopen, ReopenFails, Rebuild, Construct, UnusedFrame
  <2>2. ASSUME NEW q \in Page, \A f \in Frame : ~(frames[f].in_use /\ frames[f].page_id = q)
        PROVE  disk'[q] = disk[q]
    <3>1. DirtyFrames(q) = {}
      BY <2>2 DEF DirtyFrames, NeedsWriteBack
    <3>2. \A n : WrittenBackBelow(n, q) = disk[q]
      BY <3>1 DEF WrittenBackBelow
    <3> QED
      BY <1>6, <2>2, <3>2 DEF Reopen, ReopenFails, NeedsWriteBack
  <2> QED
    BY <1>0, <2>1, <2>2, AllocatorAhead
<1>7. CASE UNCHANGED <<frames, disk, next_free_page_id>>
  BY <1>0, <1>7, AllocatorAhead
<1>8. ASSUME NEW p \in Page, FetchNoFrame(p) \/ \E v \in Value : WriteThroughPointer(p, v)
      PROVE  UNCHANGED <<frames, disk, next_free_page_id>>
  BY <1>8 DEF FetchNoFrame, WriteThroughPointer, poolVars
<1>9. UNCHANGED vars => UNCHANGED <<frames, disk, next_free_page_id>>
  BY DEF vars
<1> QED
  BY <1>1, <1>2, <1>3, <1>4, <1>5, <1>6, <1>7, <1>8, <1>9, Zenon DEF Next

LEMMA FreshInit == Init => FreshPages
BY DEF Init, Construct, UnusedFrame, FreshPages, kFirstDataPageId

(* The inductive invariant holds in every reachable state of every pool,   *)
(* failed reads and writes included.                                       *)
THEOREM PoolInvariant == Spec => [](PoolInv /\ FreshPages)
BY InitInv, NextInv, FreshInit, FreshNext, PTL DEF Spec

(* FetchPage's pointers stay valid while pinned, for every pool size.      *)
THEOREM PointersStayValid == Spec => []PointerValid
<1>1. PoolInv => PointerValid
  BY FrameIsNotNoFrame DEF PoolInv, PointerValid, PinsCounted, MappedFrames, TypeOK
<1> QED
  BY <1>1, PoolInvariant, PTL

(* Clean cached pages equal their disk contents, for every pool size.      *)
THEOREM CacheCoherence == Spec => []Coherent
<1>1. PoolInv => Coherent
  BY DEF PoolInv
<1> QED
  BY <1>1, PoolInvariant, PTL

(* Evict only ever returns mapped unpinned frames, and UnpinPage's         *)
(* SetEvictable never meets an unknown frame.                              *)
THEOREM ReplacerAgreement == Spec => []ReplacerAgrees
<1>1. PoolInv => ReplacerAgrees
  BY Zenon DEF PoolInv, ReplacerAgrees, EvictableFrames, PinnedFrames
<1> QED
  BY <1>1, PoolInvariant, PTL

(* The type invariant, for every pool size. *)
THEOREM TypeCorrect == Spec => []TypeOK
<1>1. PoolInv => TypeOK
  BY DEF PoolInv
<1> QED
  BY <1>1, PoolInvariant, PTL

(* While a pin is held the pointer does not move and nobody else writes    *)
(* the bytes behind it: scans may read pages in place.                     *)
THEOREM PinnedBytesAreStable == Spec => PinnedBytesStable
<1>1. ASSUME PoolInv, NEW q \in Page, pins[q] > 0
      PROVE  /\ ptr[q] = page_table[q] /\ ptr[q] \in Frame
             /\ frames[ptr[q]].page_id = q /\ frames[ptr[q]].pin_count > 0
  BY <1>1 DEF PoolInv, PinsCounted, MappedFrames, TypeOK
<1>2. ASSUME PoolInv, [Next]_vars, NEW q \in Page
      PROVE  KeepsPinnedBytes(q)
  <2> SUFFICES ASSUME pins[q] > 0, pins'[q] > 0
               PROVE  KeepsPinnedBytes(q)
    BY DEF KeepsPinnedBytes
  <2>p. /\ pages \in [Frame -> Value \cup {Unwritten}] /\ ptr \in [Page -> Frame \cup {NoFrame}]
        /\ wrote \in [Page -> BOOLEAN]
        /\ \A x \in Page : page_table[x] = NoFrame => pins[x] = 0
    BY <1>2 DEF PoolInv, TypeOK, PinsCounted
  <2>q. /\ ptr[q] = page_table[q] /\ ptr[q] \in Frame
        /\ frames[ptr[q]].page_id = q /\ frames[ptr[q]].pin_count > 0
    BY <1>1, <1>2
  <2> USE DEF KeepsPinnedBytes
  <2>1. ASSUME NEW p \in Page, FetchHit(p)
        PROVE  KeepsPinnedBytes(q)
    BY <2>1, <2>p, <2>q DEF FetchHit, HandOut
  <2>2. ASSUME NEW p \in Page, FetchMiss(p)
        PROVE  KeepsPinnedBytes(q)
    <3>1. FreeFrame \in Frame /\ frames[FreeFrame].pin_count = 0
      BY <1>2, <2>2, LeastExists, TakeFrame DEF FetchMiss
    <3>2. p # q
      BY <2>2, <2>p DEF FetchMiss
    <3>3. ptr[q] \in Frame /\ ptr[q] # FreeFrame
      BY <2>q, <3>1
    <3>4. pages' = [pages EXCEPT ![FreeFrame] = disk'[p]] /\ ptr' = [ptr EXCEPT ![p] = FreeFrame]
      BY <2>2 DEF FetchMiss, HandOut
    <3> QED
      BY <2>p, <3>2, <3>3, <3>4
  <2>3. ASSUME NEW p \in Page, FetchNoFrame(p) \/ FetchWriteFails(p) \/ FetchReadFails(p)
        PROVE  KeepsPinnedBytes(q)
    BY <2>3 DEF FetchNoFrame, FetchWriteFails, FetchReadFails, poolVars, clientVars
  <2>4. ASSUME NEW p \in Page, NEW is_dirty \in BOOLEAN,
               Release(p, is_dirty) \/ StrayUnpin(p, is_dirty)
        PROVE  KeepsPinnedBytes(q)
    <3>1. UNCHANGED <<pages, ptr>>
      BY <2>4, Zenon DEF Release, StrayUnpin, clientVars
    <3> QED
      BY <3>1
  <2>5. ASSUME NEW p \in Page, NEW v \in Value, WriteThroughPointer(p, v)
        PROVE  KeepsPinnedBytes(q)
    <3>1. pages' = [pages EXCEPT ![ptr[p]] = v] /\ wrote' = [wrote EXCEPT ![p] = TRUE]
          /\ ptr' = ptr /\ pins[p] > 0
      BY <2>5 DEF WriteThroughPointer
    <3>2. CASE p = q
      BY <2>p, <2>q, <3>1, <3>2
    <3>3. CASE p # q
      <4>1. ptr[p] \in Frame /\ ptr[q] \in Frame /\ ptr[p] # ptr[q]
        BY <1>1, <1>2, <2>q, <3>1, <3>3
      <4> QED
        BY <2>p, <3>1, <4>1
    <3> QED
      BY <3>2, <3>3
  <2>6. ASSUME NEW p \in Page, NEW v \in Value, InsertWrites(p, v)
        PROVE  KeepsPinnedBytes(q)
    BY <2>6 DEF InsertWrites, poolVars, clientVars
  <2>7. CASE Reopen \/ ReopenFails
    BY <2>7 DEF Reopen, ReopenFails, Rebuild
  <2>9. ASSUME NEW p \in Page, InsertFails(p)
        PROVE  KeepsPinnedBytes(q)
    BY <2>9 DEF InsertFails, poolVars, clientVars
  <2>8. CASE UNCHANGED vars
    BY <2>8 DEF vars
  <2> HIDE DEF KeepsPinnedBytes
  <2> QED
    BY <1>2, <2>1, <2>2, <2>3, <2>4, <2>5, <2>6, <2>7, <2>8, <2>9, Zenon DEF Next
<1>3. PoolInv /\ [Next]_vars => [KeepsAllPinnedBytes]_vars
  BY <1>2 DEF KeepsAllPinnedBytes
<1> QED
  BY <1>3, PoolInvariant, PTL DEF Spec, PinnedBytesStable

-----------------------------------------------------------------------------
Store == [p \in Page |-> Contents(p)]

(* A step that leaves page table, memory and disk alone changes nothing    *)
(* for the clients.                                                        *)
LEMMA StoreUnchanged ==
    ASSUME UNCHANGED <<page_table, pages, disk>>
    PROVE  Store' = Store
BY DEF Store, Contents

(* A page is at risk when a frame the page table does not know is dirty    *)
(* with it.                                                                *)
Lost(p, table, meta) ==
    \E f \in Frame : meta[f].in_use /\ meta[f].is_dirty /\ meta[f].page_id = p /\ table[p] # f

LEMMA RiskMeaning ==
    /\ AtRisk = {p \in Page : Lost(p, page_table, frames)}
    /\ AtRisk' = {p \in Page : Lost(p, page_table', frames')}
BY Zenon DEF AtRisk, DirtyFrames, NeedsWriteBack, Lost

(* A step that leaves page table and FrameMeta alone, or that changes only *)
(* the pin count and the flag of a mapped frame, puts no page at risk and  *)
(* rescues none.                                                           *)
LEMMA RiskUnchanged ==
    ASSUME UNCHANGED <<page_table, frames>>
    PROVE  AtRisk' = AtRisk /\ Unsaved' = Unsaved
BY RiskMeaning DEF Unsaved

LEMMA RiskOfMapped ==
    ASSUME NEW f \in Frame, page_table' = page_table,
           page_table[frames[f].page_id] = f,
           frames'[f].page_id = frames[f].page_id,
           \A g \in Frame \ {f} : frames'[g] = frames[g]
    PROVE  AtRisk' = AtRisk
<1>1. \A p \in Page : Lost(p, page_table', frames') <=> Lost(p, page_table, frames)
  BY Zenon DEF Lost
<1> QED
  BY <1>1, RiskMeaning, Zenon

LEMMA UnsavedMeaning ==
    /\ \A q : q \in Unsaved <=>
             (q \in Page /\ page_table[q] # NoFrame /\ frames[page_table[q]].is_dirty)
    /\ \A q : q \in Unsaved' <=>
             (q \in Page /\ page_table'[q] # NoFrame /\ frames'[page_table'[q]].is_dirty)
BY Zenon DEF Unsaved

(* Every step is a step of PageStore or leaves it unchanged. *)
LEMMA StepRefines ==
    ASSUME PoolInv, FreshPages, [Next]_vars
    PROVE  [PS!Next]_(PS!vars)
<1>p. /\ TypeOK /\ MappedFrames /\ UsedFrames /\ PinsCounted /\ PinnedFrames
      /\ EvictableFrames /\ WellLinked(replacer) /\ FreeFrames /\ Coherent
  BY DEF PoolInv
<1> USE <1>p
<1>a. \A q \in Page : Contents(q) = IF page_table[q] # NoFrame THEN pages[page_table[q]]
                                                               ELSE disk[q]
  BY DEF Contents
<1>1. ASSUME NEW p \in Page, FetchHit(p)
      PROVE  PS!Pin(p)
  <2>1. Store' = Store
    BY <1>1, StoreUnchanged DEF FetchHit
  <2>2. Store[p] # Unwritten
    BY <1>1, PoolAssumption DEF FetchHit, Store, Contents, MappedFrames
  <2>3. pins' = [pins EXCEPT ![p] = @ + 1]
    BY <1>1 DEF FetchHit, HandOut
  <2>4. AtRisk' = AtRisk
    <3> DEFINE f == page_table[p]
    <3>1. f \in Frame /\ frames[f].page_id = p
      BY <1>1 DEF FetchHit, MappedFrames, TypeOK
    <3>2. page_table' = page_table /\ frames' = [frames EXCEPT ![f].pin_count = @ + 1]
      BY <1>1 DEF FetchHit
    <3>3. frames'[f].page_id = p /\ \A g \in Frame \ {f} : frames'[g] = frames[g]
      BY <3>1, <3>2 DEF TypeOK
    <3> QED
      BY <3>1, <3>2, <3>3, RiskOfMapped
  <2>5. Unsaved' \subseteq Unsaved
    <3>1. page_table' = page_table /\ frames' = [frames EXCEPT ![page_table[p]].pin_count = @ + 1]
      BY <1>1 DEF FetchHit
    <3>2. \A g \in Frame : frames'[g].is_dirty = frames[g].is_dirty
      BY <3>1 DEF TypeOK, FrameMeta
    <3>3. \A q \in Page : page_table[q] # NoFrame => page_table[q] \in Frame
      BY DEF TypeOK
    <3> QED
      BY <3>1, <3>2, <3>3, UnsavedMeaning, Zenon
  <2> QED
    BY <2>1, <2>2, <2>3, <2>4, <2>5 DEF PS!Pin, Store
<1>2. ASSUME NEW p \in Page, FetchMiss(p)
      PROVE  PS!Pin(p)
  <2> DEFINE f == FreeFrame
  <2>1. /\ f \in Frame /\ frames[f].pin_count = 0
        /\ frames[f].in_use => page_table[frames[f].page_id] = f
    BY <1>2, LeastExists, TakeFrame DEF FetchMiss
  <2>2. /\ page_table[p] = NoFrame /\ disk[p] # Unwritten
        /\ disk' = WrittenBack(f) /\ page_table' = [Unmapped(f) EXCEPT ![p] = f]
        /\ pages' = [pages EXCEPT ![f] = disk'[p]]
        /\ pins' = [pins EXCEPT ![p] = @ + 1]
        /\ frames' = [frames EXCEPT ![f] = [page_id |-> p, pin_count |-> 1,
                                            is_dirty |-> FALSE, in_use |-> TRUE]]
    BY <1>2, Zenon DEF FetchMiss, CanFetch, HandOut
  <2> HIDE DEF f
  <2>3. /\ \A q \in Page :
              /\ disk'[q] = IF page_table[q] = f THEN pages[f] ELSE disk[q]
              /\ q # p => page_table'[q] = IF page_table[q] = f THEN NoFrame ELSE page_table[q]
        /\ page_table'[p] = f /\ disk'[p] = disk[p]
    BY <2>1, <2>2, CleanFrame, FrameIsNotNoFrame
  <2>4. pages'[f] = disk[p] /\ \A g \in Frame : g # f => pages'[g] = pages[g]
    BY <2>1, <2>2, <2>3 DEF TypeOK
  <2>5. ASSUME NEW q \in Page
        PROVE  Contents(q)' = Contents(q)
    <3>1. CASE q = p
      BY <3>1, <2>1, <2>2, <2>3, <2>4, FrameIsNotNoFrame DEF Contents
    <3>2. CASE q # p /\ page_table[q] = f
      BY <3>2, <2>1, <2>3, FrameIsNotNoFrame DEF Contents
    <3>3. CASE q # p /\ page_table[q] # f
      BY <3>3, <2>3, <2>4 DEF Contents, TypeOK
    <3> QED
      BY <3>1, <3>2, <3>3
  <2>6. Store' = Store
    BY <2>5 DEF Store
  <2>7. Store[p] # Unwritten
    BY <2>2 DEF Store, Contents
  <2>8. AtRisk' = AtRisk
    <3>1. ~frames'[f].is_dirty /\ \A g \in Frame \ {f} : frames'[g] = frames[g]
      BY <2>1, <2>2 DEF TypeOK
    <3>2. \A q \in Page, g \in Frame \ {f} : page_table'[q] # g <=> page_table[q] # g
      BY <2>1, <2>2, <2>3, FrameIsNotNoFrame
    <3>a. \A q \in Page : frames[f].in_use /\ frames[f].page_id = q => page_table[q] = f
      BY <2>1
    <3>3. \A q \in Page : Lost(q, page_table', frames') <=> Lost(q, page_table, frames)
      <4>1. \A q \in Page : Lost(q, page_table', frames') => Lost(q, page_table, frames)
        BY <3>1, <3>2, Zenon DEF Lost
      <4>2. ASSUME NEW q \in Page, Lost(q, page_table, frames)
            PROVE  Lost(q, page_table', frames')
        <5>1. PICK g \in Frame : /\ frames[g].in_use /\ frames[g].is_dirty
                                 /\ frames[g].page_id = q /\ page_table[q] # g
          BY <4>2, Zenon DEF Lost
        <5>2. g # f
          BY <3>a, <5>1, Zenon
        <5> QED
          BY <3>1, <3>2, <5>1, <5>2, Zenon DEF Lost
      <4> QED
        BY <4>1, <4>2, Zenon
    <3> QED
      BY <3>3, RiskMeaning, Zenon
  <2>9. Unsaved' \subseteq Unsaved
    <3>1. ~frames'[f].is_dirty /\ \A g \in Frame \ {f} : frames'[g] = frames[g]
      BY <2>1, <2>2 DEF TypeOK
    <3>2. \A q \in Page : page_table[q] # NoFrame => page_table[q] \in Frame
      BY DEF TypeOK
    <3>3. ASSUME NEW q \in Unsaved'
          PROVE  q \in Unsaved
      <4>1. q \in Page /\ page_table'[q] # NoFrame /\ frames'[page_table'[q]].is_dirty
        BY <3>3, UnsavedMeaning, Zenon
      <4>2. page_table'[q] # f
        BY <3>1, <4>1, Zenon
      <4>3. page_table'[q] = page_table[q]
        BY <2>3, <4>1, <4>2
      <4>4. page_table[q] \in Frame \ {f}
        BY <3>2, <4>1, <4>2, <4>3, Zenon
      <4> QED
        BY <3>1, <4>1, <4>3, <4>4, UnsavedMeaning, Zenon
    <3> QED
      BY <3>3, Zenon
  <2> QED
    BY <2>2, <2>6, <2>7, <2>8, <2>9 DEF PS!Pin, Store
<1>3. ASSUME NEW p \in Page, FetchNoFrame(p)
      PROVE  UNCHANGED PS!vars
  <2>1. Store' = Store /\ pins' = pins /\ AtRisk' = AtRisk /\ Unsaved' = Unsaved
    BY <1>3, StoreUnchanged, RiskUnchanged DEF FetchNoFrame, poolVars, clientVars
  <2> QED
    BY <2>1 DEF PS!vars, Store
<1>4. ASSUME NEW p \in Page, FetchWriteFails(p)
      PROVE  UNCHANGED PS!vars
  <2> DEFINE f == FreeFrame
             x == frames[f].page_id
  <2>1. f \in Frame /\ frames[f].in_use /\ page_table[x] = f
    BY <1>4, LeastExists, TakeFrame DEF FetchWriteFails, NeedsWriteBack
  <2> HIDE DEF f
  <2>2. x \in Page /\ page_table[x] # NoFrame
    BY <2>1, FrameIsNotNoFrame DEF UsedFrames
  <2>3. /\ \E v \in Value : disk' = [disk EXCEPT ![x] = v]
        /\ UNCHANGED <<page_table, frames, pages, pins>>
    BY <1>4, Zenon DEF FetchWriteFails, clientVars, f
  <2> HIDE DEF x
  <2>4. \A q \in Page : q # x => disk'[q] = disk[q]
    BY <2>3 DEF TypeOK
  <2>5. \A q \in Page : Contents(q)' = Contents(q)
    BY <2>2, <2>3, <2>4 DEF Contents
  <2>6. Store' = Store
    BY <2>5 DEF Store
  <2>7. AtRisk' = AtRisk /\ Unsaved' = Unsaved
    BY <2>3, RiskUnchanged
  <2> QED
    BY <2>3, <2>6, <2>7 DEF PS!vars, Store
<1>5. ASSUME NEW p \in Page, FetchReadFails(p)
      PROVE  PS!ReadFails
  <2> DEFINE f == FreeFrame
             x == frames[f].page_id
  <2>1. /\ f \in Frame /\ frames[f].pin_count = 0
        /\ frames[f].in_use => page_table[x] = f
    BY <1>5, LeastExists, TakeFrame DEF FetchReadFails
  <2>2. /\ disk' = WrittenBack(f) /\ page_table' = Unmapped(f)
        /\ UNCHANGED <<frames, pages, pins>>
    BY <1>5, Zenon DEF FetchReadFails, clientVars
  <2> HIDE DEF f
  <2>3. \A q \in Page :
           /\ disk'[q] = IF page_table[q] = f THEN pages[f] ELSE disk[q]
           /\ page_table'[q] = IF page_table[q] = f THEN NoFrame ELSE page_table[q]
    BY <2>1, <2>2, CleanFrame
  <2>4. \A q \in Page : Contents(q)' = Contents(q)
    BY <2>1, <2>2, <2>3, FrameIsNotNoFrame DEF Contents
  <2>5. Store' = Store
    BY <2>4 DEF Store
  <2>6. \A q \in Page, g \in Frame \ {f} : page_table'[q] # g <=> page_table[q] # g
    BY <2>1, <2>3, FrameIsNotNoFrame
  <2>9. Unsaved' \subseteq Unsaved
    BY <2>2, <2>3, UnsavedMeaning, Zenon
  <2>7. CASE frames[f].in_use
    <3>1. x \in Page /\ page_table[x] = f /\ page_table'[x] # f
      BY <2>1, <2>3, <2>7, FrameIsNotNoFrame DEF UsedFrames
    <3>2. pins[x] = 0
      BY <2>1, <3>1, FrameIsNotNoFrame DEF PinsCounted
    <3>3. \A q \in Page \ {x} : Lost(q, page_table', frames') <=> Lost(q, page_table, frames)
      BY <2>2, <2>6, Zenon DEF Lost
    <3>4. Lost(x, page_table, frames) => Lost(x, page_table', frames')
      BY <2>2, <2>6, <3>1, Zenon DEF Lost
    <3>5. AtRisk' = AtRisk \/ AtRisk' = AtRisk \cup {x}
      <4> HIDE DEF x
      <4> QED
        BY <3>1, <3>3, <3>4, RiskMeaning, Zenon
    <3> QED
      BY <2>2, <2>5, <2>9, <3>1, <3>2, <3>5, Zenon DEF PS!ReadFails, Store
  <2>8. CASE ~frames[f].in_use
    <3>1. page_table' = page_table
      BY <2>2, <2>8 DEF Unmapped
    <3>2. AtRisk' = AtRisk
      BY <2>2, <3>1, RiskUnchanged
    <3> QED
      BY <2>2, <2>5, <2>9, <3>2, Zenon DEF PS!ReadFails, Store
  <2> QED
    BY <2>7, <2>8
<1>6. ASSUME NEW p \in Page, NEW is_dirty \in BOOLEAN, Release(p, is_dirty)
      PROVE  PS!Unpin(p)
  <2>1. /\ UNCHANGED <<page_table, pages, disk>>
        /\ pins' = [pins EXCEPT ![p] = @ - 1] /\ pins[p] > 0
    BY <1>6, Zenon DEF Release
  <2>2. Store' = Store
    BY <2>1, StoreUnchanged
  <2>3. AtRisk' = AtRisk /\ Unsaved' \in {Unsaved, Unsaved \cup {p}}
    <3> DEFINE f == page_table[p]
    <3>1. f \in Frame /\ f # NoFrame /\ frames[f].page_id = p /\ frames[f].pin_count # 0
      BY <2>1 DEF MappedFrames, PinsCounted, TypeOK
    <3>2. frames' = [frames EXCEPT ![f] = Unpinned(@, is_dirty)]
      BY <1>6, <3>1, Zenon DEF Release, UnpinPage
    <3> HIDE DEF f
    <3>3. frames'[f] = Unpinned(frames[f], is_dirty)
          /\ \A g \in Frame \ {f} : frames'[g] = frames[g]
      BY <3>1, <3>2, Zenon DEF TypeOK
    <3>4. Unpinned(frames[f], is_dirty).page_id = frames[f].page_id
      BY Zenon DEF Unpinned
    <3>5. frames'[f].page_id = frames[f].page_id
      BY <3>3, <3>4, Zenon
    <3>6. AtRisk' = AtRisk
      BY <2>1, <3>1, <3>3, <3>5, RiskOfMapped, Zenon DEF f
    <3>7. \A q \in Page \ {p} : page_table[q] # NoFrame => page_table[q] \in Frame \ {f}
      BY <3>1 DEF MappedFrames, TypeOK
    <3>8. \A q \in Page \ {p} : q \in Unsaved' <=> q \in Unsaved
      BY <2>1, <3>3, <3>7, UnsavedMeaning, Zenon
    <3>9. Unpinned(frames[f], is_dirty).is_dirty = (frames[f].is_dirty \/ is_dirty)
      BY Zenon DEF Unpinned
    <3>10. p \in Unsaved => p \in Unsaved'
      BY <2>1, <3>1, <3>3, <3>9, UnsavedMeaning, Zenon DEF f
    <3>11. Unsaved \subseteq Page /\ Unsaved' \subseteq Page
      BY UnsavedMeaning, Zenon
    <3>12. Unsaved' \in {Unsaved, Unsaved \cup {p}}
      <4>1. CASE p \in Unsaved'
        <5>1. Unsaved' = Unsaved \cup {p}
          BY <3>8, <3>11, <4>1, Zenon
        <5> QED
          BY <5>1, Zenon
      <4>2. CASE p \notin Unsaved'
        <5>1. Unsaved' = Unsaved
          <6>1. \A q : q \in Unsaved' => q \in Unsaved
            BY <3>8, <3>11, <4>2, Zenon
          <6>2. \A q : q \in Unsaved => q \in Unsaved'
            BY <3>8, <3>10, <3>11, <4>2, Zenon
          <6> QED
            BY <6>1, <6>2, Zenon
        <5> QED
          BY <5>1, Zenon
      <4> QED
        BY <4>1, <4>2, Zenon
    <3> QED
      BY <3>6, <3>12
  <2> QED
    BY <2>1, <2>2, <2>3 DEF PS!Unpin, Store
<1>7. ASSUME NEW p \in Page, NEW is_dirty \in BOOLEAN, StrayUnpin(p, is_dirty)
      PROVE  UNCHANGED PS!vars
  <2>1. UNCHANGED <<page_table, frames, pages, disk, pins>>
    BY <1>7, StrayUnpinInv, Zenon
  <2>2. Store' = Store /\ AtRisk' = AtRisk /\ Unsaved' = Unsaved
    BY <2>1, StoreUnchanged, RiskUnchanged
  <2> QED
    BY <2>1, <2>2 DEF PS!vars, Store
<1>8. ASSUME NEW p \in Page, NEW v \in Value, WriteThroughPointer(p, v)
      PROVE  PS!Update(p, v)
  <2> DEFINE f == page_table[p]
  <2>1. /\ pins[p] > 0 /\ f # NoFrame /\ f \in Frame /\ pages' = [pages EXCEPT ![f] = v]
        /\ UNCHANGED <<page_table, frames, disk, pins>>
    <3>1. pins[p] > 0 /\ pages' = [pages EXCEPT ![ptr[p]] = v]
          /\ UNCHANGED <<page_table, frames, disk, pins>>
      BY <1>8 DEF WriteThroughPointer
    <3>2. ptr[p] = f /\ f # NoFrame
      BY <3>1 DEF PinsCounted
    <3>3. f \in Frame
      BY <3>2 DEF TypeOK
    <3> QED
      BY <3>1, <3>2, <3>3
  <2>2. \A q \in Page \ {p} : page_table[q] # f
    BY <2>1 DEF MappedFrames
  <2>3. Contents(p)' = v /\ \A q \in Page \ {p} : Contents(q)' = Contents(q)
    BY <2>1, <2>2 DEF Contents, TypeOK
  <2>4. Store' = [Store EXCEPT ![p] = v]
    BY <2>3, Zenon DEF Store
  <2>5. AtRisk' = AtRisk /\ Unsaved' = Unsaved
    BY <2>1, RiskUnchanged
  <2> QED
    BY <2>1, <2>4, <2>5 DEF PS!Update, Store
<1>9. ASSUME NEW p \in Page, NEW v \in Value, InsertWrites(p, v)
      PROVE  PS!Load(p, v)
  <2>1. /\ disk[p] = Unwritten /\ disk' = [disk EXCEPT ![p] = v]
        /\ UNCHANGED <<page_table, frames, pages, pins>>
    BY <1>9, InsertWritesInv DEF InsertWrites, poolVars, clientVars
  <2>2. page_table[p] = NoFrame
    BY <2>1, PoolAssumption DEF MappedFrames
  <2>3. Contents(p) = Unwritten /\ Contents(p)' = v
        /\ \A q \in Page \ {p} : Contents(q)' = Contents(q)
    BY <2>1, <2>2 DEF Contents, TypeOK
  <2>4. Store' = [Store EXCEPT ![p] = v] /\ Store[p] = Unwritten
    BY <2>3, Zenon DEF Store
  <2>5. AtRisk' = AtRisk /\ Unsaved' = Unsaved
    BY <2>1, RiskUnchanged
  <2> QED
    BY <2>1, <2>4, <2>5 DEF PS!Load, Store
<1>10. ASSUME Reopen \/ ReopenFails
       PROVE  PS!Restart \/ PS!RestartFails
  <2>1. Rebuild /\ page_table' = [p \in Page |-> NoFrame] /\ frames' = [f \in Frame |-> UnusedFrame]
    BY <1>10 DEF Reopen, ReopenFails, Rebuild, Construct
  <2>2. \A p \in Page : Contents(p)' = disk'[p]
    BY <2>1 DEF Contents
  <2>3. ASSUME NEW p \in Page, DirtyFrames(p) = {}
        PROVE  Contents(p) = disk[p] /\ \A n : WrittenBackBelow(n, p) = disk[p]
    <3>1. page_table[p] # NoFrame => ~frames[page_table[p]].is_dirty
      BY <2>3 DEF DirtyFrames, NeedsWriteBack, MappedFrames, TypeOK
    <3>2. ~wrote[p]
      BY <2>1 DEF Rebuild
    <3> QED
      BY <2>3, <3>1, <3>2 DEF Contents, Coherent, WrittenBackBelow
  <2>4. Store' \in [Page -> Value \cup {Unwritten}]
    <3>1. TypeOK'
      BY <1>10, ReopenInv DEF PoolInv
    <3> QED
      BY <2>2, <3>1 DEF Store, TypeOK
  <2>5. pins' = [p \in Page |-> 0]
    BY <2>1 DEF Rebuild
  <2>6. AtRisk' = {} /\ Unsaved' = {}
    <3>1. \A p \in Page : ~Lost(p, page_table', frames')
      BY <2>1 DEF Lost, UnusedFrame
    <3> QED
      BY <2>1, <3>1, RiskMeaning, UnsavedMeaning
  <2>7. ASSUME Reopen
        PROVE  PS!Restart
    <3>1. ASSUME NEW p \in Page \ AtRisk
          PROVE  Contents(p)' = Contents(p)
      <4>1. disk'[p] = WrittenBackBelow(PoolSize, p)
        BY <2>7 DEF Reopen
      <4>2. \A f \in DirtyFrames(p) : f = page_table[p] /\ f \in Frame
        BY DEF DirtyFrames, AtRisk
      <4>3. CASE DirtyFrames(p) = {}
        BY <2>2, <2>3, <4>1, <4>3
      <4>4. CASE DirtyFrames(p) # {}
        <5>1. DirtyFrames(p) = {page_table[p]} /\ page_table[p] \in Frame
          BY <4>2, <4>4
        <5>2. {f \in DirtyFrames(p) : f < PoolSize} = {page_table[p]}
          BY <5>1, PoolAssumption DEF Frame
        <5>3. (CHOOSE f \in {page_table[p]} : \A g \in {page_table[p]} : g <= f) = page_table[p]
          BY <5>1 DEF Frame
        <5>4. disk'[p] = pages[page_table[p]]
          BY <4>1, <5>2, <5>3, Zenon DEF WrittenBackBelow
        <5> QED
          BY <2>2, <5>1, <5>4, FrameIsNotNoFrame, Zenon DEF Contents
      <4> QED
        BY <4>3, <4>4
    <3>2. \A p \in Page \ AtRisk : Store'[p] = Store[p]
      BY <3>1 DEF Store
    <3> QED
      BY <2>4, <2>5, <2>6, <3>2 DEF PS!Restart, PS!RestartLosing, Store
  <2>8. ASSUME ReopenFails
        PROVE  PS!RestartFails
    <3>1. PICK f \in Frame : NeedsWriteBack(f) /\ \E v \in Value :
            disk' = [p \in Page |-> IF p = frames[f].page_id THEN v ELSE WrittenBackBelow(f, p)]
      BY <2>8, Zenon DEF ReopenFails
    <3>2. frames[f].page_id \in Page /\ f \in DirtyFrames(frames[f].page_id)
      BY <3>1 DEF NeedsWriteBack, UsedFrames, DirtyFrames
    <3>3. frames[f].page_id \in Unsaved \cup AtRisk
      BY <3>1, <3>2, UnsavedMeaning, FrameIsNotNoFrame DEF AtRisk, NeedsWriteBack
    <3>4. ASSUME NEW p \in Page \ (AtRisk \cup Unsaved)
          PROVE  Contents(p)' = Contents(p)
      <4>1. DirtyFrames(p) = {}
        BY <3>4, UnsavedMeaning, FrameIsNotNoFrame DEF DirtyFrames, NeedsWriteBack, AtRisk
      <4>2. p # frames[f].page_id
        BY <3>2, <4>1
      <4>3. disk'[p] = WrittenBackBelow(f, p)
        BY <3>1, <4>2
      <4> QED
        BY <2>2, <2>3, <4>1, <4>3
    <3>5. \A p \in Page \ (AtRisk \cup Unsaved) : Store'[p] = Store[p]
      BY <3>4 DEF Store
    <3> QED
      BY <2>4, <2>5, <2>6, <3>3, <3>5 DEF PS!RestartFails, PS!RestartLosing, Store
  <2> QED
    BY <1>10, <2>7, <2>8
<1>11. ASSUME UNCHANGED vars
       PROVE  UNCHANGED PS!vars
  <2>1. Store' = Store /\ pins' = pins /\ AtRisk' = AtRisk /\ Unsaved' = Unsaved
    BY <1>11, StoreUnchanged, RiskUnchanged DEF vars
  <2> QED
    BY <2>1 DEF PS!vars, Store
<1>12. ASSUME NEW p \in Page, InsertFails(p)
       PROVE  UNCHANGED PS!vars
  <2>1. Store' = Store /\ pins' = pins /\ AtRisk' = AtRisk /\ Unsaved' = Unsaved
    BY <1>12, StoreUnchanged, RiskUnchanged DEF InsertFails, poolVars, clientVars
  <2> QED
    BY <2>1 DEF PS!vars, Store
<1> QED
  BY <1>1, <1>2, <1>3, <1>4, <1>5, <1>6, <1>7, <1>8, <1>9, <1>10, <1>11, <1>12, Zenon
     DEF Next, PS!Next

(* No update is lost or resurrected by caching, eviction, write-back, a    *)
(* failed write-back, INSERT's writes or the end of a session.  A failed   *)
(* read puts at most one page at risk, and only the destructor's flush can *)
(* then undo what was written to it.  A destructor that throws loses only  *)
(* changes to pages not written back since.                                *)
THEOREM PoolRefinesPageStore == Spec => ImplementsPageStore
<1>1. Init => PS!Init
  <2>1. Init => AtRisk = {} /\ Unsaved = {}
    BY RiskMeaning, UnsavedMeaning DEF Init, Construct, Lost, UnusedFrame
  <2> QED
    BY <2>1 DEF Init, Construct, PS!Init, Contents
<1>2. PoolInv /\ FreshPages /\ [Next]_vars => [PS!Next]_(PS!vars)
  BY StepRefines
<1> QED
  BY <1>1, <1>2, PoolInvariant, PTL DEF Spec, ImplementsPageStore, PS!Spec

-----------------------------------------------------------------------------
(* The frames lost so far, still mapped (a failed write-back) or not (a    *)
(* failed read).                                                           *)
StuckMapped == {f \in Frame : Stuck(f) /\ Mapped(f)}
StuckUnmapped == {f \in Frame : Stuck(f) /\ ~Mapped(f)}

(* A step whose frames, but for f, keep their pin count, their page and    *)
(* their place in the free list and in the replacer loses no frame but f.  *)
KeptBut(f) ==
    \A g \in Frame \ {f} :
       /\ frames'[g].pin_count = frames[g].pin_count
       /\ g \in Range(free_list) => g \in Range(free_list')
       /\ g \in replacer.evictable => g \in replacer'.evictable
       /\ Mapped(g)' <=> Mapped(g)

LEMMA OthersKept ==
    ASSUME NEW f, KeptBut(f)
    PROVE  /\ StuckMapped' \subseteq StuckMapped \cup {f}
           /\ StuckUnmapped' \subseteq StuckUnmapped \cup {f}
           /\ ~Stuck(f)' => StuckMapped' \subseteq StuckMapped /\ StuckUnmapped' \subseteq StuckUnmapped
           /\ Mapped(f)' => StuckUnmapped' \subseteq StuckUnmapped
           /\ ~Mapped(f)' => StuckMapped' \subseteq StuckMapped
<1>1. \A g \in Frame \ {f} : Stuck(g)' => Stuck(g)
  BY Zenon DEF Stuck, KeptBut
<1>2. \A g : /\ g \in StuckMapped <=> g \in Frame /\ Stuck(g) /\ Mapped(g)
             /\ g \in StuckMapped' <=> g \in Frame /\ Stuck(g)' /\ Mapped(g)'
             /\ g \in StuckUnmapped <=> g \in Frame /\ Stuck(g) /\ ~Mapped(g)
             /\ g \in StuckUnmapped' <=> g \in Frame /\ Stuck(g)' /\ ~Mapped(g)'
  BY Zenon DEF StuckMapped, StuckUnmapped
<1> QED
  BY <1>1, <1>2, Zenon DEF KeptBut

(* FindFreeFrame takes no frame but its own out of the free list. *)
LEMMA FreeListRest ==
    ASSUME PoolInv, NEW g \in Range(free_list), g # FreeFrame
    PROVE  g \in Range(TakenFreeList)
<1>1. PICK i \in DOMAIN free_list : free_list[i] = g
  BY Zenon DEF Range
<1>2. free_list \in Seq(Frame) /\ free_list # << >>
  BY <1>1 DEF PoolInv, TypeOK
<1>3. FreeFrame = free_list[Len(free_list)]
      /\ TakenFreeList = SubSeq(free_list, 1, Len(free_list) - 1)
  BY <1>2 DEF FreeFrame, TakenFreeList
<1>4. i \in 1 .. Len(free_list) - 1
  BY <1>1, <1>2, <1>3
<1>5. i \in DOMAIN TakenFreeList /\ TakenFreeList[i] = g
  BY <1>1, <1>2, <1>3, <1>4
<1> QED
  BY <1>5, Zenon DEF Range

(* A step that loses no frame, one that loses a frame to a failed write    *)
(* and one that loses a frame to a failed read.                            *)
LosesNone ==
    /\ StuckMapped' \subseteq StuckMapped /\ StuckUnmapped' \subseteq StuckUnmapped
    /\ UNCHANGED <<read_errors, write_errors>>
LosesToWrite(f) ==
    /\ StuckMapped' \subseteq StuckMapped \cup {f} /\ StuckUnmapped' \subseteq StuckUnmapped
    /\ write_errors' = write_errors + 1 /\ read_errors' = read_errors
LosesToRead(f) ==
    /\ StuckMapped' \subseteq StuckMapped /\ StuckUnmapped' \subseteq StuckUnmapped \cup {f}
    /\ read_errors' = read_errors + 1 /\ write_errors' = write_errors

(* A step that leaves page table, FrameMeta, free list and replacer alone. *)
LEMMA NoneTouched ==
    ASSUME UNCHANGED <<page_table, frames, free_list, replacer, read_errors, write_errors>>
    PROVE  LosesNone
BY Zenon DEF LosesNone, StuckMapped, StuckUnmapped, Stuck, Mapped

(* FetchPage of a cached page pins its frame. *)
LEMMA HitLosesNone ==
    ASSUME PoolInv, NEW p \in Page, FetchHit(p)
    PROVE  LosesNone
<1>0. PICK f \in Frame : f = page_table[p]
  BY DEF PoolInv, FetchHit, TypeOK
<1>1. frames[f].pin_count \in Nat /\ frames \in [Frame -> FrameMeta]
  BY DEF PoolInv, TypeOK, FrameMeta
<1>2. /\ frames' = [frames EXCEPT ![f].pin_count = @ + 1]
      /\ replacer' = Pinned(replacer, f)
      /\ UNCHANGED <<page_table, free_list, read_errors, write_errors>>
  BY <1>0 DEF FetchHit, errorVars
<1>3. replacer'.evictable = replacer.evictable \ {f}
  BY <1>1, <1>2, PinnedPins DEF PoolInv
<1>4. frames'[f].pin_count = frames[f].pin_count + 1
      /\ \A g \in Frame \ {f} : frames'[g] = frames[g]
  BY <1>1, <1>2
<1>5. ~Stuck(f)'
  BY <1>1, <1>4 DEF Stuck
<1>6. \A g : Mapped(g)' <=> Mapped(g)
  BY <1>2, Zenon DEF Mapped
<1>7. KeptBut(f)
  BY <1>2, <1>3, <1>4, <1>6, Zenon DEF KeptBut
<1> QED
  BY <1>2, <1>5, <1>7, OthersKept, Zenon DEF LosesNone

(* FetchPage of another page pins the frame it takes. *)
LEMMA MissLosesNone ==
    ASSUME PoolInv, NEW p \in Page, FetchMiss(p)
    PROVE  LosesNone
<1>0. PICK f \in Frame : f = FreeFrame
  BY LeastExists, TakeFrame DEF FetchMiss
<1>1. /\ frames[f].pin_count = 0
      /\ frames[f].in_use => page_table[frames[f].page_id] = f
      /\ WellLinked(TakenReplacer)
      /\ TakenReplacer.evictable = replacer.evictable \ {f}
  BY <1>0, LeastExists, TakeFrame, Zenon DEF FetchMiss
<1>2. /\ page_table' = [Unmapped(f) EXCEPT ![p] = f]
      /\ frames' = [frames EXCEPT ![f] =
                      [page_id |-> p, pin_count |-> 1, is_dirty |-> FALSE, in_use |-> TRUE]]
      /\ replacer' = Pinned(TakenReplacer, f)
      /\ free_list' = TakenFreeList
      /\ page_table[p] = NoFrame
      /\ UNCHANGED <<read_errors, write_errors>>
  BY <1>0 DEF FetchMiss, errorVars
<1>3. \A g \in Range(free_list) \ {f} : g \in Range(free_list')
  BY <1>0, <1>2, FreeListRest, Zenon
<1>4. replacer'.evictable = replacer.evictable \ {f}
  <2>1. Pinned(TakenReplacer, f).evictable = TakenReplacer.evictable \ {f}
    BY <1>1, PinnedPins, Zenon
  <2>2. replacer'.evictable = TakenReplacer.evictable \ {f}
    BY <1>2, <2>1, Zenon
  <2> QED
    BY <1>1, <2>2
<1>5. frames'[f].pin_count = 1 /\ \A g \in Frame \ {f} : frames'[g] = frames[g]
  BY <1>1, <1>2 DEF PoolInv, TypeOK
<1>6. ~Stuck(f)'
  BY <1>5 DEF Stuck
<1>7. /\ Unmapped(f) \in [Page -> Frame \cup {NoFrame}]
      /\ \A q \in Page : Unmapped(f)[q] = IF page_table[q] = f THEN NoFrame ELSE page_table[q]
  BY <1>1, CleanFrame
<1>8. ASSUME NEW g \in Frame \ {f} PROVE Mapped(g)' <=> Mapped(g)
  <2>1. \A q \in Page : page_table'[q] = g <=> page_table[q] = g
    BY <1>2, <1>7, FrameIsNotNoFrame
  <2> QED
    BY <2>1, Zenon DEF Mapped
<1>9. KeptBut(f)
  BY <1>3, <1>4, <1>5, <1>8, Zenon DEF KeptBut
<1> QED
  BY <1>2, <1>6, <1>9, OthersKept, Zenon DEF LosesNone

(* A failed write-back loses the frame it was to clean, still mapped. *)
LEMMA WriteFailureLosesOne ==
    ASSUME PoolInv, NEW p \in Page, FetchWriteFails(p)
    PROVE  \E f \in Frame : LosesToWrite(f)
<1>0. PICK f \in Frame : f = FreeFrame
  BY LeastExists, TakeFrame DEF FetchWriteFails
<1>1. /\ frames[f].in_use => page_table[frames[f].page_id] = f
      /\ TakenReplacer.evictable = replacer.evictable \ {f}
  BY <1>0, LeastExists, TakeFrame DEF FetchWriteFails
<1>2. /\ frames[f].in_use /\ free_list' = TakenFreeList /\ replacer' = TakenReplacer
      /\ write_errors' = write_errors + 1
      /\ UNCHANGED <<page_table, frames, read_errors>>
  BY <1>0 DEF FetchWriteFails, NeedsWriteBack
<1>3. \A g \in Range(free_list) \ {f} : g \in Range(free_list')
  BY <1>0, <1>2, FreeListRest
<1>4. \A g : Mapped(g)' <=> Mapped(g)
  BY <1>2, Zenon DEF Mapped
<1>5. frames[f].page_id \in Page
  BY <1>0, <1>2 DEF PoolInv, UsedFrames
<1>6. Mapped(f)'
  BY <1>1, <1>2, <1>4, <1>5, Zenon DEF Mapped
<1>7. KeptBut(f)
  BY <1>1, <1>2, <1>3, <1>4, Zenon DEF KeptBut
<1>8. LosesToWrite(f)
  BY <1>2, <1>6, <1>7, OthersKept, Zenon DEF LosesToWrite
<1> QED
  BY <1>0, <1>8

(* A failed read loses the frame it was to fill, no longer mapped. *)
LEMMA ReadFailureLosesOne ==
    ASSUME PoolInv, NEW p \in Page, FetchReadFails(p)
    PROVE  \E f \in Frame : LosesToRead(f)
<1>0. PICK f \in Frame : f = FreeFrame
  BY LeastExists, TakeFrame DEF FetchReadFails
<1>1. /\ frames[f].pin_count = 0
      /\ frames[f].in_use => page_table[frames[f].page_id] = f
      /\ TakenReplacer.evictable = replacer.evictable \ {f}
  BY <1>0, LeastExists, TakeFrame DEF FetchReadFails
<1>2. /\ page_table' = Unmapped(f) /\ free_list' = TakenFreeList /\ replacer' = TakenReplacer
      /\ read_errors' = read_errors + 1
      /\ UNCHANGED <<frames, write_errors>>
  BY <1>0 DEF FetchReadFails
<1>3. \A g \in Range(free_list) \ {f} : g \in Range(free_list')
  BY <1>0, <1>2, FreeListRest
<1>4. \A q \in Page : page_table'[q] = IF page_table[q] = f THEN NoFrame ELSE page_table[q]
  BY <1>1, <1>2, CleanFrame
<1>5. ASSUME NEW g \in Frame \ {f} PROVE Mapped(g)' <=> Mapped(g)
  <2>1. \A q \in Page : page_table'[q] = g <=> page_table[q] = g
    BY <1>4, FrameIsNotNoFrame
  <2> QED
    BY <2>1, Zenon DEF Mapped
<1>6. ~Mapped(f)'
  <2>1. \A q \in Page : page_table'[q] # f
    BY <1>1, <1>4, FrameIsNotNoFrame
  <2> QED
    BY <2>1, Zenon DEF Mapped
<1>7. KeptBut(f)
  BY <1>1, <1>2, <1>3, <1>5, Zenon DEF KeptBut
<1>8. LosesToRead(f)
  BY <1>2, <1>6, <1>7, OthersKept, Zenon DEF LosesToRead
<1> QED
  BY <1>1, <1>8

(* UnpinPage makes the frame it unpins for the last time evictable. *)
LEMMA UnpinLosesNone ==
    ASSUME PoolInv, NEW p \in Page, NEW is_dirty \in BOOLEAN, Release(p, is_dirty)
    PROVE  LosesNone
<1>0. PICK f \in Frame : f = page_table[p] /\ f # NoFrame /\ frames[f].pin_count > 0
  BY DEF PoolInv, Release, PinsCounted, TypeOK
<1>1. /\ frames[f].pin_count \in Nat /\ frames[f].pin_count # 0
      /\ f \in replacer.entries /\ frames \in [Frame -> FrameMeta] /\ WellLinked(replacer)
  BY <1>0 DEF PoolInv, PinnedFrames, TypeOK, FrameMeta
<1>2. /\ frames' = [frames EXCEPT ![f] = Unpinned(@, is_dirty)]
      /\ replacer' = IF frames[f].pin_count = 1 THEN SetEvictable(replacer, f, TRUE)
                                                ELSE replacer
      /\ UNCHANGED <<page_table, free_list, read_errors, write_errors>>
  BY <1>0, <1>1, Zenon DEF Release, UnpinPage, errorVars
<1>3. SetEvictable(replacer, f, TRUE).evictable = replacer.evictable \cup {f}
  BY <1>1, SetEvictableAdds, Zenon DEF MadeEvictable
<1>4. frames'[f].pin_count = frames[f].pin_count - 1
      /\ \A g \in Frame \ {f} : frames'[g] = frames[g]
  BY <1>1, <1>2, Zenon DEF Unpinned
<1>5. ~Stuck(f)'
  <2>1. CASE frames[f].pin_count = 1
    BY <2>1, <1>2, <1>3, Zenon DEF Stuck
  <2>2. CASE frames[f].pin_count # 1
    BY <2>2, <1>1, <1>4 DEF Stuck
  <2> QED
    BY <2>1, <2>2
<1>6. \A g : Mapped(g)' <=> Mapped(g)
  BY <1>2, Zenon DEF Mapped
<1>7. replacer.evictable \subseteq replacer'.evictable
  BY <1>2, <1>3, Zenon
<1>8. KeptBut(f)
  BY <1>2, <1>4, <1>6, <1>7, Zenon DEF KeptBut
<1> QED
  BY <1>2, <1>5, <1>8, OthersKept, Zenon DEF LosesNone

(* A new pool has every frame in its free list. *)
LEMMA ReopenLosesNone ==
    ASSUME Reopen \/ ReopenFails
    PROVE  LosesNone \/ LosesToWrite(0)
<1>1. /\ free_list' = [i \in 1 .. PoolSize |-> i - 1] /\ UNCHANGED read_errors
      /\ write_errors' \in {write_errors, write_errors + 1}
  BY DEF Reopen, ReopenFails, Rebuild, Construct
<1>2. ASSUME NEW g \in Frame PROVE g \in Range(free_list')
  <2>1. g + 1 \in 1 .. PoolSize /\ (g + 1) - 1 = g
    BY PoolAssumption DEF Frame
  <2>2. g + 1 \in DOMAIN free_list' /\ free_list'[g + 1] = g
    BY <1>1, <2>1
  <2> QED
    BY <2>2, Zenon DEF Range
<1>3. StuckMapped' = {} /\ StuckUnmapped' = {}
  BY <1>2, Zenon DEF StuckMapped, StuckUnmapped, Stuck
<1> QED
  BY <1>1, <1>3 DEF LosesNone, LosesToWrite

(* A step loses a frame only to an I/O error, and then one.  *)
LEMMA StepLosesFew ==
    ASSUME PoolInv, [Next]_vars
    PROVE  LosesNone \/ \E f \in Frame : LosesToWrite(f) \/ LosesToRead(f)
<1>1. ASSUME NEW p \in Page,
             FetchHit(p) \/ FetchMiss(p) \/ FetchNoFrame(p)
               \/ FetchWriteFails(p) \/ FetchReadFails(p)
      PROVE  LosesNone \/ \E f \in Frame : LosesToWrite(f) \/ LosesToRead(f)
  <2>1. CASE FetchNoFrame(p)
    BY <2>1, NoneTouched DEF FetchNoFrame, poolVars, errorVars
  <2> QED
    BY <1>1, <2>1, HitLosesNone, MissLosesNone, WriteFailureLosesOne, ReadFailureLosesOne
<1>2. ASSUME NEW p \in Page, NEW is_dirty \in BOOLEAN,
             Release(p, is_dirty) \/ StrayUnpin(p, is_dirty)
      PROVE  LosesNone
  <2>1. CASE StrayUnpin(p, is_dirty)
    <3>1. page_table[p] = NoFrame \/ frames[page_table[p]].pin_count = 0
      BY <2>1 DEF PoolInv, PinsCounted, StrayUnpin
    <3>2. UNCHANGED <<page_table, frames, free_list, replacer, read_errors, write_errors>>
      BY <2>1, <3>1, Zenon DEF StrayUnpin, UnpinPage, errorVars
    <3> QED
      BY <3>2, NoneTouched
  <2> QED
    BY <1>2, <2>1, UnpinLosesNone, Zenon
<1>3. ASSUME NEW p \in Page, NEW v \in Value,
             WriteThroughPointer(p, v) \/ InsertWrites(p, v)
      PROVE  LosesNone
  BY <1>3, NoneTouched DEF WriteThroughPointer, InsertWrites, poolVars, errorVars
<1>4. CASE Reopen \/ ReopenFails
  <2>1. 0 \in Frame
    BY PoolAssumption DEF Frame
  <2> QED
    BY <1>4, <2>1, ReopenLosesNone
<1>6. ASSUME NEW p \in Page, InsertFails(p)
      PROVE  LosesNone
  BY <1>6, NoneTouched DEF InsertFails, poolVars, errorVars
<1>5. CASE UNCHANGED vars
  BY <1>5, NoneTouched DEF vars
<1> QED
  BY <1>1, <1>2, <1>3, <1>4, <1>5, <1>6, Zenon DEF Next

(* Sets of frames are finite, and adding a frame adds at most one. *)
LEMMA FewFrames ==
    ASSUME NEW A \in SUBSET Frame, NEW B \in SUBSET Frame, NEW f \in Frame, NEW n \in Nat,
           Cardinality(A) <= n
    PROVE  /\ B \subseteq A => Cardinality(B) <= n
           /\ B \subseteq A \cup {f} => Cardinality(B) <= n + 1
<1>1. IsFiniteSet(Frame)
  BY PoolAssumption, FS_Interval DEF Frame
<1>2. IsFiniteSet(A) /\ IsFiniteSet(B)
  BY <1>1, FS_Subset
<1>3. Cardinality(A) \in Nat /\ Cardinality(B) \in Nat
  BY <1>2, FS_CardinalityType
<1>4. ASSUME B \subseteq A PROVE Cardinality(B) <= n
  <2>1. Cardinality(B) <= Cardinality(A)
    BY <1>2, <1>4, FS_Subset
  <2> QED
    BY <1>3, <2>1
<1>5. ASSUME B \subseteq A \cup {f} PROVE Cardinality(B) <= n + 1
  <2>1. IsFiniteSet(A \cup {f})
        /\ Cardinality(A \cup {f}) = IF f \in A THEN Cardinality(A) ELSE Cardinality(A) + 1
    BY <1>2, FS_AddElement
  <2>2. Cardinality(B) <= Cardinality(A \cup {f})
    BY <2>1, <1>5, FS_Subset
  <2> QED
    BY <1>3, <2>1, <2>2
<1> QED
  BY <1>4, <1>5

(* Frames get lost only to I/O errors, one each, for every pool size and   *)
(* any number of errors: without errors no frame is ever lost.             *)
THEOREM LossesAreBounded == Spec => []LostFramesBounded
<1>1. /\ LostFramesBounded <=> /\ Cardinality(StuckMapped) <= write_errors
                               /\ Cardinality(StuckUnmapped) <= read_errors
      /\ LostFramesBounded' <=> /\ Cardinality(StuckMapped') <= write_errors'
                                /\ Cardinality(StuckUnmapped') <= read_errors'
      /\ StuckMapped \in SUBSET Frame /\ StuckMapped' \in SUBSET Frame
      /\ StuckUnmapped \in SUBSET Frame /\ StuckUnmapped' \in SUBSET Frame
  BY Zenon DEF LostFramesBounded, StuckMapped, StuckUnmapped
<1>2. Init => LostFramesBounded
  <2> SUFFICES ASSUME Init PROVE LostFramesBounded
    OBVIOUS
  <2>1. free_list = [i \in 1 .. PoolSize |-> i - 1] /\ read_errors = 0 /\ write_errors = 0
    BY DEF Init, Construct
  <2>2. ASSUME NEW g \in Frame PROVE g \in Range(free_list)
    <3>1. g + 1 \in 1 .. PoolSize /\ (g + 1) - 1 = g
      BY PoolAssumption DEF Frame
    <3>2. g + 1 \in DOMAIN free_list /\ free_list[g + 1] = g
      BY <2>1, <3>1
    <3> QED
      BY <3>2, Zenon DEF Range
  <2>3. StuckMapped = {} /\ StuckUnmapped = {}
    BY <2>2, Zenon DEF Stuck, StuckMapped, StuckUnmapped
  <2> QED
    BY <1>1, <2>1, <2>3, FS_EmptySet
<1>3. PoolInv /\ LostFramesBounded /\ [Next]_vars => LostFramesBounded'
  <2> SUFFICES ASSUME PoolInv, LostFramesBounded, [Next]_vars PROVE LostFramesBounded'
    OBVIOUS
  <2>1. read_errors \in Nat /\ write_errors \in Nat /\ 0 \in Frame
    BY PoolAssumption DEF PoolInv, TypeOK, Frame
  <2>2. CASE LosesNone
    BY <1>1, <2>1, <2>2, FewFrames DEF LosesNone
  <2>3. ASSUME NEW f \in Frame, LosesToWrite(f) PROVE LostFramesBounded'
    BY <1>1, <2>1, <2>3, FewFrames DEF LosesToWrite
  <2>4. ASSUME NEW f \in Frame, LosesToRead(f) PROVE LostFramesBounded'
    BY <1>1, <2>1, <2>4, FewFrames DEF LosesToRead
  <2> QED
    BY <2>2, <2>3, <2>4, StepLosesFew
<1> QED
  BY <1>2, <1>3, PoolInvariant, PTL DEF Spec
=============================================================================
