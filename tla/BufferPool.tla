---------------------------- MODULE BufferPool -----------------------------
(***************************************************************************)
(* BufferPoolManager (src/storage/buffer_pool_manager.cpp) with its        *)
(* LruReplacer, the pages DiskManager keeps, and the clients that pin      *)
(* pages.  The program is single-threaded: every public call is one        *)
(* action, split by outcome.  A read or write that DiskManager reports as  *)
(* an exception leaves the pool where the code had got to.                 *)
(***************************************************************************)
EXTENDS LruReplacer

CONSTANTS
    PoolSize,     (* pool_size_: number of frames                          *)
    Page,         (* the ids of the data pages                             *)
    Value,        (* the contents a page can have                          *)
    Unwritten,    (* contents of a page no row group has                   *)
    NoPage,       (* FrameMeta::page_id of a frame never used              *)
    NoFrame,      (* page_table_ has no key for the page                   *)
    MaxPins,      (* bound on the pins held on one page                    *)
    MaxReadErrors,  (* bound on the ReadPages calls that throw             *)
    MaxWriteErrors  (* bound on the WritePages calls that throw            *)

ASSUME PoolAssumption ==
    /\ PoolSize \in Nat \ {0}
    /\ MaxPins \in Nat \ {0}
    /\ MaxReadErrors \in Nat
    /\ MaxWriteErrors \in Nat
    /\ Page \subseteq Nat
    /\ Unwritten \notin Value
    /\ NoPage \notin Page
    /\ NoFrame \notin Nat

Frame == 0 .. PoolSize - 1
kFirstDataPageId == 1

VARIABLES
    page_table,   (* page_table_: page -> frame                            *)
    frames,       (* frames_: the FrameMeta of every frame                 *)
    pages,        (* pages_: the bytes of every frame                      *)
    free_list,    (* free_list_, taken from the back                       *)
    replacer,     (* replacer_                                             *)
    disk,         (* what ReadPages returns for every page                 *)
    next_free_page_id,  (* the allocator in the file header                *)
    pins,         (* clients: FetchPage calls not yet matched by UnpinPage *)
    ptr,          (* clients: the frame the last FetchPage pointed at      *)
    wrote,        (* clients: changes through ptr not yet reported dirty   *)
    result,       (* how the last FetchPage ended                          *)
    read_errors,  (* ReadPages calls that threw so far                     *)
    write_errors  (* WritePages calls that threw so far                    *)

poolVars   == <<page_table, frames, pages, free_list, replacer>>
clientVars == <<pins, ptr, wrote>>
errorVars  == <<read_errors, write_errors>>
vars == <<page_table, frames, pages, free_list, replacer, disk, next_free_page_id,
          pins, ptr, wrote, result, read_errors, write_errors>>

UnusedFrame ==
    [page_id |-> NoPage, pin_count |-> 0, is_dirty |-> FALSE, in_use |-> FALSE]

(* The constructor: every frame free, nothing cached. *)
Construct(table, meta, bytes, free, lru) ==
    /\ table = [p \in Page |-> NoFrame]
    /\ meta = [f \in Frame |-> UnusedFrame]
    /\ bytes = [f \in Frame |-> Unwritten]
    /\ free = [i \in 1 .. PoolSize |-> i - 1]
    /\ lru = EmptyReplacer

Init ==
    /\ Construct(page_table, frames, pages, free_list, replacer)
    /\ disk = [p \in Page |-> Unwritten]
    /\ next_free_page_id = kFirstDataPageId
    /\ pins = [p \in Page |-> 0]
    /\ ptr = [p \in Page |-> NoFrame]
    /\ wrote = [p \in Page |-> FALSE]
    /\ result = "ok"
    /\ read_errors = 0
    /\ write_errors = 0

-----------------------------------------------------------------------------
(* FindFreeFrame: the back of the free list, else the replacer's victim. *)
FrameAvailable == free_list # << >> \/ Candidates(replacer) # {}
FreeFrame == IF free_list # << >> THEN free_list[Len(free_list)] ELSE Victim(replacer)
TakenFreeList ==
    IF free_list # << >> THEN SubSeq(free_list, 1, Len(free_list) - 1) ELSE free_list
TakenReplacer ==
    IF free_list # << >> THEN replacer ELSE Forget(replacer, Victim(replacer))

(* The page a frame about to be reused still holds is written back if it   *)
(* is dirty and leaves the page table.                                     *)
NeedsWriteBack(f) == frames[f].in_use /\ frames[f].is_dirty

NotWrittenBack(f) == disk
WrittenBack(f) ==
    IF NeedsWriteBack(f) THEN [disk EXCEPT ![frames[f].page_id] = pages[f]] ELSE disk
Unmapped(f) ==
    IF frames[f].in_use THEN [page_table EXCEPT ![frames[f].page_id] = NoFrame]
                        ELSE page_table

(* FetchPage takes page ids from row groups registered after their pages   *)
(* were written.                                                           *)
CanFetch(p) == disk[p] # Unwritten /\ pins[p] < MaxPins

Pinned(r, f) == SetEvictable(RecordAccess(r, f), f, FALSE)

HandOut(p, f) ==
    /\ pins' = [pins EXCEPT ![p] = @ + 1]
    /\ ptr' = [ptr EXCEPT ![p] = f]
    /\ result' = "ok"
    /\ UNCHANGED wrote

(* FetchPage of a cached page. *)
FetchHitStaysEvictable(p) ==
    /\ CanFetch(p)
    /\ page_table[p] # NoFrame
    /\ LET f == page_table[p] IN
       /\ frames' = [frames EXCEPT ![f].pin_count = @ + 1]
       /\ replacer' = RecordAccess(replacer, f)
       /\ HandOut(p, f)
    /\ UNCHANGED <<page_table, pages, free_list, disk, next_free_page_id, errorVars>>

FetchHit(p) ==
    /\ CanFetch(p)
    /\ page_table[p] # NoFrame
    /\ LET f == page_table[p] IN
       /\ frames' = [frames EXCEPT ![f].pin_count = @ + 1]
       /\ replacer' = Pinned(replacer, f)
       /\ HandOut(p, f)
    /\ UNCHANGED <<page_table, pages, free_list, disk, next_free_page_id, errorVars>>

(* FetchPage of a page that is not cached, every step of it succeeding. *)
FetchMiss(p) ==
    /\ CanFetch(p)
    /\ page_table[p] = NoFrame
    /\ FrameAvailable
    /\ LET f == FreeFrame IN
       /\ disk' = WrittenBack(f)
       /\ page_table' = [Unmapped(f) EXCEPT ![p] = f]
       /\ pages' = [pages EXCEPT ![f] = disk'[p]]
       /\ frames' = [frames EXCEPT ![f] =
                        [page_id |-> p, pin_count |-> 1, is_dirty |-> FALSE, in_use |-> TRUE]]
       /\ replacer' = Pinned(TakenReplacer, f)
       /\ HandOut(p, f)
    /\ free_list' = TakenFreeList
    /\ UNCHANGED <<next_free_page_id, errorVars>>

(* FetchPage throws: no frame is free and the replacer has no victim. *)
FetchNoFrame(p) ==
    /\ CanFetch(p)
    /\ page_table[p] = NoFrame
    /\ ~FrameAvailable
    /\ result' = "no_frame"
    /\ UNCHANGED <<poolVars, disk, clientVars, next_free_page_id, errorVars>>

(* WritePages throws in the write-back, after a short write may have left  *)
(* any contents on disk: the victim has left the replacer, but the page    *)
(* table still has it.                                                     *)
FetchWriteFails(p) ==
    /\ CanFetch(p)
    /\ write_errors < MaxWriteErrors
    /\ page_table[p] = NoFrame
    /\ FrameAvailable
    /\ NeedsWriteBack(FreeFrame)
    /\ \E v \in Value : disk' = [disk EXCEPT ![frames[FreeFrame].page_id] = v]
    /\ free_list' = TakenFreeList
    /\ replacer' = TakenReplacer
    /\ result' = "io_error"
    /\ write_errors' = write_errors + 1
    /\ UNCHANGED <<page_table, frames, pages, clientVars, next_free_page_id, read_errors>>

(* ReadPages throws: the frame is in no list any more, its FrameMeta still *)
(* describes the page it held before.                                      *)
FetchReadFails(p) ==
    /\ CanFetch(p)
    /\ read_errors < MaxReadErrors
    /\ page_table[p] = NoFrame
    /\ FrameAvailable
    /\ LET f == FreeFrame IN
       /\ disk' = WrittenBack(f)
       /\ page_table' = Unmapped(f)
    /\ free_list' = TakenFreeList
    /\ replacer' = TakenReplacer
    /\ result' = "io_error"
    /\ read_errors' = read_errors + 1
    /\ UNCHANGED <<frames, pages, clientVars, next_free_page_id, write_errors>>

(* The FrameMeta UnpinPage leaves. *)
Unpinned(meta, is_dirty) ==
    [page_id |-> meta.page_id, pin_count |-> meta.pin_count - 1,
     is_dirty |-> meta.is_dirty \/ is_dirty, in_use |-> meta.in_use]

(* UnpinPage that makes the frame evictable at every unpin, not the last. *)
UnpinPageAlwaysEvictable(p, is_dirty) ==
    LET f == page_table[p] IN
    IF f = NoFrame \/ frames[f].pin_count = 0
    THEN UNCHANGED <<frames, replacer>>
    ELSE /\ frames' = [frames EXCEPT ![f] = Unpinned(@, is_dirty)]
         /\ replacer' = SetEvictable(replacer, f, TRUE)

(* UnpinPage that leaves the last unpin's frame unevictable. *)
UnpinPageNeverEvictable(p, is_dirty) ==
    LET f == page_table[p] IN
    IF f = NoFrame \/ frames[f].pin_count = 0
    THEN UNCHANGED <<frames, replacer>>
    ELSE /\ frames' = [frames EXCEPT ![f] = Unpinned(@, is_dirty)]
         /\ UNCHANGED replacer

(* UnpinPage: two early returns, then the last unpin makes the frame       *)
(* evictable.                                                              *)
UnpinPage(p, is_dirty) ==
    LET f == page_table[p] IN
    IF f = NoFrame \/ frames[f].pin_count = 0
    THEN UNCHANGED <<frames, replacer>>
    ELSE /\ frames' = [frames EXCEPT ![f] = Unpinned(@, is_dirty)]
         /\ replacer' = IF frames[f].pin_count = 1 THEN SetEvictable(replacer, f, TRUE)
                                                   ELSE replacer

(* A client gives back a pin, reporting any change it made to the page. *)
Release(p, is_dirty) ==
    /\ pins[p] > 0
    /\ wrote[p] => is_dirty
    /\ UnpinPage(p, is_dirty)
    /\ pins' = [pins EXCEPT ![p] = @ - 1]
    /\ wrote' = [wrote EXCEPT ![p] = FALSE]
    /\ result' = "ok"
    /\ UNCHANGED <<page_table, pages, free_list, disk, ptr, next_free_page_id, errorVars>>

(* UnpinPage of a page nobody holds: one of the early returns. *)
StrayUnpin(p, is_dirty) ==
    /\ pins[p] = 0
    /\ UnpinPage(p, is_dirty)
    /\ result' = "ok"
    /\ UNCHANGED <<page_table, pages, free_list, disk, clientVars, next_free_page_id, errorVars>>

(* A client that holds a pin changes the page through its pointer. *)
WriteThroughPointer(p, v) ==
    /\ pins[p] > 0
    /\ pages' = [pages EXCEPT ![ptr[p]] = v]
    /\ wrote' = [wrote EXCEPT ![p] = TRUE]
    /\ result' = "ok"
    /\ UNCHANGED <<page_table, frames, free_list, replacer, disk, pins, ptr, next_free_page_id, errorVars>>

(* InsertExecutor writes a page behind the pool's back: the page is the    *)
(* one AllocatePages returns, whether or not the pool has a copy of it.    *)
(* If the write throws, no row group has the page.                         *)
AllocatePageAgain(p) == p \in {next_free_page_id - 1, next_free_page_id}
AllocatePage(p) == p = next_free_page_id

InsertWrites(p, v) ==
    /\ AllocatePage(p)
    /\ next_free_page_id' = p + 1
    /\ disk' = [disk EXCEPT ![p] = v]
    /\ result' = "ok"
    /\ UNCHANGED <<poolVars, clientVars, errorVars>>
InsertFails(p) ==
    /\ AllocatePage(p)
    /\ next_free_page_id' = p + 1
    /\ result' = "ok"
    /\ UNCHANGED <<poolVars, disk, clientVars, errorVars>>

(* The destructor writes every dirty frame in use, in frame order, so that *)
(* the highest frame has the last word on a page.                          *)
DirtyFrames(p) == {f \in Frame : NeedsWriteBack(f) /\ frames[f].page_id = p}
WrittenBackBelow(n, p) ==
    LET written == {f \in DirtyFrames(p) : f < n}
    IN  IF written = {} THEN disk[p]
        ELSE pages[CHOOSE f \in written : \A g \in written : g <= f]

(* A new pool after the destructor, in this process or in the next one. *)
Rebuild ==
    /\ \A p \in Page : ~wrote[p]
    /\ Construct(page_table', frames', pages', free_list', replacer')
    /\ pins' = [p \in Page |-> 0]
    /\ ptr' = [p \in Page |-> NoFrame]
    /\ result' = "ok"
    /\ UNCHANGED <<wrote, next_free_page_id, read_errors>>

Reopen ==
    /\ Rebuild
    /\ disk' = [p \in Page |-> WrittenBackBelow(PoolSize, p)]
    /\ UNCHANGED write_errors

(* WritePages throws in the destructor, which ends the process: the frames *)
(* before are written, the page of this one may have any contents.         *)
ReopenFails ==
    /\ Rebuild
    /\ write_errors < MaxWriteErrors
    /\ \E f \in Frame, v \in Value :
         /\ NeedsWriteBack(f)
         /\ disk' = [p \in Page |-> IF p = frames[f].page_id THEN v ELSE WrittenBackBelow(f, p)]
    /\ write_errors' = write_errors + 1

Next ==
    \/ \E p \in Page : \/ FetchHit(p) \/ FetchMiss(p) \/ FetchNoFrame(p)
                       \/ FetchWriteFails(p) \/ FetchReadFails(p)
    \/ \E p \in Page, is_dirty \in BOOLEAN : Release(p, is_dirty) \/ StrayUnpin(p, is_dirty)
    \/ \E p \in Page, v \in Value : WriteThroughPointer(p, v) \/ InsertWrites(p, v)
    \/ \E p \in Page : InsertFails(p)
    \/ Reopen \/ ReopenFails

Spec == Init /\ [][Next]_vars

-----------------------------------------------------------------------------
(* The structs FrameMeta and LruReplacer. *)
FrameMeta == [page_id : Page \cup {NoPage}, pin_count : Nat,
              is_dirty : BOOLEAN, in_use : BOOLEAN]
ReplacerState == [lru_order : Seq(Frame), entries : SUBSET Frame,
                  evictable : SUBSET Frame, evictable_count : Int]

(* The type invariant: the shape of the pool's maps, lists and metadata.   *)
TypeOK ==
    /\ page_table \in [Page -> Frame \cup {NoFrame}]
    /\ frames \in [Frame -> FrameMeta]
    /\ pages \in [Frame -> Value \cup {Unwritten}]
    /\ free_list \in Seq(Frame)
    /\ replacer \in ReplacerState
    /\ disk \in [Page -> Value \cup {Unwritten}]
    /\ pins \in [Page -> Nat]
    /\ ptr \in [Page -> Frame \cup {NoFrame}]
    /\ wrote \in [Page -> BOOLEAN]
    /\ result \in {"ok", "no_frame", "io_error"}
    /\ read_errors \in 0 .. MaxReadErrors
    /\ write_errors \in 0 .. MaxWriteErrors

(* The pointer FetchPage returned stays a pointer to that page until the   *)
(* last UnpinPage: whatever was fetched, evicted or failed in between, the *)
(* frame still holds the page, and its pin count is the number of pins     *)
(* the clients hold.                                                       *)
PointerValid ==
    \A p \in Page : pins[p] > 0 =>
        /\ page_table[p] = ptr[p]
        /\ frames[ptr[p]].page_id = p
        /\ frames[ptr[p]].pin_count = pins[p]

(* A cached page nobody has changed is what is on disk: this is what lets  *)
(* eviction drop a clean frame, and it needs INSERT, which writes to the   *)
(* file without the pool, never to write a page the pool may have cached.  *)
Coherent ==
    \A p \in Page :
        (page_table[p] # NoFrame /\ ~frames[page_table[p]].is_dirty /\ ~wrote[p])
            => pages[page_table[p]] = disk[p]

(* The replacer and the pool agree: Evict can only return a frame that is  *)
(* mapped and unpinned, and a pinned frame is known to the replacer, so    *)
(* that the SetEvictable of its last UnpinPage does not throw.             *)
ReplacerAgrees ==
    \A f \in Frame :
        /\ f \in replacer.evictable =>
             frames[f].pin_count = 0 /\ page_table[frames[f].page_id] = f
        /\ frames[f].pin_count > 0 => f \in replacer.entries \ replacer.evictable

(* The inductive invariant behind the properties above, one conjunct per   *)
(* pair of structures that FetchPage and UnpinPage must keep in step.      *)
(* Page table, FrameMeta and contents: *)
MappedFrames ==
    \A p \in Page : page_table[p] # NoFrame =>
        /\ frames[page_table[p]].in_use
        /\ frames[page_table[p]].page_id = p
        /\ pages[page_table[p]] \in Value
        /\ disk[p] \in Value

(* FrameMeta and page table; a frame in use that is not mapped has been    *)
(* lost to a failed read:                                                  *)
UsedFrames ==
    \A f \in Frame : frames[f].in_use =>
        /\ frames[f].page_id \in Page
        /\ read_errors = 0 => page_table[frames[f].page_id] = f

(* Clients and pin counts: *)
PinsCounted ==
    \A p \in Page :
        /\ page_table[p] = NoFrame => pins[p] = 0
        /\ page_table[p] # NoFrame => pins[p] = frames[page_table[p]].pin_count
        /\ pins[p] > 0 => ptr[p] = page_table[p]
        /\ wrote[p] => pins[p] > 0

(* Pin counts and replacer: *)
PinnedFrames ==
    \A f \in Frame : frames[f].pin_count > 0 =>
        /\ f \in replacer.entries \ replacer.evictable
        /\ frames[f].in_use
        /\ page_table[frames[f].page_id] = f

EvictableFrames ==
    \A f \in replacer.evictable :
        /\ frames[f].pin_count = 0
        /\ frames[f].in_use
        /\ page_table[frames[f].page_id] = f

(* The replacer's list and its maps: *)
WellLinked(r) ==
    /\ r \in ReplacerState
    /\ r.evictable \subseteq r.entries
    /\ \A f \in r.entries : \E i \in DOMAIN r.lru_order : r.lru_order[i] = f

(* The free list and everything else: *)
FreeFrames ==
    \A i \in DOMAIN free_list :
        /\ free_list[i] \notin replacer.entries
        /\ ~frames[free_list[i]].in_use
        /\ \A j \in DOMAIN free_list : i # j => free_list[i] # free_list[j]

(* All of it together, with the agreement of memory and disk. *)
PoolInv ==
    /\ TypeOK
    /\ MappedFrames
    /\ UsedFrames
    /\ PinsCounted
    /\ PinnedFrames
    /\ EvictableFrames
    /\ WellLinked(replacer)
    /\ FreeFrames
    /\ Coherent

(* A frame that neither FindFreeFrame can return nor any client holds. *)
Stuck(f) ==
    /\ f \notin Range(free_list)
    /\ f \notin replacer.evictable
    /\ frames[f].pin_count = 0
Mapped(f) == \E p \in Page : page_table[p] = f

(* Frames get lost only to I/O errors, one each: a failed write-back       *)
(* leaves a frame the next FetchPage of its page recovers, a failed read   *)
(* one that nothing recovers before the pool is destroyed.                 *)
LostFramesBounded ==
    /\ Cardinality({f \in Frame : Stuck(f) /\ Mapped(f)}) <= write_errors
    /\ Cardinality({f \in Frame : Stuck(f) /\ ~Mapped(f)}) <= read_errors

KeepsPinnedBytes(p) ==
    pins[p] > 0 /\ pins'[p] > 0 =>
        /\ ptr'[p] = ptr[p]
        /\ pages'[ptr[p]] = pages[ptr[p]] \/ wrote'[p]
KeepsAllPinnedBytes == \A p \in Page : KeepsPinnedBytes(p)

(* The bytes behind a pinned pointer change only through that pointer, and *)
(* the pointer itself does not move while a pin is held: what lets scans   *)
(* read pages in place.                                                    *)
PinnedBytesStable == [][KeepsAllPinnedBytes]_vars

(* The contents a page has for the clients. *)
Contents(p) == IF page_table[p] # NoFrame THEN pages[page_table[p]] ELSE disk[p]

(* The pages some frame lost to a failed read is still dirty with: the     *)
(* destructor writes that frame too.                                       *)
AtRisk == {p \in Page : \E f \in DirtyFrames(p) : page_table[p] # f}

(* The pages whose cached copy is to be written back. *)
Unsaved == {p \in Page : page_table[p] # NoFrame /\ frames[page_table[p]].is_dirty}

PS == INSTANCE PageStore WITH
        store <- [p \in Page |-> Contents(p)], held <- pins,
        at_risk <- AtRisk, unsaved <- Unsaved

(* The pool implements a store of pages: no update is lost or resurrected  *)
(* by caching, eviction, write-back, a failed write-back, INSERT's writes  *)
(* to the file, or the end of the session; a failed read puts at most one  *)
(* page at risk, and nothing happens to that page either before the pool   *)
(* is destroyed; a destructor that throws costs only pages not written     *)
(* back since they were changed.                                           *)
ImplementsPageStore == PS!Spec
=============================================================================
