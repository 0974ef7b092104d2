---------------------------- MODULE LruReplacer ----------------------------
(***************************************************************************)
(* LruReplacer (src/storage/replacer.cpp): the eviction order of the       *)
(* buffer pool.  Each method is an operator from the replacer's state to   *)
(* its next state, because one call of the pool makes several of them.     *)
(*                                                                         *)
(*   lru_order        front = least recently used                          *)
(*   entries          the frames entries_ (and position_) have a key for   *)
(*   evictable        the entries whose flag is set                        *)
(*   evictable_count  what Size() returns                                  *)
(***************************************************************************)
EXTENDS Integers, FiniteSets, Sequences, Functions

EmptyReplacer ==
    [lru_order |-> << >>, entries |-> {}, evictable |-> {}, evictable_count |-> 0]

(* position_.at(frame): where the frame stands in lru_order. *)
Position(r, frame) ==
    CHOOSE i \in DOMAIN r.lru_order : r.lru_order[i] = frame

(* Taking a frame out of the list alone. *)
Unlinked(r, frame) ==
    SubSeq(r.lru_order, 1, Position(r, frame) - 1)
        \o SubSeq(r.lru_order, Position(r, frame) + 1, Len(r.lru_order))

(* Erasing a frame from the list and both maps, as Evict and Remove do. *)
Forget(r, frame) ==
    [lru_order       |-> Unlinked(r, frame),
     entries         |-> r.entries \ {frame},
     evictable       |-> r.evictable \ {frame},
     evictable_count |-> r.evictable_count - 1]

(* RecordAccess without the erase of the old position: the list keeps a    *)
(* stale link for a frame that is accessed again.                          *)
RecordAccessKeepsOldLink(r, frame) ==
    [r EXCEPT !.lru_order = Append(@, frame), !.entries = @ \cup {frame}]

RecordAccess(r, frame) ==
    [lru_order       |-> Append(IF frame \in r.entries THEN Unlinked(r, frame)
                                                       ELSE r.lru_order, frame),
     entries         |-> r.entries \cup {frame},
     evictable       |-> r.evictable,
     evictable_count |-> r.evictable_count]

(* SetEvictable without the early return for an unchanged flag. *)
SetEvictableAlwaysCounts(r, frame, set_evictable) ==
    [r EXCEPT
        !.evictable       = IF set_evictable THEN @ \cup {frame} ELSE @ \ {frame},
        !.evictable_count = @ + (IF set_evictable THEN 1 ELSE -1)]

(* Defined for frame \in r.entries: the code throws std::out_of_range on   *)
(* any other frame.                                                        *)
SetEvictable(r, frame, set_evictable) ==
    IF (frame \in r.evictable) = set_evictable
    THEN r
    ELSE [lru_order       |-> r.lru_order,
          entries         |-> r.entries,
          evictable       |-> IF set_evictable THEN r.evictable \cup {frame}
                                               ELSE r.evictable \ {frame},
          evictable_count |-> r.evictable_count + (IF set_evictable THEN 1 ELSE -1)]

(* The positions Evict would accept; it takes the first. *)
Candidates(r) == {i \in DOMAIN r.lru_order : r.lru_order[i] \in r.evictable}

(* Evict scanning from the most recently used end. *)
VictimFromBack(r) ==
    r.lru_order[CHOOSE i \in Candidates(r) : \A j \in Candidates(r) : i >= j]

(* Evict's choice when there is a candidate (std::nullopt otherwise). *)
Victim(r) ==
    r.lru_order[CHOOSE i \in Candidates(r) : \A j \in Candidates(r) : i <= j]
=============================================================================
