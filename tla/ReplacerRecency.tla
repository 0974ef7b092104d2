-------------------------- MODULE ReplacerRecency --------------------------
(***************************************************************************)
(* LruReplacer driven by any sequence of calls, next to a reference that   *)
(* needs no list: a time stamp per frame.  Every public method of          *)
(* src/storage/replacer.cpp is an action, Remove (which the pool does not  *)
(* call) included.                                                         *)
(***************************************************************************)
EXTENDS LruReplacer

CONSTANTS
    Frame,        (* the frame ids                                         *)
    MaxAccesses   (* bound on the number of RecordAccess calls             *)

ASSUME RecencyAssumption == IsFiniteSet(Frame) /\ MaxAccesses \in Nat

VARIABLES
    replacer,     (* the LruReplacer                                       *)
    stamp,        (* reference: time of the last access of each frame      *)
    clock,        (* reference: number of accesses so far                  *)
    evicted       (* frame returned by the last Evict, or NoVictim         *)

vars == <<replacer, stamp, clock, evicted>>

NoVictim == "nullopt"

Init ==
    /\ replacer = EmptyReplacer
    /\ stamp = [f \in Frame |-> 0]
    /\ clock = 0
    /\ evicted = NoVictim

CallRecordAccess(f) ==
    /\ clock < MaxAccesses
    /\ replacer' = RecordAccess(replacer, f)
    /\ clock' = clock + 1
    /\ stamp' = [stamp EXCEPT ![f] = clock + 1]
    /\ evicted' = NoVictim

(* An unknown frame is std::out_of_range and changes nothing. *)
CallSetEvictable(f, b) ==
    /\ replacer' = IF f \in replacer.entries THEN SetEvictable(replacer, f, b)
                                             ELSE replacer
    /\ evicted' = NoVictim
    /\ UNCHANGED <<stamp, clock>>

CallEvict ==
    /\ IF Candidates(replacer) # {}
       THEN /\ evicted' = Victim(replacer)
            /\ replacer' = Forget(replacer, evicted')
       ELSE /\ evicted' = NoVictim
            /\ UNCHANGED replacer
    /\ UNCHANGED <<stamp, clock>>

(* Remove without the exception for a frame that is not evictable. *)
CallRemoveUnchecked(f) ==
    /\ replacer' = IF f \in replacer.entries THEN Forget(replacer, f) ELSE replacer
    /\ evicted' = NoVictim
    /\ UNCHANGED <<stamp, clock>>

(* An unknown frame is ignored, one that is not evictable is an exception: *)
(* neither changes the replacer.                                           *)
CallRemove(f) ==
    /\ replacer' = IF f \in replacer.evictable THEN Forget(replacer, f) ELSE replacer
    /\ evicted' = NoVictim
    /\ UNCHANGED <<stamp, clock>>

Next ==
    \/ \E f \in Frame : CallRecordAccess(f)
    \/ \E f \in Frame, b \in BOOLEAN : CallSetEvictable(f, b)
    \/ CallEvict
    \/ \E f \in Frame : CallRemove(f)

Spec == Init /\ [][Next]_vars

-----------------------------------------------------------------------------
(* The types of the replacer's maps, list and counter. *)
TypeOK ==
    /\ replacer.lru_order \in Seq(Frame)
    /\ replacer.entries \subseteq Frame
    /\ replacer.evictable \subseteq replacer.entries
    /\ replacer.evictable_count \in Nat
    /\ stamp \in [Frame -> Nat]
    /\ clock \in 0..MaxAccesses
    /\ evicted \in Frame \cup {NoVictim}

(* The list and the maps agree after any sequence of calls: every entry is *)
(* linked exactly once, and the links run from the frame accessed longest  *)
(* ago to the one accessed last (RecordAccess, Evict, Remove).             *)
OrderIsRecency ==
    /\ {replacer.lru_order[i] : i \in DOMAIN replacer.lru_order} = replacer.entries
    /\ \A i, j \in DOMAIN replacer.lru_order :
          i < j => stamp[replacer.lru_order[i]] < stamp[replacer.lru_order[j]]

(* Size() never drifts from the number of evictable frames, whatever mix   *)
(* of SetEvictable (repeated or not), Evict and Remove was called.         *)
SizeIsExact == replacer.evictable_count = Cardinality(replacer.evictable)

(* A frame Evict returns was evictable, and no evictable frame was         *)
(* accessed longer ago.                                                    *)
EvictsOldest ==
    [][evicted' # NoVictim /\ replacer' # replacer =>
          /\ evicted' \in replacer.evictable
          /\ \A f \in replacer.evictable : stamp[evicted'] <= stamp[f]]_vars
=============================================================================
