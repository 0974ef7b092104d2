----------------------------- MODULE PageStore -----------------------------
(***************************************************************************)
(* What BufferPoolManager promises its clients: a store of pages.  A page  *)
(* is pinned, changed only by a client that holds a pin on it, and read    *)
(* back as it was last written.  Caching, eviction, write-back and the end *)
(* of a session are invisible here, and so is a failed write-back.  A read *)
(* that fails can leave one page at risk: the next restart may undo what   *)
(* was written to it.  So may a restart that fails to save, for any page   *)
(* changed since it was last saved.                                        *)
(***************************************************************************)
EXTENDS Naturals

CONSTANTS
    Page,        (* the page ids                                           *)
    Value,       (* the contents a page can have                           *)
    Unwritten    (* contents of a page not written yet                     *)

VARIABLES
    store,       (* the contents of every page                             *)
    held,        (* the pins the clients hold on every page                *)
    at_risk,     (* the pages a failed read left an old copy of            *)
    unsaved      (* the pages whose changes a failed restart may lose      *)

vars == <<store, held, at_risk, unsaved>>

Init ==
    /\ store = [p \in Page |-> Unwritten]
    /\ held = [p \in Page |-> 0]
    /\ at_risk = {}
    /\ unsaved = {}

(* A row group's pages reach the store once, before anybody pins them. *)
Load(p, v) ==
    /\ store[p] = Unwritten
    /\ store' = [store EXCEPT ![p] = v]
    /\ UNCHANGED <<held, at_risk, unsaved>>

Pin(p) ==
    /\ store[p] # Unwritten
    /\ held' = [held EXCEPT ![p] = @ + 1]
    /\ unsaved' \subseteq unsaved
    /\ UNCHANGED <<store, at_risk>>

Update(p, v) ==
    /\ held[p] > 0
    /\ store' = [store EXCEPT ![p] = v]
    /\ UNCHANGED <<held, at_risk, unsaved>>

Unpin(p) ==
    /\ held[p] > 0
    /\ held' = [held EXCEPT ![p] = @ - 1]
    /\ unsaved' \in {unsaved, unsaved \cup {p}}
    /\ UNCHANGED <<store, at_risk>>

(* A read fails: a page nobody holds may be at risk from now on. *)
ReadFails ==
    /\ \/ UNCHANGED at_risk
       \/ \E p \in Page : held[p] = 0 /\ at_risk' = at_risk \cup {p}
    /\ unsaved' \subseteq unsaved
    /\ UNCHANGED <<store, held>>

(* The pool is torn down and built again: every pin is gone, and no page   *)
(* changes that was not at risk, or unsaved when saving failed.            *)
RestartLosing(lost) ==
    /\ held' = [p \in Page |-> 0]
    /\ store' \in [Page -> Value \cup {Unwritten}]
    /\ \A p \in Page \ lost : store'[p] = store[p]
    /\ at_risk' = {} /\ unsaved' = {}
Restart == RestartLosing(at_risk)
RestartFails == unsaved \cup at_risk # {} /\ RestartLosing(at_risk \cup unsaved)

Next ==
    \/ \E p \in Page, v \in Value : Load(p, v) \/ Update(p, v)
    \/ \E p \in Page : Pin(p) \/ Unpin(p)
    \/ ReadFails \/ Restart \/ RestartFails

Spec == Init /\ [][Next]_vars
=============================================================================
