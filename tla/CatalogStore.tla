---------------------------- MODULE CatalogStore ----------------------------
(***************************************************************************)
(* What the database file promises across sessions: the tables that were   *)
(* created and the row groups that were added to them, in order.  Sessions *)
(* begin and end without a trace.  Nothing is promised here once a system  *)
(* call has failed or a session has crashed.                               *)
(***************************************************************************)
EXTENDS Sequences

CONSTANTS
    Table,       (* table names                                            *)
    NoTable,     (* what a name that was never created maps to             *)
    RowGroup     (* the row groups there can be                            *)

VARIABLES
    catalog,
    faulty       (* a system call failed or a session crashed              *)

vars == <<catalog, faulty>>

Init ==
    /\ catalog = [t \in Table |-> NoTable]
    /\ faulty = FALSE

CreateTable(t) ==
    /\ catalog[t] = NoTable
    /\ catalog' = [catalog EXCEPT ![t] = << >>]

AddRowGroup(t, g) ==
    /\ catalog[t] # NoTable
    /\ \A u \in Table : catalog[u] # NoTable => \A i \in DOMAIN catalog[u] : catalog[u][i] # g
    /\ catalog' = [catalog EXCEPT ![t] = Append(@, g)]

Next ==
    \/ /\ \E t \in Table : CreateTable(t) \/ \E g \in RowGroup : AddRowGroup(t, g)
       /\ faulty' = FALSE
    \/ faulty' = TRUE

Spec == Init /\ [][Next]_vars
=============================================================================
