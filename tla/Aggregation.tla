---------------------------- MODULE Aggregation -----------------------------
(***************************************************************************)
(* AggregationOperator: the first GetNext drains the child into one set of *)
(* accumulators per group, and every GetNext returns the next VectorSize   *)
(* groups in the order in which they were first seen.                      *)
(*                                                                         *)
(* The child is [rows, ends]: the rows it returns, and the row with which  *)
(* each of its chunks ends.  A row is [key, value, selected]: the values   *)
(* of the GROUP BY columns (texts), the INTEGER argument of the            *)
(* aggregates, and whether a filter kept it.  All six aggregates of that   *)
(* argument are computed.                                                  *)
(***************************************************************************)
EXTENDS Integers, Sequences, FiniteSets, FiniteSetsExt, Functions, Appending

CONSTANTS
    Input,         (* what the child may return                            *)
    KeyColumns,    (* the GROUP BY columns, if there is a GROUP BY         *)
    Char,          (* the characters of texts                              *)
    VectorSize,    (* kVectorSize                                          *)
    Limit,         (* 2^31: the INTEGERs are -Limit .. Limit - 1           *)
    Null

Row == [key : [1 .. KeyColumns -> Seq(Char) \cup {Null}], value : Int \cup {Null}, selected : BOOLEAN]

ASSUME AggregationAssumption ==
    /\ VectorSize \in Nat \ {0} /\ Limit \in Nat \ {0} /\ KeyColumns \in Nat \ {0}
    /\ \A in \in Input :
          /\ in.rows \in Seq(Row) /\ in.ends \in Seq(0 .. Len(in.rows))
          /\ IF in.ends = << >> THEN in.rows = << >> ELSE in.ends[Len(in.ends)] = Len(in.rows)

VARIABLES
    grouped,       (* there is a GROUP BY                                  *)
    rows, ends,    (* what the child returns                               *)
    fetched, row,  (* where Drain is: the chunks it got, and its next row  *)
    drained,
    group_order,   (* group_order_                                         *)
    display_values, accumulators,
    emit_cursor,
    pc,            (* where GetNext is, "idle" between two calls           *)
    output         (* history: the rows of the chunks returned             *)

child == <<grouped, rows, ends>>
groups == <<group_order, display_values, accumulators>>
vars == <<child, fetched, row, drained, groups, emit_cursor, pc, output>>

Init ==
    /\ grouped \in BOOLEAN
    /\ \E in \in Input : rows = in.rows /\ ends = in.ends
    /\ fetched = 0 /\ row = 1 /\ drained = FALSE
    /\ group_order = << >> /\ display_values = << >> /\ accumulators = << >>
    /\ emit_cursor = 0 /\ pc = "idle" /\ output = << >>

-----------------------------------------------------------------------------
(* SerializeKeyBytes, column after column: a NULL flag, and for a value    *)
(* its type tag and the length before its characters.                      *)
KeyWithoutNullFlag(values) ==
    Appended([i \in DOMAIN values |->
        IF values[i] = Null THEN << >> ELSE <<2, Len(values[i])>> \o values[i]])
SerializeKeyBytes(values) ==
    Appended([i \in DOMAIN values |->
        IF values[i] = Null THEN <<1>> ELSE <<0, 2, Len(values[i])>> \o values[i]])

NewAccumulators == [rows |-> 0, count |-> 0, sum |-> 0, min |-> 0, max |-> 0]

(* The Add functions: COUNT of rows counts every row, the others skip NULL,*)
(* and the zone map's first value replaces whatever min and max were.      *)
Add(acc, value) ==
    IF value = Null THEN [acc EXCEPT !.rows = @ + 1]
    ELSE [rows |-> acc.rows + 1, count |-> acc.count + 1, sum |-> acc.sum + value,
          min |-> IF acc.count = 0 \/ value < acc.min THEN value ELSE acc.min,
          max |-> IF acc.count = 0 \/ value > acc.max THEN value ELSE acc.max]

(* static_cast<std::int32_t> of a 64-bit count or sum. *)
Narrow(n) == ((n + Limit) % (2 * Limit)) - Limit

(* One row of EmitBatch; an aggregate without a value is NULL.  AVG is the *)
(* quotient of the sum and count, which it divides only here.              *)
Result(values, acc) ==
    [key |-> values,
     count_star |-> Narrow(acc.rows), count |-> Narrow(acc.count),
     sum |-> IF acc.count = 0 THEN Null ELSE Narrow(acc.sum),
     avg |-> IF acc.count = 0 THEN Null ELSE <<acc.sum, acc.count>>,
     min |-> IF acc.count = 0 THEN Null ELSE acc.min,
     max |-> IF acc.count = 0 THEN Null ELSE acc.max]

-----------------------------------------------------------------------------
GetNext ==
    /\ pc = "idle"
    /\ pc' = IF drained THEN "emit" ELSE "drain"
    /\ UNCHANGED <<child, fetched, row, drained, groups, emit_cursor, output>>

(* Drain without GROUP BY starts with the implicit group, whose key is     *)
(* empty.                                                                  *)
StartDrain ==
    /\ pc = "drain" /\ ~drained
    /\ drained' = TRUE
    /\ IF grouped THEN UNCHANGED groups
       ELSE /\ group_order' = << << >> >>
            /\ display_values' = [k \in {<< >>} |-> << >>]
            /\ accumulators' = [k \in {<< >>} |-> NewAccumulators]
    /\ UNCHANGED <<child, fetched, row, emit_cursor, pc, output>>

(* The chunk at hand, and its rows. *)
ChunkEnd == IF fetched = 0 THEN 0 ELSE ends[fetched]
NextChunk ==
    /\ pc = "drain" /\ drained /\ row > ChunkEnd /\ fetched < Len(ends)
    /\ fetched' = fetched + 1
    /\ UNCHANGED <<child, row, drained, groups, emit_cursor, pc, output>>

SkipRow ==
    /\ pc = "drain" /\ row <= ChunkEnd /\ ~rows[row].selected
    /\ row' = row + 1
    /\ UNCHANGED <<child, fetched, drained, groups, emit_cursor, pc, output>>

(* accumulators_.try_emplace: the accumulators of the row's key, or new    *)
(* ones for a group at the end of group_order.                             *)
KeyOf(r) == IF grouped THEN r.key ELSE << >>
Found(key) == IF key \in DOMAIN accumulators THEN accumulators[key] ELSE NewAccumulators
Put(map, key, value) == [k \in DOMAIN map \cup {key} |-> IF k = key THEN value ELSE map[k]]

AccumulateRow ==
    /\ pc = "drain" /\ row <= ChunkEnd /\ rows[row].selected
    /\ LET values == KeyOf(rows[row])
           key == SerializeKeyBytes(values)
       IN  /\ accumulators' = Put(accumulators, key, Add(Found(key), rows[row].value))
           /\ \/ /\ key \in DOMAIN accumulators
                 /\ UNCHANGED <<group_order, display_values>>
              \/ /\ key \notin DOMAIN accumulators
                 /\ group_order' = Append(group_order, key)
                 /\ display_values' = Put(display_values, key, values)
    /\ row' = row + 1
    /\ UNCHANGED <<child, fetched, drained, emit_cursor, pc, output>>

EndDrain ==
    /\ pc = "drain" /\ drained /\ row > ChunkEnd /\ fetched = Len(ends)
    /\ pc' = "emit"
    /\ UNCHANGED <<child, fetched, row, drained, groups, emit_cursor, output>>

GroupsLeft == Len(group_order) - emit_cursor
BatchSize == IF VectorSize < GroupsLeft THEN VectorSize ELSE GroupsLeft
Batch == [i \in 1 .. BatchSize |->
            LET key == group_order[emit_cursor + i] IN Result(display_values[key], accumulators[key])]
EmitWholeVector ==
    /\ pc = "emit" /\ emit_cursor < Len(group_order)
    /\ output' = output \o Batch
    /\ emit_cursor' = emit_cursor + VectorSize
    /\ pc' = "idle"
    /\ UNCHANGED <<child, fetched, row, drained, groups>>
EmitBatch ==
    /\ pc = "emit" /\ emit_cursor < Len(group_order)
    /\ output' = output \o Batch
    /\ emit_cursor' = emit_cursor + BatchSize
    /\ pc' = "idle"
    /\ UNCHANGED <<child, fetched, row, drained, groups>>

NothingLeftReturnsChunk ==
    /\ pc = "emit" /\ emit_cursor >= Len(group_order)
    /\ pc' = "idle"
    /\ UNCHANGED <<child, fetched, row, drained, groups, emit_cursor, output>>
NothingLeft ==
    /\ pc = "emit" /\ emit_cursor >= Len(group_order)
    /\ pc' = "done"
    /\ UNCHANGED <<child, fetched, row, drained, groups, emit_cursor, output>>

Next ==
    \/ GetNext \/ StartDrain \/ NextChunk \/ SkipRow \/ AccumulateRow \/ EndDrain
    \/ EmitBatch \/ NothingLeft

(* The operator above calls GetNext until it returns nullopt. *)
Spec == Init /\ [][Next]_vars /\ WF_vars(Next)

-----------------------------------------------------------------------------
(* GROUP BY as SQL says it: the keys of the selected rows, in the order of *)
(* their first rows, each with the aggregates of its values; without GROUP *)
(* BY one group, whatever there is.                                        *)
Of(key) == {i \in DOMAIN rows : rows[i].selected /\ KeyOf(rows[i]) = key}
Keys == IF grouped THEN {rows[i].key : i \in {j \in DOMAIN rows : rows[j].selected}} ELSE {<< >>}
Precedes(k, l) == \E i \in Of(k) : \A j \in Of(l) : i < j

Valued(key) == {i \in Of(key) : rows[i].value # Null}
Values(key) == {rows[i].value : i \in Valued(key)}
Sum(key) ==
    LET sum[n \in 0 .. Len(rows)] ==
            IF n = 0 THEN 0 ELSE sum[n - 1] + (IF n \in Valued(key) THEN rows[n].value ELSE 0)
    IN  sum[Len(rows)]
Aggregates(key) ==
    LET orNull(v) == IF Valued(key) = {} THEN Null ELSE v
    IN  [key |-> key,
         count_star |-> Cardinality(Of(key)), count |-> Cardinality(Valued(key)),
         sum |-> orNull(Sum(key)), avg |-> orNull(<<Sum(key), Cardinality(Valued(key))>>),
         min |-> IF Valued(key) = {} THEN Null ELSE Min(Values(key)),
         max |-> IF Valued(key) = {} THEN Null ELSE Max(Values(key))]

(* The type invariant: no group is kept twice, every group has its         *)
(* accumulators and its display values, and the cursor is a group's.       *)
TypeOK ==
    /\ pc \in {"idle", "drain", "emit", "done"}
    /\ \A g, h \in DOMAIN group_order : group_order[g] = group_order[h] => g = h
    /\ DOMAIN accumulators = Range(group_order) /\ DOMAIN display_values = Range(group_order)
    /\ emit_cursor \in 0 .. Len(group_order)

(* The rows returned so far are the first rows of the GROUP BY, with a     *)
(* NULL key a group of its own, no two keys confused by their bytes, and   *)
(* the aggregates of exactly the selected rows: SUM, MIN, MAX and AVG are  *)
(* NULL when the group has no value.  When GetNext returns nullopt they    *)
(* are all of them, which without GROUP BY is one row even on no input.    *)
(* A COUNT or SUM is right when it is an INTEGER: EmitBatch casts one that *)
(* is not to 32 bits, and of what it then shows nothing is claimed.  AVG   *)
(* is right even then, its sum being added up in 64 bits.                  *)
Shows(shown, exact) == shown = exact \/ exact \in Int \ (-Limit .. Limit - 1)
ShowsAggregates(r) ==
    LET exact == Aggregates(r.key)
    IN  /\ Shows(r.count_star, exact.count_star) /\ Shows(r.count, exact.count)
        /\ Shows(r.sum, exact.sum)
        /\ r.avg = exact.avg /\ r.min = exact.min /\ r.max = exact.max
Returned == {output[i].key : i \in DOMAIN output}
OutputIsGroupBy ==
    /\ \A i \in DOMAIN output : output[i].key \in Keys /\ ShowsAggregates(output[i])
    /\ \A i, j \in DOMAIN output : i < j => Precedes(output[i].key, output[j].key)
    /\ \A k \in Returned, l \in Keys \ Returned : Precedes(k, l)
    /\ pc = "done" => Returned = Keys

(* The aggregation ends. *)
AggregationEnds == <>(pc = "done")
=============================================================================
