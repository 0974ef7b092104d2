------------------------------ MODULE HashJoin ------------------------------
(***************************************************************************)
(* HashJoinOperator: the first GetNext drains the build child into a hash  *)
(* table, every GetNext returns at most VectorSize joined rows and keeps   *)
(* its place in the probe chunk, and in the matches of the probe row, for  *)
(* the next call.                                                          *)
(*                                                                         *)
(* A child is the sequence of the chunks it returns, a chunk a sequence of *)
(* rows [key, selected]; key has the values of the key columns, texts or   *)
(* Null.  A row is known by its place <<chunk, row>>, which stands for the *)
(* values that are copied, and a joined row is a pair of places.           *)
(***************************************************************************)
EXTENDS Integers, Sequences, Functions, Appending

CONSTANTS
    BuildInput,    (* the chunk sequences the build child may return       *)
    ProbeInput,    (* those of the probe child                             *)
    KeyColumns,    (* key_ordinals.size()                                  *)
    Char,          (* the characters of texts                              *)
    VectorSize,    (* kVectorSize                                          *)
    Null

Row == [key : [1 .. KeyColumns -> Seq(Char) \cup {Null}], selected : BOOLEAN]

ASSUME JoinAssumption ==
    /\ VectorSize \in Nat \ {0} /\ KeyColumns \in Nat
    /\ BuildInput \subseteq Seq(Seq(Row)) /\ ProbeInput \subseteq Seq(Seq(Row))

VARIABLES
    build, probe,          (* what the children return                     *)
    build_place,           (* where BuildPhase is in build                 *)
    build_rows,            (* build_columns_                               *)
    hash_table,            (* hash_table_: the rows of a key, by index     *)
    built,
    fetched,               (* chunks the probe child has returned          *)
    has_probe_chunk,       (* current_probe_chunk_ has a value: the last   *)
    current_probe_row, current_matches, current_match_index,
    batch,                 (* current_output_build_ and _probe_            *)
    pc,                    (* where GetNext is, "idle" between two calls   *)
    output                 (* history: the rows of the chunks returned     *)

children == <<build, probe>>
table == <<build_place, build_rows, hash_table>>
place == <<current_probe_row, current_matches, current_match_index>>
vars == <<children, table, built, fetched, has_probe_chunk, place, batch, pc, output>>

RowAt(child, p) == child[p[1]][p[2]]
HasKey(row) == Null \notin Range(row.key)

Init ==
    /\ build \in BuildInput /\ probe \in ProbeInput
    /\ build_place = <<1, 1>> /\ build_rows = << >> /\ hash_table = << >> /\ built = FALSE
    /\ fetched = 0 /\ has_probe_chunk = FALSE
    /\ current_probe_row = 1 /\ current_matches = << >> /\ current_match_index = 1
    /\ batch = << >> /\ output = << >>
    /\ pc = "idle"

-----------------------------------------------------------------------------
(* ComputeJoinKey, for a key without a NULL: a text follows its length. *)
ConcatenatedKey(key) == Appended(key)
ComputeJoinKey(key) == Appended([i \in 1 .. KeyColumns |-> <<Len(key[i])>> \o key[i]])

(* hash_table_.find *)
Matches(key) == IF key \in DOMAIN hash_table THEN hash_table[key] ELSE << >>

GetNext ==
    /\ pc = "idle"
    /\ pc' = IF built THEN "probe" ELSE "build"
    /\ batch' = << >>
    /\ UNCHANGED <<children, table, built, fetched, has_probe_chunk, place, output>>

(* BuildPhase, row by row: one that is selected and has a key is kept.     *)
BuildRow ==
    /\ pc = "build" /\ build_place[1] <= Len(build) /\ build_place[2] <= Len(build[build_place[1]])
    /\ LET row == RowAt(build, build_place)
           key == ComputeJoinKey(row.key)
       IN  \/ /\ row.selected /\ HasKey(row)
              /\ build_rows' = Append(build_rows, build_place)
              /\ hash_table' = [k \in DOMAIN hash_table \cup {key} |->
                     IF k = key THEN Append(Matches(key), Len(build_rows) + 1) ELSE hash_table[k]]
           \/ /\ ~(row.selected /\ HasKey(row))
              /\ UNCHANGED <<build_rows, hash_table>>
    /\ build_place' = <<build_place[1], build_place[2] + 1>>
    /\ UNCHANGED <<children, built, fetched, has_probe_chunk, place, batch, pc, output>>

NextBuildChunk ==
    /\ pc = "build" /\ build_place[1] <= Len(build) /\ build_place[2] > Len(build[build_place[1]])
    /\ build_place' = <<build_place[1] + 1, 1>>
    /\ UNCHANGED <<children, build_rows, hash_table, built, fetched, has_probe_chunk, place, batch, pc, output>>

BuildEnd ==
    /\ pc = "build" /\ build_place[1] > Len(build)
    /\ built' = TRUE
    /\ pc' = "probe"
    /\ UNCHANGED <<children, table, fetched, has_probe_chunk, place, batch, output>>

(* ProbeNext: a new probe chunk unless one is being worked on. *)
NextProbeChunk ==
    /\ pc = "probe" /\ ~has_probe_chunk /\ fetched < Len(probe)
    /\ fetched' = fetched + 1 /\ has_probe_chunk' = TRUE
    /\ current_probe_row' = 1 /\ current_matches' = << >> /\ current_match_index' = 1
    /\ pc' = "loop"
    /\ UNCHANGED <<children, table, built, batch, output>>

ProbeExhausted ==
    /\ pc = "probe" /\ ~has_probe_chunk /\ fetched = Len(probe)
    /\ pc' = "done"
    /\ UNCHANGED <<children, table, built, fetched, has_probe_chunk, place, batch, output>>

ResumeProbeChunk ==
    /\ pc = "probe" /\ has_probe_chunk
    /\ pc' = "loop"
    /\ UNCHANGED <<children, table, built, fetched, has_probe_chunk, place, batch, output>>

(* The loop's inner while: the next probe row that has matches. *)
LoopingWithoutBound == pc = "loop"
Looping == pc = "loop" /\ Len(batch) < VectorSize
RowsLeft == current_probe_row <= Len(probe[fetched])
MatchesLeft == current_match_index <= Len(current_matches)
ProbePlace == <<fetched, current_probe_row>>
ProbeRow == RowAt(probe, ProbePlace)

SkipRow ==
    /\ Looping /\ RowsLeft /\ ~MatchesLeft
    /\ ~(ProbeRow.selected /\ HasKey(ProbeRow))
    /\ current_probe_row' = current_probe_row + 1
    /\ UNCHANGED <<children, table, built, fetched, has_probe_chunk, current_matches, current_match_index,
                   batch, pc, output>>

FindMatches ==
    /\ Looping /\ RowsLeft /\ ~MatchesLeft
    /\ ProbeRow.selected /\ HasKey(ProbeRow)
    /\ current_matches' = Matches(ComputeJoinKey(ProbeRow.key))
    /\ current_match_index' = 1
    /\ current_probe_row' = IF current_matches' = << >> THEN current_probe_row + 1 ELSE current_probe_row
    /\ UNCHANGED <<children, table, built, fetched, has_probe_chunk, batch, pc, output>>

EmitMatch ==
    /\ Looping /\ RowsLeft /\ MatchesLeft
    /\ batch' = Append(batch, <<build_rows[current_matches[current_match_index]], ProbePlace>>)
    /\ IF current_match_index < Len(current_matches)
       THEN /\ current_match_index' = current_match_index + 1
            /\ UNCHANGED <<current_probe_row, current_matches>>
       ELSE /\ current_probe_row' = current_probe_row + 1
            /\ current_matches' = << >> /\ current_match_index' = 1
    /\ UNCHANGED <<children, table, built, fetched, has_probe_chunk, pc, output>>

EndOfChunkKept ==
    /\ Looping /\ ~RowsLeft
    /\ output' = output \o batch
    /\ pc' = "idle"
    /\ UNCHANGED <<children, table, built, fetched, has_probe_chunk, place, batch>>
EndOfChunk ==
    /\ Looping /\ ~RowsLeft
    /\ has_probe_chunk' = FALSE
    /\ output' = output \o batch
    /\ pc' = "idle"
    /\ UNCHANGED <<children, table, built, fetched, place, batch>>

BatchFull ==
    /\ pc = "loop" /\ Len(batch) >= VectorSize
    /\ output' = output \o batch
    /\ pc' = "idle"
    /\ UNCHANGED <<children, table, built, fetched, has_probe_chunk, place, batch>>

Next ==
    \/ GetNext \/ BuildRow \/ NextBuildChunk \/ BuildEnd
    \/ NextProbeChunk \/ ProbeExhausted \/ ResumeProbeChunk
    \/ SkipRow \/ FindMatches \/ EmitMatch \/ EndOfChunk \/ BatchFull

(* The operator above calls GetNext until it returns nullopt. *)
Spec == Init /\ [][Next]_vars /\ WF_vars(Next)

-----------------------------------------------------------------------------
(* The join, from what the children return: the pairs of rows that are     *)
(* selected and have equal keys, which a NULL never is.  Its order is that *)
(* of a nested loop over the probe rows and, for each, the build rows.     *)
Places(child) == UNION {{<<c, r>> : r \in DOMAIN child[c]} : c \in DOMAIN child}
Joinable(child) == {p \in Places(child) : RowAt(child, p).selected /\ HasKey(RowAt(child, p))}
Join == {m \in Joinable(build) \X Joinable(probe) : RowAt(build, m[1]).key = RowAt(probe, m[2]).key}

Before(p, q) == p[1] < q[1] \/ (p[1] = q[1] /\ p[2] < q[2])
Earlier(m, n) == Before(m[2], n[2]) \/ (m[2] = n[2] /\ Before(m[1], n[1]))

(* The type invariant: the hash table's rows are build rows, the place in  *)
(* the probe chunk is one the loop can go on from, and a chunk never gets  *)
(* more than VectorSize rows, which DataChunk would refuse.                *)
TypeOK ==
    /\ pc \in {"idle", "build", "probe", "loop", "done"}
    /\ build_rows \in Seq(Joinable(build))
    /\ \A k \in DOMAIN hash_table : Range(hash_table[k]) \subseteq DOMAIN build_rows
    /\ fetched \in 0 .. Len(probe) /\ (has_probe_chunk => fetched # 0)
    /\ Range(current_matches) \subseteq DOMAIN build_rows
    /\ current_match_index \in 1 .. Len(current_matches) + 1
    /\ has_probe_chunk => current_probe_row \in 1 .. Len(probe[fetched]) + 1
    /\ current_matches # << >> => has_probe_chunk /\ RowsLeft
    /\ Len(batch) <= VectorSize

(* No joined row is lost, made up, repeated or moved when a batch fills up *)
(* in the middle of a row's matches, at a chunk's last row or at the last  *)
(* match: the rows returned so far, and the ones of the batch being filled,*)
(* are always the first rows of the join in its order, and all of it when  *)
(* GetNext returns nullopt.                                                *)
Returned == IF pc \in {"loop", "probe", "build"} THEN output \o batch ELSE output
OutputIsJoin ==
    /\ Range(Returned) \subseteq Join
    /\ \A i, j \in DOMAIN Returned : i < j => Earlier(Returned[i], Returned[j])
    /\ \A m \in Range(Returned), n \in Join \ Range(Returned) : Earlier(m, n)
    /\ pc = "done" => Range(output) = Join

(* The join ends, also when GetNext returns chunks without a row. *)
JoinEnds == <>(pc = "done")
=============================================================================
