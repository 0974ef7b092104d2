----------------------------- MODULE TableScan ------------------------------
(***************************************************************************)
(* INSERT and SELECT ... WHERE on one table: InsertExecutor stages rows    *)
(* and flushes row groups, SeqScanOperator returns them a chunk at a time  *)
(* under a FilterOperator, skipping the row groups its zone map condition  *)
(* rules out.                                                              *)
(*                                                                         *)
(* Pages are read as they were written, which BufferPool shows of the pool *)
(* in between; what a scan can do to the pool is to fail in a fetch, which *)
(* costs frames: the one being read into, and the ones it holds pins on.   *)
(***************************************************************************)
EXTENDS RowGroupLayout

CONSTANTS
    Row,           (* the rows that may be inserted                        *)
    Projection,    (* the sets of columns a SELECT may need                *)
    RowGroupSize,  (* kRowGroupSize                                        *)
    Condition,     (* the predicates <column> <op> <constant>              *)
    NoCondition,   (* a SELECT without WHERE                               *)
    PoolFrames,    (* the pool's frames                                    *)
    MaxErrors,     (* bound on the reads that fail                         *)
    MaxRows        (* bound on the rows inserted                           *)

ASSUME ScanAssumption ==
    /\ {RowGroupSize, PoolFrames} \subseteq Nat \ {0}
    /\ {MaxRows, MaxErrors} \subseteq Nat
    /\ Projection \subseteq SUBSET DOMAIN Columns \ {{}}

VARIABLES
    disk,              (* the pages, by id; page ids start at 1            *)
    row_groups,        (* TableObject::RowGroups()                         *)
    staging,           (* the rows InsertExecutor has staged               *)
    mode,              (* "idle", "insert" or "scan"                       *)
    required,          (* the scan's required_ordinals_                    *)
    condition,         (* its predicate, also its zone_map_skip_           *)
    row_group_index, vector_index,
    output,            (* the selected rows of the chunks returned so far  *)
    leaked,            (* the pages a scan that threw has left pinned      *)
    errors,            (* failed reads: each has lost its frame            *)
    refused,           (* FetchPage has found every frame pinned or lost   *)
    inserted,          (* history: the rows of all row groups, in order    *)
    offered            (* history: how many rows INSERT was given          *)

table == <<disk, row_groups, inserted>>
scan == <<required, condition, row_group_index, vector_index, output>>
pool == <<leaked, errors, refused>>
vars == <<table, staging, mode, scan, pool, offered>>

Init ==
    /\ disk = << >> /\ row_groups = << >> /\ inserted = << >>
    /\ staging = << >> /\ offered = 0
    /\ mode = "idle"
    /\ required = << >> /\ condition = NoCondition
    /\ row_group_index = 1 /\ vector_index = 0 /\ output = << >>
    /\ leaked = {} /\ errors = 0 /\ refused = FALSE

-----------------------------------------------------------------------------
(* FlushRowGroup: region after region is allocated and written.  A region  *)
(* of no page makes AllocatePages throw: the pages before it stay, the row *)
(* group is never added, and the statement ends.                           *)
WrittenRegions(rows) ==
    LET empty == {k \in DOMAIN Regions(rows) : Regions(rows)[k] = << >>}
    IN  IF empty = {} THEN Regions(rows) ELSE SubSeq(Regions(rows), 1, Min(empty) - 1)
CanFlush(rows) == Len(WrittenRegions(rows)) = Len(Regions(rows))

FlushRowGroup(rows) ==
    /\ disk' = disk \o FlattenSeq(WrittenRegions(rows))
    /\ staging' = << >>
    /\ IF CanFlush(rows)
       THEN /\ row_groups' = Append(row_groups, FooterEntry(rows, Len(disk) + 1))
            /\ inserted' = inserted \o rows
       ELSE UNCHANGED <<row_groups, inserted>>

(* One row of a VALUES list; a full staging area is flushed. *)
InsertRow(r) ==
    /\ mode \in {"idle", "insert"} /\ offered < MaxRows
    /\ offered' = offered + 1
    /\ IF Len(staging) + 1 >= RowGroupSize
       THEN /\ FlushRowGroup(Append(staging, r))
            /\ mode' = IF CanFlush(Append(staging, r)) THEN "insert" ELSE "idle"
       ELSE /\ staging' = Append(staging, r)
            /\ mode' = "insert"
            /\ UNCHANGED table
    /\ UNCHANGED <<scan, pool>>

(* The end of the statement flushes the rest, if there is any. *)
Finish ==
    /\ mode = "insert"
    /\ mode' = "idle"
    /\ IF staging = << >> THEN UNCHANGED <<table, staging>> ELSE FlushRowGroup(staging)
    /\ UNCHANGED <<scan, pool, offered>>

-----------------------------------------------------------------------------
(* A SELECT of some columns, in table order, the predicate's among them. *)
StartScan(columns, cond) ==
    /\ mode = "idle"
    /\ cond # NoCondition => cond.column \in columns
    /\ mode' = "scan"
    /\ required' = SetToSortSeq(columns, <)
    /\ condition' = cond
    /\ row_group_index' = 1 /\ vector_index' = 0 /\ output' = << >>
    /\ UNCHANGED <<table, staging, pool, offered>>

(* AdvanceToUsableRowGroup: the first row group from row_group_index on    *)
(* that the zone map does not rule out, and the vector to read there; no   *)
(* place at the end.                                                       *)
Usable ==
    {g \in row_group_index .. Len(row_groups) :
        condition = NoCondition \/ ~ZoneMapRulesOutRowGroup(row_groups[g], condition)}
Place ==
    {<<g, IF g = row_group_index THEN vector_index ELSE 0>> :
        g \in {g \in Usable : \A h \in Usable : g <= h}}

StartRow(v) == v * VectorSize
ThisVectorRows(group, v) == Min({VectorSize, group.row_count - StartRow(v)})

(* ExpressionEvaluator on a comparison, then FilterOperator: an unknown    *)
(* result excludes the row.                                                *)
Compare(v, op, w) ==
    CASE op = ">" -> v > w [] op = ">=" -> v >= w [] op = "<" -> v < w
      [] op = "<=" -> v <= w [] op = "=" -> v = w [] op = "<>" -> v # w
Passes(value) == value # Null /\ Compare(value, condition.op, condition.constant)

(* AppendColumn for one row.  `lost` is the set of <<column, row>> whose   *)
(* bit AppendVarchar read as 0 behind the bitmap's first page.             *)
Value(g, c, row, lost) ==
    IF Columns[c] = "int" THEN FixedWidthValue(disk, g, c, row)
    ELSE IF BitBeyondPage(g, c, row)
         THEN IF <<c, row>> \in lost THEN Null ELSE VarcharText(disk, g, c, row)
    ELSE IF IsColumnValidAtRow(disk, g, c, row) THEN VarcharText(disk, g, c, row) ELSE Null

BeyondPage(group, v) ==
    {cr \in {c \in ToSet(required) : Columns[c] = "varchar"}
            \X (StartRow(v) .. StartRow(v) + ThisVectorRows(group, v) - 1) :
        BitBeyondPage(group, cr[1], cr[2])}

(* The chunk's selected rows. *)
Chunk(group, v, lost) ==
    SelectSeq([i \in 1 .. ThisVectorRows(group, v) |->
                  [c \in ToSet(required) |-> Value(group, c, StartRow(v) + i - 1, lost)]],
              LAMBDA r : condition = NoCondition \/ Passes(r[condition.column]))

(* The vector after this one, or the next row group. *)
AdvanceVectorOneTooFar(g, v) ==
    IF (v + 1) * VectorSize > row_groups[g].row_count
    THEN vector_index' = 0 /\ row_group_index' = g + 1
    ELSE vector_index' = v + 1 /\ row_group_index' = g
AdvanceVectorSameRowGroup(g, v) ==
    IF (v + 1) * VectorSize >= row_groups[g].row_count
    THEN vector_index' = 0 /\ row_group_index' = g
    ELSE vector_index' = v + 1 /\ row_group_index' = g
AdvanceVector(g, v) ==
    IF (v + 1) * VectorSize >= row_groups[g].row_count
    THEN vector_index' = 0 /\ row_group_index' = g + 1
    ELSE vector_index' = v + 1 /\ row_group_index' = g

(* The FetchPage calls that AppendColumn makes for a chunk: the column, the*)
(* page, and the pages pinned meanwhile.  A fixed-width column's page is   *)
(* held while FetchWholeRegion copies the bitmap; other pages are copied   *)
(* and unpinned before the next.                                           *)
ColumnFetchesUnpinnedLate(group, v, c) ==
    LET data == group.start[RegionOf(c)] + v
        bitmap == group.start[BitmapRegion] .. LastPage(group)
    IN  {[column |-> c, page |-> p, held |-> {data} \cup {q \in bitmap : q < p}] : p \in bitmap}
ColumnFetches(group, v, c) ==
    LET fetched(pages, held) == {[column |-> c, page |-> p, held |-> held] : p \in pages}
        data == group.start[RegionOf(c)] + v
    IN  IF Columns[c] = "int"
        THEN fetched({data}, {})
               \cup fetched(group.start[BitmapRegion] .. LastPage(group), {data})
        ELSE fetched(group.start[RegionOf(c)] .. group.start[RegionOf(c) + 1] - 1, {})
               \cup fetched(VarcharPages(disk, group, c, StartRow(v), ThisVectorRows(group, v)), {})
               \cup fetched({group.start[BitmapRegion]}, {})
Fetches(group, v) == UNION {ColumnFetches(group, v, c) : c \in ToSet(required)}

(* Columns are read in table order, and the pages of each in ascending     *)
(* order.                                                                  *)
Earlier(e, f) == e.column < f.column \/ (e.column = f.column /\ e.page < f.page)

(* A pinned page is in the pool; any other needs a frame that is neither   *)
(* pinned nor lost.                                                        *)
Resident(f) == f.page \in leaked \cup f.held
NoFrame(f) ==
    ~Resident(f) /\ Cardinality(leaked \cup f.held) + errors >= PoolFrames

GetNext ==
    /\ mode = "scan"
    /\ \E at \in Place : \E group \in {row_groups[at[1]]} :
         /\ ~\E f \in Fetches(group, at[2]) : NoFrame(f)
         /\ \E lost \in SUBSET BeyondPage(group, at[2]) :
               output' = output \o Chunk(group, at[2], lost)
         /\ AdvanceVector(at[1], at[2])
    /\ UNCHANGED <<table, staging, mode, required, condition, pool, offered>>

(* The statement is over, and its operators with it. *)
Destroyed ==
    /\ mode' = "idle"
    /\ required' = << >> /\ condition' = NoCondition
    /\ row_group_index' = 1 /\ vector_index' = 0 /\ output' = << >>

(* A FetchPage throws, for want of a frame or because the read fails, and  *)
(* nothing unpins what is held.                                            *)
FetchThrows ==
    /\ mode = "scan"
    /\ \E fetches \in {Fetches(row_groups[at[1]], at[2]) : at \in Place} :
       \E f \in fetches :
         /\ ~\E e \in fetches : Earlier(e, f) /\ NoFrame(e)
         /\ leaked' = leaked \cup f.held
         /\ \/ NoFrame(f) /\ refused' = TRUE /\ UNCHANGED errors
            \/ /\ ~NoFrame(f) /\ ~Resident(f) /\ errors < MaxErrors
               /\ errors' = errors + 1 /\ UNCHANGED refused
    /\ Destroyed
    /\ UNCHANGED <<table, staging, offered>>

(* GetNext returns nullopt: the query is over. *)
EndScan ==
    /\ mode = "scan" /\ Usable = {}
    /\ Destroyed
    /\ UNCHANGED <<table, staging, pool, offered>>

Next ==
    \/ \E r \in Row : InsertRow(r)
    \/ Finish
    \/ \E columns \in Projection, cond \in Condition \cup {NoCondition} :
          StartScan(columns, cond)
    \/ GetNext \/ FetchThrows \/ EndScan

(* The driver calls GetNext until it returns nullopt or throws. *)
Spec == Init /\ [][Next]_vars /\ WF_vars(EndScan \/ FetchThrows \/ GetNext)

-----------------------------------------------------------------------------
Select(rows, columns, cond) ==
    LET passing == SelectSeq(rows, LAMBDA r :
                     cond = NoCondition \/ Compare(r[cond.column], cond.op, cond.constant))
    IN  [i \in DOMAIN passing |-> [c \in columns |-> passing[i][c]]]

(* The type invariant: the scan stands at the start of a vector of a row   *)
(* group, staged rows are fewer than a row group and there are none        *)
(* outside INSERT.                                                         *)
TypeOK ==
    /\ mode \in {"idle", "insert", "scan"}
    /\ Len(staging) < RowGroupSize /\ ToSet(staging) \subseteq Row
    /\ mode # "insert" => staging = << >>
    /\ row_group_index \in 1 .. Len(row_groups) + 1
    /\ vector_index > 0 => row_group_index <= Len(row_groups)
                           /\ vector_index * VectorSize < row_groups[row_group_index].row_count

(* A query returns what it would on the rows in memory: whenever the scan  *)
(* is about to end, its output is exactly the rows that INSERT added to    *)
(* the catalog and that satisfy the predicate, in order, value for value:  *)
(* through pages, offsets, padding and validity bits, over vector and row  *)
(* group boundaries, and past the row groups the zone map ruled out.       *)
ScanReturnsInserted ==
    mode = "scan" /\ Usable = {} => output = Select(inserted, ToSet(required), condition)

(* The pages the next GetNext fetches are pages of the row group it reads, *)
(* although AppendVarchar goes one page too far when a chunk's characters  *)
(* end on a page boundary: behind the characters there is always a region, *)
(* the bitmap at the latest.                                               *)
FetchesStayInRowGroup ==
    mode = "scan" =>
      \A at \in Place : \A group \in {row_groups[at[1]]} :
        \A f \in Fetches(group, at[2]) :
          f.page \in (group.start[1] .. LastPage(group)) \cap DOMAIN disk

(* Scans run out of frames only by errors: a scan holds one page and needs *)
(* a frame for another, so FetchPage finds every frame pinned or lost only *)
(* once failed reads have left fewer than two, at two frames each: the one *)
(* BufferPoolManager loses and the one whose pin AppendFixedWidth leaks.   *)
FramesSuffice ==
    /\ refused => PoolFrames <= 2 * errors + 1
    /\ ~refused => Cardinality(leaked) <= errors

(* A query ends: SeqScanOperator moves on with every chunk it returns, and *)
(* FetchPage throws rather than waits.                                     *)
ScanEnds == mode = "scan" ~> mode = "idle"
=============================================================================
