--------------------------- MODULE RowGroupLayout ---------------------------
(***************************************************************************)
(* How a row group lies in pages, and how it is read back: the bytes       *)
(* InsertExecutor::FlushRowGroup makes of the staged columns, the footer   *)
(* entry it keeps of them, and the arithmetic SeqScanOperator reads them   *)
(* with.                                                                   *)
(*                                                                         *)
(* A page holds VectorSize words (an INTEGER, FLOAT or offset) or          *)
(* PageBytes bytes (a character, or the validity bits of RowsPerByte       *)
(* rows: the set of the positions whose bit is 1).  Rows and columns count *)
(* from 0, as in the code; sequences from 1.                               *)
(***************************************************************************)
EXTENDS Integers, Sequences, FiniteSets, SequencesExt, FiniteSetsExt

CONSTANTS
    Columns,       (* the column types of the table: "int" or "varchar"    *)
    VectorSize,    (* kVectorSize: rows per chunk, words per page          *)
    PageBytes,     (* kPageSizeBytes                                       *)
    RowsPerByte,   (* 8                                                    *)
    Null           (* what a row whose validity bit is 0 reads as          *)

ASSUME LayoutAssumption ==
    /\ Columns \in Seq({"int", "varchar"}) \ {<< >>}
    /\ {VectorSize, PageBytes, RowsPerByte} \subseteq Nat \ {0}

CeilDiv(n, d) == (n + d - 1) \div d

(* pad_and_write's pages: the last one is filled up with zeroes. *)
Pages(items, per_page, zero) ==
    [p \in 1 .. CeilDiv(Len(items), per_page) |->
        [i \in 1 .. per_page |->
            LET at == (p - 1) * per_page + i
            IN IF at <= Len(items) THEN items[at] ELSE zero]]

ColumnOf(rows, c) == [i \in DOMAIN rows |-> rows[i][c]]

(* SerializeVarchar: the end of every value, counted in characters. *)
Offsets(texts) == [i \in 1 .. Len(texts) + 1 |-> Len(FlattenSeq(SubSeq(texts, 1, i - 1)))]

BytesPerColumn(row_count) == CeilDiv(row_count, RowsPerByte)

(* BuildValidityBitmapBytes; no NULL can be staged. *)
BuildValidityBitmapBytes(row_count) ==
    [b \in 1 .. BytesPerColumn(row_count) * Len(Columns) |->
        {bit \in 0 .. RowsPerByte - 1 :
            ((b - 1) % BytesPerColumn(row_count)) * RowsPerByte + bit < row_count}]

(* The regions FlushRowGroup writes, in its order. *)
Regions(rows) ==
    FlattenSeq([c \in DOMAIN Columns |->
        IF Columns[c] = "int" THEN <<Pages(ColumnOf(rows, c), VectorSize, 0)>>
        ELSE <<Pages(Offsets(ColumnOf(rows, c)), VectorSize, 0),
               Pages(FlattenSeq(ColumnOf(rows, c)), PageBytes, 0)>>])
    \o <<Pages(BuildValidityBitmapBytes(Len(rows)), PageBytes, {})>>

(* ZoneMap::Update over the values of a column. *)
Zone(values) == [min |-> Min(ToSet(values)), max |-> Max(ToSet(values))]

(* The RowGroupFooterEntry: where each region starts, given the first page *)
(* AllocatePages returns.                                                  *)
FooterEntry(rows, first_page) ==
    [row_count |-> Len(rows),
     start |-> [k \in DOMAIN Regions(rows) |->
                   first_page + Len(FlattenSeq(SubSeq(Regions(rows), 1, k - 1)))],
     zone |-> [c \in {d \in DOMAIN Columns : Columns[d] = "int"} |-> Zone(ColumnOf(rows, c))]]

(* The first region of a column; the one after the last column is the      *)
(* bitmap.                                                                 *)
RegionOf(c) == c + Cardinality({d \in 1 .. c - 1 : Columns[d] = "varchar"})
BitmapRegion == RegionOf(Len(Columns) + 1)
LastPage(group) ==
    group.start[BitmapRegion]
      + CeilDiv(BytesPerColumn(group.row_count) * Len(Columns), PageBytes) - 1

-----------------------------------------------------------------------------
(* ZoneMapRulesOutRowGroup: no value of the row group can satisfy the      *)
(* condition.                                                              *)
ZoneMapWithBoundsSwapped(group, cond) ==
    LET zone == group.zone[cond.column]
    IN  CASE cond.op = ">"  -> ~(zone.min > cond.constant)
          [] cond.op = "<"  -> ~(zone.max < cond.constant)
          [] cond.op = "="  -> cond.constant < zone.min \/ cond.constant > zone.max
          [] OTHER -> FALSE
ZoneMapRulesOutRowGroup(group, cond) ==
    LET zone == group.zone[cond.column]
    IN  CASE cond.op = ">"  -> ~(zone.max > cond.constant)
          [] cond.op = ">=" -> ~(zone.max >= cond.constant)
          [] cond.op = "<"  -> ~(zone.min < cond.constant)
          [] cond.op = "<=" -> ~(zone.min <= cond.constant)
          [] cond.op = "="  -> cond.constant < zone.min \/ cond.constant > zone.max
          [] OTHER -> FALSE

(* Word i of a region of the disk, and byte i of one. *)
Word(disk, start, i) == disk[start + i \div VectorSize][(i % VectorSize) + 1]
Byte(disk, start, i) == disk[start + i \div PageBytes][(i % PageBytes) + 1]

(* IsColumnValidAtRow: where a row's bit is. *)
BitmapByte(group, c, row) == (c - 1) * BytesPerColumn(group.row_count) + row \div RowsPerByte
IsColumnValidAtRow(disk, group, c, row) ==
    row % RowsPerByte \in Byte(disk, group.start[BitmapRegion], BitmapByte(group, c, row))

(* The rows whose bit AppendVarchar looks for after the bitmap page it     *)
(* fetched: what it finds there is whatever lies behind that frame.        *)
BitBeyondPage(group, c, row) == BitmapByte(group, c, row) >= PageBytes

(* AppendFixedWidth: page start + vector_index, row i of that page. *)
FixedWidthValue(disk, group, c, row) ==
    IF IsColumnValidAtRow(disk, group, c, row) THEN Word(disk, group.start[RegionOf(c)], row)
    ELSE Null

(* AppendVarchar: the characters between two offsets. *)
VarcharText(disk, group, c, row) ==
    LET offset(i) == Word(disk, group.start[RegionOf(c)], i)
    IN  [k \in 1 .. offset(row + 1) - offset(row) |->
            Byte(disk, group.start[RegionOf(c) + 1], offset(row) + k - 1)]

(* The data pages AppendVarchar fetches for a chunk.  When the last offset *)
(* is a multiple of the page size the last one is past the characters.     *)
VarcharPagesByCharacter(disk, group, c, start_row, count) ==
    LET offset(i) == Word(disk, group.start[RegionOf(c)], i)
    IN  group.start[RegionOf(c) + 1] + offset(start_row) \div PageBytes
          .. group.start[RegionOf(c) + 1] + offset(start_row + count)
VarcharPages(disk, group, c, start_row, count) ==
    LET offset(i) == Word(disk, group.start[RegionOf(c)], i)
    IN  group.start[RegionOf(c) + 1] + offset(start_row) \div PageBytes
          .. group.start[RegionOf(c) + 1] + offset(start_row + count) \div PageBytes
=============================================================================
