------------------------- MODULE StatementExecution -------------------------
(***************************************************************************)
(* Driver::ExecuteStatement for the statements that change the catalog:    *)
(* what Parser makes of CREATE TABLE and INSERT, Binder::Bind, and the     *)
(* rows InsertExecutor adds.  A SELECT only reads: see SelectQuery.        *)
(*                                                                         *)
(* The catalog in memory maps a table name to its columns, <<name, type>>, *)
(* and its rows; a value is <<type, datum>>.  What of it is in the file is *)
(* the matter of DatabaseFile.  Any write to the file may fail, so that a  *)
(* statement has a set of outcomes.                                        *)
(***************************************************************************)
EXTENDS Integers, Sequences, FiniteSets, FiniteSetsExt, Functions

CONSTANTS
    Table,        (* table names                                           *)
    NoTable,      (* tables_by_name_ has no key for the name               *)
    Parsed,       (* pg_query and Parser: statement text -> ParsedStatement*)
    kRowGroupSize

TypeId == {"int", "float", "text"}
Literal == (TypeId \cup {"null"}) \X Int
TableObject == [columns : Seq(STRING \X TypeId), rows : Seq(Seq(Literal))]

ASSUME ParsedAssumption ==
    /\ NoTable \notin TableObject /\ kRowGroupSize \in Nat \ {0}
    /\ \A stmt \in Range(Parsed) :
         /\ stmt.kind \in {"meta", "negation", "create", "insert"}
         /\ stmt.kind = "create" =>
              stmt.table \in Table /\ stmt.columns \in Seq(STRING \X STRING)
         /\ stmt.kind = "insert" =>
              /\ stmt.table \in Table /\ stmt.columns \in Seq(STRING)
              /\ stmt.rows \in Seq(Seq(Literal))

(* TypeId of a column type as pg_query names it. *)
MapRawTypeName ==
    [int4 |-> "int", float4 |-> "float", varchar |-> "text", text |-> "text"]
IsSupportedType(raw) == raw \in DOMAIN MapRawTypeName

(* TableObject::FindColumn: column_ordinal_map_.emplace keeps the first    *)
(* column of a name.  The ordinals of no column are the empty set.         *)
Ordinals(columns, name) == {i \in DOMAIN columns : columns[i][1] = name}
FindColumn(columns, name) ==
    CHOOSE i \in Ordinals(columns, name) : \A j \in Ordinals(columns, name) : i <= j

-----------------------------------------------------------------------------
(* An outcome: what the statement leaves of the catalog, and the reply.    *)
Failed(tables) == [tables |-> tables, reply |-> "error"]
Replied(tables) == [tables |-> tables, reply |-> "ok"]
Died(tables) == [tables |-> tables, reply |-> "died"]

(* BindCreateTable: types first, then Catalog::CreateTable, which has the  *)
(* table in memory before PersistMetadata may throw.                       *)
BindCreateTable(stmt, tables) ==
    IF (\E c \in Range(stmt.columns) : ~IsSupportedType(c[2])) \/ tables[stmt.table] # NoTable
    THEN {Failed(tables)}
    ELSE LET columns == [i \in DOMAIN stmt.columns |->
                           <<stmt.columns[i][1], MapRawTypeName[stmt.columns[i][2]]>>]
             created == [tables EXCEPT ![stmt.table] = [columns |-> columns, rows |-> << >>]]
         IN  {Replied(created), Failed(created)}

(* BindInsert resolves the column list to target_ordinals. *)
TargetOrdinals(stmt, columns) ==
    IF stmt.columns = << >> THEN [i \in DOMAIN columns |-> i]
    ELSE [i \in DOMAIN stmt.columns |-> FindColumn(columns, stmt.columns[i])]

(* What BindInsert accepts: known columns, and for every VALUES row as     *)
(* many literals as columns, each of its column's type.                    *)
NamesKnown(stmt, columns) ==
    \A name \in Range(stmt.columns) : Ordinals(columns, name) # {}
RowFits(row, targets, columns) ==
    /\ Len(row) = Len(targets)
    /\ Len(targets) = Len(columns)
    /\ \A i \in DOMAIN row : row[i][1] = columns[targets[i]][2]

(* bound_row: the value for a column is the last one that targets it; a    *)
(* column no value targets keeps a null pointer.                           *)
Hole == <<"hole", 0>>
BoundRowInListOrder(row, targets, columns) ==
    [k \in DOMAIN columns |-> IF k \in Range(targets) THEN row[k] ELSE Hole]
BoundRow(row, targets, columns) ==
    [k \in DOMAIN columns |->
        IF k \in Range(targets) THEN row[Max({i \in DOMAIN targets : targets[i] = k})]
                                ELSE Hole]

(* FlushRowGroup has no page to allocate, and throws, for the characters   *)
(* of a VARCHAR column of empty texts and for the bitmap of no column.     *)
EmptyText == <<"text", 0>>
WithoutPages(group, columns) ==
    \/ columns = << >>
    \/ \E k \in DOMAIN columns :
         columns[k][2] = "text" /\ \A row \in group : row[k] = EmptyText

(* How many of the rows are in the catalog when InsertRow or Finish throws *)
(* or Finish returns: AddRowGroup has seen the first row groups, each with *)
(* all of its pages, and the rows staged after them are gone.              *)
RowGroupOf(rows, i) ==
    {rows[j] : j \in {k \in DOMAIN rows : (k - 1) \div kRowGroupSize = (i - 1) \div kRowGroupSize}}
Flushed(rows, columns) ==
    {m \in 0 .. Len(rows) :
       /\ m = Len(rows) \/ m % kRowGroupSize = 0
       /\ \A i \in 1 .. m : ~WithoutPages(RowGroupOf(rows, i), columns)}

(* What InsertExecutor leaves of the rows, and what the reply says. *)
Inserted(t, rows, tables) ==
    {IF m = Len(rows) THEN Replied([tables EXCEPT ![t].rows = @ \o rows])
                      ELSE Failed([tables EXCEPT ![t].rows = @ \o SubSeq(rows, 1, m)]) :
       m \in Flushed(rows, tables[t].columns)}

(* RunInsert once BindInsert has accepted every row: AppendRow reads every *)
(* pointer of a row, and dies of a null one in the first row since all of  *)
(* them have the same targets.                                             *)
BoundRows(stmt, columns) ==
    [i \in DOMAIN stmt.rows |-> BoundRow(stmt.rows[i], TargetOrdinals(stmt, columns), columns)]
RunInsert(stmt, tables) ==
    UNION {IF \E row \in Range(bound) : Hole \in Range(row) THEN {Died(tables)}
           ELSE Inserted(stmt.table, bound, tables) :
             bound \in {BoundRows(stmt, tables[stmt.table].columns)}}

BindInsert(stmt, tables) ==
    IF tables[stmt.table] = NoTable \/ ~NamesKnown(stmt, tables[stmt.table].columns)
    THEN {Failed(tables)}
    ELSE LET columns == tables[stmt.table].columns
             targets == TargetOrdinals(stmt, columns)
         IN  IF \A row \in Range(stmt.rows) : RowFits(row, targets, columns)
             THEN RunInsert(stmt, tables)
             ELSE {Failed(tables)}

(* ExecuteStatement: meta commands before the parser sees them, anything   *)
(* that throws caught and printed; the negation of a column has no left    *)
(* operand for ConvertAExpr to follow.                                     *)
ExecuteStatement(text, tables) ==
    IF text \notin DOMAIN Parsed THEN {Failed(tables)}
    ELSE LET stmt == Parsed[text] IN
         CASE stmt.kind = "meta"     -> {Replied(tables)}
           [] stmt.kind = "negation" -> {Died(tables)}
           [] stmt.kind = "create"   -> BindCreateTable(stmt, tables)
           [] stmt.kind = "insert"   -> BindInsert(stmt, tables)
=============================================================================
