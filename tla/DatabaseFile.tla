---------------------------- MODULE DatabaseFile ----------------------------
(***************************************************************************)
(* The database file across sessions: DiskManager, Catalog and the part of *)
(* InsertExecutor that writes a row group, driven by main.  Every system   *)
(* call is a step of its own, so that an I/O error or a crash can come     *)
(* between any two of them.                                                *)
(*                                                                         *)
(* The file is a sequence of cells, PageUnits of them per page.  A cell is *)
(* <<kind, of, at>>: part `at` of the metadata blob of a catalog, bytes of *)
(* the row group with an id, header, or zeroes never written.              *)
(***************************************************************************)
EXTENDS Integers, Sequences, FiniteSets, FiniteSetsExt, Functions

CONSTANTS
    Table,         (* table names                                          *)
    NoTable,       (* tables_by_name_ has no key for the name              *)
    Shape,         (* the page counts of a row group's regions, in the     *)
                   (* order FlushRowGroup writes them; 0 is a VARCHAR      *)
                   (* column without a single character                    *)
    PageUnits,     (* cells per page                                       *)
    MaxInserts,    (* bound on the row groups written                      *)
    MaxSessions,   (* bound on the runs of the program                     *)
    MaxIoErrors,   (* bound on the system calls that fail                  *)
    MaxCrashes     (* bound on the sessions that end in a crash            *)

(* A row group of the catalog: where its regions are. *)
Region == [start : Nat, count : Nat]
RowGroup == [id : Nat, regions : Seq(Region)]

ASSUME FileAssumption ==
    /\ IsFiniteSet(Table)
    /\ NoTable \notin Seq(RowGroup) \cup Seq(Nat)
    /\ PageUnits \in Nat \ {0, 1}
    /\ Shape \subseteq Seq(Nat) \ {<< >>}
    /\ {MaxInserts, MaxSessions, MaxIoErrors, MaxCrashes} \subseteq Nat

VARIABLES
    exists,        (* the file exists                                      *)
    file,          (* its cells                                            *)
    disk_header,   (* the FileHeader on disk: [meta, next]                 *)
    header,        (* DiskManager::header_                                 *)
    tables,        (* tables_by_name_ with the row groups of every table   *)
    pc,            (* what the process does next, "closed" if there is none*)
    caller,        (* on whose behalf PersistMetadata runs                 *)
    succeeded,     (* the last run of the program returned 0               *)
    job,           (* the row group FlushRowGroup is writing               *)
    inserts, sessions, io_errors, crashes,
    written,       (* history: the catalog in the blob header.meta is at   *)
    durable,       (* history: the catalog in the blob disk_header.meta is *)
                   (* at                                                   *)
    committed,     (* history: durable, as left by a session that had      *)
                   (* opened the file                                      *)
    overwritten    (* history: pages were written since the last           *)
                   (* WriteMetadataBlob that succeeded                     *)

counters == <<inserts, sessions, io_errors, crashes>>
history == <<written, durable, committed, overwritten>>
vars == <<exists, file, disk_header, header, tables, pc, caller, succeeded, job, counters, history>>

NoTables == [t \in Table |-> NoTable]
NoJob == [table |-> NoTable, id |-> 0, todo |-> << >>, done |-> << >>]
kFirstDataPageId == 1
NoHeader == [meta |-> 0, next |-> 0]

Init ==
    /\ exists = FALSE
    /\ file = << >>
    /\ disk_header = NoHeader
    /\ header = NoHeader
    /\ tables = NoTables
    /\ pc = "closed"
    /\ caller = "none" /\ succeeded = FALSE
    /\ job = NoJob
    /\ inserts = 0 /\ sessions = 0 /\ io_errors = 0 /\ crashes = 0
    /\ written = NoTables /\ durable = NoTables /\ committed = NoTables
    /\ overwritten = FALSE

-----------------------------------------------------------------------------
(* pwrite at an offset: a hole before it reads as zeroes. *)
Put(offset, cells) ==
    [i \in 1 .. Max({Len(file), offset + Len(cells)}) |->
        IF i > offset /\ i <= offset + Len(cells) THEN cells[i - offset]
        ELSE IF i <= Len(file) THEN file[i] ELSE <<"zero", 0, 0>>]

(* A short write leaves a prefix, possibly nothing. *)
ShortPut(offset, cells) ==
    {file} \cup {Put(offset, SubSeq(cells, 1, k)) : k \in 1 .. Len(cells) - 1}

(* The blob CombineSchemaAndFooter makes of a catalog: it grows with the   *)
(* row groups.                                                             *)
RowGroups(c) == UNION {Range(c[t]) : t \in {u \in Table : c[u] # NoTable}}
BlobUnits(c) == 1 + Cardinality(RowGroups(c))
Blob(c) == [i \in 1 .. BlobUnits(c) |-> <<"blob", c, i>>]

(* ReadMetadataBlob and the Deserialize functions: what is read from       *)
(* meta_offset on is a catalog only if every part of its blob is there;    *)
(* bytes after it are ignored.                                             *)
Readable(h) ==
    /\ h.meta < Len(file)
    /\ file[h.meta + 1][1] = "blob"
    /\ file[h.meta + 1][3] = 1
    /\ h.meta + BlobUnits(file[h.meta + 1][2]) <= Len(file)
    /\ \A i \in 1 .. BlobUnits(file[h.meta + 1][2]) :
          file[h.meta + i] = <<"blob", file[h.meta + 1][2], i>>
Parsed(h) == file[h.meta + 1][2]

CanFail == io_errors < MaxIoErrors
Fail == io_errors' = io_errors + 1 /\ UNCHANGED <<inserts, sessions, crashes>>

(* What follows PersistMetadata when it returns and when it throws.  main  *)
(* ends with Flush, and then ~Catalog persists once more, whatever         *)
(* happened and without telling whether it could: main returns 0 when      *)
(* Flush has returned, 1 after an exception.                               *)
Return ==
    /\ pc' = CASE caller \in {"create", "statement"} -> "idle"
               [] caller = "flush" -> "blob"
               [] OTHER -> "closed"
    /\ caller' = IF caller = "flush" THEN "destructor" ELSE "none"
    /\ succeeded' = (caller = "destructor")
Throw ==
    /\ pc' = CASE caller = "statement" -> "idle"
               [] caller \in {"create", "flush"} -> "blob"
               [] OTHER -> "closed"
    /\ caller' = IF caller \in {"create", "flush"} THEN "unwinding" ELSE "none"
    /\ succeeded' = (caller = "destructor")

-----------------------------------------------------------------------------
(* main finds no file: DiskManager::CreateNew creates it and writes the    *)
(* header, then Catalog::CreateNew persists the empty catalog.             *)
FreshHeader == [meta |-> 1, next |-> kFirstDataPageId]

CreateNewAtHeaderPage ==
    /\ pc = "closed" /\ ~exists /\ sessions < MaxSessions
    /\ exists' = TRUE
    /\ file' = <<<<"header", 0, 0>>>>
    /\ header' = [meta |-> 1, next |-> 0]
    /\ disk_header' = header'
    /\ pc' = "blob" /\ caller' = "create" /\ succeeded' = FALSE
    /\ sessions' = sessions + 1
    /\ overwritten' = TRUE
    /\ UNCHANGED <<tables, job, inserts, io_errors, crashes, written, durable, committed>>
CreateNew ==
    /\ pc = "closed" /\ ~exists /\ sessions < MaxSessions
    /\ exists' = TRUE
    /\ file' = <<<<"header", 0, 0>>>>
    /\ header' = FreshHeader
    /\ disk_header' = FreshHeader
    /\ pc' = "blob" /\ caller' = "create" /\ succeeded' = FALSE
    /\ sessions' = sessions + 1
    /\ overwritten' = TRUE
    /\ UNCHANGED <<tables, job, inserts, io_errors, crashes, written, durable, committed>>

(* The header's write fails: the file stays, without a header. *)
CreateNewFails ==
    /\ pc = "closed" /\ ~exists /\ sessions < MaxSessions /\ CanFail
    /\ exists' = TRUE
    /\ sessions' = sessions + 1 /\ succeeded' = FALSE
    /\ io_errors' = io_errors + 1
    /\ UNCHANGED <<file, disk_header, header, tables, pc, caller, job, inserts, crashes, history>>

(* main finds the file: DiskManager::Open reads the header and             *)
(* ReconstructFromDisk the catalog.                                        *)
Opening ==
    /\ pc = "closed" /\ exists /\ sessions < MaxSessions
    /\ sessions' = sessions + 1 /\ succeeded' = FALSE

Open ==
    /\ Opening
    /\ disk_header # NoHeader
    /\ Readable(disk_header)
    /\ header' = disk_header
    /\ tables' = Parsed(disk_header)
    /\ written' = durable
    /\ pc' = "idle"
    /\ UNCHANGED <<exists, file, disk_header, caller, job, inserts, io_errors, crashes, durable, committed, overwritten>>

(* The header cannot be read: DiskManager::Open throws before there is a   *)
(* Catalog.                                                                *)
OpenWithoutHeader ==
    /\ Opening
    /\ \/ disk_header = NoHeader /\ UNCHANGED io_errors
       \/ CanFail /\ io_errors' = io_errors + 1
    /\ UNCHANGED <<exists, file, disk_header, header, tables, pc, caller, job, inserts, crashes, history>>

(* What bytes that are not a blob may be taken for: tables, by any names.  *)
(* That they are also taken for row groups is left out.                    *)
Registered == [Table -> {NoTable, << >>}]

(* ReconstructFromDisk throws, on a read error before there is any table,  *)
(* or on bytes it rejects, some tables of which it may have registered:    *)
(* the destructor of the Catalog persists what there is.                   *)
OpenThrows ==
    /\ Opening
    /\ disk_header # NoHeader
    /\ \/ ~Readable(disk_header) /\ tables' \in Registered /\ UNCHANGED io_errors
       \/ CanFail /\ io_errors' = io_errors + 1 /\ tables' = NoTables
    /\ header' = disk_header
    /\ written' = durable
    /\ pc' = "blob" /\ caller' = "failed_open"
    /\ UNCHANGED <<exists, file, disk_header, job, inserts, crashes, durable, committed, overwritten>>

(* ByteReader checks no bounds: on bytes that are not a blob the process   *)
(* may die, or take them for a catalog.                                    *)
OpenDies ==
    /\ Opening
    /\ disk_header # NoHeader
    /\ ~Readable(disk_header)
    /\ UNCHANGED <<exists, file, disk_header, header, tables, pc, caller, job, inserts, io_errors, crashes, history>>
OpenMisreads ==
    /\ Opening
    /\ disk_header # NoHeader
    /\ ~Readable(disk_header)
    /\ header' = disk_header
    /\ tables' \in Registered
    /\ written' = durable
    /\ pc' = "idle"
    /\ UNCHANGED <<exists, file, disk_header, caller, job, inserts, io_errors, crashes, durable, committed, overwritten>>

-----------------------------------------------------------------------------
(* PersistMetadata: WriteMetadataBlob appends the blob and moves           *)
(* meta_offset, then writes the header.                                    *)
AppendAtPageRegionEnd == header.next * PageUnits
AppendOffset == Max({Len(file), header.next * PageUnits})

WriteBlobKeepsOffset ==
    /\ pc = "blob"
    /\ file' = Put(AppendOffset, Blob(tables))
    /\ written' = tables
    /\ pc' = "header"
    /\ UNCHANGED <<exists, disk_header, header, tables, caller, succeeded, job, counters, durable, committed, overwritten>>
WriteBlob ==
    /\ pc = "blob"
    /\ file' = Put(AppendOffset, Blob(tables))
    /\ header' = [header EXCEPT !.meta = AppendOffset]
    /\ written' = tables
    /\ pc' = "header"
    /\ UNCHANGED <<exists, disk_header, tables, caller, succeeded, job, counters, durable, committed, overwritten>>
WriteBlobFails ==
    /\ pc = "blob" /\ CanFail /\ Fail
    /\ file' \in ShortPut(AppendOffset, Blob(tables))
    /\ Throw
    /\ UNCHANGED <<exists, disk_header, header, tables, job, history>>

PersistHeader ==
    /\ pc = "header"
    /\ disk_header' = header
    /\ durable' = written
    /\ committed' = IF caller = "failed_open" THEN committed ELSE written
    /\ overwritten' = FALSE
    /\ Return
    /\ UNCHANGED <<exists, file, header, tables, job, counters, written>>
(* A header write that fails has written nothing or, cut short, only the   *)
(* meta_offset that comes first.                                           *)
HeaderNotWritten ==
    \/ UNCHANGED <<disk_header, durable, committed>>
    \/ /\ disk_header' = [disk_header EXCEPT !.meta = header.meta]
       /\ durable' = written
       /\ committed' = IF caller = "failed_open" THEN committed ELSE written

PersistHeaderFails ==
    /\ pc = "header" /\ CanFail /\ Fail
    /\ HeaderNotWritten
    /\ Throw
    /\ UNCHANGED <<exists, file, header, tables, job, written, overwritten>>

-----------------------------------------------------------------------------
(* CREATE TABLE: Catalog::CreateTable persists before it returns. *)
CreateTable(t) ==
    /\ pc = "idle"
    /\ tables[t] = NoTable
    /\ tables' = [tables EXCEPT ![t] = << >>]
    /\ pc' = "blob" /\ caller' = "statement"
    /\ UNCHANGED <<exists, file, disk_header, succeeded, header, job, counters, history>>

(* INSERT: FlushRowGroup allocates and writes one region after another and *)
(* adds the row group to the catalog in memory.                            *)
FlushRowGroup(t, shape) ==
    /\ pc = "idle"
    /\ tables[t] # NoTable
    /\ inserts < MaxInserts
    /\ inserts' = inserts + 1
    /\ job' = [table |-> t, id |-> inserts', todo |-> shape, done |-> << >>]
    /\ pc' = "allocate"
    /\ UNCHANGED <<exists, file, disk_header, header, tables, caller, succeeded, sessions, io_errors, crashes, history>>

Abandon == pc' = "idle" /\ job' = NoJob

AllocatePagesOneShort ==
    /\ pc = "allocate" /\ Head(job.todo) > 0
    /\ header' = [header EXCEPT !.next = @ + Max({1, Head(job.todo) - 1})]
    /\ disk_header' = header'
    /\ durable' = written
    /\ committed' = written
    /\ pc' = "write"
    /\ UNCHANGED <<exists, file, tables, caller, succeeded, job, counters, written, overwritten>>
AllocatePages ==
    /\ pc = "allocate" /\ Head(job.todo) > 0
    /\ header' = [header EXCEPT !.next = @ + Head(job.todo)]
    /\ disk_header' = header'
    /\ durable' = written
    /\ committed' = written
    /\ pc' = "write"
    /\ UNCHANGED <<exists, file, tables, caller, succeeded, job, counters, written, overwritten>>
AllocateNoPages ==
    /\ pc = "allocate" /\ Head(job.todo) = 0
    /\ Abandon
    /\ UNCHANGED <<exists, file, disk_header, header, tables, caller, succeeded, counters, history>>
AllocatePagesFails ==
    /\ pc = "allocate" /\ Head(job.todo) > 0 /\ CanFail /\ Fail
    /\ header' = [header EXCEPT !.next = @ + Head(job.todo)]
    /\ HeaderNotWritten
    /\ Abandon
    /\ UNCHANGED <<exists, file, tables, caller, succeeded, written, overwritten>>

(* The region just allocated, its cells, and the row group once its last   *)
(* region is written.                                                      *)
Start == header.next - Head(job.todo)
PageCells == [i \in 1 .. Head(job.todo) * PageUnits |-> <<"page", job.id, 0>>]
Done == Append(job.done, [start |-> Start, count |-> Head(job.todo)])

WritePages ==
    /\ pc = "write"
    /\ file' = Put(Start * PageUnits, PageCells)
    /\ overwritten' = TRUE
    /\ \/ /\ Len(job.todo) > 1
          /\ job' = [job EXCEPT !.todo = Tail(@), !.done = Done]
          /\ pc' = "allocate"
          /\ UNCHANGED tables
       \/ /\ Len(job.todo) = 1
          /\ tables' = [tables EXCEPT ![job.table] = Append(@, [id |-> job.id, regions |-> Done])]
          /\ Abandon
    /\ UNCHANGED <<exists, disk_header, header, caller, succeeded, counters, written, durable, committed>>
WritePagesFails ==
    /\ pc = "write" /\ CanFail /\ Fail
    /\ file' \in ShortPut(Start * PageUnits, PageCells)
    /\ overwritten' = TRUE
    /\ Abandon
    /\ UNCHANGED <<exists, disk_header, header, tables, caller, succeeded, written, durable, committed>>

(* The REPL ends, and the Catalog is left to its destructor. *)
QuitWithoutFlush ==
    /\ pc = "idle"
    /\ pc' = "blob" /\ caller' = "destructor"
    /\ UNCHANGED <<exists, file, disk_header, header, tables, succeeded, job, counters, history>>
(* The REPL ends: Catalog::Flush, then ~Catalog. *)
Quit ==
    /\ pc = "idle"
    /\ pc' = "blob" /\ caller' = "flush"
    /\ UNCHANGED <<exists, file, disk_header, header, tables, succeeded, job, counters, history>>

(* The process is killed; what it wrote stays. *)
Crash ==
    /\ pc # "closed" /\ crashes < MaxCrashes
    /\ crashes' = crashes + 1
    /\ pc' = "closed" /\ caller' = "none" /\ job' = NoJob
    /\ UNCHANGED <<exists, file, disk_header, header, tables, succeeded, inserts, sessions, io_errors, history>>

Next ==
    \/ CreateNew \/ CreateNewFails
    \/ Open \/ OpenWithoutHeader \/ OpenThrows \/ OpenDies \/ OpenMisreads
    \/ WriteBlob \/ WriteBlobFails \/ PersistHeader \/ PersistHeaderFails
    \/ \E t \in Table : CreateTable(t) \/ \E shape \in Shape : FlushRowGroup(t, shape)
    \/ AllocatePages \/ AllocateNoPages \/ AllocatePagesFails
    \/ WritePages \/ WritePagesFails
    \/ Quit \/ Crash

Spec == Init /\ [][Next]_vars

-----------------------------------------------------------------------------
Callers == {"create", "statement", "flush", "destructor", "unwinding", "failed_open"}

(* The type invariant: a header in use allocates data pages only, a call   *)
(* of PersistMetadata always has a caller, and a row group is being        *)
(* written exactly while FlushRowGroup has regions left to write.          *)
TypeOK ==
    /\ exists \in BOOLEAN /\ overwritten \in BOOLEAN
    /\ disk_header # NoHeader => exists /\ disk_header.next >= kFirstDataPageId
    /\ header # NoHeader => header.next >= kFirstDataPageId
    /\ pc \in {"closed", "idle", "blob", "header", "allocate", "write"}
    /\ caller \in IF pc \in {"blob", "header"} THEN Callers ELSE {"none"}
    /\ (job # NoJob) <=> (pc \in {"allocate", "write"})
    /\ job # NoJob => job.table \in Table /\ job.todo # << >>
    /\ io_errors \in 0 .. MaxIoErrors /\ crashes \in 0 .. MaxCrashes

(* The pages a row group is at still hold that row group's bytes: for the  *)
(* catalog in memory and for the one a restart would find, whatever        *)
(* statements failed half-way, whatever was persisted or lost before, and  *)
(* wherever blobs were put in between (AllocatePages never gives a page    *)
(* out twice, WriteMetadataBlob never appends below the file's end).       *)
Holds(g) ==
    \A r \in Range(g.regions) :
        \A i \in r.start * PageUnits + 1 .. (r.start + r.count) * PageUnits :
            i <= Len(file) /\ file[i] = <<"page", g.id, 0>>
RowGroupsIntact ==
    /\ pc # "closed" => \A g \in RowGroups(tables) : Holds(g)
    /\ disk_header # NoHeader /\ Readable(disk_header)
         => \A g \in RowGroups(Parsed(disk_header)) : Holds(g)

(* As long as no page was written since the last PersistMetadata that      *)
(* succeeded, a restart finds exactly the catalog that call persisted, at  *)
(* every point of a crash and whatever later PersistMetadata failed: the   *)
(* new blob is complete before the header points to it, and the old one is *)
(* never written over by it.                                               *)
MetadataSurvives ==
    disk_header # NoHeader /\ ~overwritten
      => Readable(disk_header) /\ Parsed(disk_header) = durable

(* When main has returned 0, the file holds the whole catalog of that run, *)
(* with every table it created and every row group it inserted: whatever   *)
(* statements failed before, and whatever the second persist, in ~Catalog, *)
(* did to the file when it failed.                                         *)
SuccessIsSaved ==
    succeeded => /\ disk_header # NoHeader /\ Readable(disk_header)
                 /\ Parsed(disk_header) = tables

(* Until a crash or an I/O error the file is a catalog that only grows:    *)
(* what a session created and inserted is there in the next one.           *)
Contents ==
    IF pc # "closed" THEN tables
    ELSE IF disk_header # NoHeader /\ Readable(disk_header) THEN Parsed(disk_header)
    ELSE NoTables
Ids(c) ==
    [t \in Table |-> IF c[t] = NoTable THEN NoTable ELSE [i \in DOMAIN c[t] |-> c[t][i].id]]
CS == INSTANCE CatalogStore WITH
        catalog <- Ids(Contents), faulty <- io_errors + crashes > 0, RowGroup <- 1 .. MaxInserts
ImplementsCatalogStore == CS!Spec

(* docs/decisions/0007-catalog.md, on a catalog that cannot be             *)
(* reconstructed: fail clearly rather than silently drop rows.  An Open    *)
(* that succeeds shows what the sessions before it committed.              *)
OpenShowsCommitted == [][Open => tables' = committed]_vars
=============================================================================
