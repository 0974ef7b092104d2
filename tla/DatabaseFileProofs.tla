------------------------- MODULE DatabaseFileProofs -------------------------
(***************************************************************************)
(* Theorems about the database file, for any set of tables, shapes, page   *)
(* size and number of errors and crashes.                                  *)
(*                                                                         *)
(* The inductive invariant FileInv says which pages are spoken for.  A     *)
(* region is claimed by every catalog that has it: the one in memory and   *)
(* every one a blob of the file was made of, whether or not a header       *)
(* points there; and by the INSERT that has just written it.  Claims lie   *)
(* below Base, where the pages not yet given out begin on disk, which      *)
(* nothing lowers; pages are written from there on, and blobs behind the   *)
(* end of the file.                                                        *)
(***************************************************************************)
EXTENDS DatabaseFile, FiniteSetTheorems, SequenceTheorems, TLAPS

Catalog == [Table -> Seq(RowGroup) \cup {NoTable}]
PlainCell == {"zero", "header", "page"} \X Nat \X Nat
BlobCell == {"blob"} \X Catalog \X Nat
Cell == PlainCell \cup BlobCell
Header == [meta : Nat, next : Nat]
Job == [table : Table \cup {NoTable}, id : Nat, todo : Seq(Nat), done : Seq(Region)]

Typed ==
    /\ file \in Seq(Cell)
    /\ disk_header \in Header /\ header \in Header
    /\ tables \in Catalog /\ written \in Catalog /\ durable \in Catalog
    /\ job \in Job
    /\ inserts \in 0 .. MaxInserts

(* Where the headers stand to each other and to what is going on. *)
HeadersAgree ==
    /\ pc # "closed" => disk_header # NoHeader /\ disk_header.next <= header.next
    /\ disk_header # NoHeader => header # NoHeader
    /\ pc = "write" => disk_header = header /\ Head(job.todo) <= header.next
    /\ job # NoJob => tables[job.table] # NoTable
    /\ ~exists => tables = NoTables /\ pc = "closed" /\ file = << >>

(* The region r is said to be row group id's, and it is. *)
Blobs == {file[i][2] : i \in {j \in DOMAIN file : file[j][1] = "blob"}}
Claimed(id, r) ==
    \/ \E c \in Blobs \cup {tables} : \E g \in RowGroups(c) : g.id = id /\ r \in Range(g.regions)
    \/ job.id = id /\ r \in Range(job.done)
Base == IF pc = "write" THEN Start ELSE disk_header.next
At(id, r) ==
    /\ r.start + r.count <= Base
    /\ \A i \in r.start * PageUnits + 1 .. (r.start + r.count) * PageUnits :
          i <= Len(file) /\ file[i] = <<"page", id, 0>>
ClaimsHold == \A id \in Nat, r \in Region : Claimed(id, r) => At(id, r)

(* The headers' meta_offset points to the blob of the catalog c. *)
Pointed(at, c) ==
    \/ /\ pc = "header" \/ (disk_header # NoHeader /\ ~overwritten)
       /\ at = header.meta /\ c = written
    \/ /\ disk_header # NoHeader /\ ~overwritten
       /\ at = disk_header.meta /\ c = durable
BlobAt(at, c) ==
    \A i \in 1 .. BlobUnits(c) : at + i <= Len(file) /\ file[at + i] = <<"blob", c, i>>
BlobsComplete == \A at \in Nat, c \in Catalog : Pointed(at, c) => BlobAt(at, c)

FileInv == TypeOK /\ Typed /\ HeadersAgree /\ ClaimsHold /\ BlobsComplete

-----------------------------------------------------------------------------
(* Facts about the operators of the model. *)

(* Max of two numbers. *)
LEMMA MaxOfTwo ==
    ASSUME NEW a \in Int, NEW b \in Int
    PROVE  Max({a, b}) = IF a >= b THEN a ELSE b
<1> DEFINE m == IF a >= b THEN a ELSE b
<1>1. m \in {a, b} /\ \A y \in {a, b} : m >= y
  OBVIOUS
<1>2. \A x \in {a, b} : (\A y \in {a, b} : x >= y) => x = m
  OBVIOUS
<1> HIDE DEF m
<1>3. (CHOOSE x \in {a, b} : \A y \in {a, b} : x >= y) = m
  BY <1>1, <1>2
<1> QED
  BY <1>3 DEF Max, m

(* Pages in a row are cells in a row. *)
LEMMA PagesToCells ==
    ASSUME NEW a \in Nat, NEW b \in Nat, a <= b
    PROVE  a * PageUnits \in Nat /\ b * PageUnits \in Nat /\ a * PageUnits <= b * PageUnits
<1>1. PageUnits \in Nat
  BY FileAssumption
<1>2. PICK d \in Nat : b = a + d
  OBVIOUS
<1>3. d * PageUnits \in Nat /\ a * PageUnits \in Nat
  BY <1>1
<1>4. b * PageUnits = a * PageUnits + d * PageUnits
  BY <1>1, <1>2
<1> QED
  BY <1>3, <1>4

(* A function's values are no more than its arguments. *)
LEMMA FiniteRange ==
    ASSUME NEW S, IsFiniteSet(S), NEW T, NEW f \in [S -> T]
    PROVE  IsFiniteSet({f[x] : x \in S})
<1> DEFINE R == {f[x] : x \in S}
<1>1. f \in [S -> R] /\ \A y \in R : \E x \in S : f[x] = y
  OBVIOUS
<1>2. f \in Surjection(S, R)
  BY <1>1 DEF Surjection
<1> QED
  BY <1>2, FS_Surjection

(* The row groups of a catalog are finitely many, and typed. *)
LEMMA RowGroupsType ==
    ASSUME NEW c \in Catalog
    PROVE  RowGroups(c) \subseteq RowGroup /\ IsFiniteSet(RowGroups(c))
<1> DEFINE known == {u \in Table : c[u] # NoTable}
<1> DEFINE ranges == {Range(c[t]) : t \in known}
<1>1. \A t \in known : c[t] \in Seq(RowGroup)
  BY DEF Catalog
<1>2. \A t \in known : Range(c[t]) \subseteq RowGroup /\ IsFiniteSet(Range(c[t]))
  <2> SUFFICES ASSUME NEW t \in known
               PROVE  Range(c[t]) \subseteq RowGroup /\ IsFiniteSet(Range(c[t]))
    OBVIOUS
  <2> DEFINE s == c[t]
  <2>1. s \in Seq(RowGroup)
    BY <1>1
  <2> HIDE DEF s
  <2>2. DOMAIN s = 1 .. Len(s) /\ Len(s) \in Nat /\ \A i \in 1 .. Len(s) : s[i] \in RowGroup
    BY <2>1
  <2>3. Range(s) = {s[i] : i \in 1 .. Len(s)}
    BY <2>2 DEF Range
  <2>4. IsFiniteSet(1 .. Len(s))
    BY <2>2, FS_Interval
  <2>5. IsFiniteSet({s[i] : i \in 1 .. Len(s)})
    <3>1. s \in [1 .. Len(s) -> RowGroup]
      BY <2>1
    <3> QED
      BY <3>1, <2>4, FiniteRange, Zenon
  <2> QED
    BY <2>2, <2>3, <2>5 DEF s
<1>3. IsFiniteSet(known)
  BY FileAssumption, FS_Subset
<1>4. IsFiniteSet(ranges)
  <2> DEFINE f == [t \in known |-> Range(c[t])]
  <2>1. f \in [known -> {Range(c[t]) : t \in known}]
    OBVIOUS
  <2>2. ranges = {f[t] : t \in known}
    BY Zenon
  <2> HIDE DEF f, known, ranges
  <2>3. IsFiniteSet({f[t] : t \in known})
    BY <1>3, <2>1, FiniteRange, Zenon
  <2> QED
    BY <2>2, <2>3
<1> HIDE DEF known
<1>5. \A T \in ranges : IsFiniteSet(T) /\ T \subseteq RowGroup
  BY <1>2
<1> HIDE DEF ranges
<1>6. IsFiniteSet(UNION ranges)
  BY <1>4, <1>5, FS_UNION
<1>7. UNION ranges \subseteq RowGroup
  BY <1>5
<1> QED
  BY <1>6, <1>7 DEF RowGroups, ranges, known

(* A blob has a part, and its parts are its catalog's. *)
LEMMA BlobFacts ==
    ASSUME NEW c \in Catalog
    PROVE  /\ BlobUnits(c) \in Nat \ {0}
           /\ Blob(c) \in Seq(Cell)
           /\ Len(Blob(c)) = BlobUnits(c)
           /\ \A i \in 1 .. BlobUnits(c) : Blob(c)[i] = <<"blob", c, i>>
<1>1. Cardinality(RowGroups(c)) \in Nat
  BY RowGroupsType, FS_CardinalityType
<1>2. BlobUnits(c) \in Nat \ {0}
  BY <1>1 DEF BlobUnits
<1> DEFINE n == BlobUnits(c)
<1> HIDE DEF n
<1>3. n \in Nat
  BY <1>2 DEF n
<1>4. \A i \in 1 .. n : <<"blob", c, i>> \in Cell
  BY <1>3 DEF Cell, BlobCell
<1>5. [i \in 1 .. n |-> <<"blob", c, i>>] \in Seq(Cell)
  BY <1>3, <1>4
<1>6. Blob(c) = [i \in 1 .. n |-> <<"blob", c, i>>]
  BY DEF Blob, n
<1> HIDE DEF Blob
<1>7. Len(Blob(c)) = n
  BY <1>3, <1>5, <1>6
<1>8. \A i \in 1 .. n : Blob(c)[i] = <<"blob", c, i>>
  BY <1>6
<1> QED
  BY <1>2, <1>5, <1>6, <1>7, <1>8 DEF n

(* What pwrite leaves in the file, position by position. *)
IsPut(f, offset, cells) ==
    /\ f \in Seq(Cell)
    /\ Len(f) = IF Len(file) >= offset + Len(cells) THEN Len(file) ELSE offset + Len(cells)
    /\ \A i \in 1 .. Len(f) :
          f[i] = IF i > offset /\ i <= offset + Len(cells) THEN cells[i - offset]
                 ELSE IF i <= Len(file) THEN file[i] ELSE <<"zero", 0, 0>>

LEMMA PutFacts ==
    ASSUME file \in Seq(Cell), NEW offset \in Nat, NEW cells \in Seq(Cell)
    PROVE  IsPut(Put(offset, cells), offset, cells)
<1> DEFINE n == IF Len(file) >= offset + Len(cells) THEN Len(file) ELSE offset + Len(cells)
<1> DEFINE cell(i) == IF i > offset /\ i <= offset + Len(cells) THEN cells[i - offset]
                      ELSE IF i <= Len(file) THEN file[i] ELSE <<"zero", 0, 0>>
<1>1. Len(file) \in Nat /\ Len(cells) \in Nat
  OBVIOUS
<1>2. n \in Nat
  BY <1>1
<1>3. Max({Len(file), offset + Len(cells)}) = n
  BY <1>1, MaxOfTwo
<1>4. <<"zero", 0, 0>> \in Cell
  BY DEF Cell, PlainCell
<1>5. \A i \in 1 .. n : cell(i) \in Cell
  <2> SUFFICES ASSUME NEW i \in 1 .. n
               PROVE  cell(i) \in Cell
    OBVIOUS
  <2>1. i \in Nat \ {0}
    BY <1>2
  <2>2. CASE i > offset /\ i <= offset + Len(cells)
    <3>1. i - offset \in 1 .. Len(cells)
      BY <2>1, <2>2, <1>1
    <3>2. cells[i - offset] \in Cell
      BY <3>1
    <3> QED
      BY <3>2, <2>2
  <2>3. CASE ~(i > offset /\ i <= offset + Len(cells)) /\ i <= Len(file)
    <3>1. file[i] \in Cell
      BY <2>1, <2>3, <1>1
    <3> QED
      BY <3>1, <2>3
  <2> QED
    BY <2>2, <2>3, <1>4
<1>6. Put(offset, cells) = [i \in 1 .. n |-> cell(i)]
  BY <1>3, Zenon DEF Put
<1> HIDE DEF n, cell
<1>7. [i \in 1 .. n |-> cell(i)] \in Seq(Cell)
  BY <1>2, <1>5
<1>8. Len([i \in 1 .. n |-> cell(i)]) = n
  BY <1>2, <1>7
<1>9. \A i \in 1 .. n : Put(offset, cells)[i] = cell(i)
  BY <1>6
<1>10. Len(Put(offset, cells)) = n
  BY <1>6, <1>8, Zenon
<1>11. Put(offset, cells) \in Seq(Cell)
  BY <1>6, <1>7, Zenon
<1>12. \A i \in 1 .. Len(Put(offset, cells)) : Put(offset, cells)[i] = cell(i)
  BY <1>9, <1>10
<1> QED
  BY <1>10, <1>11, <1>12 DEF IsPut, n, cell

-----------------------------------------------------------------------------
(* What a step does to the file: it leaves the first n pages alone, or     *)
(* only adds to the file's end.  A new blob is one of the catalog in       *)
(* memory.                                                                 *)
Kept(n) ==
    /\ Blobs' \subseteq Blobs \cup {tables}
    /\ \A i \in 1 .. n * PageUnits : i <= Len(file) => i <= Len(file') /\ file'[i] = file[i]
Grown ==
    /\ Blobs' \subseteq Blobs \cup {tables}
    /\ Len(file) <= Len(file')
    /\ \A i \in 1 .. Len(file) : file'[i] = file[i]

LEMMA GrownIsKept ==
    ASSUME Typed, Typed', Grown, NEW n \in Nat
    PROVE  Kept(n)
<1>1. Len(file) \in Nat /\ Len(file') \in Nat
  BY DEF Typed
<1>2. n <= n
  OBVIOUS
<1>3. n * PageUnits \in Nat
  BY <1>2, PagesToCells
<1> QED
  BY <1>1, <1>3 DEF Grown, Kept

LEMMA SameIsGrown ==
    ASSUME Typed, UNCHANGED file
    PROVE  Grown
<1>1. Len(file) \in Nat
  BY DEF Typed
<1> QED
  BY <1>1 DEF Grown, Blobs

(* WriteMetadataBlob appends, also when it is cut short. *)
LEMMA AppendGrows ==
    ASSUME Typed,
           NEW cells \in Seq(Cell), \A i \in 1 .. Len(cells) : cells[i][2] = tables,
           file' = Put(AppendOffset, cells)
    PROVE  /\ file' \in Seq(Cell) /\ Grown
           /\ AppendOffset \in Nat
           /\ \A i \in 1 .. Len(cells) :
                 AppendOffset + i <= Len(file') /\ file'[AppendOffset + i] = cells[i]
<1>1. file \in Seq(Cell) /\ Len(file) \in Nat /\ Len(cells) \in Nat
  BY DEF Typed
<1>2. header.next * PageUnits \in Nat
  BY PagesToCells DEF Typed, Header
<1> DEFINE offset == AppendOffset
<1>3. offset \in Nat /\ offset >= Len(file)
  BY <1>1, <1>2, MaxOfTwo DEF AppendOffset
<1>4. file' = Put(offset, cells)
  OBVIOUS
<1> HIDE DEF offset
<1>5. /\ file' \in Seq(Cell)
      /\ Len(file') = IF Len(file) >= offset + Len(cells) THEN Len(file) ELSE offset + Len(cells)
      /\ \A i \in 1 .. Len(file') :
            file'[i] = IF i > offset /\ i <= offset + Len(cells) THEN cells[i - offset]
                       ELSE IF i <= Len(file) THEN file[i] ELSE <<"zero", 0, 0>>
  <2>1. IsPut(Put(offset, cells), offset, cells)
    BY <1>1, <1>3, PutFacts
  <2>2. IsPut(file', offset, cells)
    BY <1>4, <2>1
  <2> QED
    BY <2>2 DEF IsPut
<1>6. Len(file) <= Len(file') /\ \A i \in 1 .. Len(file) : file'[i] = file[i]
  BY <1>1, <1>3, <1>5
<1>7. Blobs' \subseteq Blobs \cup {tables}
  <2> SUFFICES ASSUME NEW j \in DOMAIN file', file'[j][1] = "blob"
               PROVE  file'[j][2] \in Blobs \cup {tables}
    BY DEF Blobs
  <2>1. j \in 1 .. Len(file')
    BY <1>5
  <2>2. CASE j > offset /\ j <= offset + Len(cells)
    <3>1. file'[j] = cells[j - offset] /\ j - offset \in 1 .. Len(cells)
      BY <1>1, <1>3, <1>5, <2>1, <2>2
    <3> QED
      BY <3>1
  <2>3. CASE ~(j > offset /\ j <= offset + Len(cells)) /\ j <= Len(file)
    <3>1. file'[j] = file[j] /\ j \in DOMAIN file
      BY <1>1, <1>5, <2>1, <2>3
    <3> QED
      BY <3>1 DEF Blobs
  <2>4. CASE ~(j > offset /\ j <= offset + Len(cells)) /\ ~(j <= Len(file))
    BY <1>5, <2>1, <2>4
  <2> QED
    BY <2>2, <2>3, <2>4
<1>8. \A i \in 1 .. Len(cells) : offset + i <= Len(file') /\ file'[offset + i] = cells[i]
  <2> SUFFICES ASSUME NEW i \in 1 .. Len(cells)
               PROVE  offset + i <= Len(file') /\ file'[offset + i] = cells[i]
    OBVIOUS
  <2>1. i \in Nat \ {0} /\ i <= Len(cells)
    BY <1>1
  <2>2. offset + i \in 1 .. Len(file')
    BY <1>1, <1>3, <1>5, <2>1
  <2>3. offset + i > offset /\ offset + i <= offset + Len(cells) /\ (offset + i) - offset = i
    BY <1>1, <1>3, <2>1
  <2> QED
    BY <1>5, <2>2, <2>3
<1> QED
  BY <1>3, <1>5, <1>6, <1>7, <1>8 DEF Grown, offset

-----------------------------------------------------------------------------
(* A step that leaves the pages below Base alone leaves every region where *)
(* it is.                                                                  *)
LEMMA AtKept ==
    ASSUME Typed, Typed', Base \in Nat, Base' \in Nat, Base <= Base', Kept(Base),
           NEW id \in Nat, NEW r \in Region, At(id, r)
    PROVE  At(id, r)'
<1>1. At(id, r)
  OBVIOUS
<1>2. r.start \in Nat /\ r.count \in Nat
  BY DEF Region
<1> DEFINE b == Base
<1> DEFINE c == Base'
<1>3. b \in Nat /\ c \in Nat /\ b <= c /\ r.start + r.count <= b
  BY <1>1 DEF At
<1>4. \A i \in 1 .. b * PageUnits : i <= Len(file) => i <= Len(file') /\ file'[i] = file[i]
  BY DEF Kept
<1> HIDE DEF b, c
<1> DEFINE m == (r.start + r.count) * PageUnits
<1> DEFINE n == r.start * PageUnits
<1>5. m <= b * PageUnits /\ m \in Nat /\ b * PageUnits \in Nat /\ n \in Nat
  BY <1>2, <1>3, PagesToCells
<1>6. \A i \in n + 1 .. m : i <= Len(file) /\ file[i] = <<"page", id, 0>>
  BY <1>1 DEF At
<1>7. Len(file) \in Nat /\ Len(file') \in Nat
  BY DEF Typed
<1> HIDE DEF m, n
<1>8. \A i \in n + 1 .. m : i <= Len(file') /\ file'[i] = <<"page", id, 0>>
  <2> SUFFICES ASSUME NEW i \in n + 1 .. m
               PROVE  i <= Len(file') /\ file'[i] = <<"page", id, 0>>
    OBVIOUS
  <2>1. i \in 1 .. b * PageUnits
    BY <1>5
  <2> QED
    BY <1>4, <1>6, <2>1
<1>9. r.start + r.count <= c
  BY <1>2, <1>3
<1> QED
  BY <1>8, <1>9, Zenon DEF At, c, m, n

(* If it claims no region it did not claim before, all claims stay true. *)
NoNewClaim == \A id \in Nat, r \in Region : Claimed(id, r)' => Claimed(id, r)

LEMMA ClaimsKept ==
    ASSUME Typed, Typed', ClaimsHold, Base \in Nat, Base' \in Nat, Base <= Base',
           Kept(Base), NoNewClaim
    PROVE  ClaimsHold'
<1> SUFFICES ASSUME NEW id \in Nat, NEW r \in Region, Claimed(id, r)'
             PROVE  At(id, r)'
  BY DEF ClaimsHold
<1>1. At(id, r)
  BY DEF NoNewClaim, ClaimsHold
<1> QED
  BY <1>1, AtKept

(* No catalog row group is new to the file and memory, and neither is what *)
(* INSERT has written.                                                     *)
LEMMA ClaimsFromBefore ==
    ASSUME Blobs' \subseteq Blobs \cup {tables},
           NEW c \in Blobs \cup {tables}, RowGroups(tables') \subseteq RowGroups(c),
           job' = job \/ Range(job'.done) = {}
    PROVE  NoNewClaim
<1> SUFFICES ASSUME NEW id \in Nat, NEW r \in Region, Claimed(id, r)'
             PROVE  Claimed(id, r)
  BY DEF NoNewClaim
<1>1. CASE \E d \in Blobs' \cup {tables'} : \E g \in RowGroups(d) : g.id = id /\ r \in Range(g.regions)
  <2>1. PICK d \in Blobs' \cup {tables'} : \E g \in RowGroups(d) : g.id = id /\ r \in Range(g.regions)
    BY <1>1
  <2>2. PICK g \in RowGroups(d) : g.id = id /\ r \in Range(g.regions)
    BY <2>1
  <2>3. \E e \in Blobs \cup {tables} : g \in RowGroups(e)
    BY <2>1, <2>2
  <2> QED
    BY <2>2, <2>3 DEF Claimed
<1>2. CASE job'.id = id /\ r \in Range(job'.done)
  BY <1>2 DEF Claimed
<1> QED
  BY <1>1, <1>2, Zenon DEF Claimed

(* A step that only adds to the file leaves every blob complete. *)
LEMMA BlobAtKept ==
    ASSUME Typed, Typed', Grown, NEW at \in Nat, NEW c \in Catalog, BlobAt(at, c)
    PROVE  BlobAt(at, c)'
<1>1. BlobUnits(c) \in Nat
  BY BlobFacts
<1>2. Len(file) \in Nat /\ Len(file') \in Nat
  BY DEF Typed
<1> SUFFICES ASSUME NEW i \in 1 .. BlobUnits(c)
             PROVE  at + i <= Len(file') /\ file'[at + i] = <<"blob", c, i>>
  BY Zenon DEF BlobAt
<1>3. at + i <= Len(file) /\ file[at + i] = <<"blob", c, i>>
  BY DEF BlobAt
<1>4. at + i \in 1 .. Len(file)
  BY <1>1, <1>2, <1>3
<1> QED
  BY <1>2, <1>3, <1>4 DEF Grown

(* If the headers point nowhere new after it, all blobs they point to stay *)
(* complete.                                                               *)
NoNewPointer == \A at \in Nat, c \in Catalog : Pointed(at, c)' => Pointed(at, c)

LEMMA BlobsKept ==
    ASSUME Typed, Typed', BlobsComplete, Grown, NoNewPointer
    PROVE  BlobsComplete'
<1> SUFFICES ASSUME NEW at \in Nat, NEW c \in Catalog, Pointed(at, c)'
             PROVE  BlobAt(at, c)'
  BY DEF BlobsComplete
<1>1. BlobAt(at, c)
  BY DEF NoNewPointer, BlobsComplete
<1> QED
  BY <1>1, BlobAtKept

-----------------------------------------------------------------------------
(* Base is a page number. *)
LEMMA BaseIsPage ==
    ASSUME TypeOK, Typed, HeadersAgree
    PROVE  Base \in Nat
<1>1. disk_header.next \in Nat /\ header.next \in Nat
  BY DEF Typed, Header
<1>2. CASE pc = "write"
  <2>1. job.todo \in Seq(Nat) /\ job.todo # << >> /\ Head(job.todo) <= header.next
    BY <1>2, Zenon DEF TypeOK, Typed, Job, HeadersAgree
  <2>2. Head(job.todo) \in Nat
    BY <2>1
  <2> QED
    BY <1>1, <1>2, <2>1, <2>2 DEF Base, Start
<1> QED
  BY <1>1, <1>2 DEF Base

LEMMA BaseStaysPage ==
    ASSUME TypeOK', Typed', HeadersAgree'
    PROVE  Base' \in Nat
<1>1. disk_header'.next \in Nat /\ header'.next \in Nat
  BY DEF Typed, Header
<1>2. CASE pc' = "write"
  <2>1. job'.todo \in Seq(Nat) /\ job'.todo # << >> /\ Head(job'.todo) <= header'.next
    BY <1>2, Zenon DEF TypeOK, Typed, Job, HeadersAgree
  <2>2. Head(job'.todo) \in Nat
    BY <2>1
  <2> QED
    BY <1>1, <1>2, <2>1, <2>2 DEF Base, Start
<1> QED
  BY <1>1, <1>2 DEF Base

(* A step that only adds to the file, and claims and points to nothing     *)
(* new.                                                                    *)
LEMMA QuietStep ==
    ASSUME FileInv, TypeOK', Typed', HeadersAgree',
           Grown, Base <= Base', NoNewClaim, NoNewPointer
    PROVE  FileInv'
<1>1. TypeOK /\ Typed /\ HeadersAgree /\ ClaimsHold /\ BlobsComplete
  BY DEF FileInv
<1>2. Base \in Nat /\ Base' \in Nat
  BY <1>1, BaseIsPage, BaseStaysPage
<1>3. Kept(Base)
  BY <1>1, <1>2, GrownIsKept
<1>4. ClaimsHold'
  BY <1>1, <1>2, <1>3, ClaimsKept
<1>5. BlobsComplete'
  BY <1>1, BlobsKept
<1> QED
  BY <1>4, <1>5 DEF FileInv

(* Catalogs without a row group. *)
LEMMA NoTablesFacts == NoTables \in Catalog /\ RowGroups(NoTables) = {} /\ NoJob \in Job
<1>1. << >> \in Seq(Nat) /\ << >> \in Seq(Region)
  OBVIOUS
<1> QED
  BY <1>1 DEF NoTables, Catalog, RowGroups, NoJob, Job

LEMMA RegisteredFacts ==
    ASSUME NEW c \in Registered
    PROVE  c \in Catalog /\ RowGroups(c) = {}
<1>1. \A t \in Table : c[t] = NoTable \/ c[t] = << >>
  BY DEF Registered
<1>2. c \in Catalog
  <2>1. << >> \in Seq(RowGroup)
    OBVIOUS
  <2> QED
    BY <2>1, Zenon DEF Registered, Catalog
<1>3. \A t \in Table : c[t] # NoTable => Range(c[t]) = {}
  BY <1>1 DEF Range
<1> QED
  BY <1>2, <1>3 DEF RowGroups

(* The job that is not there claims nothing. *)
LEMMA NoJobFacts == Range(NoJob.done) = {}
BY DEF Range, NoJob

(* The first region FlushRowGroup has yet to write. *)
LEMMA JobFacts ==
    ASSUME TypeOK, Typed, HeadersAgree, pc \in {"allocate", "write"}
    PROVE  /\ job # NoJob /\ job.table \in Table /\ job.id \in Nat
           /\ job.todo \in Seq(Nat) /\ job.todo # << >> /\ job.done \in Seq(Region)
           /\ Head(job.todo) \in Nat /\ Tail(job.todo) \in Seq(Nat)
           /\ Len(job.todo) \in Nat \ {0}
           /\ tables[job.table] \in Seq(RowGroup)
<1>1. job # NoJob
  BY Zenon DEF TypeOK
<1>2. job.table \in Table /\ job.todo # << >>
  BY <1>1 DEF TypeOK
<1>3. job.id \in Nat /\ job.todo \in Seq(Nat) /\ job.done \in Seq(Region)
  BY DEF Typed, Job
<1>4. tables[job.table] \in Seq(RowGroup)
  BY <1>1, <1>2 DEF HeadersAgree, Typed, Catalog
<1>5. Head(job.todo) \in Nat /\ Tail(job.todo) \in Seq(Nat) /\ Len(job.todo) \in Nat \ {0}
  BY <1>2, <1>3
<1> QED
  BY <1>1, <1>2, <1>3, <1>4, <1>5

-----------------------------------------------------------------------------
(* An I/O error within the bound. *)
LEMMA OneMoreError ==
    ASSUME TypeOK, CanFail
    PROVE  io_errors + 1 \in 0 .. MaxIoErrors
BY FileAssumption DEF TypeOK, CanFail

(* Sessions that do not come to a Catalog leave everything as it was. *)
LEMMA UntouchedInv ==
    ASSUME FileInv,
           UNCHANGED <<file, disk_header, header, tables, pc, caller, job, inserts, crashes, history>>,
           exists => exists', exists' \in BOOLEAN, io_errors' \in 0 .. MaxIoErrors
    PROVE  FileInv'
<1>p. TypeOK /\ Typed /\ HeadersAgree
  BY DEF FileInv
<1> USE <1>p
<1>1. Typed'
  BY DEF Typed, history
<1>2. TypeOK'
  BY DEF TypeOK, history
<1>3. HeadersAgree'
  BY DEF HeadersAgree, history
<1>4. Grown
  BY SameIsGrown
<1>5. Base = Base' /\ Base \in Nat
  BY BaseIsPage DEF Base, Start
<1>6. NoNewClaim
  BY DEF NoNewClaim, Claimed, Blobs
<1>7. NoNewPointer
  BY DEF NoNewPointer, Pointed, history
<1> QED
  BY <1>1, <1>2, <1>3, <1>4, <1>5, <1>6, <1>7, QuietStep

LEMMA CreateNewFailsInv ==
    ASSUME FileInv, CreateNewFails
    PROVE  FileInv'
<1>1. io_errors' \in 0 .. MaxIoErrors
  <2>1. TypeOK /\ io_errors \in 0 .. MaxIoErrors
    BY DEF FileInv, TypeOK
  <2> QED
    BY <2>1, OneMoreError DEF CreateNewFails
<1> QED
  BY <1>1, UntouchedInv DEF CreateNewFails

LEMMA OpenWithoutHeaderInv ==
    ASSUME FileInv, OpenWithoutHeader
    PROVE  FileInv'
<1>1. io_errors' \in 0 .. MaxIoErrors
  <2>1. TypeOK /\ io_errors \in 0 .. MaxIoErrors
    BY DEF FileInv, TypeOK
  <2> QED
    BY <2>1, OneMoreError DEF OpenWithoutHeader
<1>2. exists' \in BOOLEAN /\ (exists => exists')
  BY Zenon DEF FileInv, TypeOK, OpenWithoutHeader
<1>3. UNCHANGED <<file, disk_header, header, tables, pc, caller, job, inserts, crashes, history>>
  BY DEF OpenWithoutHeader
<1> QED
  BY <1>1, <1>2, <1>3, UntouchedInv, Zenon

LEMMA OpenDiesInv ==
    ASSUME FileInv, OpenDies
    PROVE  FileInv'
<1>1. io_errors' \in 0 .. MaxIoErrors
  BY DEF FileInv, TypeOK, OpenDies
<1>2. exists' \in BOOLEAN /\ (exists => exists')
  BY Zenon DEF FileInv, TypeOK, OpenDies
<1>3. UNCHANGED <<file, disk_header, header, tables, pc, caller, job, inserts, crashes, history>>
  BY DEF OpenDies
<1> QED
  BY <1>1, <1>2, <1>3, UntouchedInv, Zenon

LEMMA StutterInv ==
    ASSUME FileInv, UNCHANGED vars
    PROVE  FileInv'
<1>1. io_errors' \in 0 .. MaxIoErrors /\ exists \in BOOLEAN
  BY DEF FileInv, TypeOK, vars, counters
<1> QED
  BY <1>1, UntouchedInv DEF vars, counters

(* DiskManager::CreateNew: there was no file, and no catalog. *)
LEMMA CreateNewInv ==
    ASSUME FileInv, CreateNew
    PROVE  FileInv'
<1>p. TypeOK /\ Typed /\ HeadersAgree /\ BlobsComplete
  BY DEF FileInv
<1> USE <1>p
<1>a. tables = NoTables /\ file = << >> /\ job = NoJob
  BY DEF CreateNew, HeadersAgree, TypeOK
<1>b. FreshHeader \in Header /\ FreshHeader # NoHeader /\ FreshHeader.next = 1
  BY DEF FreshHeader, NoHeader, Header, kFirstDataPageId
<1>1. Typed'
  <2>1. <<"header", 0, 0>> \in Cell
    BY DEF Cell, PlainCell
  <2>2. file' \in Seq(Cell)
    BY <2>1 DEF CreateNew
  <2> QED
    BY <1>b, <2>2 DEF Typed, CreateNew
<1>2. TypeOK'
  BY <1>b DEF TypeOK, CreateNew, Callers, kFirstDataPageId
<1>3. HeadersAgree'
  BY <1>a, <1>b DEF HeadersAgree, CreateNew
<1>4. Blobs' = {}
  <2>1. DOMAIN file' = {1} /\ file'[1] = <<"header", 0, 0>>
    BY DEF CreateNew
  <2> QED
    BY <2>1 DEF Blobs
<1>5. ClaimsHold'
  BY <1>4, <1>a, NoTablesFacts, NoJobFacts DEF ClaimsHold, Claimed, CreateNew
<1>6. BlobsComplete'
  BY DEF BlobsComplete, Pointed, CreateNew
<1> QED
  BY <1>1, <1>2, <1>3, <1>5, <1>6 DEF FileInv

(* A Catalog is there once more, of what the file holds or of tables       *)
(* without a row group.                                                    *)
LEMMA OpenedInv ==
    ASSUME FileInv, Opening, disk_header # NoHeader,
           header' = disk_header, written' = durable,
           UNCHANGED <<exists, file, disk_header, job, inserts, crashes, durable, committed, overwritten>>,
           tables' \in Catalog,
           NEW c \in Blobs \cup {tables}, RowGroups(tables') \subseteq RowGroups(c),
           \/ pc' = "idle" /\ caller' = caller
           \/ pc' = "blob" /\ caller' = "failed_open",
           io_errors' \in 0 .. MaxIoErrors
    PROVE  FileInv'
<1>p. TypeOK /\ Typed /\ HeadersAgree
  BY DEF FileInv
<1> USE <1>p
<1>a. job = NoJob /\ caller = "none" /\ exists /\ pc = "closed"
  BY DEF Opening, TypeOK
<1>b. disk_header.next \in Nat
  BY DEF Typed, Header
<1>1. Typed'
  BY DEF Typed
<1>2. TypeOK'
  BY <1>a DEF TypeOK, Callers
<1>3. HeadersAgree'
  BY <1>a, <1>b DEF HeadersAgree
<1>4. Grown
  BY SameIsGrown
<1>5. Base <= Base'
  BY <1>a, <1>b DEF Base
<1>6. NoNewClaim
  <2>1. Blobs' \subseteq Blobs \cup {tables}
    BY <1>4 DEF Grown
  <2> QED
    BY <2>1, ClaimsFromBefore
<1>7. NoNewPointer
  BY DEF NoNewPointer, Pointed
<1> QED
  BY <1>1, <1>2, <1>3, <1>4, <1>5, <1>6, <1>7, QuietStep

LEMMA OpenInv ==
    ASSUME FileInv, Open
    PROVE  FileInv'
<1>1. Typed /\ io_errors' \in 0 .. MaxIoErrors
  BY DEF FileInv, TypeOK, Open
<1> DEFINE i == disk_header.meta + 1
<1>2. i \in 1 .. Len(file) /\ file[i][1] = "blob" /\ tables' = file[i][2]
  BY <1>1 DEF Open, Readable, Parsed, Typed, Header
<1> HIDE DEF i
<1>3. file[i] \in Cell /\ i \in DOMAIN file
  BY <1>1, <1>2 DEF Typed
<1>4. file[i] \in BlobCell
  BY <1>2, <1>3 DEF Cell, PlainCell
<1>5. tables' \in Catalog
  BY <1>2, <1>4 DEF BlobCell
<1>6. tables' \in Blobs \cup {tables}
  BY <1>2, <1>3 DEF Blobs
<1> QED
  BY <1>1, <1>5, <1>6, OpenedInv DEF Open

LEMMA OpenThrowsInv ==
    ASSUME FileInv, OpenThrows
    PROVE  FileInv'
<1>1. io_errors' \in 0 .. MaxIoErrors
  <2>1. TypeOK /\ io_errors \in 0 .. MaxIoErrors
    BY DEF FileInv, TypeOK
  <2> QED
    BY <2>1, OneMoreError DEF OpenThrows
<1>2. tables' \in Catalog /\ RowGroups(tables') \subseteq RowGroups(tables)
  BY NoTablesFacts, RegisteredFacts DEF OpenThrows
<1> QED
  BY <1>1, <1>2, OpenedInv DEF OpenThrows

LEMMA OpenMisreadsInv ==
    ASSUME FileInv, OpenMisreads
    PROVE  FileInv'
<1>1. io_errors' \in 0 .. MaxIoErrors
  BY DEF FileInv, TypeOK, OpenMisreads
<1>2. tables' \in Catalog /\ RowGroups(tables') \subseteq RowGroups(tables)
  BY RegisteredFacts DEF OpenMisreads
<1>3. tables \in Blobs \cup {tables}
  OBVIOUS
<1> QED
  BY <1>1, <1>2, <1>3, OpenedInv, Zenon DEF OpenMisreads

-----------------------------------------------------------------------------
(* PersistMetadata.  What comes after it is another call, a statement or   *)
(* the end.                                                                *)
LEMMA AfterPersist ==
    ASSUME TypeOK, pc \in {"blob", "header"}, Return \/ Throw
    PROVE  /\ pc' \in {"closed", "idle", "blob"}
           /\ caller' \in IF pc' = "blob" THEN Callers ELSE {"none"}
<1>1. caller \in Callers
  BY DEF TypeOK
<1> QED
  BY <1>1 DEF Return, Throw, Callers

(* WriteMetadataBlob: the new blob is complete behind everything there     *)
(* was, and header.meta points to it.                                      *)
LEMMA WriteBlobInv ==
    ASSUME FileInv, WriteBlob
    PROVE  FileInv'
<1>p. TypeOK /\ Typed /\ HeadersAgree /\ ClaimsHold /\ BlobsComplete
  BY DEF FileInv
<1> USE <1>p
<1>a. tables \in Catalog /\ job = NoJob /\ pc = "blob"
  BY DEF Typed, TypeOK, WriteBlob
<1>b. /\ Blob(tables) \in Seq(Cell) /\ Len(Blob(tables)) = BlobUnits(tables)
      /\ \A i \in 1 .. BlobUnits(tables) : Blob(tables)[i] = <<"blob", tables, i>>
  BY <1>a, BlobFacts
<1>c. \A i \in 1 .. Len(Blob(tables)) : Blob(tables)[i][2] = tables
  BY <1>b
<1>d. file' = Put(AppendOffset, Blob(tables))
  BY DEF WriteBlob
<1>e. /\ file' \in Seq(Cell) /\ Grown
      /\ AppendOffset \in Nat
      /\ \A i \in 1 .. BlobUnits(tables) :
            AppendOffset + i <= Len(file') /\ file'[AppendOffset + i] = <<"blob", tables, i>>
  BY <1>b, <1>c, <1>d, AppendGrows
<1>f. /\ header' = [header EXCEPT !.meta = AppendOffset]
      /\ header' \in Header /\ header'.next = header.next /\ header'.meta = AppendOffset
  BY <1>e DEF WriteBlob, Typed, Header
<1>g. header.next \in Nat /\ disk_header.next \in Nat
  BY DEF Typed, Header
<1>1. Typed'
  BY <1>e, <1>f DEF Typed, WriteBlob, counters
<1>2. TypeOK'
  <2>1. header # NoHeader
    BY DEF HeadersAgree, WriteBlob
  <2>2. header'.next >= kFirstDataPageId
    BY <2>1, <1>f DEF TypeOK
  <2> QED
    BY <1>a, <2>2 DEF TypeOK, WriteBlob, counters
<1>3. HeadersAgree'
  <2>1. header' # NoHeader
    BY <1>2, <1>f DEF HeadersAgree, WriteBlob, TypeOK, NoHeader, kFirstDataPageId
  <2> QED
    BY <1>a, <1>f, <2>1 DEF HeadersAgree, WriteBlob
<1>4. Base \in Nat /\ Base' \in Nat /\ Base <= Base'
  BY <1>a, <1>g DEF Base, WriteBlob
<1>5. ClaimsHold'
  <2>1. Kept(Base)
    BY <1>1, <1>4, <1>e, GrownIsKept
  <2>2. NoNewClaim
    BY <1>e, ClaimsFromBefore DEF Grown, WriteBlob
  <2> QED
    BY <1>1, <1>4, <2>1, <2>2, ClaimsKept
<1>6. BlobsComplete'
  <2> SUFFICES ASSUME NEW at \in Nat, NEW c \in Catalog, Pointed(at, c)'
               PROVE  BlobAt(at, c)'
    BY DEF BlobsComplete
  <2>1. CASE at = AppendOffset /\ c = tables
    BY <1>e, <2>1 DEF BlobAt
  <2>2. CASE ~(at = AppendOffset /\ c = tables)
    <3>1. Pointed(at, c)
      BY <2>2, <1>f DEF Pointed, WriteBlob
    <3>2. BlobAt(at, c)
      BY <3>1 DEF BlobsComplete
    <3> QED
      BY <1>1, <1>e, <3>2, BlobAtKept
  <2> QED
    BY <2>1, <2>2
<1> QED
  BY <1>1, <1>2, <1>3, <1>5, <1>6 DEF FileInv

(* A blob cut short moves no offset. *)
LEMMA WriteBlobFailsInv ==
    ASSUME FileInv, WriteBlobFails
    PROVE  FileInv'
<1>p. TypeOK /\ Typed /\ HeadersAgree
  BY DEF FileInv
<1> USE <1>p
<1>a. tables \in Catalog /\ job = NoJob /\ pc = "blob"
  BY DEF Typed, TypeOK, WriteBlobFails
<1>b. /\ Blob(tables) \in Seq(Cell) /\ Len(Blob(tables)) = BlobUnits(tables)
      /\ BlobUnits(tables) \in Nat
      /\ \A i \in 1 .. BlobUnits(tables) : Blob(tables)[i] = <<"blob", tables, i>>
  BY <1>a, BlobFacts
<1>c. file' \in Seq(Cell) /\ Grown
  <2>1. CASE file' = file
    BY <2>1, SameIsGrown DEF Typed
  <2>2. CASE file' # file
    <3>1. PICK k \in 1 .. Len(Blob(tables)) - 1 : file' = Put(AppendOffset, SubSeq(Blob(tables), 1, k))
      BY <2>2 DEF WriteBlobFails, ShortPut
    <3> DEFINE blob == Blob(tables)
    <3> DEFINE cells == SubSeq(blob, 1, k)
    <3>2. blob \in Seq(Cell) /\ k \in Nat /\ k <= Len(blob) /\ k >= 1
      BY <1>b
    <3>3. \A i \in 1 .. Len(blob) : blob[i][2] = tables
      BY <1>b
    <3> HIDE DEF blob
    <3>4. cells \in Seq(Cell) /\ Len(cells) = k /\ \A i \in 1 .. k : cells[i] = blob[i]
      BY <3>2
    <3> HIDE DEF cells
    <3>5. \A i \in 1 .. Len(cells) : cells[i][2] = tables
      BY <3>2, <3>3, <3>4
    <3>6. file' = Put(AppendOffset, cells)
      BY <3>1 DEF cells, blob
    <3> QED
      BY <3>4, <3>5, <3>6, AppendGrows
  <2> QED
    BY <2>1, <2>2
<1>d. pc' \in {"closed", "idle", "blob"} /\ caller' \in IF pc' = "blob" THEN Callers ELSE {"none"}
  BY <1>a, AfterPersist DEF WriteBlobFails
<1>e. io_errors' \in 0 .. MaxIoErrors
  BY OneMoreError DEF WriteBlobFails, Fail
<1>1. Typed'
  BY <1>c DEF Typed, WriteBlobFails, Fail, history
<1>2. TypeOK'
  BY <1>a, <1>d, <1>e DEF TypeOK, WriteBlobFails, Fail, history
<1>3. HeadersAgree'
  BY <1>a, <1>d DEF HeadersAgree, WriteBlobFails, TypeOK
<1>4. Base = Base' /\ Base \in Nat
  BY <1>a, <1>d, BaseIsPage DEF Base, WriteBlobFails
<1>5. NoNewClaim
  BY <1>c, ClaimsFromBefore DEF Grown, WriteBlobFails
<1>6. NoNewPointer
  BY <1>d DEF NoNewPointer, Pointed, WriteBlobFails, history
<1> QED
  BY <1>1, <1>2, <1>3, <1>4, <1>5, <1>6, <1>c, QuietStep

LEMMA PersistHeaderInv ==
    ASSUME FileInv, PersistHeader
    PROVE  FileInv'
<1>p. TypeOK /\ Typed /\ HeadersAgree
  BY DEF FileInv
<1> USE <1>p
<1>a. job = NoJob /\ pc = "header" /\ header # NoHeader /\ exists
  BY DEF TypeOK, HeadersAgree, PersistHeader
<1>b. pc' \in {"closed", "idle", "blob"} /\ caller' \in IF pc' = "blob" THEN Callers ELSE {"none"}
  BY <1>a, AfterPersist DEF PersistHeader
<1>c. header.next \in Nat /\ disk_header.next \in Nat /\ disk_header.next <= header.next
  BY <1>a DEF Typed, Header, HeadersAgree
<1>1. Typed'
  BY DEF Typed, PersistHeader, counters
<1>2. TypeOK'
  BY <1>a, <1>b, Zenon DEF TypeOK, PersistHeader, counters
<1>3. HeadersAgree'
  BY <1>a, <1>b, <1>c DEF HeadersAgree, PersistHeader
<1>4. Grown
  BY SameIsGrown DEF PersistHeader
<1>5. Base <= Base'
  BY <1>a, <1>b, <1>c DEF Base, PersistHeader
<1>6. NoNewClaim
  BY <1>4, ClaimsFromBefore DEF Grown, PersistHeader
<1>7. NoNewPointer
  BY <1>a, <1>b DEF NoNewPointer, Pointed, PersistHeader
<1> QED
  BY <1>1, <1>2, <1>3, <1>4, <1>5, <1>6, <1>7, QuietStep

(* What a header write that fails leaves: at most a meta_offset that was   *)
(* in memory already.                                                      *)
LEMMA HeaderNotWrittenFacts ==
    ASSUME TypeOK, Typed, disk_header # NoHeader, HeaderNotWritten
    PROVE  /\ disk_header' \in Header /\ disk_header' # NoHeader /\ durable' \in Catalog
           /\ disk_header'.next = disk_header.next
           /\ \/ disk_header'.meta = disk_header.meta /\ durable' = durable
              \/ disk_header'.meta = header.meta /\ durable' = written
<1>1. disk_header \in Header /\ header \in Header /\ disk_header.next >= 1
  BY DEF Typed, TypeOK, kFirstDataPageId
<1>2. CASE UNCHANGED <<disk_header, durable, committed>>
  BY <1>1, <1>2 DEF Typed
<1>3. CASE disk_header' = [disk_header EXCEPT !.meta = header.meta] /\ durable' = written
  BY <1>1, <1>3 DEF Typed, Header, NoHeader
<1> QED
  BY <1>2, <1>3 DEF HeaderNotWritten

LEMMA PersistHeaderFailsInv ==
    ASSUME FileInv, PersistHeaderFails
    PROVE  FileInv'
<1>p. TypeOK /\ Typed /\ HeadersAgree
  BY DEF FileInv
<1> USE <1>p
<1>a. job = NoJob /\ pc = "header" /\ disk_header # NoHeader /\ header # NoHeader /\ exists
  BY DEF TypeOK, HeadersAgree, PersistHeaderFails
<1>b. pc' \in {"closed", "idle", "blob"} /\ caller' \in IF pc' = "blob" THEN Callers ELSE {"none"}
  BY <1>a, AfterPersist DEF PersistHeaderFails
<1>c. header.next \in Nat /\ disk_header.next \in Nat /\ disk_header.next <= header.next
  BY <1>a DEF Typed, Header, HeadersAgree
<1>d. /\ disk_header' \in Header /\ disk_header' # NoHeader /\ durable' \in Catalog
      /\ disk_header'.next = disk_header.next
      /\ \/ disk_header'.meta = disk_header.meta /\ durable' = durable
         \/ disk_header'.meta = header.meta /\ durable' = written
  BY <1>a, HeaderNotWrittenFacts DEF PersistHeaderFails
<1>e. io_errors' \in 0 .. MaxIoErrors
  BY OneMoreError DEF PersistHeaderFails, Fail
<1>1. Typed'
  BY <1>d DEF Typed, PersistHeaderFails, Fail
<1>2. TypeOK'
  BY <1>a, <1>b, <1>d, <1>e DEF TypeOK, PersistHeaderFails, Fail
<1>3. HeadersAgree'
  BY <1>a, <1>b, <1>c, <1>d DEF HeadersAgree, PersistHeaderFails
<1>4. Grown
  BY SameIsGrown DEF PersistHeaderFails
<1>5. Base <= Base'
  BY <1>a, <1>b, <1>c, <1>d DEF Base
<1>6. NoNewClaim
  BY <1>4, ClaimsFromBefore DEF Grown, PersistHeaderFails
<1>7. NoNewPointer
  BY <1>a, <1>b, <1>d DEF NoNewPointer, Pointed, PersistHeaderFails
<1> QED
  BY <1>1, <1>2, <1>3, <1>4, <1>5, <1>6, <1>7, QuietStep

-----------------------------------------------------------------------------
(* A catalog with one table more, still empty. *)
LEMMA CreatedTable ==
    ASSUME NEW c \in Catalog, NEW t \in Table
    PROVE  LET d == [c EXCEPT ![t] = << >>]
           IN  d \in Catalog /\ RowGroups(d) \subseteq RowGroups(c)
<1> DEFINE d == [c EXCEPT ![t] = << >>]
<1>1. << >> \in Seq(RowGroup) /\ Range(<< >>) = {}
  BY DEF Range
<1>2. d \in Catalog /\ d[t] = << >> /\ \A u \in Table \ {t} : d[u] = c[u]
  BY <1>1 DEF Catalog
<1> HIDE DEF d
<1>3. RowGroups(d) \subseteq RowGroups(c)
  <2> SUFFICES ASSUME NEW u \in Table, d[u] # NoTable, NEW g \in Range(d[u])
               PROVE  g \in RowGroups(c)
    BY DEF RowGroups
  <2>1. u # t
    BY <1>1, <1>2, Zenon
  <2> QED
    BY <1>2, <2>1 DEF RowGroups
<1> QED
  BY <1>2, <1>3, Zenon DEF d

LEMMA CreateTableInv ==
    ASSUME FileInv, NEW t \in Table, CreateTable(t)
    PROVE  FileInv'
<1>p. TypeOK /\ Typed /\ HeadersAgree
  BY DEF FileInv
<1> USE <1>p
<1>a. job = NoJob /\ pc = "idle" /\ exists
  BY DEF TypeOK, HeadersAgree, CreateTable
<1>b. tables' \in Catalog
  BY CreatedTable, Zenon DEF CreateTable, Typed
<1>c. RowGroups(tables') \subseteq RowGroups(tables)
  BY CreatedTable, Zenon DEF CreateTable, Typed
<1>d. header.next \in Nat /\ disk_header.next \in Nat
  BY DEF Typed, Header
<1>1. Typed'
  BY <1>b DEF Typed, CreateTable, counters, history
<1>2. TypeOK'
  BY <1>a DEF TypeOK, CreateTable, counters, history, Callers
<1>3. HeadersAgree'
  BY <1>a DEF HeadersAgree, CreateTable
<1>4. Grown
  BY SameIsGrown DEF CreateTable
<1>5. Base <= Base'
  BY <1>a, <1>d DEF Base, CreateTable
<1>6. NoNewClaim
  BY <1>4, <1>c, ClaimsFromBefore, Zenon DEF Grown, CreateTable
<1>7. NoNewPointer
  BY DEF NoNewPointer, Pointed, CreateTable, history
<1> QED
  BY <1>1, <1>2, <1>3, <1>4, <1>5, <1>6, <1>7, QuietStep

LEMMA FlushRowGroupInv ==
    ASSUME FileInv, NEW t \in Table, NEW shape \in Shape, FlushRowGroup(t, shape)
    PROVE  FileInv'
<1>p. TypeOK /\ Typed /\ HeadersAgree
  BY DEF FileInv
<1> USE <1>p
<1>a. pc = "idle" /\ exists /\ tables[t] # NoTable
  BY DEF HeadersAgree, FlushRowGroup
<1>b. shape \in Seq(Nat) /\ shape # << >> /\ inserts' \in 0 .. MaxInserts /\ inserts' \in Nat
  BY FileAssumption DEF FlushRowGroup, Typed
<1>c. /\ job' \in Job /\ job' # NoJob /\ job'.table = t
      /\ job'.todo # << >> /\ Range(job'.done) = {}
  <2>1. << >> \in Seq(Region) /\ Range(<< >>) = {}
    BY DEF Range
  <2> QED
    BY <1>b, <2>1 DEF FlushRowGroup, Job, NoJob
<1>d. header.next \in Nat /\ disk_header.next \in Nat
  BY DEF Typed, Header
<1>1. Typed'
  BY <1>b, <1>c DEF Typed, FlushRowGroup, history
<1>2. TypeOK'
  BY <1>a, <1>c DEF TypeOK, FlushRowGroup, history
<1>3. HeadersAgree'
  BY <1>a, <1>c DEF HeadersAgree, FlushRowGroup
<1>4. Grown
  BY SameIsGrown DEF FlushRowGroup
<1>5. Base <= Base'
  BY <1>a, <1>d DEF Base, FlushRowGroup
<1>6. NoNewClaim
  BY <1>4, <1>c, ClaimsFromBefore, Zenon DEF Grown, FlushRowGroup
<1>7. NoNewPointer
  BY <1>a DEF NoNewPointer, Pointed, FlushRowGroup, history
<1> QED
  BY <1>1, <1>2, <1>3, <1>4, <1>5, <1>6, <1>7, QuietStep

(* AllocatePages gives out the pages from header.next on, and the header   *)
(* is on disk before a page is written.                                    *)
LEMMA AllocatePagesInv ==
    ASSUME FileInv, AllocatePages
    PROVE  FileInv'
<1>p. TypeOK /\ Typed /\ HeadersAgree
  BY DEF FileInv
<1> USE <1>p
<1>a. pc = "allocate" /\ exists /\ disk_header # NoHeader /\ job # NoJob
  BY DEF HeadersAgree, AllocatePages, TypeOK
<1>b. Head(job.todo) \in Nat /\ job.table \in Table /\ job.todo # << >>
  BY <1>a, JobFacts
<1>c. header \in Header /\ disk_header.next \in Nat /\ disk_header.next <= header.next
      /\ disk_header.next >= 1
  BY <1>a DEF Typed, Header, HeadersAgree, TypeOK, kFirstDataPageId
<1>d. /\ header' \in Header /\ disk_header' = header' /\ header'.meta = header.meta
      /\ header'.next = header.next + Head(job.todo)
  BY <1>b, <1>c DEF AllocatePages, Header
<1>e. header.next \in Nat /\ header'.next >= 1 /\ header' # NoHeader
  BY <1>b, <1>c, <1>d DEF Header, NoHeader
<1>1. Typed'
  BY <1>d DEF Typed, AllocatePages, counters
<1>2. TypeOK'
  BY <1>a, <1>b, <1>d, <1>e DEF TypeOK, AllocatePages, counters, kFirstDataPageId
<1>3. HeadersAgree'
  BY <1>a, <1>b, <1>d, <1>e DEF HeadersAgree, AllocatePages
<1>4. Grown
  BY SameIsGrown DEF AllocatePages
<1>5. Base <= Base'
  BY <1>a, <1>b, <1>c, <1>d, <1>e DEF Base, Start, AllocatePages
<1>6. NoNewClaim
  BY <1>4, ClaimsFromBefore DEF Grown, AllocatePages
<1>7. NoNewPointer
  BY <1>a, <1>d DEF NoNewPointer, Pointed, AllocatePages
<1> QED
  BY <1>1, <1>2, <1>3, <1>4, <1>5, <1>6, <1>7, QuietStep

LEMMA AllocateNoPagesInv ==
    ASSUME FileInv, AllocateNoPages
    PROVE  FileInv'
<1>p. TypeOK /\ Typed /\ HeadersAgree
  BY DEF FileInv
<1> USE <1>p
<1>a. pc = "allocate" /\ exists
  BY DEF HeadersAgree, AllocateNoPages
<1>b. disk_header.next \in Nat
  BY DEF Typed, Header
<1>1. Typed'
  BY NoTablesFacts DEF Typed, AllocateNoPages, Abandon, counters, history
<1>2. TypeOK'
  BY <1>a DEF TypeOK, AllocateNoPages, Abandon, counters, history
<1>3. HeadersAgree'
  BY <1>a DEF HeadersAgree, AllocateNoPages, Abandon
<1>4. Grown
  BY SameIsGrown DEF AllocateNoPages
<1>5. Base <= Base'
  BY <1>a, <1>b DEF Base, AllocateNoPages, Abandon
<1>6. NoNewClaim
  BY <1>4, NoJobFacts, ClaimsFromBefore DEF Grown, AllocateNoPages, Abandon
<1>7. NoNewPointer
  BY <1>a DEF NoNewPointer, Pointed, AllocateNoPages, Abandon, history
<1> QED
  BY <1>1, <1>2, <1>3, <1>4, <1>5, <1>6, <1>7, QuietStep

LEMMA AllocatePagesFailsInv ==
    ASSUME FileInv, AllocatePagesFails
    PROVE  FileInv'
<1>p. TypeOK /\ Typed /\ HeadersAgree
  BY DEF FileInv
<1> USE <1>p
<1>a. pc = "allocate" /\ exists /\ disk_header # NoHeader
  BY DEF HeadersAgree, AllocatePagesFails
<1>b. Head(job.todo) \in Nat
  BY <1>a, JobFacts
<1>c. header \in Header /\ disk_header.next \in Nat /\ disk_header.next <= header.next
      /\ disk_header.next >= 1
  BY <1>a DEF Typed, Header, HeadersAgree, TypeOK, kFirstDataPageId
<1>d. /\ header' \in Header /\ header'.meta = header.meta
      /\ header'.next = header.next + Head(job.todo)
  BY <1>b, <1>c DEF AllocatePagesFails, Header
<1>e. header.next \in Nat /\ header'.next >= 1 /\ header' # NoHeader
  BY <1>b, <1>c, <1>d DEF Header, NoHeader
<1>f. /\ disk_header' \in Header /\ disk_header' # NoHeader /\ durable' \in Catalog
      /\ disk_header'.next = disk_header.next
      /\ \/ disk_header'.meta = disk_header.meta /\ durable' = durable
         \/ disk_header'.meta = header.meta /\ durable' = written
  BY <1>a, HeaderNotWrittenFacts DEF AllocatePagesFails
<1>g. io_errors' \in 0 .. MaxIoErrors
  BY OneMoreError DEF AllocatePagesFails, Fail
<1>1. Typed'
  BY <1>d, <1>f, NoTablesFacts DEF Typed, AllocatePagesFails, Abandon, Fail
<1>2. TypeOK'
  BY <1>a, <1>c, <1>e, <1>f, <1>g DEF TypeOK, AllocatePagesFails, Abandon, Fail, kFirstDataPageId
<1>3. HeadersAgree'
  BY <1>a, <1>b, <1>c, <1>d, <1>e, <1>f DEF HeadersAgree, AllocatePagesFails, Abandon
<1>4. Grown
  BY SameIsGrown DEF AllocatePagesFails
<1>5. Base <= Base'
  BY <1>a, <1>c, <1>f DEF Base, AllocatePagesFails, Abandon
<1>6. NoNewClaim
  BY <1>4, NoJobFacts, ClaimsFromBefore DEF Grown, AllocatePagesFails, Abandon
<1>7. NoNewPointer
  BY <1>a, <1>d, <1>f DEF NoNewPointer, Pointed, AllocatePagesFails, Abandon
<1> QED
  BY <1>1, <1>2, <1>3, <1>4, <1>5, <1>6, <1>7, QuietStep

-----------------------------------------------------------------------------
(* WritePages at page n leaves the pages before it and makes no blob. *)
LEMMA OverwriteKeeps ==
    ASSUME Typed, NEW n \in Nat,
           NEW cells \in Seq(Cell), \A i \in 1 .. Len(cells) : cells[i][1] = "page",
           file' = Put(n * PageUnits, cells)
    PROVE  /\ file' \in Seq(Cell) /\ Kept(n)
           /\ \A i \in 1 .. Len(cells) :
                 n * PageUnits + i <= Len(file') /\ file'[n * PageUnits + i] = cells[i]
<1>1. file \in Seq(Cell) /\ Len(file) \in Nat /\ Len(cells) \in Nat
  BY DEF Typed
<1> DEFINE offset == n * PageUnits
<1>2. n <= n
  OBVIOUS
<1>3. offset \in Nat
  BY <1>2, PagesToCells
<1>4. file' = Put(offset, cells)
  OBVIOUS
<1> HIDE DEF offset
<1>5. /\ file' \in Seq(Cell)
      /\ Len(file') = IF Len(file) >= offset + Len(cells) THEN Len(file) ELSE offset + Len(cells)
      /\ \A i \in 1 .. Len(file') :
            file'[i] = IF i > offset /\ i <= offset + Len(cells) THEN cells[i - offset]
                       ELSE IF i <= Len(file) THEN file[i] ELSE <<"zero", 0, 0>>
  <2>1. IsPut(Put(offset, cells), offset, cells)
    BY <1>1, <1>3, PutFacts
  <2>2. IsPut(file', offset, cells)
    BY <1>4, <2>1
  <2> QED
    BY <2>2 DEF IsPut
<1>6. \A i \in 1 .. offset : i <= Len(file) => i <= Len(file') /\ file'[i] = file[i]
  <2> SUFFICES ASSUME NEW i \in 1 .. offset, i <= Len(file)
               PROVE  i <= Len(file') /\ file'[i] = file[i]
    OBVIOUS
  <2>1. i \in 1 .. Len(file') /\ ~(i > offset)
    BY <1>1, <1>3, <1>5
  <2> QED
    BY <1>1, <1>5, <2>1
<1>7. Blobs' \subseteq Blobs \cup {tables}
  <2> SUFFICES ASSUME NEW j \in DOMAIN file', file'[j][1] = "blob"
               PROVE  file'[j][2] \in Blobs \cup {tables}
    BY DEF Blobs
  <2>1. j \in 1 .. Len(file')
    BY <1>5
  <2>2. CASE j > offset /\ j <= offset + Len(cells)
    <3>1. file'[j] = cells[j - offset] /\ j - offset \in 1 .. Len(cells)
      BY <1>1, <1>3, <1>5, <2>1, <2>2
    <3> QED
      BY <3>1
  <2>3. CASE ~(j > offset /\ j <= offset + Len(cells)) /\ j <= Len(file)
    <3>1. file'[j] = file[j] /\ j \in DOMAIN file
      BY <1>1, <1>5, <2>1, <2>3
    <3> QED
      BY <3>1 DEF Blobs
  <2>4. CASE ~(j > offset /\ j <= offset + Len(cells)) /\ ~(j <= Len(file))
    BY <1>5, <2>1, <2>4
  <2> QED
    BY <2>2, <2>3, <2>4
<1>8. \A i \in 1 .. Len(cells) : offset + i <= Len(file') /\ file'[offset + i] = cells[i]
  <2> SUFFICES ASSUME NEW i \in 1 .. Len(cells)
               PROVE  offset + i <= Len(file') /\ file'[offset + i] = cells[i]
    OBVIOUS
  <2>1. i \in Nat \ {0} /\ i <= Len(cells)
    BY <1>1
  <2>2. offset + i \in 1 .. Len(file')
    BY <1>1, <1>3, <1>5, <2>1
  <2>3. offset + i > offset /\ offset + i <= offset + Len(cells) /\ (offset + i) - offset = i
    BY <1>1, <1>3, <2>1
  <2> QED
    BY <1>5, <2>2, <2>3
<1> QED
  BY <1>5, <1>6, <1>7, <1>8 DEF Kept, offset

(* The region being written: its pages are the ones before header.next,    *)
(* and nothing claims them.                                                *)
LEMMA RegionFacts ==
    ASSUME TypeOK, Typed, HeadersAgree, pc = "write"
    PROVE  /\ Base = Start /\ Start \in Nat /\ Head(job.todo) \in Nat
           /\ Start + Head(job.todo) = disk_header.next /\ disk_header.next \in Nat
           /\ PageCells \in Seq(Cell) /\ Len(PageCells) = Head(job.todo) * PageUnits
           /\ Len(PageCells) \in Nat
           /\ \A i \in 1 .. Len(PageCells) : PageCells[i] = <<"page", job.id, 0>>
<1>1. Head(job.todo) \in Nat /\ job.id \in Nat
  BY JobFacts
<1>2. header = disk_header /\ Head(job.todo) <= header.next /\ header.next \in Nat
  BY DEF HeadersAgree, Typed, Header
<1>3. Start \in Nat /\ Start + Head(job.todo) = disk_header.next
  BY <1>1, <1>2 DEF Start
<1> DEFINE k == Head(job.todo)
<1> DEFINE n == k * PageUnits
<1>4. k <= k
  BY <1>1
<1>5. n \in Nat
  BY <1>1, <1>4, PagesToCells
<1>6. PageCells = [i \in 1 .. n |-> <<"page", job.id, 0>>]
  BY DEF PageCells
<1> HIDE DEF n
<1>7. <<"page", job.id, 0>> \in Cell
  BY <1>1 DEF Cell, PlainCell
<1>8. PageCells \in Seq(Cell) /\ Len(PageCells) = n
  BY <1>5, <1>6, <1>7
<1>9. \A i \in 1 .. n : PageCells[i] = <<"page", job.id, 0>>
  BY <1>6
<1>10. n = Head(job.todo) * PageUnits
  BY DEF n
<1>11. Base = Start
  BY DEF Base
<1> QED
  BY <1>1, <1>2, <1>3, <1>5, <1>8, <1>9, <1>10, <1>11

(* The region, once its pages are written. *)
LEMMA RegionWritten ==
    ASSUME Typed, Typed', NEW start \in Nat, NEW count \in Nat, NEW id \in Nat,
           start + count <= Base',
           \A i \in 1 .. count * PageUnits :
              start * PageUnits + i <= Len(file') /\ file'[start * PageUnits + i] = <<"page", id, 0>>
    PROVE  At(id, [start |-> start, count |-> count])'
<1> DEFINE a == start * PageUnits
<1> DEFINE b == count * PageUnits
<1>1. PageUnits \in Nat
  BY FileAssumption
<1>2. a \in Nat /\ b \in Nat /\ (start + count) * PageUnits = a + b
  BY <1>1
<1>3. \A i \in 1 .. b : a + i <= Len(file') /\ file'[a + i] = <<"page", id, 0>>
  OBVIOUS
<1> HIDE DEF a, b
<1>4. \A i \in a + 1 .. a + b : i <= Len(file') /\ file'[i] = <<"page", id, 0>>
  <2> SUFFICES ASSUME NEW i \in a + 1 .. a + b
               PROVE  i <= Len(file') /\ file'[i] = <<"page", id, 0>>
    OBVIOUS
  <2>1. i - a \in 1 .. b /\ a + (i - a) = i
    BY <1>2
  <2> QED
    BY <1>3, <2>1
<1>5. \A i \in start * PageUnits + 1 .. (start + count) * PageUnits :
          i <= Len(file') /\ file'[i] = <<"page", id, 0>>
  BY <1>2, <1>4 DEF a
<1> DEFINE r == [start |-> start, count |-> count]
<1>6. r.start = start /\ r.count = count
  OBVIOUS
<1> HIDE DEF r
<1>7. At(id, r)'
  BY <1>5, <1>6 DEF At
<1> QED
  BY <1>7 DEF r

LEMMA WritePagesFailsInv ==
    ASSUME FileInv, WritePagesFails
    PROVE  FileInv'
<1>p. TypeOK /\ Typed /\ HeadersAgree /\ ClaimsHold
  BY DEF FileInv
<1> USE <1>p
<1>a. pc = "write" /\ exists
  BY DEF HeadersAgree, WritePagesFails
<1> DEFINE n == Start
<1> DEFINE page == PageCells
<1>b. /\ Base = n /\ n \in Nat /\ n <= disk_header.next /\ disk_header.next \in Nat
      /\ page \in Seq(Cell) /\ Len(page) \in Nat
      /\ \A i \in 1 .. Len(page) : page[i] = <<"page", job.id, 0>>
  BY <1>a, RegionFacts
<1>c. file' \in Seq(Cell) /\ Kept(n)
  <2>1. CASE file' = file
    <3>1. n <= n
      BY <1>b
    <3>2. n * PageUnits \in Nat /\ Len(file) \in Nat
      <4>1. n * PageUnits \in Nat
        BY <1>b, <3>1, PagesToCells, Zenon
      <4>2. Len(file) \in Nat
        BY DEF Typed
      <4> QED
        BY <4>1, <4>2
    <3>3. Blobs' = Blobs
      BY <2>1 DEF Blobs
    <3> QED
      BY <2>1, <3>2, <3>3 DEF Kept, Typed
  <2>2. CASE file' # file
    <3>1. PICK k \in 1 .. Len(page) - 1 : file' = Put(n * PageUnits, SubSeq(page, 1, k))
      BY <2>2 DEF WritePagesFails, ShortPut
    <3> DEFINE cells == SubSeq(page, 1, k)
    <3>2. k \in Nat /\ k <= Len(page) /\ k >= 1
      BY <1>b
    <3>3. \A i \in 1 .. Len(page) : page[i][1] = "page"
      BY <1>b
    <3> HIDE DEF page, n
    <3>4. cells \in Seq(Cell) /\ Len(cells) = k /\ \A i \in 1 .. k : cells[i] = page[i]
      BY <1>b, <3>2
    <3>5. file' = Put(n * PageUnits, cells)
      BY <3>1
    <3> HIDE DEF cells
    <3>6. \A i \in 1 .. Len(cells) : cells[i][1] = "page"
      BY <3>2, <3>3, <3>4
    <3> QED
      BY <1>b, <3>4, <3>5, <3>6, OverwriteKeeps, Zenon
  <2> QED
    BY <2>1, <2>2
<1>d. io_errors' \in 0 .. MaxIoErrors
  BY OneMoreError DEF WritePagesFails, Fail
<1> HIDE DEF n, page
<1>1. Typed'
  BY <1>c, NoTablesFacts DEF Typed, WritePagesFails, Abandon, Fail
<1>2. TypeOK'
  BY <1>a, <1>d DEF TypeOK, WritePagesFails, Abandon, Fail
<1>3. HeadersAgree'
  BY <1>a DEF HeadersAgree, WritePagesFails, Abandon
<1>4. ClaimsHold'
  <2>1. Base' = disk_header.next
    BY DEF Base, WritePagesFails, Abandon
  <2>2. Base \in Nat /\ Base' \in Nat /\ Base <= Base' /\ Kept(Base)
    BY <1>b, <1>c, <2>1
  <2>3. NoNewClaim
    BY <1>c, NoJobFacts, ClaimsFromBefore, Zenon DEF Kept, WritePagesFails, Abandon
  <2> QED
    BY <1>1, <2>2, <2>3, ClaimsKept
<1>5. BlobsComplete'
  BY DEF BlobsComplete, Pointed, WritePagesFails, Abandon
<1> QED
  BY <1>1, <1>2, <1>3, <1>4, <1>5 DEF FileInv

(* The region FlushRowGroup has written joins its job, or with the others  *)
(* of the job the catalog: it is the one claim that is new.                *)
LEMMA AppendedRange ==
    ASSUME NEW S, NEW s \in Seq(S), NEW x \in S
    PROVE  Append(s, x) \in Seq(S) /\ Range(Append(s, x)) = Range(s) \cup {x}
<1>1. /\ Append(s, x) \in Seq(S) /\ Len(Append(s, x)) = Len(s) + 1 /\ Len(s) \in Nat
      /\ \A i \in 1 .. Len(s) : Append(s, x)[i] = s[i]
      /\ Append(s, x)[Len(s) + 1] = x
      /\ DOMAIN s = 1 .. Len(s) /\ DOMAIN Append(s, x) = 1 .. Len(s) + 1
  OBVIOUS
<1> DEFINE t == Append(s, x)
<1> HIDE DEF t
<1>2. Range(t) = {t[i] : i \in 1 .. Len(s) + 1} /\ Range(s) = {s[i] : i \in 1 .. Len(s)}
  BY <1>1 DEF Range, t
<1>3. 1 .. Len(s) + 1 = (1 .. Len(s)) \cup {Len(s) + 1}
  BY <1>1
<1>4. Range(t) = Range(s) \cup {x}
  BY <1>1, <1>2, <1>3 DEF t
<1> QED
  BY <1>1, <1>4 DEF t

LEMMA TailNotEmpty ==
    ASSUME NEW s \in Seq(Nat), Len(s) > 1
    PROVE  Tail(s) # << >>
<1>1. Len(s) \in Nat /\ s # << >>
  OBVIOUS
<1>2. Len(Tail(s)) = Len(s) - 1
  BY <1>1
<1>3. 1 \in DOMAIN Tail(s)
  BY <1>1, <1>2
<1>4. 1 \notin DOMAIN << >>
  OBVIOUS
<1> QED
  BY <1>3, <1>4, Zenon

(* The catalog with one row group more. *)
LEMMA RowGroupAdded ==
    ASSUME NEW c \in Catalog, NEW t \in Table, c[t] \in Seq(RowGroup), NEW g \in RowGroup
    PROVE  LET d == [c EXCEPT ![t] = Append(@, g)]
           IN  d \in Catalog /\ RowGroups(d) \subseteq RowGroups(c) \cup {g}
<1> DEFINE d == [c EXCEPT ![t] = Append(@, g)]
<1>1. c[t] # NoTable
  BY FileAssumption
<1>2. Append(c[t], g) \in Seq(RowGroup) /\ Range(Append(c[t], g)) = Range(c[t]) \cup {g}
  BY AppendedRange
<1>3. d[t] = Append(c[t], g) /\ \A u \in Table \ {t} : d[u] = c[u]
  BY DEF Catalog
<1>4. d \in Catalog
  BY <1>2 DEF Catalog
<1> HIDE DEF d
<1>5. RowGroups(d) \subseteq RowGroups(c) \cup {g}
  <2> SUFFICES ASSUME NEW u \in Table, d[u] # NoTable, NEW h \in Range(d[u])
               PROVE  h \in RowGroups(c) \cup {g}
    BY DEF RowGroups
  <2>1. CASE u = t
    <3>1. h \in Range(c[t]) \/ h = g
      BY <1>2, <1>3, <2>1, Zenon
    <3> QED
      BY <1>1, <3>1 DEF RowGroups
  <2>2. CASE u # t
    BY <1>3, <2>2 DEF RowGroups
  <2> QED
    BY <2>1, <2>2
<1> QED
  BY <1>4, <1>5, Zenon DEF d

LEMMA WritePagesInv ==
    ASSUME FileInv, WritePages
    PROVE  FileInv'
<1>p. TypeOK /\ Typed /\ HeadersAgree /\ ClaimsHold
  BY DEF FileInv
<1> USE <1>p
<1>a. pc = "write" /\ exists /\ disk_header # NoHeader
  BY DEF HeadersAgree, WritePages
<1>q. Start \in Nat /\ Head(job.todo) \in Nat /\ job.id \in Nat
  BY <1>a, RegionFacts, JobFacts
<1>r. PICK start \in Nat, count \in Nat, own \in Nat :
         start = Start /\ count = Head(job.todo) /\ own = job.id
  BY <1>q
<1> DEFINE new == [start |-> start, count |-> count]
<1>b. /\ Base = start /\ start \in Nat /\ count \in Nat
      /\ start + count = disk_header.next /\ disk_header.next \in Nat
  BY <1>a, <1>r, RegionFacts, Zenon
<1>k. /\ PageCells \in Seq(Cell) /\ Len(PageCells) = count * PageUnits
      /\ \A i \in 1 .. Len(PageCells) : PageCells[i] = <<"page", own, 0>>
  BY <1>a, <1>r, RegionFacts, Zenon
<1>c. /\ job # NoJob /\ job.table \in Table /\ job.id \in Nat
      /\ job.todo \in Seq(Nat) /\ job.done \in Seq(Region)
      /\ Tail(job.todo) \in Seq(Nat) /\ tables[job.table] \in Seq(RowGroup)
      /\ job \in Job /\ tables \in Catalog
  BY <1>a, JobFacts DEF Typed
<1>d. new \in Region
  BY <1>b DEF Region
<1>e. Done = Append(job.done, new)
  BY <1>r DEF Done
<1>f. Done \in Seq(Region) /\ Range(Done) = Range(job.done) \cup {new}
  BY <1>c, <1>d, <1>e, AppendedRange
<1>g. file' = Put(start * PageUnits, PageCells)
  BY <1>r DEF WritePages
<1> HIDE DEF new
<1>h. file' \in Seq(Cell) /\ Kept(start) /\ \A i \in 1 .. count * PageUnits :
         start * PageUnits + i <= Len(file') /\ file'[start * PageUnits + i] = <<"page", own, 0>>
  <2>1. \A i \in 1 .. Len(PageCells) : PageCells[i][1] = "page"
    BY <1>k
  <2>2. /\ file' \in Seq(Cell) /\ Kept(start)
        /\ \A i \in 1 .. Len(PageCells) :
              start * PageUnits + i <= Len(file') /\ file'[start * PageUnits + i] = PageCells[i]
    BY <1>b, <1>k, <1>g, <2>1, OverwriteKeeps
  <2> QED
    BY <1>k, <2>2
<1> DEFINE g == [id |-> job.id, regions |-> Done]
<1>i. g \in RowGroup /\ g.id = job.id /\ g.regions = Done
  BY <1>c, <1>f DEF RowGroup
<1> HIDE DEF g
<1>j. \/ /\ Len(job.todo) > 1
         /\ job' \in Job /\ job'.id = job.id /\ job'.done = Done /\ job'.table = job.table
         /\ job'.todo # << >> /\ job' # NoJob
         /\ pc' = "allocate" /\ tables' = tables
      \/ /\ tables' \in Catalog /\ RowGroups(tables') \subseteq RowGroups(tables) \cup {g}
         /\ pc' = "idle" /\ job' = NoJob
  <2> DEFINE More == /\ Len(job.todo) > 1
                     /\ job' = [job EXCEPT !.todo = Tail(@), !.done = Done]
                     /\ pc' = "allocate" /\ tables' = tables
  <2> DEFINE Last == /\ tables' = [tables EXCEPT ![job.table] = Append(@, g)]
                     /\ pc' = "idle" /\ job' = NoJob
  <2>0. More \/ Last
    BY Zenon DEF WritePages, Abandon, g
  <2>1. CASE More
    <3>1. Len(job.todo) > 1 /\ job' = [job EXCEPT !.todo = Tail(@), !.done = Done]
          /\ pc' = "allocate" /\ tables' = tables
      BY <2>1
    <3>2. Tail(job.todo) # << >>
      BY <1>c, <3>1, TailNotEmpty, Zenon
    <3>3. job' \in Job /\ job'.id = job.id /\ job'.done = Done /\ job'.table = job.table
          /\ job'.todo = Tail(job.todo)
      BY <1>c, <1>f, <3>1, Zenon DEF Job
    <3>4. job' # NoJob
      <4>1. NoJob.todo = << >>
        BY DEF NoJob
      <4> QED
        BY <3>2, <3>3, <4>1, Zenon
    <3> QED
      BY <3>1, <3>2, <3>3, <3>4, Zenon
  <2>2. CASE Last
    <3>1. tables' \in Catalog /\ RowGroups(tables') \subseteq RowGroups(tables) \cup {g}
      BY <1>c, <1>i, <2>2, RowGroupAdded, Zenon
    <3> QED
      BY <2>2, <3>1, Zenon
  <2> QED
    BY <2>0, <2>1, <2>2, Zenon
<1>1. Typed'
  BY <1>c, <1>h, <1>j, NoTablesFacts DEF Typed, WritePages, counters
<1>2. TypeOK'
  <2>1. (job' # NoJob) <=> (pc' \in {"allocate", "write"})
    BY <1>j
  <2>2. job' # NoJob => job'.table \in Table /\ job'.todo # << >>
    BY <1>c, <1>j
  <2>3. pc' \in {"allocate", "idle"} /\ caller' = "none"
    BY <1>a, <1>j DEF WritePages, TypeOK
  <2> QED
    BY <2>1, <2>2, <2>3 DEF TypeOK, WritePages, counters
<1>3. HeadersAgree'
  BY <1>a, <1>c, <1>j DEF HeadersAgree, WritePages
<1>4. Base' = disk_header.next
  BY <1>j DEF Base, WritePages
<1>5. At(own, new)'
  <2>1. start + count <= Base'
    BY <1>b, <1>4
  <2> QED
    BY <1>1, <1>h, <2>1, RegionWritten DEF new
<1>6. ClaimsHold'
  <2> SUFFICES ASSUME NEW id \in Nat, NEW r \in Region, Claimed(id, r)'
               PROVE  At(id, r)'
    BY DEF ClaimsHold
  <2>1. Claimed(id, r) \/ (id = own /\ r = new)
    <3>1. CASE \E d \in Blobs' \cup {tables'} : \E h \in RowGroups(d) : h.id = id /\ r \in Range(h.regions)
      <4>1. PICK d \in Blobs' \cup {tables'} : \E h \in RowGroups(d) : h.id = id /\ r \in Range(h.regions)
        BY <3>1
      <4>2. PICK h \in RowGroups(d) : h.id = id /\ r \in Range(h.regions)
        BY <4>1
      <4>3. (\E e \in Blobs \cup {tables} : h \in RowGroups(e)) \/ h = g
        BY <4>1, <4>2, <1>h, <1>j DEF Kept
      <4>4. CASE \E e \in Blobs \cup {tables} : h \in RowGroups(e)
        BY <4>2, <4>4 DEF Claimed
      <4>5. CASE h = g
        BY <4>2, <4>5, <1>f, <1>i, <1>r, Zenon DEF Claimed
      <4> QED
        BY <4>3, <4>4, <4>5
    <3>2. CASE job'.id = id /\ r \in Range(job'.done)
      <4>1. job'.done = Done /\ id = job.id
        BY <3>2, <1>j, NoJobFacts
      <4> QED
        BY <3>2, <4>1, <1>f, <1>r, Zenon DEF Claimed
    <3> QED
      BY <3>1, <3>2, Zenon DEF Claimed
  <2>2. CASE Claimed(id, r)
    <3>1. At(id, r)
      BY <2>2 DEF ClaimsHold
    <3>2. Base \in Nat /\ Base' \in Nat /\ Base <= Base' /\ Kept(Base)
      BY <1>b, <1>h, <1>4
    <3> QED
      BY <1>1, <3>1, <3>2, AtKept
  <2>3. CASE id = own /\ r = new
    BY <2>3, <1>5
  <2> QED
    BY <2>1, <2>2, <2>3
<1>7. BlobsComplete'
  BY <1>j DEF BlobsComplete, Pointed, WritePages
<1> QED
  BY <1>1, <1>2, <1>3, <1>6, <1>7 DEF FileInv

(* The end of a session, in order or not. *)
LEMMA QuitInv ==
    ASSUME FileInv, Quit
    PROVE  FileInv'
<1>p. TypeOK /\ Typed /\ HeadersAgree
  BY DEF FileInv
<1> USE <1>p
<1>a. pc = "idle" /\ exists /\ disk_header.next \in Nat
  BY DEF HeadersAgree, Quit, Typed, Header
<1>1. Typed'
  BY DEF Typed, Quit, counters, history
<1>2. TypeOK'
  BY <1>a DEF TypeOK, Quit, counters, history, Callers
<1>3. HeadersAgree'
  BY <1>a DEF HeadersAgree, Quit
<1>4. Grown
  BY SameIsGrown DEF Quit
<1>5. Base <= Base'
  BY <1>a DEF Base, Quit
<1>6. NoNewClaim
  BY <1>4, ClaimsFromBefore DEF Grown, Quit
<1>7. NoNewPointer
  BY <1>a DEF NoNewPointer, Pointed, Quit, history
<1> QED
  BY <1>1, <1>2, <1>3, <1>4, <1>5, <1>6, <1>7, QuietStep

LEMMA CrashInv ==
    ASSUME FileInv, Crash
    PROVE  FileInv'
<1>p. TypeOK /\ Typed /\ HeadersAgree
  BY DEF FileInv
<1> USE <1>p
<1>a. exists /\ disk_header.next \in Nat /\ disk_header # NoHeader
  BY DEF HeadersAgree, Crash, Typed, Header
<1>b. crashes' \in 0 .. MaxCrashes
  BY FileAssumption DEF TypeOK, Crash
<1>1. Typed'
  BY NoTablesFacts DEF Typed, Crash, history
<1>2. TypeOK'
  BY <1>a, <1>b DEF TypeOK, Crash, history
<1>3. HeadersAgree'
  BY <1>a DEF HeadersAgree, Crash
<1>4. Grown
  BY SameIsGrown DEF Crash
<1>5. Base <= Base'
  <2>1. Base' = disk_header.next
    BY DEF Base, Crash
  <2>2. CASE pc = "write"
    BY <1>a, <2>1, <2>2, RegionFacts
  <2>3. CASE pc # "write"
    BY <1>a, <2>1, <2>3 DEF Base
  <2> QED
    BY <2>2, <2>3
<1>6. NoNewClaim
  BY <1>4, NoJobFacts, ClaimsFromBefore DEF Grown, Crash
<1>7. NoNewPointer
  BY DEF NoNewPointer, Pointed, Crash, history
<1> QED
  BY <1>1, <1>2, <1>3, <1>4, <1>5, <1>6, <1>7, QuietStep

LEMMA InitInv == Init => FileInv
<1> SUFFICES ASSUME Init PROVE FileInv
  OBVIOUS
<1>1. NoHeader \in Header /\ << >> \in Seq(Cell)
  BY DEF NoHeader, Header
<1>2. Typed
  <2>1. inserts \in 0 .. MaxInserts
    BY FileAssumption DEF Init
  <2> QED
    BY <1>1, <2>1, NoTablesFacts, Zenon DEF Init, Typed
<1>3. TypeOK
  <2>1. io_errors \in 0 .. MaxIoErrors /\ crashes \in 0 .. MaxCrashes
    BY FileAssumption DEF Init
  <2> QED
    BY <2>1, Zenon DEF Init, TypeOK
<1>4. HeadersAgree
  BY DEF Init, HeadersAgree
<1>5. Blobs = {}
  BY DEF Init, Blobs
<1>6. ClaimsHold
  BY <1>5, NoTablesFacts, NoJobFacts DEF ClaimsHold, Claimed, Init
<1>7. BlobsComplete
  BY DEF BlobsComplete, Pointed, Init
<1> QED
  BY <1>2, <1>3, <1>4, <1>6, <1>7 DEF FileInv

LEMMA NextInv ==
    ASSUME FileInv, [Next]_vars
    PROVE  FileInv'
<1>1. CASE CreateNew
  BY <1>1, CreateNewInv
<1>2. CASE CreateNewFails
  BY <1>2, CreateNewFailsInv
<1>3. CASE Open
  BY <1>3, OpenInv
<1>4. CASE OpenWithoutHeader
  BY <1>4, OpenWithoutHeaderInv
<1>5. CASE OpenThrows
  BY <1>5, OpenThrowsInv
<1>6. CASE OpenDies
  BY <1>6, OpenDiesInv
<1>7. CASE OpenMisreads
  BY <1>7, OpenMisreadsInv
<1>8. CASE WriteBlob
  BY <1>8, WriteBlobInv
<1>9. CASE WriteBlobFails
  BY <1>9, WriteBlobFailsInv
<1>10. CASE PersistHeader
  BY <1>10, PersistHeaderInv
<1>11. CASE PersistHeaderFails
  BY <1>11, PersistHeaderFailsInv
<1>12. CASE \E t \in Table : CreateTable(t) \/ \E shape \in Shape : FlushRowGroup(t, shape)
  BY <1>12, CreateTableInv, FlushRowGroupInv
<1>13. CASE AllocatePages
  BY <1>13, AllocatePagesInv
<1>14. CASE AllocateNoPages
  BY <1>14, AllocateNoPagesInv
<1>15. CASE AllocatePagesFails
  BY <1>15, AllocatePagesFailsInv
<1>16. CASE WritePages
  BY <1>16, WritePagesInv
<1>17. CASE WritePagesFails
  BY <1>17, WritePagesFailsInv
<1>18. CASE Quit
  BY <1>18, QuitInv
<1>19. CASE Crash
  BY <1>19, CrashInv
<1>20. CASE UNCHANGED vars
  BY <1>20, StutterInv
<1> QED
  BY <1>1, <1>2, <1>3, <1>4, <1>5, <1>6, <1>7, <1>8, <1>9, <1>10, <1>11, <1>12,
     <1>13, <1>14, <1>15, <1>16, <1>17, <1>18, <1>19, <1>20, Zenon DEF Next

-----------------------------------------------------------------------------
(* The inductive invariant, at every step of every run of the program. *)
THEOREM FileInvariant == Spec => []FileInv
<1>1. FileInv /\ [Next]_vars => FileInv'
  BY NextInv
<1> QED
  BY InitInv, <1>1, PTL DEF Spec

(* The type invariant: DiskManager's headers and PersistMetadata's caller, *)
(* for every number of sessions, errors and crashes.                       *)
THEOREM FileTypes == Spec => []TypeOK
<1>1. FileInv => TypeOK
  BY DEF FileInv
<1> QED
  BY FileInvariant, <1>1, PTL

(* No page of a row group is ever written over or given out again: not by  *)
(* AllocatePages after a failed allocation, not by a blob, and not after a *)
(* crash, for the catalog in memory and for the one on disk.               *)
THEOREM RowGroupsStayIntact == Spec => []RowGroupsIntact
<1>1. FileInv => RowGroupsIntact
  <2> SUFFICES ASSUME FileInv PROVE RowGroupsIntact
    OBVIOUS
  <2>p. Typed /\ ClaimsHold
    BY DEF FileInv
  <2>1. ASSUME NEW c \in Blobs \cup {tables}, c \in Catalog, NEW g \in RowGroups(c)
        PROVE  Holds(g)
    <3>1. g \in RowGroup
      BY <2>1, RowGroupsType
    <3>2. g.id \in Nat /\ g.regions \in Seq(Region)
      BY <3>1 DEF RowGroup
    <3> SUFFICES ASSUME NEW r \in Range(g.regions)
                 PROVE  \A i \in r.start * PageUnits + 1 .. (r.start + r.count) * PageUnits :
                           i <= Len(file) /\ file[i] = <<"page", g.id, 0>>
      BY DEF Holds
    <3>3. r \in Region
      BY <3>2 DEF Range
    <3>4. Claimed(g.id, r)
      BY <2>1 DEF Claimed
    <3>5. At(g.id, r)
      BY <2>p, <3>2, <3>3, <3>4 DEF ClaimsHold
    <3> QED
      BY <3>5 DEF At
  <2>2. tables \in Catalog
    BY <2>p DEF Typed
  <2>3. disk_header # NoHeader /\ Readable(disk_header)
          => Parsed(disk_header) \in Blobs /\ Parsed(disk_header) \in Catalog
    <3> SUFFICES ASSUME Readable(disk_header)
                 PROVE  Parsed(disk_header) \in Blobs /\ Parsed(disk_header) \in Catalog
      OBVIOUS
    <3> DEFINE i == disk_header.meta + 1
    <3>1. i \in 1 .. Len(file) /\ file[i][1] = "blob" /\ Parsed(disk_header) = file[i][2]
      BY <2>p DEF Readable, Parsed, Typed, Header
    <3> HIDE DEF i
    <3>2. file[i] \in Cell /\ i \in DOMAIN file
      BY <2>p, <3>1 DEF Typed
    <3>3. file[i] \in BlobCell
      BY <3>1, <3>2 DEF Cell, PlainCell
    <3> QED
      BY <3>1, <3>2, <3>3 DEF Blobs, BlobCell
  <2> QED
    BY <2>1, <2>2, <2>3 DEF RowGroupsIntact
<1> QED
  BY FileInvariant, <1>1, PTL

LEMMA MetadataFacts == FileInv => MetadataSurvives
<1> SUFFICES ASSUME FileInv, disk_header # NoHeader, ~overwritten
             PROVE  Readable(disk_header) /\ Parsed(disk_header) = durable
  BY DEF MetadataSurvives
<1> DEFINE at == disk_header.meta
<1>1. at \in Nat /\ durable \in Catalog /\ Len(file) \in Nat
  BY DEF FileInv, Typed, Header
<1>2. Pointed(at, durable)
  BY DEF Pointed
<1>3. BlobAt(at, durable)
  BY <1>1, <1>2 DEF FileInv, BlobsComplete
<1>4. BlobUnits(durable) \in Nat \ {0}
  BY <1>1, BlobFacts
<1> HIDE DEF at
<1>5. \A i \in 1 .. BlobUnits(durable) : at + i <= Len(file) /\ file[at + i] = <<"blob", durable, i>>
  BY <1>3 DEF BlobAt
<1>6. at + 1 <= Len(file) /\ file[at + 1] = <<"blob", durable, 1>>
  BY <1>4, <1>5
<1>7. at + BlobUnits(durable) <= Len(file)
  BY <1>4, <1>5
<1>8. file[at + 1][1] = "blob" /\ file[at + 1][2] = durable /\ file[at + 1][3] = 1
  BY <1>6
<1>9. at < Len(file)
  BY <1>1, <1>6
<1> QED
  BY <1>5, <1>7, <1>8, <1>9 DEF Readable, Parsed, at

(* After a PersistMetadata that succeeded a restart finds its catalog,     *)
(* until pages are written: whatever fails or crashes in between.          *)
THEOREM MetadataStays == Spec => []MetadataSurvives
BY FileInvariant, MetadataFacts, PTL

-----------------------------------------------------------------------------
(* From the Flush that returned to the end of the run, the catalog in      *)
(* memory is the one a restart would find.                                 *)
SavedInv ==
    /\ pc = "header" => written = tables
    /\ succeeded => pc = "closed"
    /\ caller = "destructor" \/ succeeded
         => disk_header # NoHeader /\ ~overwritten /\ durable = tables

LEMMA SavedNext ==
    ASSUME TypeOK, HeadersAgree, SavedInv, [Next]_vars
    PROVE  SavedInv'
<1>a. caller = "none" \/ pc \in {"blob", "header"}
  BY DEF TypeOK
<1>b. pc # "closed" => ~succeeded /\ disk_header # NoHeader /\ header # NoHeader
  BY DEF SavedInv, HeadersAgree
<1>1. CASE CreateNew
  BY <1>1 DEF SavedInv, CreateNew
<1>2. CASE CreateNewFails
  BY <1>2, <1>a DEF SavedInv, CreateNewFails
<1>3. CASE Open \/ OpenWithoutHeader \/ OpenThrows \/ OpenDies \/ OpenMisreads
  <2>1. ~succeeded' /\ pc' # "header" /\ caller' # "destructor"
    BY <1>3, <1>a DEF Open, OpenWithoutHeader, OpenThrows, OpenDies, OpenMisreads, Opening
  <2> QED
    BY <2>1 DEF SavedInv
<1>4. CASE WriteBlob
  BY <1>4, <1>b DEF SavedInv, WriteBlob
<1>5. CASE WriteBlobFails
  BY <1>5 DEF SavedInv, WriteBlobFails, Throw, history
<1>6. CASE PersistHeader
  BY <1>6, <1>b DEF SavedInv, PersistHeader, Return
<1>7. CASE PersistHeaderFails
  <2>1. pc = "header" /\ disk_header # NoHeader /\ disk_header.next >= 1
    BY <1>7, <1>b DEF PersistHeaderFails, TypeOK, kFirstDataPageId
  <2>2. pc' # "header" /\ (succeeded' => pc' = "closed")
    BY <1>7 DEF PersistHeaderFails, Throw
  <2>3. caller' = "destructor" \/ succeeded' => caller = "destructor"
    BY <1>7 DEF PersistHeaderFails, Throw
  <2>4. disk_header' # NoHeader
    BY <1>7, <2>1 DEF PersistHeaderFails, HeaderNotWritten, NoHeader
  <2>5. durable' \in {durable, written} /\ tables' = tables /\ overwritten' = overwritten
    BY <1>7 DEF PersistHeaderFails, HeaderNotWritten
  <2> QED
    BY <2>1, <2>2, <2>3, <2>4, <2>5 DEF SavedInv
<1>8. CASE \E t \in Table : CreateTable(t) \/ \E shape \in Shape : FlushRowGroup(t, shape)
  BY <1>8, <1>a, <1>b DEF SavedInv, CreateTable, FlushRowGroup
<1>9. CASE AllocatePages \/ AllocateNoPages \/ AllocatePagesFails
  BY <1>9, <1>a, <1>b DEF SavedInv, AllocatePages, AllocateNoPages, AllocatePagesFails, Abandon
<1>10. CASE WritePages \/ WritePagesFails
  BY <1>10, <1>a, <1>b DEF SavedInv, WritePages, WritePagesFails, Abandon
<1>11. CASE Quit
  BY <1>11, <1>b DEF SavedInv, Quit
<1>12. CASE Crash
  BY <1>12, <1>b DEF SavedInv, Crash
<1>13. CASE UNCHANGED vars
  BY <1>13 DEF SavedInv, vars, history
<1> QED
  BY <1>1, <1>2, <1>3, <1>4, <1>5, <1>6, <1>7, <1>8, <1>9, <1>10, <1>11, <1>12, <1>13,
     Zenon DEF Next

(* main's exit code can be trusted: 0 means that Flush returned, and the   *)
(* catalog it wrote is still the one a restart finds after ~Catalog has    *)
(* persisted once more or failed to, for any number of earlier failures.   *)
THEOREM SuccessIsAlwaysSaved == Spec => []SuccessIsSaved
<1>1. Init => SavedInv
  BY DEF Init, SavedInv
<1>2. FileInv /\ SavedInv /\ [Next]_vars => SavedInv'
  BY SavedNext DEF FileInv
<1>3. FileInv /\ SavedInv => SuccessIsSaved
  BY MetadataFacts DEF SavedInv, MetadataSurvives, SuccessIsSaved
<1> QED
  BY FileInvariant, <1>1, <1>2, <1>3, PTL DEF Spec

-----------------------------------------------------------------------------
(* Refinement of CatalogStore.  Until a system call fails or a session     *)
(* crashes, the catalog in memory is what the file holds between sessions, *)
(* and the row groups in it have ids of their own.                         *)
Calm == io_errors = 0 /\ crashes = 0
Orderly ==
    /\ exists => disk_header # NoHeader
    /\ pc = "closed" /\ exists => ~overwritten /\ durable = tables
    /\ caller # "failed_open"
    /\ pc = "header" => written = tables
    /\ \A g \in RowGroups(tables) : g.id \in 1 .. inserts
    /\ job # NoJob => /\ job.id = inserts /\ inserts >= 1
                      /\ \A g \in RowGroups(tables) : g.id # inserts
CalmInv == Calm => Orderly

(* An error or a crash ends the calm. *)
LEMMA CalmBefore ==
    ASSUME TypeOK, [Next]_vars, Calm'
    PROVE  Calm
<1>1. io_errors \in Nat /\ crashes \in Nat
  BY DEF TypeOK
<1>2. io_errors' \in {io_errors, io_errors + 1} /\ crashes' \in {crashes, crashes + 1}
  BY Zenon DEF Next, vars, counters, CreateNew, CreateNewFails, Open, OpenWithoutHeader, OpenThrows,
     OpenDies, OpenMisreads, WriteBlob, WriteBlobFails, PersistHeader, PersistHeaderFails,
     CreateTable, FlushRowGroup, AllocatePages, AllocateNoPages, AllocatePagesFails,
     WritePages, WritePagesFails, Quit, Crash, Fail
<1> QED
  BY <1>1, <1>2 DEF Calm

(* The catalog a row group is added to. *)
LEMMA AddedRowGroup ==
    ASSUME TypeOK, Typed, HeadersAgree, WritePages, tables' # tables
    PROVE  /\ job.table \in Table /\ tables[job.table] \in Seq(RowGroup)
           /\ \E g \in RowGroup :
                 /\ g.id = job.id
                 /\ tables' = [tables EXCEPT ![job.table] = Append(@, g)]
           /\ job' = NoJob /\ pc' = "idle"
<1>1. /\ job.table \in Table /\ job.id \in Nat /\ job.done \in Seq(Region)
      /\ tables[job.table] \in Seq(RowGroup)
  BY JobFacts DEF WritePages
<1> DEFINE g == [id |-> job.id, regions |-> Done]
<1>2. tables' = [tables EXCEPT ![job.table] = Append(@, g)] /\ job' = NoJob /\ pc' = "idle"
  BY Zenon DEF WritePages, Abandon
<1>3. Done \in Seq(Region)
  <2>1. Start \in Nat /\ Head(job.todo) \in Nat
    BY RegionFacts DEF WritePages
  <2>2. [start |-> Start, count |-> Head(job.todo)] \in Region
    BY <2>1 DEF Region
  <2> QED
    BY <1>1, <2>2, AppendedRange DEF Done
<1>4. g \in RowGroup /\ g.id = job.id
  BY <1>1, <1>3 DEF RowGroup
<1> HIDE DEF g
<1> QED
  BY <1>1, <1>2, <1>4, Zenon

LEMMA CalmNext ==
    ASSUME FileInv, FileInv', CalmInv, [Next]_vars
    PROVE  CalmInv'
<1> SUFFICES ASSUME Calm'
             PROVE  Orderly'
  BY DEF CalmInv
<1>p. /\ TypeOK /\ Typed /\ HeadersAgree /\ HeadersAgree' /\ MetadataSurvives
      /\ inserts \in Nat /\ tables \in Catalog
  BY MetadataFacts DEF FileInv, Typed
<1> USE <1>p
<1>q. Calm /\ Orderly
  BY CalmBefore DEF CalmInv
<1>r. io_errors = 0 /\ crashes = 0 /\ io_errors' = 0 /\ crashes' = 0
  BY <1>q DEF Calm
<1>s. pc = "closed" /\ exists => disk_header # NoHeader /\ Readable(disk_header) /\ Parsed(disk_header) = tables
  BY <1>q DEF Orderly, MetadataSurvives
<1>1. CASE CreateNew
  <2>1. disk_header' # NoHeader
    BY <1>1 DEF HeadersAgree, CreateNew
  <2> QED
    BY <1>1, <1>q, <2>1 DEF CreateNew, Orderly
<1>2. CASE Open
  <2>1. tables' = tables
    BY <1>2, <1>s DEF Open, Opening
  <2> QED
    BY <1>2, <1>q, <2>1 DEF Open, Opening, Orderly
<1>3. CASE OpenWithoutHeader \/ OpenThrows \/ OpenDies \/ OpenMisreads
  BY <1>3, <1>r, <1>s DEF OpenWithoutHeader, OpenThrows, OpenDies, OpenMisreads, Opening
<1>4. CASE WriteBlob
  BY <1>4, <1>q DEF WriteBlob, counters, Orderly
<1>5. CASE PersistHeader
  <2>1. pc = "header" /\ exists /\ written = tables /\ disk_header' # NoHeader
    BY <1>5, <1>q DEF PersistHeader, Orderly, HeadersAgree
  <2>2. pc' # "header" /\ caller' # "failed_open"
    BY <1>5, <1>q DEF PersistHeader, Return, Orderly
  <2> QED
    BY <1>5, <1>q, <2>1, <2>2 DEF PersistHeader, counters, Orderly
<1>6. CASE \E t \in Table : CreateTable(t)
  <2>1. PICK t \in Table : CreateTable(t)
    BY <1>6
  <2>2. RowGroups(tables') \subseteq RowGroups(tables)
    BY <2>1, CreatedTable, Zenon DEF CreateTable
  <2>3. job = NoJob
    BY <2>1 DEF CreateTable, TypeOK
  <2> QED
    BY <1>q, <2>1, <2>2, <2>3, Zenon DEF CreateTable, counters, history, Orderly
<1>7. CASE \E t \in Table, shape \in Shape : FlushRowGroup(t, shape)
  <2>1. PICK t \in Table, shape \in Shape : FlushRowGroup(t, shape)
    BY <1>7
  <2>2. inserts' = inserts + 1 /\ tables' = tables /\ job'.id = inserts' /\ pc' = "allocate"
    BY <2>1 DEF FlushRowGroup
  <2>3. \A g \in RowGroups(tables) : g.id \in 1 .. inserts
    BY <1>q DEF Orderly
  <2>4. \A g \in RowGroups(tables) : g.id \in 1 .. inserts' /\ g.id # inserts'
    BY <2>2, <2>3
  <2> QED
    BY <1>q, <2>1, <2>2, <2>4 DEF FlushRowGroup, Orderly
<1>8. CASE AllocatePages
  <2>1. disk_header' # NoHeader /\ pc' = "write"
    BY <1>8 DEF AllocatePages, HeadersAgree
  <2> QED
    BY <1>8, <1>q, <2>1 DEF AllocatePages, counters, Orderly
<1>9. CASE AllocateNoPages
  BY <1>9, <1>q DEF AllocateNoPages, Abandon, counters, history, Orderly
<1>10. CASE WritePages
  <2>1. pc' \in {"idle", "allocate"} /\ job # NoJob
    BY <1>10, JobFacts DEF WritePages, Abandon
  <2>0. UNCHANGED <<exists, disk_header, caller, inserts>>
    BY <1>10, Zenon DEF WritePages, counters
  <2>2. CASE tables' = tables
    <3>1. job' = NoJob \/ job'.id = job.id
      BY <1>10, Zenon DEF WritePages, Abandon, Typed, Job
    <3> QED
      BY <1>q, <2>0, <2>1, <2>2, <3>1 DEF Orderly
  <2>3. CASE tables' # tables
    <3>1. PICK g \in RowGroup : g.id = job.id /\ tables' = [tables EXCEPT ![job.table] = Append(@, g)]
      BY <1>10, <2>3, AddedRowGroup
    <3>2. RowGroups(tables') \subseteq RowGroups(tables) \cup {g}
      BY <1>10, <2>3, <3>1, AddedRowGroup, RowGroupAdded, Zenon
    <3>3. job' = NoJob
      BY <1>10, <2>3, AddedRowGroup
    <3>4. g.id \in 1 .. inserts
      BY <1>q, <2>1, <3>1 DEF Orderly
    <3> QED
      BY <1>q, <2>0, <2>1, <3>2, <3>3, <3>4 DEF Orderly
  <2> QED
    BY <2>2, <2>3
<1>11. CASE Quit
  BY <1>11, <1>q DEF Quit, counters, history, Orderly
<1>12. CASE UNCHANGED vars
  BY <1>12, <1>q DEF vars, counters, history, Orderly
<1>13. CASE \/ CreateNewFails \/ WriteBlobFails \/ PersistHeaderFails \/ AllocatePagesFails
            \/ WritePagesFails \/ Crash
  BY <1>13, <1>r DEF CreateNewFails, WriteBlobFails, PersistHeaderFails, AllocatePagesFails,
     WritePagesFails, Crash, Fail
<1> QED
  BY <1>1, <1>2, <1>3, <1>4, <1>5, <1>6, <1>7, <1>8, <1>9, <1>10, <1>11, <1>12, <1>13, Zenon DEF Next

LEMMA CalmInit == Init => CalmInv
<1> SUFFICES ASSUME Init PROVE Orderly
  BY DEF CalmInv
<1>1. RowGroups(tables) = {}
  BY NoTablesFacts DEF Init
<1> QED
  BY <1>1 DEF Init, Orderly

(* What CREATE TABLE and INSERT do to the catalog's row group numbers. *)
LEMMA RowGroupIds ==
    ASSUME NEW s \in Seq(RowGroup)
    PROVE  /\ \A i \in 1 .. Len(s) : s[i].id \in Nat
           /\ [i \in DOMAIN s |-> s[i].id] \in Seq(Nat)
           /\ Len([i \in DOMAIN s |-> s[i].id]) = Len(s)
<1>1. \A g \in RowGroup : g.id \in Nat
  BY DEF RowGroup
<1>2. \A i \in 1 .. Len(s) : s[i] \in RowGroup
  OBVIOUS
<1>3. \A i \in 1 .. Len(s) : s[i].id \in Nat
  BY <1>1, <1>2, Zenon
<1> QED
  BY <1>3

LEMMA IdsCreated ==
    ASSUME NEW c \in Catalog, NEW t \in Table
    PROVE  Ids([c EXCEPT ![t] = << >>]) = [Ids(c) EXCEPT ![t] = << >>]
<1> DEFINE none == << >>
           d == [c EXCEPT ![t] = none]
           ids == [i \in DOMAIN none |-> none[i].id]
<1>1. none \in Seq(RowGroup) /\ DOMAIN none = {}
  OBVIOUS
<1>2. ids = none
  <2>1. ids \in Seq(Nat) /\ Len(ids) = 0
    BY <1>1
  <2> QED
    BY <2>1
<1>3. none # NoTable
  BY <1>1, FileAssumption, Zenon
<1>4. d[t] = none /\ \A u \in Table \ {t} : d[u] = c[u]
  BY DEF Catalog
<1> HIDE DEF none, d, ids
<1>5. Ids(d)[t] = none
  BY <1>2, <1>3, <1>4, Zenon DEF Ids, ids
<1>6. \A u \in Table \ {t} : Ids(d)[u] = Ids(c)[u]
  BY <1>4, Zenon DEF Ids
<1>7. Ids(d) = [u \in Table |-> Ids(d)[u]] /\ Ids(c) = [u \in Table |-> Ids(c)[u]]
  BY Zenon DEF Ids
<1>8. Ids(d) = [Ids(c) EXCEPT ![t] = none]
  BY <1>5, <1>6, <1>7
<1> QED
  BY <1>8 DEF d, none

LEMMA IdsAdded ==
    ASSUME NEW c \in Catalog, NEW t \in Table, NEW g \in RowGroup, c[t] \in Seq(RowGroup)
    PROVE  /\ Ids(c)[t] # NoTable
           /\ Ids([c EXCEPT ![t] = Append(@, g)]) = [Ids(c) EXCEPT ![t] = Append(@, g.id)]
<1> DEFINE new == Append(c[t], g)
           d == [c EXCEPT ![t] = new]
           Old == [i \in DOMAIN c[t] |-> c[t][i].id]
           New == [i \in DOMAIN new |-> new[i].id]
<1>n. NoTable \notin Seq(RowGroup) /\ NoTable \notin Seq(Nat)
  BY FileAssumption
<1>1. c[t] # NoTable
  BY <1>n, Zenon
<1>2. new \in Seq(RowGroup) /\ new # NoTable
  BY <1>n
<1>3. Old \in Seq(Nat) /\ Len(Old) = Len(c[t]) /\ g.id \in Nat
  <2>1. g.id \in Nat
    BY DEF RowGroup
  <2> QED
    BY <2>1, RowGroupIds, Zenon
<1>4. Ids(c)[t] = Old /\ Old # NoTable
  BY <1>n, <1>1, <1>3, Zenon DEF Ids
<1>5. New = Append(Old, g.id)
  <2>1. Len(new) = Len(c[t]) + 1 /\ DOMAIN new = 1 .. Len(c[t]) + 1
    OBVIOUS
  <2>2. New \in Seq(Nat) /\ Len(New) = Len(c[t]) + 1
    <3> HIDE DEF new
    <3>1. New \in Seq(Nat) /\ Len(New) = Len(new)
      BY <1>2, RowGroupIds, Zenon
    <3> QED
      BY <2>1, <3>1, Zenon
  <2>3. ASSUME NEW i \in 1 .. Len(c[t]) + 1
        PROVE  New[i] = Append(Old, g.id)[i]
    <3>1. CASE i = Len(c[t]) + 1
      <4>1. new[i] = g /\ New[i] = new[i].id
        BY <3>1, <2>1
      <4>2. Append(Old, g.id)[i] = g.id
        BY <3>1, <1>3
      <4> QED
        BY <4>1, <4>2
    <3>2. CASE i # Len(c[t]) + 1
      <4>1. i \in 1 .. Len(c[t]) /\ new[i] = c[t][i] /\ New[i] = new[i].id
        BY <3>2, <2>1
      <4>2. Append(Old, g.id)[i] = Old[i] /\ Old[i] = c[t][i].id
        BY <4>1, <1>3
      <4> QED
        BY <4>1, <4>2
    <3> QED
      BY <3>1, <3>2
  <2>4. Append(Old, g.id) \in Seq(Nat) /\ Len(Append(Old, g.id)) = Len(c[t]) + 1
    BY <1>3
  <2> HIDE DEF New, Old
  <2> QED
    BY <2>2, <2>3, <2>4, SeqEqual, Zenon
<1>6. d[t] = new /\ \A u \in Table \ {t} : d[u] = c[u]
  BY DEF Catalog
<1> HIDE DEF new, d, Old
<1>7. Ids(d)[t] = Append(Ids(c)[t], g.id)
  <2>1. Ids(d)[t] = New
    BY <1>2, <1>6, Zenon DEF Ids
  <2> QED
    BY <2>1, <1>4, <1>5, Zenon
<1>8. \A u \in Table \ {t} : Ids(d)[u] = Ids(c)[u]
  BY <1>6, Zenon DEF Ids
<1>9. Ids(d) = [u \in Table |-> Ids(d)[u]] /\ Ids(c) = [u \in Table |-> Ids(c)[u]]
  BY Zenon DEF Ids
<1>10. Ids(d) = [Ids(c) EXCEPT ![t] = Append(@, g.id)]
  BY <1>7, <1>8, <1>9, Zenon
<1>11. d = [c EXCEPT ![t] = Append(@, g)]
  BY DEF d, new
<1> QED
  BY <1>4, <1>10, <1>11

(* The catalog in the file is the one of the session before. *)
CalmContents == Calm => Contents = tables
LEMMA ContentsFacts == FileInv /\ CalmInv => CalmContents
<1> SUFFICES ASSUME FileInv, CalmInv, Calm
             PROVE  Contents = tables
  BY DEF CalmContents
<1>1. Orderly /\ HeadersAgree /\ TypeOK /\ MetadataSurvives
  BY MetadataFacts DEF CalmInv, FileInv
<1>2. CASE pc # "closed"
  BY <1>2 DEF Contents
<1>3. CASE pc = "closed" /\ exists
  <2>1. disk_header # NoHeader /\ Readable(disk_header) /\ Parsed(disk_header) = tables
    BY <1>1, <1>3 DEF Orderly, MetadataSurvives
  <2> QED
    BY <1>3, <2>1 DEF Contents
<1>4. CASE pc = "closed" /\ ~exists
  BY <1>1, <1>4 DEF HeadersAgree, TypeOK, Contents
<1> QED
  BY <1>2, <1>3, <1>4

(* What a step does to the catalog while nothing has failed. *)
LEMMA CalmStep ==
    ASSUME FileInv, CalmInv, Calm', [Next]_vars
    PROVE  \/ tables' = tables
           \/ \E t \in Table : tables[t] = NoTable /\ tables' = [tables EXCEPT ![t] = << >>]
           \/ \E t \in Table, g \in RowGroup :
                 /\ tables[t] \in Seq(RowGroup) /\ g.id \in 1 .. MaxInserts
                 /\ \A h \in RowGroups(tables) : h.id # g.id
                 /\ tables' = [tables EXCEPT ![t] = Append(@, g)]
<1>p. TypeOK /\ Typed /\ HeadersAgree /\ MetadataSurvives /\ Calm /\ Orderly
  BY MetadataFacts, CalmBefore DEF FileInv, CalmInv
<1> USE <1>p
<1>1. CASE Open \/ OpenWithoutHeader \/ OpenThrows \/ OpenDies \/ OpenMisreads
  <2>1. pc = "closed" /\ exists
    BY <1>1 DEF Open, OpenWithoutHeader, OpenThrows, OpenDies, OpenMisreads, Opening
  <2>2. disk_header # NoHeader /\ Readable(disk_header) /\ Parsed(disk_header) = tables
    BY <2>1 DEF Orderly, MetadataSurvives
  <2>3. CASE Open
    BY <2>2, <2>3, Zenon DEF Open
  <2>4. CASE OpenThrows
    BY <2>2, <2>4 DEF OpenThrows, Calm
  <2>5. CASE OpenWithoutHeader \/ OpenDies \/ OpenMisreads
    BY <2>2, <2>5, Zenon DEF OpenWithoutHeader, OpenDies, OpenMisreads
  <2> QED
    BY <1>1, <2>3, <2>4, <2>5, Zenon
<1>2. CASE \E t \in Table : CreateTable(t)
  BY <1>2, Zenon DEF CreateTable
<1>3. CASE WritePages
  <2>1. CASE tables' # tables
    <3>1. PICK g \in RowGroup : g.id = job.id /\ tables' = [tables EXCEPT ![job.table] = Append(@, g)]
      BY <1>3, <2>1, AddedRowGroup, Zenon
    <3>2. job.table \in Table /\ tables[job.table] \in Seq(RowGroup)
      BY <1>3, <2>1, AddedRowGroup, Zenon
    <3>3. job # NoJob /\ inserts \in 0 .. MaxInserts
      BY <1>3 DEF WritePages, TypeOK, Typed
    <3>4. g.id = inserts /\ inserts >= 1 /\ \A h \in RowGroups(tables) : h.id # inserts
      BY <3>1, <3>3 DEF Orderly
    <3>5. g.id \in 1 .. MaxInserts /\ \A h \in RowGroups(tables) : h.id # g.id
      BY <3>3, <3>4, FileAssumption
    <3> QED
      BY <3>1, <3>2, <3>5, Zenon
  <2> QED
    BY <2>1
<1>4. CASE \/ CreateNew \/ WriteBlob \/ PersistHeader \/ AllocatePages \/ AllocateNoPages
           \/ Quit \/ UNCHANGED vars
           \/ \E t \in Table, shape \in Shape : FlushRowGroup(t, shape)
  BY <1>4, Zenon DEF CreateNew, WriteBlob, PersistHeader, AllocatePages, AllocateNoPages,
     Quit, vars, FlushRowGroup
<1>5. CASE \/ CreateNewFails \/ WriteBlobFails \/ PersistHeaderFails \/ AllocatePagesFails
           \/ WritePagesFails \/ Crash
  BY <1>5 DEF Calm, CreateNewFails, WriteBlobFails, PersistHeaderFails, AllocatePagesFails,
     WritePagesFails, Crash, Fail
<1> QED
  BY <1>1, <1>2, <1>3, <1>4, <1>5, Zenon DEF Next

LEMMA CatalogStep ==
    ASSUME FileInv, FileInv', CalmInv, CalmContents, CalmContents', [Next]_vars
    PROVE  [CS!Next]_(CS!vars)
<1> DEFINE faulty == io_errors + crashes > 0
<1>p. /\ io_errors \in Nat /\ crashes \in Nat /\ io_errors' \in Nat /\ crashes' \in Nat
      /\ tables \in Catalog
  BY FileAssumption DEF FileInv, TypeOK, Typed
<1>1. CASE ~Calm'
  <2>1. io_errors' # 0 \/ crashes' # 0
    BY <1>1 DEF Calm
  <2>2. io_errors' + crashes' > 0
    <3>1. \A x, y \in Nat : x # 0 \/ y # 0 => x + y > 0
      OBVIOUS
    <3> QED
      BY <1>p, <2>1, <3>1, Zenon
  <2>3. faulty' = TRUE
    BY <2>2
  <2> QED
    BY <2>3 DEF CS!Next
<1>2. CASE Calm'
  <2>1. Calm
    BY <1>2, CalmBefore DEF FileInv
  <2>r. io_errors = 0 /\ crashes = 0 /\ io_errors' = 0 /\ crashes' = 0
    BY <1>2, <2>1 DEF Calm
  <2>s. ~(io_errors + crashes > 0) /\ ~(io_errors' + crashes' > 0)
    BY <2>r
  <2>2. faulty = FALSE /\ faulty' = FALSE
    BY <2>s
  <2>3. Contents = tables /\ Contents' = tables'
    BY <1>2, <2>1 DEF CalmContents
  <2>4. Ids(Contents) = Ids(tables) /\ Ids(Contents)' = Ids(tables')
    <3>1. Ids(Contents)' = Ids(Contents')
      BY Zenon DEF Ids
    <3> QED
      BY <2>3, <3>1, Zenon
  <2>5. CASE tables' = tables
    <3>1. Ids(Contents)' = Ids(Contents)
      BY <2>4, <2>5
    <3> QED
      BY <2>2, <3>1 DEF CS!vars
  <2>6. ASSUME NEW t \in Table, tables[t] = NoTable, tables' = [tables EXCEPT ![t] = << >>]
        PROVE  CS!Next
    <3>1. Ids(tables') = [Ids(tables) EXCEPT ![t] = << >>]
      BY <1>p, <2>6, IdsCreated, Zenon
    <3>2. Ids(tables)[t] = NoTable
      BY <2>6 DEF Ids
    <3>3. CS!CreateTable(t)
      BY <2>4, <3>1, <3>2 DEF CS!CreateTable
    <3> QED
      BY <2>2, <3>3 DEF CS!Next
  <2>7. ASSUME NEW t \in Table, NEW g \in RowGroup, tables[t] \in Seq(RowGroup),
               g.id \in 1 .. MaxInserts, \A h \in RowGroups(tables) : h.id # g.id,
               tables' = [tables EXCEPT ![t] = Append(@, g)]
        PROVE  CS!Next
    <3>1. Ids(tables)[t] # NoTable /\ Ids(tables') = [Ids(tables) EXCEPT ![t] = Append(@, g.id)]
      BY <1>p, <2>7, IdsAdded, Zenon
    <3>2. ASSUME NEW u \in Table, Ids(tables)[u] # NoTable, NEW i \in DOMAIN Ids(tables)[u]
          PROVE  Ids(tables)[u][i] # g.id
      <4>1. tables[u] # NoTable
        BY <3>2, Zenon DEF Ids
      <4>2. Ids(tables)[u] = [j \in DOMAIN tables[u] |-> tables[u][j].id]
        BY <4>1, Zenon DEF Ids
      <4>3. i \in DOMAIN tables[u] /\ Ids(tables)[u][i] = tables[u][i].id
        BY <3>2, <4>2, Zenon
      <4>4. tables[u][i] \in RowGroups(tables)
        <5>1. tables[u][i] \in Range(tables[u])
          BY <4>3 DEF Range
        <5> QED
          BY <4>1, <5>1 DEF RowGroups
      <4> QED
        BY <2>7, <4>3, <4>4, Zenon
    <3>3. CS!AddRowGroup(t, g.id)
      BY <2>4, <3>1, <3>2 DEF CS!AddRowGroup
    <3> QED
      BY <2>2, <2>7, <3>3 DEF CS!Next
  <2> QED
    BY <1>2, <2>5, <2>6, <2>7, CalmStep, Zenon
<1> QED
  BY <1>1, <1>2

(* Until a system call fails or a session crashes the database file is a   *)
(* catalog of tables and row groups that only grows, the same in every     *)
(* session: CreateTable and the last WritePages of FlushRowGroup are the   *)
(* only steps that show, and Open finds what the session before it left.   *)
THEOREM FileRefinesCatalogStore == Spec => ImplementsCatalogStore
<1>1. Init => CS!Init
  <2> SUFFICES ASSUME Init PROVE CS!Init
    OBVIOUS
  <2>1. Contents = NoTables
    BY DEF Init, Contents
  <2>2. Ids(NoTables) = [t \in Table |-> NoTable]
    BY Zenon DEF Ids, NoTables
  <2>3. (io_errors + crashes > 0) = FALSE
    BY DEF Init
  <2> QED
    BY <2>1, <2>2, <2>3 DEF CS!Init
<1>2. Spec => []CalmInv
  BY FileInvariant, CalmInit, CalmNext, PTL DEF Spec
<1>3. Spec => []CalmContents
  BY <1>2, FileInvariant, ContentsFacts, PTL
<1> QED
  BY <1>1, <1>2, <1>3, FileInvariant, CatalogStep, PTL DEF Spec, ImplementsCatalogStore, CS!Spec
=============================================================================
