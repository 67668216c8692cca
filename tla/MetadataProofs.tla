--------------------------- MODULE MetadataProofs ---------------------------
(***************************************************************************)
(* What TLAPS proves of Metadata: for every set of releases and tables,    *)
(* every batch size and every number of kills, the catalog is whole, its   *)
(* figures are those of the rows, and the whole implements Reports.        *)
(*                                                                         *)
(* The argument: each cache says nothing but the truth about the table it  *)
(* names (Caches), each step has in memory what belongs to the release it  *)
(* reports (Memory), and a map in place is that of the table pipeline.json *)
(* names, or it was just drawn, or it is doubtful.  What the figures mean  *)
(* (FiguresCorrect) rests on lemmas about sums, powers and counts alone.   *)
(***************************************************************************)
EXTENDS Metadata, FiniteSetTheorems, SequenceTheorems, WellFoundedInduction, TLAPS

Located == release \in Releases /\ step \in Steps /\ copies \subseteq Packaged

\* A row is in the transaction at its place in the table.
CatalogRowSet == {CatalogRow(row) : row \in UNION {{Rows(t)[n] : n \in DOMAIN Rows(t)} : t \in Tables}}
Partial ==
  step = "index" =>
    LET rows == RowsOf(Table)
    IN /\ Table \in Tables
       /\ transaction \in Seq(CatalogRowSet) /\ Len(transaction) <= Len(rows)
       /\ \A n \in 1..Len(transaction) : transaction[n] = CatalogRow(rows[n])

Caches ==
  /\ CatalogIsWhole
  /\ shardCache # None /\ shardCache.schema = Schema
       => shardCache.cells = Cells(RowsOf(shardCache.table))
  /\ \/ map = None \/ drawn \/ doubtful
     \/ map = Cells(RowsOf(pipelineCache.table))

FiguresOf(r) ==
  [dataset |-> DatasetStatistics(CatalogRows(RowsOf(TableOf(r)))),
   assets |-> AssetStatistics(Images(r), Links(r))]
AfterMap == {"shards", "pipeline", "copies", "statistics", "card", "return"}

Memory ==
  /\ step = "figures" => catalog.table = Table
  /\ step \in {"map"} \cup AfterMap => figures = FiguresOf(release)
  /\ step \in AfterMap => cells = MapOf(release) /\ (map = MapOf(release) \/ doubtful)
  /\ drawn => step \in {"shards", "pipeline"}

Written ==
  /\ step \in {"statistics", "card", "return"} => copies = Packaged
  /\ step \in {"card", "return"} => statistics = StatisticsOf(release)
  /\ step = "return" => card = StatisticsOf(release)

IInv == Located /\ Partial /\ Caches /\ Memory /\ Written

(***************************************************************************)
(* Rows of the catalog, batch by batch.                                    *)
(***************************************************************************)

LEMMA RowsLemma ==
  ASSUME NEW t \in Tables
  PROVE  /\ RowsOf(t) = Rows(t) /\ Len(Rows(t)) \in Nat /\ DOMAIN Rows(t) = 1..Len(Rows(t))
         /\ \A n \in 1..Len(Rows(t)) : CatalogRow(Rows(t)[n]) \in CatalogRowSet
<1> DEFINE S == {Rows(t)[n] : n \in DOMAIN Rows(t)}
<1>1. Rows(t) \in Seq(S)
  BY RowsAssumption
<1>2. Len(Rows(t)) \in Nat /\ DOMAIN Rows(t) = 1..Len(Rows(t))
  BY <1>1, LenProperties
<1>3. \A n \in 1..Len(Rows(t)) : Rows(t)[n] \in S
  BY <1>1, ElementOfSeq
<1>4. RowsOf(t) = Rows(t)
  BY DEF RowsOf, Tables
<1> QED
  BY <1>2, <1>3, <1>4 DEF CatalogRowSet

LEMMA EmptyCatalogLemma == CatalogRows(RowsOf(NoTable)) = <<>>
<1>1. RowsOf(NoTable) = <<>>
  BY DEF RowsOf
<1>2. CatalogRows(<<>>) = <<>>
  BY DEF CatalogRows
<1> QED
  BY <1>1, <1>2

LEMMA PieceLemma ==
  ASSUME NEW S, NEW s \in Seq(S), NEW m \in Nat, NEW n \in Nat, m < n, n <= Len(s)
  PROVE  /\ SubSeq(s, m + 1, n) \in Seq(S) /\ Len(SubSeq(s, m + 1, n)) = n - m
         /\ DOMAIN SubSeq(s, m + 1, n) = 1..(n - m)
         /\ \A i \in 1..(n - m) : SubSeq(s, m + 1, n)[i] = s[m + i]
<1>1. Len(s) \in Nat /\ m + 1 \in Int /\ n \in Int
  BY LenProperties
<1>2. \A i \in (m + 1)..n : s[i] \in S
  BY <1>1, ElementOfSeq
<1>3. /\ SubSeq(s, m + 1, n) \in Seq(S)
      /\ Len(SubSeq(s, m + 1, n)) = IF m + 1 <= n THEN n - (m + 1) + 1 ELSE 0
      /\ \A i \in 1..(n - (m + 1) + 1) : SubSeq(s, m + 1, n)[i] = s[m + 1 + i - 1]
  BY <1>1, <1>2, SubSeqProperties
<1>4. Len(SubSeq(s, m + 1, n)) = n - m
  BY <1>3, <1>1
<1>5. DOMAIN SubSeq(s, m + 1, n) = 1..(n - m)
  BY <1>3, <1>4, LenProperties
<1>6. \A i \in 1..(n - m) : m + 1 + i - 1 = m + i
  BY <1>1
<1> QED
  BY <1>3, <1>4, <1>5, <1>6, n - (m + 1) + 1 = n - m

\* The next batch goes on where the transaction stands.
LEMMA BatchLemma ==
  ASSUME NEW t \in Tables, NEW done \in Seq(CatalogRowSet), Len(done) < Len(RowsOf(t)),
         \A n \in 1..Len(done) : done[n] = CatalogRow(RowsOf(t)[n]),
         NEW next, next = done \o CatalogRows(Batch(RowsOf(t), Len(done)))
  PROVE  /\ next \in Seq(CatalogRowSet) /\ Len(next) <= Len(RowsOf(t))
         /\ \A n \in 1..Len(next) : next[n] = CatalogRow(RowsOf(t)[n])
<1> DEFINE rows == RowsOf(t)
           read == Len(done)
           last == IF read + BatchSize < Len(rows) THEN read + BatchSize ELSE Len(rows)
           batch == SubSeq(rows, read + 1, last)
           S == {rows[n] : n \in DOMAIN rows}
           more == CatalogRows(batch)
<1>1. /\ read \in Nat /\ Len(rows) \in Nat /\ BatchSize \in Nat \ {0}
      /\ DOMAIN rows = 1..Len(rows)
      /\ \A n \in 1..Len(rows) : CatalogRow(rows[n]) \in CatalogRowSet
  BY RowsLemma, LenProperties, SizeAssumption
<1>2. last \in Nat /\ read < last /\ last <= Len(rows)
  BY <1>1
<1>3. rows \in Seq(S)
  BY RowsAssumption, RowsLemma
<1>4. /\ DOMAIN batch = 1..(last - read)
      /\ \A n \in 1..(last - read) : batch[n] = rows[read + n]
  <2> HIDE DEF rows, read, last, S
  <2> QED
    BY <1>1, <1>2, <1>3, PieceLemma
<1>5. /\ more \in Seq(CatalogRowSet) /\ Len(more) = last - read
      /\ \A n \in 1..(last - read) : more[n] = CatalogRow(rows[read + n])
  <2> HIDE DEF rows, read, last, batch
  <2>1. more = [n \in 1..(last - read) |-> CatalogRow(batch[n])]
    BY <1>4 DEF CatalogRows
  <2>2. \A n \in 1..(last - read) : CatalogRow(batch[n]) = CatalogRow(rows[read + n])
    BY <1>4
  <2>3. \A n \in 1..(last - read) : CatalogRow(batch[n]) \in CatalogRowSet
    <3>1. \A n \in 1..(last - read) : read + n \in 1..Len(rows)
      BY <1>1, <1>2
    <3> QED
      BY <1>1, <2>2, <3>1
  <2> HIDE DEF more
  <2>4. more \in [1..(last - read) -> CatalogRowSet] /\ last - read \in Nat
    BY <2>1, <2>3, <1>1, <1>2
  <2>5. more \in Seq(CatalogRowSet) /\ Len(more) = last - read
    BY <2>4
  <2> QED
    BY <2>1, <2>2, <2>5
<1>6. next = done \o more
  BY DEF Batch
<1> HIDE DEF more, batch, rows, last, read
<1>7. /\ next \in Seq(CatalogRowSet) /\ Len(next) = Len(done) + Len(more)
      /\ \A n \in 1..(Len(done) + Len(more)) :
           next[n] = IF n <= Len(done) THEN done[n] ELSE more[n - Len(done)]
  <2>1. done \in Seq(CatalogRowSet) /\ more \in Seq(CatalogRowSet)
    BY <1>5
  <2>2. /\ done \o more \in Seq(CatalogRowSet) /\ Len(done \o more) = Len(done) + Len(more)
        /\ \A n \in 1..(Len(done) + Len(more)) :
             (done \o more)[n] = IF n <= Len(done) THEN done[n] ELSE more[n - Len(done)]
    BY <2>1, ConcatProperties, Zenon
  <2> QED
    BY <1>6, <2>2, Zenon
<1>8. Len(next) = last
  BY <1>1, <1>2, <1>5, <1>7 DEF read
<1>9. ASSUME NEW n \in 1..Len(next)
      PROVE  next[n] = CatalogRow(rows[n])
  <2>1. CASE n <= Len(done)
    BY <2>1, <1>1, <1>5, <1>7 DEF read, rows
  <2>2. CASE n > Len(done)
    <3>1. n - read \in 1..(last - read) /\ read + (n - read) = n
      BY <2>2, <1>1, <1>2, <1>8 DEF read
    <3>2. next[n] = more[n - read]
      BY <2>2, <1>1, <1>2, <1>5, <1>7, <1>8 DEF read
    <3> QED
      BY <3>1, <3>2, <1>5
  <2> QED
    BY <2>1, <2>2, <1>1, <1>2, <1>8 DEF read
<1> QED
  BY <1>2, <1>7, <1>8, <1>9 DEF rows

(***************************************************************************)
(* The invariant, action by action.                                        *)
(***************************************************************************)

LEMMA InitInv == Init => IInv
<1> SUFFICES ASSUME Init PROVE IInv
  OBVIOUS
<1> USE DEF Init
<1>1. Located
  BY DEF Located, Steps
<1>2. CatalogIsWhole
  BY EmptyCatalogLemma DEF CatalogIsWhole, EmptyCatalog
<1>3. shardCache # None => shardCache.schema # Schema
  BY DEF Entry
<1> QED
  BY <1>1, <1>2, <1>3 DEF IInv, Partial, Caches, Memory, Written, AfterMap

LEMMA RestInv ==
  ASSUME IInv, NewRelease \/ Begin
  PROVE  IInv'
<1> USE DEF NewRelease, Begin, Moves, caches, memory, files, history
<1>1. Located'
  BY DEF IInv, Located, Steps
<1>2. Partial' /\ Written' /\ Memory'
  BY DEF IInv, Partial, Written, Memory, AfterMap, Table
<1>3. Caches'
  BY DEF IInv, Caches, CatalogIsWhole
<1> QED
  BY <1>1, <1>2, <1>3 DEF IInv

LEMMA SyncCatalogInv ==
  ASSUME IInv, SyncCatalog
  PROVE  IInv'
<1> USE DEF SyncCatalog, files, history
<1>1. Located'
  BY DEF IInv, Located, Steps
<1>2. Table' = Table /\ release \in Releases
  BY DEF Table, IInv, Located
<1>3. Partial'
  <2> SUFFICES ASSUME step' = "index" PROVE Partial'
    BY DEF Partial
  <2>1. transaction' = <<>> /\ Table \notin {NoTable, catalog.table}
    OBVIOUS
  <2>2. Table \in Tables
    BY <1>2, <2>1 DEF Tables, Table
  <2>3. Len(RowsOf(Table)) \in Nat
    BY <2>2, RowsLemma
  <2>4. transaction' \in Seq(CatalogRowSet) /\ Len(transaction') = 0
    BY <2>1
  <2> QED
    BY <1>2, <2>2, <2>3, <2>4 DEF Partial
<1>4. CatalogIsWhole' /\ (step' = "figures" => catalog'.table = Table)
  <2>1. CASE Table = NoTable
    <3>1. catalog' = EmptyCatalog
      BY <2>1
    <3> QED
      BY <2>1, <3>1, EmptyCatalogLemma DEF CatalogIsWhole, EmptyCatalog
  <2>2. CASE Table # NoTable
    <3>1. catalog' = catalog /\ (step' = "figures" => Table = catalog.table)
      BY <2>2
    <3> QED
      BY <3>1 DEF IInv, Caches, CatalogIsWhole
  <2> QED
    BY <2>1, <2>2
<1>5. Caches'
  BY <1>4 DEF IInv, Caches
<1>6. Memory' /\ Written'
  BY <1>2, <1>4 DEF IInv, Memory, Written, AfterMap
<1> QED
  BY <1>1, <1>3, <1>5, <1>6 DEF IInv

LEMMA IndexInv ==
  ASSUME IInv, Index
  PROVE  IInv'
<1> USE DEF Index, caches, files, history
<1>1. Table' = Table
  BY DEF Table
<1>2. Partial'
  <2> DEFINE next == transaction \o CatalogRows(Batch(RowsOf(Table), Len(transaction)))
  <2>1. /\ Table \in Tables /\ transaction \in Seq(CatalogRowSet)
        /\ Len(transaction) < Len(RowsOf(Table))
        /\ \A n \in 1..Len(transaction) : transaction[n] = CatalogRow(RowsOf(Table)[n])
    BY DEF IInv, Partial
  <2>2. /\ next \in Seq(CatalogRowSet) /\ Len(next) <= Len(RowsOf(Table))
        /\ \A n \in 1..Len(next) : next[n] = CatalogRow(RowsOf(Table)[n])
    <3> HIDE DEF Index
    <3> QED
      BY <2>1, BatchLemma
  <2>3. transaction' = next
    BY DEF IndexedMore
  <2> HIDE DEF next
  <2> QED
    BY <1>1, <2>1, <2>2, <2>3 DEF Partial
<1>3. Located' /\ Caches' /\ Memory' /\ Written'
  BY <1>1 DEF IInv, Located, Caches, CatalogIsWhole, Memory, Written, AfterMap
<1> QED
  BY <1>2, <1>3 DEF IInv

LEMMA CommitInv ==
  ASSUME IInv, Commit
  PROVE  IInv'
<1> USE DEF Commit, Moves, files, history
<1>1. Table' = Table /\ Table \in Tables
  BY DEF Table, IInv, Partial
<1>2. transaction = CatalogRows(RowsOf(Table))
  <2>1. /\ transaction \in Seq(CatalogRowSet) /\ Len(transaction) = Len(RowsOf(Table))
        /\ \A n \in 1..Len(transaction) : transaction[n] = CatalogRow(RowsOf(Table)[n])
    BY DEF IInv, Partial
  <2>2. DOMAIN RowsOf(Table) = 1..Len(transaction)
    BY <1>1, <2>1, RowsLemma
  <2>3. transaction = [n \in 1..Len(transaction) |-> CatalogRow(RowsOf(Table)[n])]
    <3>1. transaction = [n \in 1..Len(transaction) |-> transaction[n]]
      BY <2>1, LenProperties
    <3> HIDE DEF Commit
    <3> QED
      BY <2>1, <3>1
  <2> QED
    BY <2>2, <2>3 DEF CatalogRows
<1>3. CatalogIsWhole' /\ catalog'.table = Table
  BY <1>1, <1>2 DEF CatalogIsWhole
<1>4. Caches'
  BY <1>3 DEF IInv, Caches
<1>5. Located' /\ Partial' /\ Memory' /\ Written'
  BY <1>1, <1>3 DEF IInv, Located, Partial, Memory, Written, AfterMap, Steps
<1> QED
  BY <1>4, <1>5 DEF IInv

LEMMA TakeFiguresInv ==
  ASSUME IInv, TakeFigures
  PROVE  IInv'
<1> USE DEF TakeFigures, Moves, caches, files, history
<1>1. catalog.rows = CatalogRows(RowsOf(TableOf(release)))
  BY DEF IInv, Caches, CatalogIsWhole, Memory, Table
<1>2. figures' = FiguresOf(release)
  BY <1>1 DEF FiguresOf
<1>3. Memory'
  BY <1>2 DEF IInv, Memory, AfterMap, FiguresOf
<1>4. Located' /\ Partial' /\ Written'
  BY DEF IInv, Located, Partial, Written, Steps
<1>5. Caches'
  BY DEF IInv, Caches, CatalogIsWhole
<1> QED
  BY <1>3, <1>4, <1>5 DEF IInv

\* The aggregation is that of the table, from the cache or not.
LEMMA AggregatedLemma ==
  ASSUME IInv
  PROVE  Aggregated = MapOf(release)
BY DEF IInv, Caches, Aggregated, Reusable, MapOf, Table

\* A map that pipeline.json vouches for is that of the table, or doubtful.
LEMMA CurrentMapLemma ==
  ASSUME IInv, step = "map", MapIsCurrent(Aggregated)
  PROVE  map = MapOf(release) \/ doubtful
<1>1. pipelineCache.table = Table /\ map # None
  BY DEF MapIsCurrent, Geography
<1>2. ~ drawn
  BY DEF IInv, Memory
<1> QED
  BY <1>1, <1>2 DEF IInv, Caches, MapOf, Table

LEMMA BuildMapInv ==
  ASSUME IInv, BuildMap
  PROVE  IInv'
<1> USE DEF BuildMap, Moves, caches
<1>1. cells' = MapOf(release) /\ (map' = MapOf(release) \/ doubtful')
  <2>1. CASE MapIsCurrent(Aggregated)
    BY <2>1, AggregatedLemma, CurrentMapLemma
  <2>2. CASE ~ MapIsCurrent(Aggregated)
    BY <2>2, AggregatedLemma
  <2> QED
    BY <2>1, <2>2
<1>2. Memory'
  BY <1>1 DEF IInv, Memory, AfterMap, FiguresOf, MapOf
<1>3. Caches'
  BY DEF IInv, Caches, CatalogIsWhole
<1>4. Located' /\ Partial' /\ Written'
  BY DEF IInv, Located, Partial, Written, Steps
<1> QED
  BY <1>2, <1>3, <1>4 DEF IInv

LEMMA CachesWrittenInv ==
  ASSUME IInv, WriteShardCache \/ WritePipelineCache
  PROVE  IInv'
<1> USE DEF WriteShardCache, WritePipelineCache, Moves, memory, files, history
<1>1. cells = Cells(RowsOf(Table)) /\ (map = Cells(RowsOf(Table)) \/ doubtful)
  BY DEF IInv, Memory, AfterMap, MapOf, Table
<1>2. Caches'
  <2>1. CatalogIsWhole'
    BY DEF IInv, Caches, CatalogIsWhole
  <2>2. (shardCache # None /\ shardCache.schema = Schema
           => shardCache.cells = Cells(RowsOf(shardCache.table)))'
    BY <1>1 DEF IInv, Caches, Entry
  <2>3. (map = None \/ drawn \/ doubtful \/ map = Cells(RowsOf(pipelineCache.table)))'
    BY <1>1 DEF IInv, Caches, Geography
  <2> QED
    BY <2>1, <2>2, <2>3 DEF Caches
<1>3. Memory'
  BY DEF IInv, Memory, AfterMap, FiguresOf, MapOf, Table
<1>4. Located' /\ Partial' /\ Written'
  BY DEF IInv, Located, Partial, Written, Steps
<1> QED
  BY <1>2, <1>3, <1>4 DEF IInv

LEMMA PayloadLemma ==
  ASSUME IInv, step \in {"statistics", "card"}
  PROVE  Payload = StatisticsOf(release)
BY DEF IInv, Memory, AfterMap, Payload, StatisticsOf, FiguresOf, Table

LEMMA ReportsInv ==
  ASSUME IInv, Copy \/ WriteStatistics \/ WriteCard
  PROVE  IInv'
<1> USE DEF Copy, WriteStatistics, WriteCard, Moves, caches, memory, history
<1>1. Written'
  <2>1. CASE Copy
    BY <2>1 DEF IInv, Written
  <2>2. CASE WriteStatistics
    BY <2>2, PayloadLemma DEF IInv, Written, StatisticsOf
  <2>3. CASE WriteCard
    BY <2>3, PayloadLemma DEF IInv, Written, StatisticsOf
  <2> QED
    BY <2>1, <2>2, <2>3
<1>2. Memory'
  BY DEF IInv, Memory, AfterMap, FiguresOf, MapOf
<1>3. Caches'
  BY DEF IInv, Caches, CatalogIsWhole
<1>4. Located' /\ Partial'
  BY DEF IInv, Located, Partial, Steps
<1> QED
  BY <1>1, <1>2, <1>3, <1>4 DEF IInv

LEMMA EndInv ==
  ASSUME IInv, Return \/ Kill
  PROVE  IInv'
<1> USE DEF Return, Kill, Moves, ForgetMemory, caches, files
<1>1. Located' /\ Partial' /\ Written' /\ Memory'
  BY DEF IInv, Located, Partial, Written, Memory, AfterMap, Steps
<1>2. CatalogIsWhole'
  BY DEF IInv, Caches, CatalogIsWhole
<1>3. (map = None \/ drawn \/ doubtful \/ map = Cells(RowsOf(pipelineCache.table)))'
  BY DEF IInv, Caches, Memory
<1>4. Caches'
  BY <1>2, <1>3 DEF IInv, Caches
<1> QED
  BY <1>1, <1>4 DEF IInv

LEMMA NextInv == IInv /\ [Next]_vars => IInv'
<1> SUFFICES ASSUME IInv, [Next]_vars PROVE IInv'
  OBVIOUS
<1>1. CASE UNCHANGED vars
  BY <1>1 DEF vars, caches, memory, files, history, IInv, Located, Partial, Caches,
              CatalogIsWhole, Memory, Written, AfterMap, Table, FiguresOf, MapOf
<1>2. CASE Next
  BY <1>2, RestInv, SyncCatalogInv, IndexInv, CommitInv, TakeFiguresInv, BuildMapInv,
     CachesWrittenInv, ReportsInv, EndInv DEF Next
<1> QED
  BY <1>1, <1>2

\* The inductive invariant holds in every state that can be reached.
THEOREM InvariantHolds == Spec => []IInv
BY InitInv, NextInv, PTL DEF Spec

\* The catalog never names a table whose rows it does not have, wherever the
\* indexing of artifacts/catalog.py was killed.
THEOREM CatalogIsWholeHolds == Spec => []CatalogIsWhole
<1>1. IInv => CatalogIsWhole
  BY DEF IInv, Caches
<1> QED
  BY <1>1, InvariantHolds, PTL

(***************************************************************************)
(* The types, and the refinement.                                          *)
(***************************************************************************)

Types ==
  /\ returned \in Releases \cup {None} /\ drawn \in BOOLEAN /\ doubtful \in BOOLEAN
  /\ map \in AnyMap \cup {None} /\ cells \in AnyMap \cup {None}
  /\ pipelineCache \in AnyGeography \cup {None}
  /\ statistics \in AnyStatistics \cup {None} /\ card \in AnyStatistics \cup {None}

LEMMA InitTypes == Init => Types
<1> SUFFICES ASSUME Init PROVE Types
  OBVIOUS
<1>1. returned = None /\ map = None /\ cells = None /\ pipelineCache = None /\ statistics = None
      /\ card = None /\ drawn = FALSE /\ doubtful = FALSE
  BY DEF Init
<1> QED
  BY <1>1 DEF Types

LEMMA NextTypes == IInv /\ Types /\ [Next]_vars => Types'
<1> SUFFICES ASSUME IInv, Types, [Next]_vars PROVE Types'
  OBVIOUS
<1>1. /\ release \in Releases
      /\ MapOf(release) \in AnyMap /\ StatisticsOf(release) \in AnyStatistics
      /\ Geography(Table, MapOf(release)) \in AnyGeography
  BY DEF IInv, Located, AnyMap, AnyStatistics, AnyGeography, Table
<1>2. CASE BuildMap
  BY <1>1, <1>2, AggregatedLemma DEF BuildMap, Types, caches
<1>3. CASE WritePipelineCache
  <2>1. cells = MapOf(release)
    BY <1>3 DEF WritePipelineCache, Moves, IInv, Memory, AfterMap
  <2> QED
    BY <1>1, <1>3, <2>1 DEF WritePipelineCache, Types, memory, files, history
<1>4. CASE WriteStatistics \/ WriteCard
  <2>1. Payload = StatisticsOf(release)
    BY <1>4, PayloadLemma DEF WriteStatistics, WriteCard, Moves
  <2> QED
    BY <1>1, <1>4, <2>1 DEF WriteStatistics, WriteCard, Types, caches, memory, history
<1>5. CASE NewRelease \/ Begin \/ SyncCatalog \/ Index \/ Commit \/ TakeFigures
  BY <1>5 DEF NewRelease, Begin, SyncCatalog, Index, Commit, TakeFigures, Types, caches, memory,
              files, history
<1>6. CASE WriteShardCache \/ Copy
  BY <1>6 DEF WriteShardCache, Copy, Types, caches, memory, files, history
<1>7. CASE Return \/ Kill
  BY <1>1, <1>7 DEF Return, Kill, ForgetMemory, Types, caches, files
<1>8. CASE UNCHANGED vars
  BY <1>8 DEF vars, Types, caches, memory, files, history
<1> QED
  BY <1>2, <1>3, <1>4, <1>5, <1>6, <1>7, <1>8 DEF Next

\* Files and memory only ever hold the figures, maps and digests of releases.
THEOREM TypeCorrect == Spec => []TypeOK
<1>1. IInv /\ Types => TypeOK
  BY DEF IInv, Located, Types, TypeOK
<1> QED
  BY <1>1, InitInv, NextInv, InitTypes, NextTypes, PTL DEF Spec

LEMMA InitRefines == Init => R!Init
BY DEF Init, R!Init

\* Each step is one of Reports, or changes nothing there.
LEMMA NextRefines == IInv /\ IInv' /\ [Next]_vars => [R!Next]_(R!reports)
<1> SUFFICES ASSUME IInv, IInv', [Next]_vars PROVE R!Next \/ UNCHANGED R!reports
  OBVIOUS
<1> USE DEF R!reports, R!files, R!doubts
<1>1. CASE NewRelease
  BY <1>1 DEF NewRelease, files, history, R!Next, R!NewRelease
<1>2. CASE Begin
  BY <1>2 DEF Begin, files, R!Next, R!Begin
<1>3. CASE SyncCatalog \/ Index \/ Commit \/ TakeFigures \/ WriteShardCache
  BY <1>3 DEF SyncCatalog, Index, Commit, TakeFigures, WriteShardCache, files, history
<1>4. CASE BuildMap
  <2>1. CASE MapIsCurrent(Aggregated)
    BY <1>4, <2>1 DEF BuildMap
  <2>2. CASE ~ MapIsCurrent(Aggregated)
    BY <1>4, <2>2, AggregatedLemma DEF BuildMap, R!Next, R!DrawMap
  <2> QED
    BY <2>1, <2>2
<1>5. CASE WritePipelineCache
  BY <1>5 DEF WritePipelineCache, files, history, R!Next, R!Record
<1>6. CASE Copy
  BY <1>6 DEF Copy, history, R!Next, R!Copy
<1>7. CASE WriteStatistics
  <2>1. Payload = StatisticsOf(release)
    BY <1>7, PayloadLemma DEF WriteStatistics, Moves
  <2> QED
    BY <1>7, <2>1 DEF WriteStatistics, history, R!Next, R!WriteStatistics
<1>8. CASE WriteCard
  <2>1. Payload = StatisticsOf(release) /\ statistics = StatisticsOf(release)
    BY <1>8, PayloadLemma DEF WriteCard, Moves, IInv, Written
  <2> QED
    BY <1>8, <2>1 DEF WriteCard, history, R!Next, R!WriteCard
<1>9. CASE Return
  <2>1. R!Current
    BY <1>9 DEF Return, Moves, IInv, Memory, AfterMap, Written, R!Current
  <2> QED
    BY <1>9, <2>1 DEF Return, files, R!Next, R!Return
<1>10. CASE Kill
  BY <1>10 DEF Kill, files, R!Next, R!Kill
<1>11. CASE UNCHANGED vars
  BY <1>11 DEF vars, files, history
<1> QED
  BY <1>1, <1>2, <1>3, <1>4, <1>5, <1>6, <1>7, <1>8, <1>9, <1>10, <1>11 DEF Next

\* generate_metadata implements Reports: a generation that returns leaves the
\* reports a first one in an empty directory would write, after any number of
\* releases, kills and caches of older schemas.
THEOREM Implements == Spec => RebuiltFromNothing
BY InitRefines, InvariantHolds, NextRefines, PTL DEF Spec, R!Spec, RebuiltFromNothing

\* Induction over the numbers, for a set of them.
LEMMA Induction ==
  ASSUME NEW I, 0 \in I, \A n \in Nat : n \in I => n + 1 \in I
  PROVE  Nat \subseteq I
<1> SUFFICES ASSUME Nat \ I # {} PROVE FALSE
  OBVIOUS
<1> DEFINE Less == {p \in Nat \X Nat : p[1] < p[2]}
           T == Nat \ I
<1>1. IsWellFoundedOn(Less, Nat)
  BY NatLessThanWellFounded DEF OpToRel
<1>2. T \subseteq Nat /\ T # {}
  OBVIOUS
<1> HIDE DEF T, Less
<1>3. PICK x \in T : \A y \in T : ~ (<<y, x>> \in Less)
  BY <1>1, <1>2, WFMin
<1> USE DEF T, Less
<1>4. \A y \in T : ~ (y < x)
  BY <1>2, <1>3
<1>5. x \in Nat /\ x # 0 /\ x \notin I
  BY <1>3
<1>6. x - 1 \in Nat /\ x - 1 < x
  BY <1>5
<1>7. x - 1 \in I
  BY <1>4, <1>6
<1>8. (x - 1) + 1 \in I
  BY <1>6, <1>7
<1> QED
  BY <1>5, <1>8

(***************************************************************************)
(* Sums over a finite set.                                                 *)
(***************************************************************************)

SumOver(g, S) == MapThenSumSet(LAMBDA e : g[e], S)
Chosen(s) == CHOOSE x \in s : TRUE
Adds(it, U, g) ==
  it = [s \in U |-> IF s = {} THEN 0 ELSE g[Chosen(s)] + it[s \ {Chosen(s)}]]

AddsAt(it, s, g) ==
  /\ s = {} => it[s] = 0
  /\ s # {} => Chosen(s) \in s /\ it[s] = g[Chosen(s)] + it[s \ {Chosen(s)}]
LEMMA AddsStep ==
  ASSUME NEW it, NEW S, NEW g, Adds(it, SUBSET S, g), NEW s, s \subseteq S
  PROVE  AddsAt(it, s, g)
BY DEF Adds, Chosen, AddsAt

LEMMA AddsExists ==
  ASSUME NEW S, IsFiniteSet(S), NEW g PROVE \E it : Adds(it, SUBSET S, g)
<1> DEFINE Upto1(n) == {s \in SUBSET S : Cardinality(s) <= n}
           I == {n \in Nat : \E it : Adds(it, Upto1(n), g)}
<1>1. \A s \in SUBSET S : IsFiniteSet(s) /\ Cardinality(s) \in Nat
  BY FS_Subset, FS_CardinalityType
<1>2. 0 \in I
  <2> DEFINE it == [s \in Upto1(0) |-> 0]
  <2>1. \A s \in Upto1(0) : s = {}
    BY <1>1, FS_EmptySet
  <2>2. Adds(it, Upto1(0), g)
    BY <2>1 DEF Adds
  <2> QED
    BY <2>2
<1>3. ASSUME NEW n \in Nat, n \in I PROVE n + 1 \in I
  <2>1. PICK it : Adds(it, Upto1(n), g)
    BY <1>3
  <2> DEFINE U == Upto1(n)
             V == Upto1(n + 1)
             body(s, f) == IF s = {} THEN 0 ELSE g[Chosen(s)] + f[s \ {Chosen(s)}]
             jt == [s \in V |-> IF s \in U THEN it[s] ELSE body(s, it)]
  <2>2. \A s \in V : s # {} => s \ {Chosen(s)} \in U
    <3>1. ASSUME NEW s \in V, s # {} PROVE s \ {Chosen(s)} \in U
      <4> DEFINE x == Chosen(s)
      <4>1. x \in s
        BY <3>1 DEF Chosen
      <4> HIDE DEF x
      <4>2. Cardinality(s \ {x}) = Cardinality(s) - 1
        BY <1>1, <4>1, FS_RemoveElement
      <4>3. s \ {x} \in SUBSET S /\ Cardinality(s) <= n + 1 /\ Cardinality(s) \in Nat
        BY <1>1
      <4>4. Cardinality(s \ {x}) <= n
        BY <4>2, <4>3
      <4> QED
        BY <4>3, <4>4 DEF x
    <3> QED
      BY <3>1
  <2>3. U \subseteq V
    BY <1>1
  <2>4. \A s \in U : it[s] = body(s, it)
    BY <2>1 DEF Adds
  <2> HIDE DEF U, V
  <2>5. \A s \in V : jt[s] = body(s, it)
    BY <2>4
  <2>6. \A s \in V : s # {} => jt[s \ {Chosen(s)}] = it[s \ {Chosen(s)}]
    BY <2>2, <2>3
  <2>7. \A s \in V : jt[s] = body(s, jt)
    <3> HIDE DEF jt
    <3> QED
      BY <2>5, <2>6
  <2>8. jt = [s \in V |-> jt[s]]
    OBVIOUS
  <2> HIDE DEF jt
  <2>9. Adds(jt, V, g)
    BY <2>7, <2>8 DEF Adds
  <2>10. \E f : Adds(f, Upto1(n + 1), g)
    BY <2>9 DEF V
  <2> HIDE DEF Upto1
  <2> QED
    BY <2>10, n + 1 \in Nat
<1> HIDE DEF I
<1>4. Cardinality(S) \in I
  BY <1>1, <1>2, <1>3, Induction
<1>5. Upto1(Cardinality(S)) = SUBSET S
  BY <1>1, FS_Subset
<1>6. PICK it : Adds(it, Upto1(Cardinality(S)), g)
  BY <1>4 DEF I
<1> QED
  BY <1>5, <1>6

AddsAlike(it, jt, s) == it[s] = jt[s]
LEMMA AddsAgree ==
  ASSUME NEW S, IsFiniteSet(S), NEW T, NEW g, NEW it, Adds(it, SUBSET S, g),
         NEW jt, Adds(jt, SUBSET T, g), NEW s, s \subseteq S, s \subseteq T
  PROVE  AddsAlike(it, jt, s)
<1> DEFINE I == {n \in Nat : \A t \in SUBSET s : Cardinality(t) = n => it[t] = jt[t]}
<1>1. \A t \in SUBSET s : IsFiniteSet(t) /\ Cardinality(t) \in Nat /\ t \in SUBSET S /\ t \in SUBSET T
  BY FS_Subset, FS_CardinalityType
<1>2. 0 \in I
  <2>1. ASSUME NEW t \in SUBSET s, Cardinality(t) = 0 PROVE it[t] = jt[t]
    <3>1. t = {}
      BY <1>1, <2>1, FS_EmptySet
    <3>2. AddsAt(it, t, g) /\ AddsAt(jt, t, g)
      BY <1>1, AddsStep
    <3> QED
      BY <3>1, <3>2 DEF AddsAt
  <2> QED
    BY <2>1
<1>3. ASSUME NEW n \in Nat, n \in I PROVE n + 1 \in I
  <2>1. ASSUME NEW t \in SUBSET s, Cardinality(t) = n + 1 PROVE it[t] = jt[t]
    <3> DEFINE x == Chosen(t)
    <3>1. t # {}
      BY <1>1, <2>1, FS_EmptySet
    <3>2. x \in t /\ it[t] = g[x] + it[t \ {x}] /\ jt[t] = g[x] + jt[t \ {x}]
      <4>1. t \subseteq S /\ t \subseteq T
        BY <1>1
      <4>2. AddsAt(it, t, g) /\ AddsAt(jt, t, g)
        BY <4>1, AddsStep
      <4> QED
        BY <3>1, <4>2 DEF AddsAt
    <3> HIDE DEF x
    <3>3. Cardinality(t \ {x}) = n
      BY <1>1, <2>1, <3>2, FS_RemoveElement
    <3>4. it[t \ {x}] = jt[t \ {x}]
      BY <1>3, <3>3
    <3> QED
      BY <3>2, <3>4
  <2> QED
    BY <2>1
<1> HIDE DEF I
<1>4. Cardinality(s) \in I
  BY <1>1, <1>2, <1>3, Induction
<1> QED
  BY <1>4 DEF I, AddsAlike

Adding(it, S, g) == Adds(it, SUBSET S, g) /\ \A s \in SUBSET S : SumOver(g, s) = it[s]
LEMMA SumIs ==
  ASSUME NEW S, IsFiniteSet(S), NEW g
  PROVE  \E it : Adding(it, S, g)
<1>1. ASSUME NEW s, IsFiniteSet(s)
      PROVE  \E it : Adds(it, SUBSET s, g) /\ SumOver(g, s) = it[s]
  <2>1. SumOver(g, s) = (CHOOSE it : Adds(it, SUBSET s, g))[s]
    BY DEF SumOver, Adds, Chosen, MapThenSumSet, MapThenFoldSet
  <2> QED
    BY <1>1, <2>1, AddsExists
<1>2. PICK it : Adds(it, SUBSET S, g)
  BY AddsExists
<1>3. ASSUME NEW s \in SUBSET S PROVE SumOver(g, s) = it[s]
  <2>1. IsFiniteSet(s)
    BY FS_Subset
  <2>2. PICK jt : Adds(jt, SUBSET s, g) /\ SumOver(g, s) = jt[s]
    BY <1>1, <2>1
  <2>3. s \subseteq S /\ s \subseteq s
    OBVIOUS
  <2>4. Adds(jt, SUBSET s, g)
    BY <2>2
  <2>5. AddsAlike(it, jt, s)
    BY <1>2, <2>3, <2>4, AddsAgree
  <2> QED
    BY <2>2, <2>5 DEF AddsAlike
<1>4. Adding(it, S, g)
  BY <1>2, <1>3 DEF Adding
<1> QED
  BY <1>4

\* A sum, one of its elements at a time, whichever.
SumAt(g, s) ==
  /\ SumOver(g, s) \in Nat
  /\ \A x \in s : SumOver(g, s) = g[x] + SumOver(g, s \ {x})
  /\ SumOver(g, {}) = 0
LEMMA SumLemma ==
  ASSUME NEW S, IsFiniteSet(S), NEW g, \A e \in S : g[e] \in Nat
  PROVE  SumAt(g, S)
<1> DEFINE Sums(s) == /\ SumOver(g, s) \in Nat
                      /\ \A x \in s : SumOver(g, s) = g[x] + SumOver(g, s \ {x})
           I == {n \in Nat : \A s \in SUBSET S : Cardinality(s) = n => Sums(s)}
<1>1. \A s \in SUBSET S : IsFiniteSet(s) /\ Cardinality(s) \in Nat
  BY FS_Subset, FS_CardinalityType
<1>2. PICK it : Adding(it, S, g)
  BY SumIs
<1>3. Adds(it, SUBSET S, g) /\ \A s \in SUBSET S : SumOver(g, s) = it[s]
  BY <1>2 DEF Adding
<1>4. SumOver(g, {}) = 0
  <2>1. {} \subseteq S
    OBVIOUS
  <2>2. AddsAt(it, {}, g)
    BY <1>3, <2>1, AddsStep
  <2>3. it[{}] = 0
    BY <2>2 DEF AddsAt
  <2> QED
    BY <1>3, <2>1, <2>3
<1>5. ASSUME NEW s \in SUBSET S, s # {}
      PROVE  \E x \in s : SumOver(g, s) = g[x] + SumOver(g, s \ {x})
  <2> DEFINE x == Chosen(s)
  <2>1. s \subseteq S
    OBVIOUS
  <2>2. AddsAt(it, s, g)
    BY <1>3, <2>1, AddsStep
  <2>3. x \in s /\ it[s] = g[x] + it[s \ {x}]
    BY <1>5, <2>2 DEF AddsAt
  <2> HIDE DEF x
  <2> QED
    BY <1>3, <2>3
<1> HIDE DEF SumOver
<1> DEFINE J == {n \in Nat : \A s \in SUBSET S : Cardinality(s) = n => SumOver(g, s) \in Nat}
<1>6. 0 \in J
  <2>1. \A s \in SUBSET S : Cardinality(s) = 0 => s = {}
    BY <1>1, FS_EmptySet
  <2> QED
    BY <1>4, <2>1
<1>7. ASSUME NEW n \in Nat, n \in J PROVE n + 1 \in J
  <2>1. ASSUME NEW s \in SUBSET S, Cardinality(s) = n + 1 PROVE SumOver(g, s) \in Nat
    <3>1. s # {}
      BY <1>1, <2>1, FS_EmptySet
    <3>2. PICK y \in s : SumOver(g, s) = g[y] + SumOver(g, s \ {y})
      BY <1>5, <3>1
    <3>3. s \ {y} \in SUBSET S /\ Cardinality(s \ {y}) = n
      <4>1. IsFiniteSet(s) /\ y \in s /\ Cardinality(s) = n + 1
        BY <1>1, <2>1
      <4>2. Cardinality(s \ {y}) = Cardinality(s) - 1
        BY ONLY <4>1, FS_RemoveElement
      <4> QED
        BY <4>1, <4>2
    <3> QED
      BY <1>7, <3>2, <3>3
  <2> QED
    BY <2>1
<1> HIDE DEF J
<1>8. ASSUME NEW s \in SUBSET S PROVE SumOver(g, s) \in Nat
  <2>1. Cardinality(s) \in J
    BY <1>1, <1>6, <1>7, Induction
  <2> QED
    BY <2>1 DEF J
<1>9. 0 \in I
  <2>1. \A s \in SUBSET S : Cardinality(s) = 0 => s = {}
    BY <1>1, FS_EmptySet
  <2>2. Sums({})
    BY <1>4
  <2> HIDE DEF Sums
  <2> QED
    BY <2>1, <2>2
<1>10. ASSUME NEW n \in Nat, n \in I PROVE n + 1 \in I
  <2>1. ASSUME NEW s \in SUBSET S, Cardinality(s) = n + 1 PROVE Sums(s)
    <3>1. s # {}
      BY <1>1, <2>1, FS_EmptySet
    <3>2. PICK y \in s : SumOver(g, s) = g[y] + SumOver(g, s \ {y})
      BY <1>5, <3>1
    <3>3. ASSUME NEW x \in s PROVE s \ {x} \in SUBSET S /\ Cardinality(s \ {x}) = n
      <4>1. IsFiniteSet(s) /\ x \in s /\ Cardinality(s) = n + 1
        BY <1>1, <2>1
      <4>2. Cardinality(s \ {x}) = Cardinality(s) - 1
        BY ONLY <4>1, FS_RemoveElement
      <4> QED
        BY <4>1, <4>2
    <3>4. \A x \in s : Sums(s \ {x})
      BY <1>10, <3>3
    <3>5. SumOver(g, s) \in Nat
      BY <1>8
    <3>6. ASSUME NEW x \in s PROVE SumOver(g, s) = g[x] + SumOver(g, s \ {x})
      <4>1. CASE x = y
        BY <3>2, <4>1
      <4>2. CASE x # y
        <5> DEFINE rest == s \ {x, y}
        <5>1. x \in s \ {y} /\ y \in s \ {x} /\ (s \ {y}) \ {x} = rest /\ (s \ {x}) \ {y} = rest
          BY <4>2
        <5>2. SumOver(g, s \ {y}) = g[x] + SumOver(g, rest)
          BY <3>4, <5>1
        <5>3. SumOver(g, s \ {x}) = g[y] + SumOver(g, rest)
          BY <3>4, <5>1
        <5>4. SumOver(g, rest) \in Nat /\ g[x] \in Nat /\ g[y] \in Nat
          BY <1>8
        <5> QED
          BY <3>2, <5>2, <5>3, <5>4
      <4> QED
        BY <4>1, <4>2
    <3> HIDE DEF Sums
    <3> QED
      BY <3>5, <3>6 DEF Sums
  <2> QED
    BY <2>1
<1> HIDE DEF I
<1>11. ASSUME NEW s \in SUBSET S PROVE Sums(s)
  <2>1. Cardinality(s) \in I
    BY <1>1, <1>9, <1>10, Induction
  <2> QED
    BY <2>1 DEF I
<1>12. S \in SUBSET S
  OBVIOUS
<1>13. Sums(S)
  BY <1>11, <1>12
<1> QED
  BY <1>4, <1>13 DEF SumAt

(***************************************************************************)
(* The mask of a row has the bit of a provider iff the row is tagged.      *)
(***************************************************************************)

LEMMA PowersLemma ==
  \A p \in 0..ProviderCount : 2^p \in Nat \ {0}
<1> DEFINE I == {n \in Nat : n <= ProviderCount => 2^n \in Nat \ {0}}
<1>1. 0 \in I
  <2>1. 2^0 = 1
    OBVIOUS
  <2> QED
    BY <2>1
<1>2. ASSUME NEW n \in Nat, n \in I PROVE n + 1 \in I
  <2>1. CASE n + 1 <= ProviderCount
    <3>1. n \in Providers /\ 2^n \in Nat \ {0}
      BY <1>2, <2>1, ProvidersAssumption DEF Providers
    <3>2. 2^(n + 1) = 2 * 2^n
      BY <3>1, PowersAssumption
    <3> QED
      BY <3>1, <3>2
  <2>2. CASE ~ n + 1 <= ProviderCount
    BY <2>2
  <2> QED
    BY <2>1, <2>2
<1>3. Nat \subseteq I
  <2> HIDE DEF I
  <2> QED
    BY <1>1, <1>2, Induction
<1> QED
  BY <1>3

Power == [p \in 0..ProviderCount |-> 2^p]
LEMMA PowerLemma ==
  /\ Power[0] = 1 /\ \A p \in 0..ProviderCount : Power[p] \in Nat \ {0}
  /\ \A p \in Providers : p \in 0..ProviderCount /\ p + 1 \in 0..ProviderCount
                          /\ Power[p + 1] = 2 * Power[p]
<1>1. 0 \in 0..ProviderCount
  BY ProvidersAssumption
<1>2. \A p \in Providers : p \in 0..ProviderCount /\ p + 1 \in 0..ProviderCount
  BY ProvidersAssumption DEF Providers
<1>3. 2^0 = 1
  OBVIOUS
<1> QED
  BY <1>1, <1>2, <1>3, PowersLemma, PowersAssumption DEF Power

LEMMA MaskLemma ==
  ASSUME NEW row
  PROVE  ProviderMask(row) = SumOver(Power, {p \in Providers : Tagged(row, p)})
<1> \A p \in Providers : p \in 0..ProviderCount
  BY PowerLemma
<1> HIDE DEF Providers
<1> QED
  BY DEF ProviderMask, SumOver, MapThenSumSet, MapThenFoldSet, Power

LEMMA PowerSums ==
  ASSUME NEW T, T \subseteq Providers PROVE IsFiniteSet(T) /\ SumAt(Power, T)
<1>1. IsFiniteSet(0..ProviderCount)
  BY ProvidersAssumption, FS_Interval
<1>2. T \subseteq 0..ProviderCount
  BY PowerLemma
<1>3. IsFiniteSet(T)
  BY <1>1, <1>2, FS_Subset
<1>4. \A e \in T : Power[e] \in Nat
  BY <1>2, PowerLemma
<1> HIDE DEF Power
<1> QED
  BY <1>3, <1>4, SumLemma

\* What the lower providers add is less than the next power.
LEMMA LowLemma ==
  \A m \in 0..ProviderCount : \A T \in SUBSET (0..(m - 1)) : SumOver(Power, T) < Power[m]
<1> DEFINE Low(m) == \A T \in SUBSET (0..(m - 1)) : SumOver(Power, T) < Power[m]
           I == {m \in Nat : m <= ProviderCount => Low(m)}
<1>1. 0 \in I
  <2>1. ASSUME NEW T \in SUBSET (0..(0 - 1)) PROVE SumOver(Power, T) < Power[0]
    <3>1. T = {} /\ T \subseteq Providers
      OBVIOUS
    <3>2. SumOver(Power, {}) = 0
      BY <3>1, PowerSums DEF SumAt
    <3> QED
      BY <3>1, <3>2, PowerLemma
  <2> QED
    BY <2>1
<1>2. ASSUME NEW m \in Nat, m \in I PROVE m + 1 \in I
  <2> SUFFICES ASSUME m + 1 <= ProviderCount, NEW T \in SUBSET (0..((m + 1) - 1))
               PROVE  SumOver(Power, T) < Power[m + 1]
    OBVIOUS
  <2>1. Low(m) /\ m \in Providers
    BY <1>2, ProvidersAssumption DEF Providers
  <2>2. T \subseteq Providers
    BY ProvidersAssumption DEF Providers
  <2>3. SumAt(Power, T)
    BY <2>2, PowerSums
  <2>4. Power[m + 1] = 2 * Power[m] /\ Power[m] \in Nat \ {0}
    BY <2>1, PowerLemma
  <2>5. CASE m \in T
    <3>1. T \ {m} \in SUBSET (0..(m - 1))
      OBVIOUS
    <3>2. SumOver(Power, T \ {m}) < Power[m]
      BY <2>1, <3>1
    <3>3. SumOver(Power, T) = Power[m] + SumOver(Power, T \ {m})
      BY <2>3, <2>5 DEF SumAt
    <3>4. SumAt(Power, T \ {m})
      BY <2>2, PowerSums
    <3>5. SumOver(Power, T \ {m}) \in Nat
      BY <3>4 DEF SumAt
    <3> QED
      BY <2>4, <3>2, <3>3, <3>5
  <2>6. CASE m \notin T
    <3>1. T \in SUBSET (0..(m - 1))
      BY <2>6
    <3>2. SumOver(Power, T) < Power[m]
      BY <2>1, <3>1
    <3>3. SumOver(Power, T) \in Nat
      BY <2>3 DEF SumAt
    <3> QED
      BY <2>4, <3>2, <3>3
  <2> QED
    BY <2>5, <2>6
<1>3. Nat \subseteq I
  <2> HIDE DEF I
  <2> QED
    BY <1>1, <1>2, Induction
<1> QED
  BY <1>3

\* A sum of powers in three: what is above p, p itself, and what is below.
Parts(p, sum, T) ==
  \E k \in Nat : \E low \in Nat :
     low < Power[p] /\ sum = Power[p] * (2 * k + (IF p \in T THEN 1 ELSE 0)) + low
LEMMA PartsLemma ==
  ASSUME NEW p \in Providers, NEW T \in SUBSET Providers
  PROVE  Parts(p, SumOver(Power, T), T)
<1> DEFINE High(m) == /\ \E k \in Nat : Power[m] = Power[p] * (2 * k)
                      /\ \A U \in SUBSET (0..(m - 1)) : Parts(p, SumOver(Power, U), U)
           I == {n \in Nat : p + 1 + n <= ProviderCount => High(p + 1 + n)}
<1>1. p \in Nat /\ Power[p] \in Nat \ {0} /\ Power[p + 1] = 2 * Power[p]
  BY PowerLemma DEF Providers
<1>2. 0 \in I
  <2>1. ASSUME NEW U \in SUBSET (0..((p + 1) - 1)) PROVE Parts(p, SumOver(Power, U), U)
    <3>1. U \subseteq Providers
      BY ProvidersAssumption DEF Providers
    <3>2. SumAt(Power, U) /\ SumAt(Power, U \ {p})
      BY <3>1, PowerSums
    <3>3. U \ {p} \in SUBSET (0..(p - 1)) /\ p \in 0..ProviderCount
      BY <1>1, PowerLemma
    <3>4. SumOver(Power, U \ {p}) < Power[p] /\ SumOver(Power, U \ {p}) \in Nat
      BY <3>2, <3>3, LowLemma DEF SumAt
    <3>5. CASE p \in U
      <4>1. SumOver(Power, U) = Power[p] + SumOver(Power, U \ {p})
        BY <3>2, <3>5 DEF SumAt
      <4>2. SumOver(Power, U) = Power[p] * (2 * 0 + (IF p \in U THEN 1 ELSE 0)) + SumOver(Power, U \ {p})
        BY <1>1, <3>4, <3>5, <4>1
      <4> QED
        BY <3>4, <4>2, 0 \in Nat DEF Parts
    <3>6. CASE p \notin U
      <4>1. U \ {p} = U
        BY <3>6
      <4>2. SumOver(Power, U) \in Nat /\ (IF p \in U THEN 1 ELSE 0) = 0
        BY <3>4, <3>6, <4>1
      <4>3. SumOver(Power, U) = Power[p] * (2 * 0 + (IF p \in U THEN 1 ELSE 0)) + SumOver(Power, U)
        BY <1>1, <4>2
      <4> QED
        BY <3>4, <4>1, <4>3, 0 \in Nat DEF Parts
    <3> QED
      BY <3>5, <3>6
  <2>2. Power[p + 1] = Power[p] * (2 * 1)
    BY <1>1
  <2>3. High(p + 1)
    BY <2>1, <2>2, 1 \in Nat
  <2> HIDE DEF High
  <2> QED
    BY <1>1, <2>3, p + 1 + 0 = p + 1
<1>3. ASSUME NEW n \in Nat, n \in I PROVE n + 1 \in I
  <2> DEFINE m == p + 1 + n
  <2> SUFFICES ASSUME m + 1 <= ProviderCount PROVE High(m + 1)
    <3>1. p + 1 + (n + 1) = m + 1
      BY <1>1
    <3> HIDE DEF High
    <3> QED
      BY <3>1
  <2>1. High(m) /\ m \in Providers /\ m \in Nat /\ m # p
    BY <1>1, <1>3, ProvidersAssumption DEF Providers
  <2>2. PICK j \in Nat : Power[m] = Power[p] * (2 * j)
    BY <2>1
  <2> HIDE DEF m
  <2>3. Power[m + 1] = 2 * Power[m]
    BY <2>1, PowerLemma
  <2>4. Power[m + 1] = Power[p] * (2 * (2 * j))
    BY <1>1, <2>2, <2>3
  <2>5. ASSUME NEW U \in SUBSET (0..((m + 1) - 1)) PROVE Parts(p, SumOver(Power, U), U)
    <3>1. U \subseteq Providers
      BY <2>1, ProvidersAssumption DEF Providers
    <3>2. U \ {m} \in SUBSET (0..(m - 1))
      BY <2>1
    <3>3. Parts(p, SumOver(Power, U \ {m}), U \ {m})
      BY <2>1, <3>2
    <3>4. CASE m \notin U
      <4>1. U \ {m} = U
        BY <3>4
      <4> QED
        BY <3>3, <4>1
    <3>5. CASE m \in U
      <4> DEFINE bit == IF p \in U THEN 1 ELSE 0
      <4>1. PICK k \in Nat, low \in Nat :
              low < Power[p] /\ SumOver(Power, U \ {m}) = Power[p] * (2 * k + bit) + low
        BY <2>1, <3>3 DEF Parts
      <4>2. SumAt(Power, U)
        BY <3>1, PowerSums
      <4>3. SumOver(Power, U) = Power[m] + SumOver(Power, U \ {m})
        BY <3>5, <4>2 DEF SumAt
      <4>4. bit \in Nat
        OBVIOUS
      <4> HIDE DEF bit
      <4>5. Power[p] * (2 * j) + (Power[p] * (2 * k + bit) + low) = Power[p] * (2 * (j + k) + bit) + low
        BY <1>1, <4>4
      <4>6. SumOver(Power, U) = Power[p] * (2 * (j + k) + bit) + low
        BY <2>2, <4>1, <4>3, <4>5
      <4> QED
        BY <4>1, <4>6, j + k \in Nat DEF Parts, bit
    <3> QED
      BY <3>4, <3>5
  <2> QED
    BY <2>4, <2>5, 2 * j \in Nat
<1>4. Nat \subseteq I
  <2> HIDE DEF I
  <2> QED
    BY <1>2, <1>3, Induction
<1>5. ProviderCount - p - 1 \in Nat /\ p + 1 + (ProviderCount - p - 1) = ProviderCount
  BY ProvidersAssumption DEF Providers
<1> HIDE DEF High
<1>6. High(ProviderCount)
  BY <1>4, <1>5, ProvidersAssumption
<1> QED
  BY <1>6 DEF High, Providers

LEMMA BitLemma ==
  ASSUME NEW p \in Providers, NEW row
  PROVE  HasBit(ProviderMask(row), p) <=> Tagged(row, p)
<1> DEFINE T == {q \in Providers : Tagged(row, q)}
           bit == IF p \in T THEN 1 ELSE 0
<1>1. Parts(p, SumOver(Power, T), T)
  BY PartsLemma
<1>2. PICK k \in Nat, low \in Nat :
        low < Power[p] /\ SumOver(Power, T) = Power[p] * (2 * k + bit) + low
  BY <1>1 DEF Parts
<1>3. Power[p] \in Nat \ {0} /\ Power[p] = 2^p
  BY PowerLemma DEF Power
<1>4. ProviderMask(row) = SumOver(Power, T)
  BY MaskLemma
<1>5. bit \in {0, 1} /\ (bit = 1 <=> Tagged(row, p))
  OBVIOUS
<1> HIDE DEF bit, T
<1>6. \A d \in Nat \ {0}, q \in Nat : (d * q + low) \div d = q \/ ~ low < d
  OBVIOUS
<1>7. ProviderMask(row) \div 2^p = 2 * k + bit
  BY <1>2, <1>3, <1>4, <1>5, <1>6
<1>8. (2 * k + bit) % 2 = bit
  BY <1>5
<1> QED
  BY <1>5, <1>7, <1>8 DEF HasBit

(***************************************************************************)
(* Counting the rows of a table.                                           *)
(***************************************************************************)

LEMMA CountLemma ==
  ASSUME NEW N \in Nat, NEW A, NEW B, B \subseteq 1..N, A \subseteq B
  PROVE  /\ IsFiniteSet(B) /\ IsFiniteSet(A)
         /\ Cardinality(A) \in Nat /\ Cardinality(B) \in 0..N /\ Cardinality(A) <= Cardinality(B)
         /\ A # B => Cardinality(A) < Cardinality(B)
         /\ A # {} => Cardinality(A) > 0
         /\ A = {} => Cardinality(A) = 0
<1>1. IsFiniteSet(1..N) /\ Cardinality(1..N) = N
  BY FS_Interval
<1>2. IsFiniteSet(B) /\ Cardinality(B) <= N
  BY <1>1, FS_Subset
<1>3. IsFiniteSet(A) /\ Cardinality(A) <= Cardinality(B) /\ (Cardinality(A) = Cardinality(B) => A = B)
  BY <1>2, FS_Subset
<1>4. Cardinality(A) \in Nat /\ Cardinality(B) \in Nat
  BY <1>2, <1>3, FS_CardinalityType
<1>5. Cardinality(A) = 0 <=> A = {}
  BY <1>3, FS_EmptySet
<1>6. \A c \in Nat : (c <= N => c \in 0..N) /\ (c # 0 => c > 0)
  OBVIOUS
<1>7. A # B => Cardinality(A) < Cardinality(B)
  BY <1>3, <1>4
<1> QED
  BY <1>2, <1>3, <1>4, <1>5, <1>6, <1>7

\* Among some rows, one has the greatest value.
LEMMA GreatestLemma ==
  ASSUME NEW N \in Nat, NEW h \in [1..N -> Int], NEW D \in SUBSET (1..N), D # {}
  PROVE  \E m \in D : \A k \in D : h[k] <= h[m]
<1> DEFINE Greatest(E) == \E m \in E : \A k \in E : h[k] <= h[m]
           I == {n \in Nat : n <= N => \A E \in SUBSET (1..n) : E # {} => Greatest(E)}
<1>1. 0 \in I
  <2>1. \A E \in SUBSET (1..0) : E = {}
    OBVIOUS
  <2> HIDE DEF Greatest
  <2> QED
    BY <2>1
<1>2. ASSUME NEW n \in Nat, n \in I PROVE n + 1 \in I
  <2> SUFFICES ASSUME n + 1 <= N, NEW E \in SUBSET (1..(n + 1)), E # {} PROVE Greatest(E)
    OBVIOUS
  <2> DEFINE rest == E \ {n + 1}
  <2>1. rest \in SUBSET (1..n) /\ n + 1 \in 1..N /\ \A k \in E : k \in 1..N
    OBVIOUS
  <2>2. CASE n + 1 \notin E
    <3>1. rest = E
      BY <2>2
    <3> QED
      BY <1>2, <2>1, <3>1
  <2>3. CASE n + 1 \in E /\ rest = {}
    <3>1. E = {n + 1}
      BY <2>3
    <3> QED
      BY <2>1, <3>1
  <2>4. CASE n + 1 \in E /\ rest # {}
    <3>1. Greatest(rest)
      <4> HIDE DEF Greatest, rest
      <4> QED
        BY <1>2, <2>1, <2>4
    <3>2. PICK m \in rest : \A k \in rest : h[k] <= h[m]
      BY <3>1
    <3>3. CASE h[n + 1] <= h[m]
      BY <3>2, <3>3
    <3>4. CASE h[m] < h[n + 1]
      <4>1. \A k \in E : h[k] <= h[n + 1]
        BY <2>1, <3>2, <3>4
      <4> QED
        BY <2>4, <4>1
    <3> QED
      BY <2>1, <3>3, <3>4
  <2> QED
    BY <2>2, <2>3, <2>4
<1>3. Nat \subseteq I
  <2> HIDE DEF I
  <2> QED
    BY <1>1, <1>2, Induction
<1>4. N \in I
  BY <1>3
<1> QED
  BY <1>4

\* Every offset below the number of rows has its area.
HasOffset(N, a, offset) ==
  \E n \in 1..N : /\ Cardinality({k \in 1..N : a[k] < a[n]}) <= offset
                  /\ Cardinality({k \in 1..N : a[k] <= a[n]}) > offset
LEMMA OffsetLemma ==
  ASSUME NEW N \in Nat, NEW a \in [1..N -> Int], NEW offset \in 0..(N - 1)
  PROVE  HasOffset(N, a, offset)
<1> DEFINE UpTo(n) == {k \in 1..N : a[k] <= a[n]}
           Below(n) == {k \in 1..N : a[k] < a[n]}
           Beyond == {n \in 1..N : Cardinality(UpTo(n)) > offset}
           g == [n \in 1..N |-> - Cardinality(UpTo(n))]
<1>1. \A n \in 1..N : /\ UpTo(n) \subseteq 1..N /\ Below(n) \subseteq UpTo(n)
                      /\ Cardinality(UpTo(n)) \in 0..N /\ Cardinality(Below(n)) \in Nat
  <2> SUFFICES ASSUME NEW n \in 1..N
               PROVE  /\ UpTo(n) \subseteq 1..N /\ Below(n) \subseteq UpTo(n)
                      /\ Cardinality(UpTo(n)) \in 0..N /\ Cardinality(Below(n)) \in Nat
    OBVIOUS
  <2>1. UpTo(n) \subseteq 1..N /\ Below(n) \subseteq UpTo(n)
    OBVIOUS
  <2> HIDE DEF UpTo, Below
  <2> QED
    BY <2>1, CountLemma
<1>2. Beyond # {}
  <2>1. 1..N # {} /\ 1..N \in SUBSET (1..N)
    OBVIOUS
  <2>2. PICK m \in 1..N : \A k \in 1..N : a[k] <= a[m]
    BY <2>1, GreatestLemma
  <2>3. UpTo(m) = 1..N
    BY <2>2
  <2>4. Cardinality(1..N) = N
    BY FS_Interval
  <2>5. Cardinality(UpTo(m)) = N
    BY <2>3, <2>4
  <2> HIDE DEF UpTo
  <2> QED
    BY <2>5
<1>3. /\ g \in [1..N -> Int] /\ Beyond \subseteq 1..N
      /\ \A n \in 1..N : g[n] = - Cardinality(UpTo(n)) /\ Cardinality(UpTo(n)) \in Int
  <2> HIDE DEF UpTo
  <2>1. \A n \in 1..N : Cardinality(UpTo(n)) \in Int
    <3> SUFFICES ASSUME NEW n \in 1..N PROVE Cardinality(UpTo(n)) \in Int
      OBVIOUS
    <3>1. Cardinality(UpTo(n)) \in 0..N
      BY <1>1, Zenon
    <3> QED
      BY <3>1
  <2>2. \A n \in 1..N : - Cardinality(UpTo(n)) \in Int
    BY <2>1
  <2> QED
    BY <2>1, <2>2
<1>4. PICK n \in Beyond : \A k \in Beyond : g[k] <= g[n]
  <2>1. Beyond \in SUBSET (1..N)
    OBVIOUS
  <2> HIDE DEF Beyond, g
  <2> QED
    BY <1>2, <1>3, <2>1, GreatestLemma
<1>5. \A k \in Beyond : Cardinality(UpTo(n)) <= Cardinality(UpTo(k))
  <2> HIDE DEF UpTo, g, Beyond
  <2> QED
    BY <1>3, <1>4
<1>6. Cardinality(Below(n)) <= offset
  <2>1. CASE Below(n) = {}
    BY <2>1, FS_EmptySet
  <2>2. CASE Below(n) # {}
    <3>1. Below(n) \in SUBSET (1..N)
      OBVIOUS
    <3>2. PICK m \in Below(n) : \A k \in Below(n) : a[k] <= a[m]
      <4> HIDE DEF Below
      <4> QED
        BY <2>2, <3>1, GreatestLemma
    <3>3. m \in 1..N /\ a[m] < a[n] /\ n \in 1..N /\ a[m] \in Int /\ a[n] \in Int
      OBVIOUS
    <3>4. Below(n) \subseteq UpTo(m) /\ UpTo(m) \subseteq UpTo(n) /\ n \in UpTo(n) /\ n \notin UpTo(m)
      BY <3>2, <3>3
    <3>5. UpTo(m) # UpTo(n) /\ UpTo(m) \subseteq 1..N /\ UpTo(n) \subseteq 1..N
      BY <3>4
    <3>6. m \in Beyond => Cardinality(UpTo(n)) <= Cardinality(UpTo(m))
      BY <1>5
    <3>7. m \notin Beyond => ~ Cardinality(UpTo(m)) > offset
      BY <3>3
    <3> HIDE DEF UpTo, Below, Beyond
    <3>8. Cardinality(UpTo(m)) < Cardinality(UpTo(n)) /\ Cardinality(Below(n)) <= Cardinality(UpTo(m))
      BY <3>4, <3>5, CountLemma
    <3>9. Cardinality(UpTo(m)) \in Int /\ Cardinality(UpTo(n)) \in Int /\ Cardinality(Below(n)) \in Int
      BY <1>1, <3>3
    <3>10. ~ Cardinality(UpTo(m)) > offset
      BY <3>6, <3>7, <3>8, <3>9
    <3> QED
      BY <3>8, <3>9, <3>10
  <2> QED
    BY <2>1, <2>2
<1> QED
  BY <1>4, <1>6 DEF HasOffset

\* The quantile: the least area that the share of the rows does not exceed.
NumberUpTo(rows, x) == Cardinality({n \in DOMAIN rows : rows[n].area <= x})
IsQuantile(rows, N, p, area) ==
  /\ NumberUpTo(rows, area) * 100 >= p * N
  /\ \A n \in DOMAIN rows : rows[n].area < area => NumberUpTo(rows, rows[n].area) * 100 < p * N
LEMMA QuantileLemma ==
  ASSUME NEW N \in Nat \ {0}, NEW rows, DOMAIN rows = 1..N, \A n \in 1..N : rows[n].area \in Int,
         NEW p \in 0..100
  PROVE  IsQuantile(rows, N, p, AreaAt(rows, Offset(p, N)))
<1> DEFINE area == AreaAt(rows, Offset(p, N))
           a == [n \in 1..N |-> rows[n].area]
           offset == Offset(p, N)
           UpTo(x) == {k \in DOMAIN rows : rows[k].area <= x}
           Below(x) == {k \in DOMAIN rows : rows[k].area < x}
<1>1. /\ offset \in 0..(N - 1) /\ 100 * (offset + 1) >= p * N
      /\ offset = 0 \/ 100 * offset < p * N
  <2> DEFINE rank == -((-p * N) \div 100)
  <2>1. p * N \in Nat /\ p * N <= 100 * N
    OBVIOUS
  <2>2. \A x \in Nat : /\ -((-x) \div 100) \in Nat /\ 100 * (-((-x) \div 100)) >= x
                       /\ 100 * (-((-x) \div 100)) < x + 100
    OBVIOUS
  <2>3. -p * N = -(p * N)
    OBVIOUS
  <2>4. rank \in Nat /\ 100 * rank >= p * N /\ 100 * rank < p * N + 100
    BY <2>1, <2>2, <2>3
  <2>5. offset = IF rank = 0 THEN 0 ELSE rank - 1
    BY DEF Offset
  <2> HIDE DEF rank, offset
  <2> QED
    BY <2>1, <2>4, <2>5
<1>2. a \in [1..N -> Int] /\ \A n \in 1..N : a[n] = rows[n].area
  OBVIOUS
<1>3. \A x : UpTo(x) = {k \in 1..N : a[k] <= x} /\ Below(x) = {k \in 1..N : a[k] < x}
  BY <1>2
<1>4. HasOffset(N, a, offset)
  <2> HIDE DEF a, offset
  <2> QED
    BY <1>1, <1>2, OffsetLemma
<1>5. PICK n \in 1..N : Cardinality(Below(a[n])) <= offset /\ Cardinality(UpTo(a[n])) > offset
  <2> HIDE DEF UpTo, Below, a, offset
  <2> QED
    BY <1>3, <1>4 DEF HasOffset
<1>6. \E x \in {rows[k].area : k \in DOMAIN rows} :
        Cardinality(Below(x)) <= offset /\ Cardinality(UpTo(x)) > offset
  <2>1. a[n] \in {rows[k].area : k \in DOMAIN rows}
    BY <1>2
  <2> HIDE DEF UpTo, Below, a, offset
  <2> QED
    BY <1>5, <2>1
<1>7. /\ area \in {rows[k].area : k \in DOMAIN rows}
      /\ Cardinality(Below(area)) <= offset /\ Cardinality(UpTo(area)) > offset
  <2>1. area = CHOOSE x \in {rows[k].area : k \in DOMAIN rows} :
                 Cardinality(Below(x)) <= offset /\ Cardinality(UpTo(x)) > offset
    BY DEF AreaAt, Count, Values
  <2> HIDE DEF UpTo, Below, offset, area
  <2> QED
    BY <1>6, <2>1
<1> HIDE DEF area
<1>8. area \in Int
  BY <1>7
<1>9. \A x : Below(x) \subseteq 1..N /\ UpTo(x) \subseteq 1..N
  OBVIOUS
<1>10. \A x : Cardinality(Below(x)) \in Nat /\ Cardinality(UpTo(x)) \in Nat
  <2> HIDE DEF UpTo, Below
  <2> QED
    BY <1>9, CountLemma
<1>11. Cardinality(UpTo(area)) * 100 >= p * N
  <2> DEFINE c == Cardinality(UpTo(area))
  <2>1. c \in Nat /\ c > offset
    BY <1>7, <1>10
  <2> HIDE DEF c, offset
  <2>2. p * N \in Int
    OBVIOUS
  <2> QED
    BY <1>1, <2>1, <2>2 DEF c
<1>12. ASSUME NEW m \in 1..N, rows[m].area < area PROVE Cardinality(UpTo(rows[m].area)) * 100 < p * N
  <2> DEFINE c == Cardinality(UpTo(rows[m].area))
             d == Cardinality(Below(area))
  <2>1. UpTo(rows[m].area) \subseteq Below(area) /\ m \in UpTo(rows[m].area) /\ Below(area) \subseteq 1..N
    BY <1>8, <1>12
  <2>2. c > 0 /\ c <= d /\ c \in Nat /\ d \in Nat
    <3> HIDE DEF UpTo, Below
    <3> QED
      BY <1>10, <2>1, CountLemma
  <2>3. d <= offset
    <3> HIDE DEF UpTo, Below, offset
    <3> QED
      BY <1>7
  <2>4. d <= offset /\ p * N \in Int
    BY <2>3
  <2> HIDE DEF c, d, offset
  <2> QED
    BY <1>1, <2>2, <2>4 DEF c
<1> QED
  BY <1>11, <1>12 DEF IsQuantile, NumberUpTo, area

\* The counts of the values of f add up to the number of rows.
IsImage(C, f, N) == C = {f[n] : n \in 1..N}
CountsFibres(g, f, C, N) == \A c \in C : g[c] = Cardinality({n \in 1..N : f[n] = c})
LEMMA FibresLemma ==
  ASSUME NEW N \in Nat, NEW f, NEW C, IsImage(C, f, N), NEW g, CountsFibres(g, f, C, N)
  PROVE  SumOver(g, C) = N
<1> DEFINE RowsIn(S) == {n \in 1..N : f[n] \in S}
           Fibre(c) == {n \in 1..N : f[n] = c}
           I == {m \in Nat : \A S \in SUBSET C :
                    Cardinality(S) = m => SumOver(g, S) = Cardinality(RowsIn(S))}
<1>1. IsFiniteSet(C)
  <2>1. IsFiniteSet(1..N)
    BY FS_Interval
  <2>2. [n \in 1..N |-> f[n]] \in Surjection(1..N, C)
    BY DEF Surjection, IsImage
  <2> QED
    BY <2>1, <2>2, FS_Surjection
<1>2. \A S \in SUBSET C : IsFiniteSet(S) /\ Cardinality(S) \in Nat
  BY <1>1, FS_Subset, FS_CardinalityType
<1>3. \A S : RowsIn(S) \subseteq 1..N /\ IsFiniteSet(RowsIn(S)) /\ Cardinality(RowsIn(S)) \in Nat
  <2>1. \A S : RowsIn(S) \subseteq 1..N
    OBVIOUS
  <2> HIDE DEF RowsIn
  <2> QED
    BY <2>1, CountLemma
<1>4. \A c \in C : g[c] = Cardinality(Fibre(c)) /\ g[c] \in Nat /\ IsFiniteSet(Fibre(c))
  <2>1. \A c : Fibre(c) \subseteq 1..N
    OBVIOUS
  <2>2. \A c \in C : g[c] = Cardinality(Fibre(c))
    BY DEF CountsFibres
  <2> HIDE DEF Fibre
  <2> QED
    BY <2>1, <2>2, CountLemma
<1>5. \A S \in SUBSET C : SumAt(g, S)
  BY <1>2, <1>4, SumLemma
<1>6. 0 \in I
  <2>1. ASSUME NEW S \in SUBSET C, Cardinality(S) = 0 PROVE SumOver(g, S) = Cardinality(RowsIn(S))
    <3>1. S = {}
      BY <1>2, <2>1, FS_EmptySet
    <3>2. RowsIn(S) = {}
      BY <3>1
    <3>3. SumOver(g, {}) = 0
      BY <1>5, <3>1 DEF SumAt
    <3> HIDE DEF RowsIn
    <3> QED
      BY <3>1, <3>2, <3>3, FS_EmptySet
  <2> QED
    BY <2>1
<1>7. ASSUME NEW m \in Nat, m \in I PROVE m + 1 \in I
  <2>1. ASSUME NEW S \in SUBSET C, Cardinality(S) = m + 1
        PROVE  SumOver(g, S) = Cardinality(RowsIn(S))
    <3>1. S # {}
      BY <1>2, <2>1, FS_EmptySet
    <3>2. PICK c \in S : TRUE
      BY <3>1
    <3> DEFINE rest == S \ {c}
    <3>3. rest \in SUBSET C /\ c \in C
      OBVIOUS
    <3>4. Cardinality(rest) = m
      <4>1. IsFiniteSet(S) /\ Cardinality(S) = m + 1
        BY <1>2, <2>1
      <4>2. Cardinality(rest) = Cardinality(S) - 1
        BY <4>1, FS_RemoveElement
      <4> QED
        BY <4>1, <4>2
    <3>5. SumOver(g, rest) = Cardinality(RowsIn(rest))
      BY <1>7, <3>3, <3>4
    <3>6. SumOver(g, S) = g[c] + SumOver(g, rest)
      <4>1. SumAt(g, S)
        BY <1>5
      <4> QED
        BY <4>1 DEF SumAt
    <3>7. RowsIn(S) = Fibre(c) \cup RowsIn(rest) /\ Fibre(c) \cap RowsIn(rest) = {}
      OBVIOUS
    <3> HIDE DEF RowsIn, Fibre, rest
    <3>8. Cardinality(RowsIn(S)) = Cardinality(Fibre(c)) + Cardinality(RowsIn(rest)) - Cardinality({})
      BY <1>3, <1>4, <3>3, <3>7, FS_Union
    <3> QED
      BY <1>3, <1>4, <3>3, <3>5, <3>6, <3>8, FS_EmptySet
  <2> QED
    BY <2>1
<1> HIDE DEF I
<1>8. Nat \subseteq I
  BY <1>6, <1>7, Induction
<1>9. SumOver(g, C) = Cardinality(RowsIn(C))
  <2>1. Cardinality(C) \in I /\ C \in SUBSET C
    BY <1>2, <1>8
  <2> QED
    BY <2>1 DEF I
<1>10. RowsIn(C) = 1..N /\ Cardinality(1..N) = N
  BY FS_Interval DEF IsImage
<1> HIDE DEF RowsIn
<1> QED
  BY <1>9, <1>10

(***************************************************************************)
(* The figures mean what they say.                                         *)
(***************************************************************************)

LEMMA FieldsLemma ==
  ASSUME NEW s
  PROVE  /\ DatasetStatistics(s).rows = Len(s)
         /\ DatasetStatistics(s).providers =
              [p \in Providers |-> Cardinality({n \in DOMAIN s : HasBit(s[n].mask, p)})]
         /\ DatasetStatistics(s).combinations =
              [c \in {{p \in Providers : HasBit(mask, p)} : mask \in {s[n].mask : n \in DOMAIN s}} |->
                 Cardinality({n \in DOMAIN s : \A p \in Providers : HasBit(s[n].mask, p) <=> p \in c})]
         /\ DatasetStatistics(s).quantiles =
              IF Len(s) = 0 THEN <<>> ELSE [p \in Percents |-> AreaAt(s, Offset(p, Len(s)))]
BY DEF DatasetStatistics, Count, Values, Sum, MapThenSumSet, MapThenFoldSet

\* The tags of row n.
Tags(rows, n) == {p \in Providers : Tagged(rows[n], p)}

LEMMA CatalogRowsLemma ==
  ASSUME NEW rows, NEW N \in Nat, Len(rows) = N, DOMAIN rows = 1..N,
         NEW s, s = CatalogRows(rows)
  PROVE  /\ DOMAIN s = 1..N /\ Len(s) = N
         /\ \A n \in 1..N : /\ s[n].area = rows[n].area
                            /\ \A p \in Providers : HasBit(s[n].mask, p) <=> p \in Tags(rows, n)
<1>1. s = [n \in 1..N |-> CatalogRow(rows[n])]
  BY DEF CatalogRows
<1>2. DOMAIN s = 1..N
  BY <1>1
<1>3. Len(s) = N
  <2> DEFINE X == {CatalogRow(rows[n]) : n \in 1..N}
  <2>1. s \in [1..N -> X]
    BY <1>1
  <2> HIDE DEF X
  <2> QED
    BY <2>1
<1>4. ASSUME NEW n \in 1..N
      PROVE  /\ s[n].area = rows[n].area
             /\ \A p \in Providers : HasBit(s[n].mask, p) <=> p \in Tags(rows, n)
  <2>1. s[n].area = rows[n].area /\ s[n].mask = ProviderMask(rows[n])
    BY <1>1 DEF CatalogRow
  <2>2. \A p \in Providers : HasBit(ProviderMask(rows[n]), p) <=> Tagged(rows[n], p)
    BY BitLemma
  <2> QED
    BY <2>1, <2>2 DEF Tags
<1> QED
  BY <1>2, <1>3, <1>4

\* A combination of providers has the rows with exactly those tags, and each
\* row is in one.
LEMMA CombinationsLemma ==
  ASSUME NEW rows, NEW N \in Nat, Len(rows) = N, DOMAIN rows = 1..N,
         NEW g, g = DatasetStatistics(CatalogRows(rows)).combinations
  PROVE  /\ \A c \in DOMAIN g : g[c] = Cardinality({n \in 1..N : c = Tags(rows, n)})
         /\ SumOver(g, DOMAIN g) = N
<1> DEFINE s == CatalogRows(rows)
           C == {{p \in Providers : HasBit(mask, p)} : mask \in {s[n].mask : n \in DOMAIN s}}
           f == [n \in 1..N |-> Tags(rows, n)]
<1>1. /\ DOMAIN s = 1..N
      /\ \A n \in 1..N : \A p \in Providers : HasBit(s[n].mask, p) <=> p \in Tags(rows, n)
  <2> HIDE DEF s
  <2> QED
    BY CatalogRowsLemma DEF s
<1>2. g = [c \in C |-> Cardinality({n \in DOMAIN s : \A p \in Providers : HasBit(s[n].mask, p) <=> p \in c})]
  BY FieldsLemma
<1> HIDE DEF s
<1>3. \A n \in 1..N : Tags(rows, n) \subseteq Providers
  BY DEF Tags
<1>4. \A n \in 1..N : {p \in Providers : HasBit(s[n].mask, p)} = Tags(rows, n)
  BY <1>1, <1>3
<1>5. C = {f[n] : n \in 1..N}
  <2>1. C = {{p \in Providers : HasBit(s[n].mask, p)} : n \in 1..N}
    BY <1>1
  <2> HIDE DEF C
  <2> QED
    BY <1>4, <2>1
<1>6. ASSUME NEW c \in C PROVE g[c] = Cardinality({n \in 1..N : f[n] = c})
  <2>1. c \subseteq Providers
    OBVIOUS
  <2>2. ASSUME NEW n \in 1..N
        PROVE  (\A p \in Providers : HasBit(s[n].mask, p) <=> p \in c) <=> Tags(rows, n) = c
    BY <1>1, <1>3, <2>1, <2>2
  <2>3. {n \in DOMAIN s : \A p \in Providers : HasBit(s[n].mask, p) <=> p \in c}
           = {n \in 1..N : f[n] = c}
    BY <1>1, <2>2
  <2> HIDE DEF f, C
  <2> QED
    BY <1>2, <2>3
<1>7. DOMAIN g = C
  BY <1>2
<1>8. SumOver(g, C) = N
  <2> HIDE DEF C, f
  <2>1. IsImage(C, f, N) /\ CountsFibres(g, f, C, N)
    BY <1>5, <1>6 DEF IsImage, CountsFibres
  <2> QED
    BY <2>1, FibresLemma
<1>9. \A c : {n \in 1..N : f[n] = c} = {n \in 1..N : c = Tags(rows, n)}
  OBVIOUS
<1> HIDE DEF C, f
<1> QED
  BY <1>6, <1>7, <1>8, <1>9

LEMMA QuantilesLemma ==
  ASSUME NEW rows, NEW N \in Nat, Len(rows) = N, DOMAIN rows = 1..N,
         \A n \in 1..N : rows[n].area \in Int,
         NEW q, q = DatasetStatistics(CatalogRows(rows)).quantiles,
         NEW p \in DOMAIN q
  PROVE  IsQuantile(rows, N, p, q[p])
<1> DEFINE s == CatalogRows(rows)
<1>1. DOMAIN s = 1..N /\ Len(s) = N /\ \A n \in 1..N : s[n].area = rows[n].area
  <2> HIDE DEF s
  <2> QED
    BY CatalogRowsLemma DEF s
<1>2. q = DatasetStatistics(s).quantiles
  OBVIOUS
<1> HIDE DEF s
<1>3. DatasetStatistics(s).quantiles =
        IF Len(s) = 0 THEN <<>> ELSE [i \in Percents |-> AreaAt(s, Offset(i, Len(s)))]
  BY FieldsLemma
<1>4. q = IF N = 0 THEN <<>> ELSE [i \in Percents |-> AreaAt(s, Offset(i, N))]
  BY <1>1, <1>2, <1>3
<1>5. N # 0
  <2> SUFFICES ASSUME N = 0 PROVE FALSE
    OBVIOUS
  <2>1. q = <<>>
    BY <1>4
  <2>2. DOMAIN q = {}
    BY <2>1
  <2> QED
    BY <2>2
<1>6. q = [i \in Percents |-> AreaAt(s, Offset(i, N))]
  BY <1>4, <1>5
<1>7. N # 0 /\ p \in 0..100 /\ q[p] = AreaAt(s, Offset(p, N))
  BY <1>5, <1>6, ProvidersAssumption
<1>8. IsQuantile(s, N, p, q[p])
  BY <1>1, <1>7, QuantileLemma
<1>9. \A x : NumberUpTo(s, x) = NumberUpTo(rows, x)
  <2> SUFFICES ASSUME NEW x PROVE NumberUpTo(s, x) = NumberUpTo(rows, x)
    OBVIOUS
  <2>1. {n \in DOMAIN s : s[n].area <= x} = {n \in DOMAIN rows : rows[n].area <= x}
    BY <1>1
  <2> QED
    BY <2>1 DEF NumberUpTo
<1> QED
  BY <1>1, <1>8, <1>9 DEF IsQuantile

LEMMA DirectLemma ==
  ASSUME NEW images, IsFiniteSet(images), NEW links
  PROVE  AssetStatistics(images, links).direct =
           AssetStatistics(images, links).stable + AssetStatistics(images, links).expiring
<1> DEFINE direct == {i \in images : i.url}
           stable == {i \in direct : ~ i.expires}
           expiring == {i \in direct : i.expires}
<1>1. stable \cup expiring = direct /\ stable \cap expiring = {}
      /\ direct \subseteq images /\ stable \subseteq images /\ expiring \subseteq images
  OBVIOUS
<1>2. /\ AssetStatistics(images, links).direct = Cardinality(direct)
      /\ AssetStatistics(images, links).stable = Cardinality(stable)
      /\ AssetStatistics(images, links).expiring = Cardinality(expiring)
  BY DEF AssetStatistics
<1> HIDE DEF direct, stable, expiring
<1>3. IsFiniteSet(stable) /\ IsFiniteSet(expiring)
  BY <1>1, FS_Subset
<1>4. Cardinality(stable) \in Nat /\ Cardinality(expiring) \in Nat /\ Cardinality({}) = 0
  BY <1>3, FS_CardinalityType, FS_EmptySet
<1>5. Cardinality(direct) = Cardinality(stable) + Cardinality(expiring) - Cardinality({})
  BY <1>1, <1>3, FS_Union
<1> QED
  BY <1>2, <1>4, <1>5

LEMMA RowsOfLemma ==
  ASSUME NEW r \in Releases
  PROVE  LET rows == RowsOf(TableOf(r))
         IN Len(rows) \in Nat /\ DOMAIN rows = 1..Len(rows) /\ \A n \in 1..Len(rows) : rows[n].area \in Int
<1>1. CASE TableOf(r) = NoTable
  <2>1. RowsOf(TableOf(r)) = <<>>
    BY <1>1 DEF RowsOf
  <2> QED
    BY <2>1
<1>2. CASE TableOf(r) # NoTable
  <2>1. TableOf(r) \in Tables
    BY <1>2 DEF Tables
  <2> QED
    BY <2>1, RowsLemma, AreasAssumption
<1> QED
  BY <1>1, <1>2

LEMMA MeansLemma ==
  ASSUME release \in Releases,
         figures = [dataset |-> DatasetStatistics(CatalogRows(RowsOf(TableOf(release)))),
                    assets |-> AssetStatistics(Images(release), Links(release))]
  PROVE  FiguresMeanIt
<1> DEFINE rows == RowsOf(Table)
           N == Len(rows)
           s == CatalogRows(rows)
           dataset == DatasetStatistics(s)
<1>1. N \in Nat /\ DOMAIN rows = 1..N /\ \A n \in 1..N : rows[n].area \in Int
  BY RowsOfLemma DEF Table
<1>2. figures.dataset = dataset /\ figures.assets = AssetStatistics(Images(release), Links(release))
  BY DEF Table
<1> HIDE DEF rows, N
<1>3. /\ DOMAIN s = 1..N /\ Len(s) = N
      /\ \A n \in 1..N : \A p \in Providers : HasBit(s[n].mask, p) <=> Tagged(rows[n], p)
  <2>1. /\ DOMAIN s = 1..N /\ Len(s) = N
        /\ \A n \in 1..N : \A p \in Providers : HasBit(s[n].mask, p) <=> p \in Tags(rows, n)
    <3> HIDE DEF s
    <3> QED
      BY <1>1, CatalogRowsLemma DEF s, N
  <2> HIDE DEF s
  <2> QED
    BY <2>1 DEF Tags
<1>4. dataset.rows = N
  <2> HIDE DEF s
  <2> QED
    BY <1>3, FieldsLemma
<1>5. ASSUME NEW p \in Providers
      PROVE  dataset.providers[p] = Cardinality({n \in DOMAIN rows : Tagged(rows[n], p)})
  <2> HIDE DEF s
  <2>1. dataset.providers = [i \in Providers |-> Cardinality({n \in DOMAIN s : HasBit(s[n].mask, i)})]
    BY FieldsLemma
  <2>2. {n \in DOMAIN s : HasBit(s[n].mask, p)} = {n \in DOMAIN rows : Tagged(rows[n], p)}
    BY <1>1, <1>3
  <2> HIDE DEF dataset
  <2> QED
    BY <2>1, <2>2
<1>6. /\ \A c \in DOMAIN dataset.combinations :
           dataset.combinations[c] = Cardinality({n \in 1..N : c = Tags(rows, n)})
      /\ SumOver(dataset.combinations, DOMAIN dataset.combinations) = N
  BY <1>1, CombinationsLemma DEF N
<1>7. ASSUME NEW p \in DOMAIN dataset.quantiles
      PROVE  IsQuantile(rows, N, p, dataset.quantiles[p])
  BY <1>1, <1>7, QuantilesLemma DEF N
<1>8. figures.assets.direct = figures.assets.stable + figures.assets.expiring
  BY <1>2, ImagesAssumption, DirectLemma
<1> DEFINE D == figures.dataset
<1>9. D = dataset
  BY <1>2
<1> HIDE DEF dataset, D
<1>10. \A c \in DOMAIN D.combinations :
          D.combinations[c] =
            Cardinality({n \in DOMAIN rows : c = {p \in Providers : Tagged(rows[n], p)}})
  BY <1>1, <1>6, <1>9 DEF Tags
<1>11. MapThenSumSet(LAMBDA c : D.combinations[c], DOMAIN D.combinations) = N
  <2>1. SumOver(D.combinations, DOMAIN D.combinations) = N
    BY <1>6, <1>9
  <2> QED
    BY <2>1 DEF SumOver
<1>12. ASSUME NEW p \in DOMAIN D.quantiles, NEW area, area = D.quantiles[p]
       PROVE  /\ Cardinality({n \in DOMAIN rows : rows[n].area <= area}) * 100 >= p * N
              /\ \A m \in DOMAIN rows : rows[m].area < area =>
                   Cardinality({n \in DOMAIN rows : rows[n].area <= rows[m].area}) * 100 < p * N
  <2>1. IsQuantile(rows, N, p, area)
    BY <1>7, <1>9, <1>12
  <2> QED
    BY <2>1 DEF IsQuantile, NumberUpTo
<1>13. \A p \in Providers :
          D.providers[p] = Cardinality({n \in DOMAIN rows : Tagged(rows[n], p)})
  BY <1>5, <1>9
<1>14. D.rows = N
  BY <1>4, <1>9
<1> QED
  BY <1>8, <1>10, <1>11, <1>12, <1>13, <1>14 DEF FiguresMeanIt, Count, D, rows, N

\* What a generation has in memory before it takes the figures: none.
NotYet == step \notin {"map"} \cup AfterMap => figures = None

LEMMA NotYetInv == NotYet /\ [Next]_vars => NotYet'
<1> SUFFICES ASSUME NotYet, [Next]_vars PROVE NotYet'
  OBVIOUS
<1> USE DEF NotYet, AfterMap, Moves, caches, memory, files, history
<1>1. CASE NewRelease \/ Begin \/ SyncCatalog \/ Index \/ Commit \/ TakeFigures
  BY <1>1 DEF NewRelease, Begin, SyncCatalog, Index, Commit, TakeFigures
<1>2. CASE BuildMap \/ WriteShardCache \/ WritePipelineCache
  BY <1>2 DEF BuildMap, WriteShardCache, WritePipelineCache
<1>3. CASE Copy \/ WriteStatistics \/ WriteCard
  BY <1>3 DEF Copy, WriteStatistics, WriteCard
<1>4. CASE Return \/ Kill
  BY <1>4 DEF Return, Kill, ForgetMemory
<1>5. CASE UNCHANGED vars
  BY <1>5 DEF vars
<1> QED
  BY <1>1, <1>2, <1>3, <1>4, <1>5 DEF Next

\* The figures that statistics.py takes from the catalog, through the masks of
\* catalog._provider_mask and the offsets of SQL, are those of the rows of
\* polygons.parquet, whatever the providers, the tables and the releases.
THEOREM FiguresCorrect == Spec => []FiguresMeanIt
<1>1. Init => NotYet
  BY DEF Init, NotYet
<1>2. IInv /\ NotYet => FiguresMeanIt
  <2> SUFFICES ASSUME IInv, NotYet, figures # None PROVE FiguresMeanIt
    BY DEF FiguresMeanIt
  <2>1. figures = FiguresOf(release) /\ release \in Releases
    BY DEF NotYet, IInv, Memory, Located
  <2> QED
    BY <2>1, MeansLemma DEF FiguresOf
<1> QED
  BY <1>1, <1>2, NotYetInv, InvariantHolds, PTL DEF Spec
=============================================================================
