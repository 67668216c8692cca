------------------------------ MODULE Metadata ------------------------------
(***************************************************************************)
(* generate_metadata of artifacts/reporting.py over many releases, killed  *)
(* between any two steps.  It indexes polygons.parquet in a catalog in one *)
(* transaction, takes the figures from it and from the files of images and *)
(* links, aggregates the polygons by H3 cell, draws the map unless         *)
(* pipeline.json says that the one in place is that of the same input, and *)
(* then writes two caches, the copies, the statistics and the card.        *)
(*                                                                         *)
(* A release comes from PublicDataset.  A table stands for its content,    *)
(* and so for its sha256 and its digest; NoTable is a release without rows.*)
(* Every file is replaced atomically, as artifacts/storage.py does.        *)
(***************************************************************************)
EXTENDS Figures

CONSTANTS Releases,
          TableOf(_), Rows(_),        \* polygons.parquet of a release, rows of a table
          Images(_), Links(_),        \* of a release
          BatchSize,                  \* batch_size of sync_catalog
          Schemas, Schema,            \* of the caches: all, and this one's
          Packaged,                   \* the copies: the hero picture, the citation
          NoTable, None

Tables == {TableOf(r) : r \in Releases} \ {NoTable}
RowsOf(table) == IF table = NoTable THEN <<>> ELSE Rows(table)

ASSUME RowsAssumption == \A t \in Tables : Rows(t) \in Seq({Rows(t)[n] : n \in DOMAIN Rows(t)})
ASSUME AreasAssumption == \A t \in Tables : \A n \in DOMAIN Rows(t) : Rows(t)[n].area \in Int
ASSUME ImagesAssumption == \A r \in Releases : IsFiniteSet(Images(r))
ASSUME SizeAssumption == BatchSize \in Nat \ {0}
ASSUME SchemaAssumption == Schema \in Schemas

VARIABLES
  release,
  catalog, transaction,        \* catalog/public.sqlite, and what is not committed
  figures, cells,              \* the statistics and the H3 counts in memory
  shardCache, pipelineCache,   \* shards.json, pipeline.json
  map, statistics, card, copies,
  step,                        \* where generate_metadata is
  drawn, doubtful, returned    \* as in Reports

caches == <<catalog, shardCache, pipelineCache>>
memory == <<transaction, figures, cells>>
files == <<map, statistics, card, copies>>
history == <<doubtful, returned>>
vars == <<release, caches, memory, files, step, drawn, history>>

EmptyCatalog == [table |-> NoTable, rows |-> <<>>]
Entry(schema, table, counts) ==
  [schema |-> schema, table |-> table, rows |-> Len(RowsOf(table)), cells |-> counts]

\* Caches of another schema are those of an earlier version.
Init ==
  /\ release \in Releases
  /\ catalog = EmptyCatalog /\ transaction = None /\ figures = None /\ cells = None
  /\ shardCache \in {None} \cup {Entry(s, t, Cells(<<>>)) : s \in Schemas \ {Schema}, t \in Tables}
  /\ pipelineCache = None
  /\ map = None /\ statistics = None /\ card = None /\ copies \in SUBSET Packaged
  /\ step = "idle" /\ drawn = FALSE /\ doubtful = FALSE /\ returned = None

Table == TableOf(release)
Moves(from, to) == step = from /\ step' = to

\* The next run's build_public_dataset leaves another release.
NewRelease ==
  /\ step = "idle" /\ release' \in Releases
  /\ UNCHANGED <<caches, memory, files, step, drawn, history>>

Begin ==
  /\ Moves("idle", "catalog")
  /\ returned' = None
  /\ UNCHANGED <<release, caches, memory, files, drawn, doubtful>>

(***************************************************************************)
(* artifacts/catalog.py: one transaction.                                  *)
(***************************************************************************)

\* A table that is in the catalog is not indexed again, others are removed.
SyncCatalog ==
  /\ step = "catalog"
  /\ IF Table \in {NoTable, catalog.table}
     THEN /\ catalog' = (IF Table = NoTable THEN EmptyCatalog ELSE catalog)
          /\ step' = "figures" /\ UNCHANGED transaction
     ELSE /\ transaction' = <<>>
          /\ step' = "index" /\ UNCHANGED catalog
  /\ UNCHANGED <<release, shardCache, pipelineCache, figures, cells, files, drawn, history>>

CatalogRows(rows) == [n \in DOMAIN rows |-> CatalogRow(rows[n])]

\* _index_shard: the next batch of rows.  Faulty: each batch is committed.
Batch(rows, read) ==
  SubSeq(rows, read + 1, IF read + BatchSize < Len(rows) THEN read + BatchSize ELSE Len(rows))
IndexedMore == transaction \o CatalogRows(Batch(RowsOf(Table), Len(transaction)))
IndexAndCommit ==
  /\ step = "index" /\ Len(transaction) < Len(RowsOf(Table))
  /\ transaction' = IndexedMore
  /\ catalog' = [table |-> Table, rows |-> transaction']
  /\ UNCHANGED <<release, shardCache, pipelineCache, figures, cells, files, step, drawn, history>>
Index ==
  /\ step = "index" /\ Len(transaction) < Len(RowsOf(Table))
  /\ transaction' = IndexedMore
  /\ UNCHANGED <<release, caches, figures, cells, files, step, drawn, history>>

\* The end of the file.  The rows of the manifest are those of its file.
Commit ==
  /\ Moves("index", "figures") /\ Len(transaction) = Len(RowsOf(Table))
  /\ catalog' = [table |-> Table, rows |-> transaction]
  /\ transaction' = None
  /\ UNCHANGED <<release, shardCache, pipelineCache, figures, cells, files, drawn, history>>

TakeFigures ==
  /\ Moves("figures", "map")
  /\ figures' = [dataset |-> DatasetStatistics(catalog.rows),
                 assets |-> AssetStatistics(Images(release), Links(release))]
  /\ UNCHANGED <<release, caches, transaction, cells, files, drawn, history>>

(***************************************************************************)
(* artifacts/geography: the map and its two caches.                        *)
(***************************************************************************)

\* load_shard_cache and _reusable_shard.  Faulty: any schema is read.
ReusableOfAnySchema(entry) ==
  entry # None /\ entry.table = Table /\ entry.rows = Len(RowsOf(Table))
Reusable(entry) ==
  /\ entry # None /\ entry.schema = Schema
  /\ entry.table = Table /\ entry.rows = Len(RowsOf(Table))
Aggregated == IF Reusable(shardCache) THEN shardCache.cells ELSE Cells(RowsOf(Table))

\* MapStatistics, which pipeline.json holds too.
Geography(table, counts) ==
  [table |-> table, cells |-> Cardinality(DOMAIN counts), rows |-> Len(RowsOf(table)),
   range |-> CellRange(counts)]

\* _map_cache_is_valid.  Faulty: the digest of the input is left out.
SameDimensions(counts) ==
  pipelineCache # None /\ [pipelineCache EXCEPT !.table = Table] = Geography(Table, counts) /\ map # None
MapIsCurrent(counts) == pipelineCache = Geography(Table, counts) /\ map # None

BuildMap ==
  /\ Moves("map", "shards")
  /\ cells' = Aggregated
  /\ IF MapIsCurrent(Aggregated) THEN UNCHANGED <<map, drawn, doubtful>>
     ELSE map' = Aggregated /\ drawn' = TRUE /\ doubtful' = FALSE
  /\ UNCHANGED <<release, caches, transaction, figures, statistics, card, copies, returned>>

WriteShardCache ==
  /\ Moves("shards", "pipeline")
  /\ shardCache' = Entry(Schema, Table, cells)
  /\ UNCHANGED <<release, catalog, pipelineCache, memory, files, drawn, history>>

WritePipelineCache ==
  /\ Moves("pipeline", "copies")
  /\ pipelineCache' = Geography(Table, cells)
  /\ drawn' = FALSE
  /\ UNCHANGED <<release, catalog, shardCache, memory, files, history>>

(***************************************************************************)
(* The reports.                                                            *)
(***************************************************************************)

\* _sync_hero, _sync_citation.
Copy ==
  /\ step = "copies"
  /\ IF copies = Packaged THEN step' = "statistics" /\ UNCHANGED copies
     ELSE (\E c \in Packaged \ copies : copies' = copies \cup {c}) /\ UNCHANGED step
  /\ UNCHANGED <<release, caches, memory, map, statistics, card, drawn, history>>

Payload ==
  [dataset |-> figures.dataset, assets |-> figures.assets, geography |-> Geography(Table, cells)]

WriteStatistics ==
  /\ Moves("statistics", "card")
  /\ statistics' = Payload
  /\ UNCHANGED <<release, caches, memory, map, card, copies, drawn, history>>

WriteCard ==
  /\ Moves("card", "return")
  /\ card' = Payload
  /\ UNCHANGED <<release, caches, memory, map, statistics, copies, drawn, history>>

ForgetMemory == transaction' = None /\ figures' = None /\ cells' = None

Return ==
  /\ Moves("return", "idle") /\ ForgetMemory
  /\ returned' = release
  /\ UNCHANGED <<release, caches, files, drawn, doubtful>>

\* A kill, or an exception: only files stay, and the transaction is rolled back.
Kill ==
  /\ step # "idle" /\ step' = "idle" /\ ForgetMemory
  /\ drawn' = FALSE /\ doubtful' = (doubtful \/ drawn)
  /\ UNCHANGED <<release, caches, files, returned>>

Next ==
  \/ NewRelease \/ Begin \/ SyncCatalog \/ Index \/ Commit \/ TakeFigures \/ BuildMap
  \/ WriteShardCache \/ WritePipelineCache \/ Copy \/ WriteStatistics \/ WriteCard
  \/ Return \/ Kill
Spec == Init /\ [][Next]_vars

(***************************************************************************)
(* Properties.                                                             *)
(***************************************************************************)

MapOf(r) == Cells(RowsOf(TableOf(r)))
StatisticsOf(r) ==
  [dataset |-> DatasetStatistics(CatalogRows(RowsOf(TableOf(r)))),
   assets |-> AssetStatistics(Images(r), Links(r)),
   geography |-> Geography(TableOf(r), MapOf(r))]

AnyMap == {MapOf(r) : r \in Releases}
AnyStatistics == {StatisticsOf(r) : r \in Releases}
AnyGeography == {Geography(TableOf(r), MapOf(r)) : r \in Releases}
Steps == {"idle", "catalog", "index", "figures", "map", "shards", "pipeline", "copies",
          "statistics", "card", "return"}

\* What each file and each step's memory can hold: only the figures, the map
\* and the digests of some release, whatever was killed and restarted before.
TypeOK ==
  /\ release \in Releases /\ returned \in Releases \cup {None} /\ step \in Steps
  /\ drawn \in BOOLEAN /\ doubtful \in BOOLEAN /\ copies \subseteq Packaged
  /\ map \in AnyMap \cup {None} /\ cells \in AnyMap \cup {None}
  /\ pipelineCache \in AnyGeography \cup {None}
  /\ statistics \in AnyStatistics \cup {None} /\ card \in AnyStatistics \cup {None}

\* A shard is in the catalog with its sha256 only when all its rows are, so
\* that a generation killed while it indexes leaves no partial shard that the
\* next one would take for whole: catalog.py `with _connect`, `_sync_catalog_shard`.
CatalogIsWhole == catalog.rows = CatalogRows(RowsOf(catalog.table))

\* The figures that SQL takes from the catalog are those of the rows of
\* polygons.parquet itself: a provider counts the polygons tagged with it, in
\* whatever combination, and pN is the least area that N % of them do not
\* exceed (statistics.py, catalog._provider_mask).
FiguresMeanIt ==
  figures # None =>
    LET rows == RowsOf(Table)
        dataset == figures.dataset
        AtMost(area) == Count(rows, LAMBDA row : row.area <= area) * 100
    IN /\ dataset.rows = Len(rows)
       /\ \A p \in Providers : dataset.providers[p] = Count(rows, LAMBDA row : Tagged(row, p))
       /\ \A c \in DOMAIN dataset.combinations :
            dataset.combinations[c] =
              Count(rows, LAMBDA row : c = {p \in Providers : Tagged(row, p)})
       /\ MapThenSumSet(LAMBDA c : dataset.combinations[c], DOMAIN dataset.combinations) = Len(rows)
       /\ \A p \in DOMAIN dataset.quantiles :
            LET area == dataset.quantiles[p]
            IN /\ AtMost(area) >= p * Len(rows)
               /\ \A n \in DOMAIN rows : rows[n].area < area => AtMost(rows[n].area) < p * Len(rows)
       /\ figures.assets.direct = figures.assets.stable + figures.assets.expiring

R == INSTANCE Reports WITH NoReport <- None

\* generate_metadata writes the reports that a first generation in an empty
\* directory would write, whatever caches, kills and earlier releases it meets.
RebuiltFromNothing == R!Spec
=============================================================================
