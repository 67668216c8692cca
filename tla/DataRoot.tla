------------------------------ MODULE DataRoot ------------------------------
(***************************************************************************)
(* The files of the data root by the way they are named: which ones the    *)
(* code writes, which ones cleanup_stale_temps removes at the start of a   *)
(* run (runtime/cleanup.py), and which ones publication_inventory accepts  *)
(* (artifacts/publication_inventory.py).                                   *)
(*                                                                         *)
(* A file stands for all those of its directory, form and target, where    *)
(* the target is the end of the name that the code tests.  The forms:      *)
(*    final      the target itself                                         *)
(*    temp       .target.XXXXXXXX.tmp, which replaces the target           *)
(*    unnamed    tmpXXXXXXXX, when atomic_write_bytes gets no prefix       *)
(*    database   a SQLite database with a random name                      *)
(*    journal    its rollback journal, there while a transaction is open   *)
(***************************************************************************)
EXTENDS FiniteSets

File(dir, form, target) == [dir |-> dir, form |-> form, target |-> target]
Temp(dir, target) == File(dir, "temp", target)
TagStore == File("tmp", "database", "tag-store")
TagStoreJournal == File("tmp", "journal", "tag-store")
ShardTemp == Temp("data", ".parquet")
ManifestTemp == Temp("manifests", ".manifest.json")

\* What the worker writes for an asset shard: assets/sort.py, assets/storage.py,
\* assets/manifest.py.
AssetTemps ==
  {File("assets", "database", "asset-sort"), File("assets", "journal", "asset-sort"),
   Temp("assets", ".parquet"), Temp("asset-manifests", ".assets.manifest.json")}

\* What a refresh writes: public_assets.py and public_dataset.py, then
\* reporting.py with geography/cache.py and render.py, then publication.py.
ReportTemps ==
  {Temp("public", ".parquet"), Temp("public", "public-manifest"),
   Temp("cache", ".json"), Temp("assets", ".png"), Temp("root", "citation.cff"),
   Temp("statistics", ".json"), Temp("root", "README.md"), File("receipts", "unnamed", "any")}

PipelineTemps ==
  {TagStore, TagStoreJournal, ShardTemp, ManifestTemp} \cup AssetTemps \cup ReportTemps

\* The .tmp siblings of a Parquet or manifest write, as docs/operations.md says.
ParquetOrManifest == {".parquet", ".manifest.json", ".assets.manifest.json", "public-manifest"}
Siblings == {f \in PipelineTemps : f.form = "temp" /\ f.target \in ParquetOrManifest}

(***************************************************************************)
(* cleanup_stale_temps.                                                    *)
(***************************************************************************)

\* Faulty: the manifests are forgotten.
LocationsOfTables ==
  {<<"root", "README.md">>, <<"data", ".parquet">>, <<"assets", ".parquet">>,
   <<"public", ".parquet">>, <<"public", "public-manifest">>, <<"statistics", ".json">>}
AtomicLocations ==
  {<<"root", "README.md">>, <<"data", ".parquet">>, <<"assets", ".parquet">>,
   <<"manifests", ".manifest.json">>, <<"asset-manifests", ".assets.manifest.json">>,
   <<"public", ".parquet">>, <<"public", "public-manifest">>, <<"statistics", ".json">>}

\* Faulty: a .tmp sibling in a directory of the pipeline is its own.
IsInOwnedDirectory(f) ==
  f.form \in {"temp", "database"} /\ f.dir \in {location[1] : location \in AtomicLocations} \cup {"tmp"}
\* _is_pipeline_temp, _is_tmp_temp.  Of a tag store the patterns name -wal and
\* -shm, but not -journal.
IsOwned(f) ==
  \/ f.form = "temp" /\ <<f.dir, f.target>> \in AtomicLocations
  \/ f.dir = "assets" /\ f.form \in {"database", "journal"} /\ f.target = "asset-sort"
  \/ f.dir = "tmp" /\ f.form = "database" /\ f.target = "tag-store"
Cleaned(files) == {f \in files : ~ IsOwned(f)}

(***************************************************************************)
(* publication_inventory: a shard is managed when its manifest is there.   *)
(***************************************************************************)

Final(f) == File(f.dir, "final", f.target)
Managed(f, files) == f.dir = "data" => Final(ManifestTemp) \in files
IsExpected(f, files) == f.dir = "cache" \/ (f.form = "final" /\ Managed(f, files))
Unexpected(files) == {f \in files : ~ IsExpected(f, files)}
=============================================================================
