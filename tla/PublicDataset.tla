--------------------------- MODULE PublicDataset ---------------------------
(***************************************************************************)
(* The public dataset of artifacts/public_dataset.py over many builds that *)
(* may be killed, or raise, between any two steps.                         *)
(*                                                                         *)
(* A build deduplicates the rows of all polygon shards in a checkpoint     *)
(* database (public_polygon_accumulator.py), one transaction per shard,    *)
(* writes public/polygons.parquet, joins the asset shards with it in a     *)
(* second database (public_asset_accumulator.py), writes images.parquet    *)
(* and polygon_images.parquet, and then the public manifest.  A later      *)
(* build reuses the release or what the databases have.                    *)
(*                                                                         *)
(* A shard stands for its content, and so for its sha256.  A file is the   *)
(* table it holds; two digests are equal when the tables are.  The images  *)
(* and links of an asset shard depend on it and on the polygons it is      *)
(* joined with: they are the pair of the two.                              *)
(*                                                                         *)
(* Digests are taken from the manifests that a build lists at its start.   *)
(* refresh_lock keeps the polygon shards as they are until its end; the    *)
(* asset shards are kept by the pause of the worker, which EnrichmentHang  *)
(* shows to fail, so that a shard may have been replaced when it is read.  *)
(***************************************************************************)
EXTENDS Integers, Sequences, FiniteSets

CONSTANTS Shards,        \* polygon shards
          Rows(_),       \* rows of a polygon shard
          AssetShards,
          Rebuilt(_),    \* what the worker may put in the place of an asset shard
          PolygonLists,  \* inputs the builds meet, shards in path order
          AssetLists,
          Ids,           \* (osm_type, osm_id)
          SourcePbfs,
          None

\* version and time are -1 when the row has none; order is the place of its
\* (source_pbf, source_feature_id, sort_key) among those of all rows.
Row == [id: Ids, version: Int, time: Int, source: SourcePbfs, order: Int]

ASSUME RowsAssumption == \A s \in Shards : Rows(s) \subseteq Row
\* sort_key is the canonical form of the whole row.
ASSUME OrderAssumption ==
  \A s, t \in Shards : \A r \in Rows(s), q \in Rows(t) : r.order = q.order => r = q
ASSUME RebuiltAssumption == \A s \in AssetShards : Rebuilt(s) \subseteq AssetShards
ASSUME ListsAssumption ==
  PolygonLists \subseteq Seq(Shards) /\ AssetLists \subseteq Seq(AssetShards)

VARIABLES
  inputs, assetInputs,       \* the verified manifests
  misread,                   \* (history) shards as listed, and as read if replaced by then
  checkpoint,                \* tmp/.public-polygons.sqlite, as committed
  table, left,               \* the open transaction and the rows still to add
  assetCheckpoint,           \* tmp/.public-assets.sqlite, as committed
  polygons, images, links,   \* the public files
  manifest,                  \* public/public-manifest.json
  build, index               \* where build_public_dataset is, and at which shard

inputVars == <<inputs, assetInputs, misread>>
transaction == <<table, left>>
fileVars == <<polygons, images, links, manifest>>
control == <<build, index>>
vars == <<inputVars, checkpoint, transaction, assetCheckpoint, fileVars, control>>

OrNone(S) == S \cup {None}

\* The tables polygons and polygon_sources, and the file written from them.
Tables == [winner: [Ids -> OrNone(Row)], sources: [Ids -> SUBSET SourcePbfs]]
NoRows == [winner |-> [i \in Ids |-> None], sources |-> [i \in Ids |-> {}]]

Marks(S) == SUBSET (Nat \X S)    \* checkpoint_sources: index and digest
Checkpoints == [inputs: Seq(Shards), done: Marks(Shards), table: Tables, output: OrNone(Tables)]
Joined == SUBSET (AssetShards \X Tables)
AssetCheckpoints == [inputs: Seq(AssetShards), fingerprint: Tables, done: Marks(AssetShards),
                     joined: Joined]
PublicManifests == [inputs: Seq(Shards), assetInputs: Seq(AssetShards),
                    polygons: Tables, images: Joined, links: Joined]

ASSUME NoneAssumption ==
  None \notin Row \cup Checkpoints \cup AssetCheckpoints \cup PublicManifests

AtRest == build \in {"idle", "returned"}

TypeOK ==
  /\ inputs \in Seq(Shards) /\ assetInputs \in Seq(AssetShards)
  /\ misread \in SUBSET (AssetShards \X AssetShards)
  /\ checkpoint = None \/ checkpoint \in Checkpoints
  /\ table \in Tables /\ left \in SUBSET Row
  /\ assetCheckpoint = None \/ assetCheckpoint \in AssetCheckpoints
  /\ polygons = None \/ polygons \in Tables
  /\ images = None \/ images \in Joined
  /\ links = None \/ links \in Joined
  /\ manifest = None \/ manifest \in PublicManifests
  /\ build \in {"idle", "returned", "sources", "rows", "record", "assets", "assetSources",
                "images", "links", "dropAssets", "manifest", "dropPolygons"}
  /\ index \in Nat

Init ==
  /\ inputs \in PolygonLists /\ assetInputs \in AssetLists /\ misread = {}
  /\ checkpoint = None /\ table = NoRows /\ left = {}
  /\ assetCheckpoint = None
  /\ polygons = None /\ images = None /\ links = None /\ manifest = None
  /\ build = "idle" /\ index = 0

\* Shards were built, or taken away, since the last build.
InputsChange ==
  /\ AtRest
  /\ inputs' \in PolygonLists /\ assetInputs' \in AssetLists
  /\ build' = "idle"
  /\ UNCHANGED <<misread, checkpoint, transaction, assetCheckpoint, fileVars, index>>

(***************************************************************************)
(* What a build takes over from earlier ones.                              *)
(***************************************************************************)

\* validate_public_dataset: the files have the digests of the manifest.
Validated ==
  /\ manifest # None
  /\ polygons = manifest.polygons /\ images = manifest.images /\ links = manifest.links

\* _try_reuse.  Faulty: the inputs of the manifest are not compared.
ReusableFiles == Validated
Reusable ==
  /\ Validated
  /\ manifest.inputs = inputs /\ manifest.assetInputs = assetInputs

\* Every completed shard is where it was.
MarksMatch(done, list) == \A mark \in done : mark[1] \in DOMAIN list /\ list[mark[1]] = mark[2]

\* _remove_incompatible_polygon_checkpoint keeps a database of the same inputs.
\* Faulty: only the shards it has completed are compared.
CompatibleMarks == checkpoint # None /\ MarksMatch(checkpoint.done, inputs)
Compatible == /\ checkpoint # None
              /\ checkpoint.inputs = inputs /\ MarksMatch(checkpoint.done, inputs)

\* The same for the assets; the polygons must be those it joined them with.
AssetCompatible == /\ assetCheckpoint # None /\ assetCheckpoint.inputs = assetInputs
                   /\ MarksMatch(assetCheckpoint.done, assetInputs)
                   /\ assetCheckpoint.fingerprint = polygons

(***************************************************************************)
(* The polygons.                                                           *)
(***************************************************************************)

\* build_public_dataset returns the release as it is and removes both databases.
ReuseRelease ==
  /\ AtRest /\ Reusable
  /\ checkpoint' = None /\ assetCheckpoint' = None
  /\ build' = "returned"
  /\ UNCHANGED <<inputVars, transaction, fileVars, index>>

OpenCheckpoint ==
  /\ AtRest /\ ~Reusable
  /\ checkpoint' = IF Compatible THEN checkpoint
                   ELSE [inputs |-> inputs, done |-> {}, table |-> NoRows, output |-> None]
  /\ build' = "sources" /\ index' = 1
  /\ UNCHANGED <<inputVars, transaction, assetCheckpoint, fileVars>>

\* source_completed.
Completed == <<index, inputs[index]>> \in checkpoint.done

SkipSource ==
  /\ build = "sources" /\ index \in DOMAIN inputs
  /\ Completed
  /\ index' = index + 1
  /\ UNCHANGED <<inputVars, checkpoint, transaction, assetCheckpoint, fileVars, build>>

BeginSource ==
  /\ build = "sources" /\ index \in DOMAIN inputs
  /\ ~Completed
  /\ table' = checkpoint.table /\ left' = Rows(inputs[index])
  /\ build' = "rows"
  /\ UNCHANGED <<inputVars, checkpoint, assetCheckpoint, fileVars, index>>

\* The WHERE clause of the upsert in add_many.
Beats(a, b) ==
  \/ a.version > b.version
  \/ a.version = b.version /\ a.time > b.time
  \/ a.version = b.version /\ a.time = b.time /\ a.order < b.order

\* add_many, for one row; the rows of a shard come in any order.
AddRow(row) ==
  /\ build = "rows" /\ row \in left
  /\ left' = left \ {row}
  /\ table' =
       LET old == table.winner[row.id]
           wins == old = None \/ Beats(row, old)
       IN [winner  |-> [table.winner EXCEPT ![row.id] = IF wins THEN row ELSE @],
           sources |-> [table.sources EXCEPT ![row.id] = @ \cup {row.source}]]
  /\ UNCHANGED <<inputVars, checkpoint, assetCheckpoint, fileVars, control>>

\* complete_source commits the rows and the mark in one transaction.
CompleteSource ==
  /\ build = "rows" /\ left = {}
  /\ checkpoint' = [checkpoint EXCEPT !.table = table, !.done = @ \cup {<<index, inputs[index]>>}]
  /\ build' = "sources" /\ index' = index + 1
  /\ table' = NoRows
  /\ UNCHANGED <<inputVars, left, assetCheckpoint, fileVars>>

\* all_sources_completed holds at the end of the loop.
SourcesDone == build = "sources" /\ index \notin DOMAIN inputs

\* _reusable_polygon_rows: the file has the digest the database recorded.
\* Faulty: a database that recorded none is not ruled out.
OutputMatches == polygons = checkpoint.output
PolygonsReusable == checkpoint.output # None /\ polygons = checkpoint.output

ReusePolygons ==
  /\ SourcesDone /\ PolygonsReusable
  /\ build' = "assets"
  /\ UNCHANGED <<inputVars, checkpoint, transaction, assetCheckpoint, fileVars, index>>

WritePolygons ==
  /\ SourcesDone /\ ~PolygonsReusable
  /\ polygons' = checkpoint.table
  /\ build' = "record"
  /\ UNCHANGED <<inputVars, checkpoint, transaction, assetCheckpoint, images, links, manifest,
                 index>>

\* record_public_output.
RecordOutput ==
  /\ build = "record"
  /\ checkpoint' = [checkpoint EXCEPT !.output = polygons]
  /\ build' = "assets"
  /\ UNCHANGED <<inputVars, transaction, assetCheckpoint, fileVars, index>>

(***************************************************************************)
(* The images and links.                                                   *)
(***************************************************************************)

\* _open_public_asset_accumulator, or _empty_public_asset_tables.
OpenAssetCheckpoint ==
  /\ build = "assets"
  /\ assetCheckpoint' =
       IF assetInputs = <<>> THEN None
       ELSE IF AssetCompatible THEN assetCheckpoint
       ELSE [inputs |-> assetInputs, fingerprint |-> polygons, done |-> {}, joined |-> {}]
  /\ build' = IF assetInputs = <<>> THEN "images" ELSE "assetSources"
  /\ index' = 1
  /\ UNCHANGED <<inputVars, checkpoint, transaction, fileVars>>

\* _process_asset_sources, one shard: it is skipped, or joined and committed
\* under the digest it was listed with.
AssetCompleted == <<index, assetInputs[index]>> \in assetCheckpoint.done

SkipAssetSource ==
  /\ build = "assetSources" /\ index \in DOMAIN assetInputs
  /\ AssetCompleted
  /\ index' = index + 1
  /\ UNCHANGED <<inputVars, checkpoint, transaction, assetCheckpoint, fileVars, build>>

ProcessAssetSource(content) ==
  /\ build = "assetSources" /\ index \in DOMAIN assetInputs
  /\ ~AssetCompleted
  /\ content = assetInputs[index] \/ content \in Rebuilt(assetInputs[index])
  /\ assetCheckpoint' = [assetCheckpoint EXCEPT !.joined = @ \cup {<<content, polygons>>},
                                               !.done = @ \cup {<<index, assetInputs[index]>>}]
  /\ misread' = misread \cup ({<<assetInputs[index], content>>} \ {<<content, content>>})
  /\ index' = index + 1
  /\ UNCHANGED <<inputs, assetInputs, checkpoint, transaction, fileVars, build>>

AssetSourcesDone ==
  /\ build = "assetSources" /\ index \notin DOMAIN assetInputs
  /\ build' = "images"
  /\ UNCHANGED <<inputVars, checkpoint, transaction, assetCheckpoint, fileVars, index>>

\* _write_public_asset_outputs: two files, one after the other.
Output == IF assetCheckpoint = None THEN {} ELSE assetCheckpoint.joined

WriteImages ==
  /\ build = "images"
  /\ images' = Output
  /\ build' = "links"
  /\ UNCHANGED <<inputVars, checkpoint, transaction, assetCheckpoint, polygons, links, manifest,
                 index>>

WriteLinks ==
  /\ build = "links"
  /\ links' = Output
  /\ build' = "dropAssets"
  /\ UNCHANGED <<inputVars, checkpoint, transaction, assetCheckpoint, polygons, images, manifest,
                 index>>

\* _cleanup_public_asset_checkpoints, in the finally clause.
DropAssetCheckpoint ==
  /\ build = "dropAssets"
  /\ assetCheckpoint' = None
  /\ build' = "manifest"
  /\ UNCHANGED <<inputVars, checkpoint, transaction, fileVars, index>>

\* _write_public_dataset.
WriteManifest ==
  /\ build = "manifest"
  /\ manifest' = [inputs |-> inputs, assetInputs |-> assetInputs,
                  polygons |-> polygons, images |-> images, links |-> links]
  /\ build' = "dropPolygons"
  /\ UNCHANGED <<inputVars, checkpoint, transaction, assetCheckpoint, polygons, images, links,
                 index>>

\* _cleanup_public_build.
DropCheckpoint ==
  /\ build = "dropPolygons"
  /\ checkpoint' = None
  /\ build' = "returned" /\ index' = 0
  /\ UNCHANGED <<inputVars, transaction, assetCheckpoint, fileVars>>

\* A kill, or an exception: rollback_source and close undo the transaction.
\* Faulty: the database is removed as well.
InterruptedAndCleaned ==
  /\ ~AtRest
  /\ build' = "idle" /\ index' = 0
  /\ table' = NoRows /\ left' = {}
  /\ checkpoint' = None
  /\ UNCHANGED <<inputVars, assetCheckpoint, fileVars>>
Interrupted ==
  /\ ~AtRest
  /\ build' = "idle" /\ index' = 0
  /\ table' = NoRows /\ left' = {}
  /\ UNCHANGED <<inputVars, checkpoint, assetCheckpoint, fileVars>>

Next ==
  \/ InputsChange \/ ReuseRelease
  \/ OpenCheckpoint \/ SkipSource \/ BeginSource
  \/ \E row \in left : AddRow(row)
  \/ CompleteSource \/ ReusePolygons \/ WritePolygons \/ RecordOutput
  \/ OpenAssetCheckpoint \/ SkipAssetSource
  \/ \E content \in AssetShards : ProcessAssetSource(content)
  \/ AssetSourcesDone
  \/ WriteImages \/ WriteLinks \/ DropAssetCheckpoint
  \/ WriteManifest \/ DropCheckpoint
  \/ Interrupted

Spec == Init /\ [][Next]_vars

(***************************************************************************)
(* Properties.                                                             *)
(***************************************************************************)

RowsOfAll(list) == UNION {Rows(list[i]) : i \in DOMAIN list}

\* Of the rows of each polygon t holds the one no other beats, whatever the
\* order they were added in, and the sources of all of them.
Canonical(t, rows) ==
  \A id \in Ids :
    /\ t.sources[id] = {r.source : r \in {q \in rows : q.id = id}}
    /\ IF t.winner[id] = None THEN \A r \in rows : r.id # id
       ELSE /\ t.winner[id] \in rows /\ t.winner[id].id = id
            /\ \A r \in rows : r.id = id => r = t.winner[id] \/ Beats(t.winner[id], r)

\* J has the images of the listed asset shards, joined with t: of each its
\* listed content, or one that it was replaced by before it was read.
Contents(shard, replaced) == {s \in AssetShards : s = shard \/ <<shard, s>> \in replaced}
IsJoin(J, list, t, replaced) ==
  /\ \A i \in DOMAIN list : \E s \in Contents(list[i], replaced) : <<s, t>> \in J
  /\ \A pair \in J : \E i \in DOMAIN list :
       \E s \in Contents(list[i], replaced) : pair = <<s, t>>

\* Whatever was killed before, whatever shards came, went or came back: the
\* files that validate against the public manifest (which is what publication
\* asks of them) are one release, made of the inputs the manifest lists, but for the
\* asset shards that were replaced after they were listed (misread).
ReleaseIsWhole ==
  Validated =>
    /\ Canonical(polygons, RowsOfAll(manifest.inputs))
    /\ IsJoin(images, manifest.assetInputs, polygons, misread)
    /\ links = images

\* A build that returns, whatever it reused of earlier ones, leaves a release
\* that validates and is made of the present inputs, with the same exception.
ReturnsCurrent ==
  build = "returned" =>
    /\ Validated
    /\ Canonical(polygons, RowsOfAll(inputs))
    /\ IsJoin(images, assetInputs, polygons, misread)

\* A killed build loses at most the shard it was at: as long as the inputs are
\* the same the completed ones are dropped only with a manifest that has them.
WorkKept ==
  [][checkpoint # None /\ checkpoint.inputs = inputs =>
       \/ checkpoint' # None /\ checkpoint.done \subseteq checkpoint'.done
       \/ UNCHANGED inputs /\ manifest # None /\ manifest.inputs = inputs]_vars
=============================================================================
