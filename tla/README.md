# Verification of osm-polygon-image-tag

TLA+ models of the pipeline that turns OpenStreetMap PBF extracts into a
published dataset of polygons with image tags: what its two threads, its files
and its retries do when they interleave, fail or are killed. TLC checks the
models on small instances, TLAPS proves the main safety properties for every
value of the constants. `PROJECT.json` maps every definition to the lines it
models; paths below are relative to `src/osm_polygon_image_tag`.

## The system

| Component | State it keeps | Operations | What makes it correct |
|---|---|---|---|
| Orchestrator (`runtime/orchestrator.py`) | results of the run, stop token, `refresh_lock` | build each PBF, submit its shard, checkpoint, finish, final refresh | no refresh overlaps a PBF build; every run ends and reports every error; what was built is refreshed |
| Enrichment worker (`runtime/enrichment.py`) | initial jobs, bounded queue, registered shards, three events, error, summary | take a job, pause, build or skip an asset shard, refresh after it | one build per shard and run; every registered job is accounted for; it stands still when asked to |
| Polygon shards (`runtime/pipeline.py`, `core/manifest.py`, `core/atomic.py`) | `data/X.parquet`, `manifests/X.manifest.json` | reuse or rebuild, promote the shard, then its manifest | a reused shard is the one of the present PBF, whatever was killed before |
| Asset shards (`assets/builder.py`, `assets/build_state.py`) | `assets/X.assets.parquet` and its manifest | reuse, refresh or rebuild from the polygon shard | the manifest never names polygons the shard was not made of |
| Manifest scans (`artifacts/manifest_inventory.py`, `asset_inventory.py`, `publication_inventory.py`) | none | list what is verified, raise on a mismatch | a kill does not make them refuse for ever |
| Public dataset (`artifacts/public_dataset.py` and its neighbours) | two SQLite checkpoints, three Parquet files, the public manifest | deduplicate, join, write, reuse | one whole release of the present inputs; no completed work is lost |
| Publication (`artifacts/publication.py`, `integrations/huggingface.py`) | `receipts/publication.json`, the hub | plan against the receipt, commit, verify, record | after it the hub has the local files |
| Resolver registry (`resolvers/registry.py`) | per provider: semaphore, rate lock, next time, cooldown | pace, resolve, retry | limits hold under concurrency; no failure is lost |
| HTTP client and resolvers (`resolvers/http.py`, `policy.py`, `pinned_transport.py`, one module per provider) | a chain of requests, the connection pool, what a Commons resolver has collected | validate, connect, follow, page, interpret | credentials and connections go where they may; a category is complete or marked |
| Asset batches and resolution cache (`assets/batch.py`, `assets/cache.py`) | SQLite cache of resolutions, the snapshot and rows of a build | look up, resolve, store | nothing is asked for early, nothing recorded is lost, what went stale is refreshed |
| Ingestion (`ingest/`, `runtime/pipeline_build.py`) | the tag store and the temporary shard of one build, osmium and its pipes | scan, export, restore the tags, transform, write | a promoted shard is the whole worth of its source; a build ends |
| Catalogs, statistics, maps (`artifacts/reporting.py`, `catalog.py`, `statistics.py`, `geography/`) | SQLite catalog, cell cache, map cache, the reports | index, count, aggregate, draw, write | the reports are those a first generation in an empty directory would write |
| Cleanup (`runtime/cleanup.py`) | none | remove temporary files a kill left | every one of them, and nothing else |
| Cards, hero, citation, tracking, command line | files written or events sent | format | no state beyond the output |

How they interact: the main thread calls `build_one`, then hands
`(manifest, path)` to the worker through a queue of 16; `checkpoint` asks the
worker to pause through `_pause_requested`, `_paused` and `_resume`; both
threads call `_refresh_artifacts` under `refresh_lock`, which scans all
manifests, builds the public dataset and the statistics and, with a publisher,
publishes. Everything else is communicated through files: a later run sees only
what was promoted.

The hard parts: two threads with a hand-written pause protocol, a bounded queue
and a termination marker; pairs of files that are replaced one after the other
and may be separated by a kill; reuse decided by sizes and digests recorded
earlier; remote commits that may have happened although the call failed.

## The modules

### EnrichmentWorker: one run, two threads

`main` and `worker` are program counters. `Main` has one action per step of
`run_all` that another thread can observe: taking and releasing `refresh_lock`
(`LockForBuild`, `BuildSource`), registration and the two halves of
`_enqueue_job` (`Submit`, `CheckBeforePut`, `Put`), the pause request, its wait
and the refresh with its `finally` clause (`RequestPause`, `WaitUntilPaused`,
`CheckpointRefreshed`, `CheckpointRefreshFails`), the marker and the join
(`SendFinishMarker`, `Join`, `JoinAfterError`) and the final refresh. `Worker`
has the three ways to take a job, the stop check, the build, the refresh and
the steps of `_pause_if_requested`: `paused.set`, the return of `resume.wait`
and `paused.clear` are three steps, because the main thread can run between any
two of them. `resume.set()` wakes a blocked waiter for good, even if the event
is cleared again before it runs (`ReleaseWorker`), as `threading.Condition`
does. Every call that can raise has a failing alternative. `behind` says
whether an artifact exists that no later refresh has seen. `publisher` is chosen
at the start: with it the command is `run-and-publish`, without it `run`, which
has no checkpoints.

Timeouts of `put` and `join` loops are steps that go round the loop. Progress
events, row counts and the second call of `finish` are left out.

### ShardStore: the data root over many runs

The files of two PBFs, what a scan accepts, and runs that crash between any two
promotions, fail, are stopped, or meet a PBF that changed or a program of
another contract version. A content is a record of what it was made of; a scan
sees only its size, and `SizeOf` says which contents a size tells apart. A
build of a shard may raise before or after it promoted its file. Of the
hand-over between the threads, which EnrichmentWorker has in full, it keeps what
decides over the files: a shard is registered once in a run, with the manifest
it had then; and a checkpoint waits until the worker sees, between two jobs,
that it is asked to pause (`WaitUntilPaused`, `AfterJob`), for ever if there is
no job left, and not at all if the worker has not yet cleared its last pause
(`ClearPaused`), so that promotions of the worker may fall into a refresh of the
main thread. `Changing`
are the shards whose PBF may be replaced, `Expiring` those with rows that fall
due.

### PublicDataset: the release

The polygon deduplication row by row (`AddRow` is the upsert of `add_many` with
its ranking), one transaction per shard, the recorded digest of the written
file, the asset pass shard by shard, three files and a manifest written one
after the other, removal of both databases, reuse of a whole release, and a
kill or exception before every step. `InputsChange` lets shards appear, change,
disappear and come back between builds. An asset shard is read some time after
its digest was listed and may have been replaced by then (`Rebuilt`), since the
pause of the worker does not always hold; `misread` remembers which were. Shards, lists and rows are constants:
the run takes two contents of one PBF and one of another with every kind of tie
in the ranking, and asset lists that are empty or not.

### Publication: the hub

The plan is made against the receipt, the commit may be applied although the
call raised, uploads may arrive damaged, and the process may be killed between
any two steps. Between publications a file may get any other content, one it had
before too (`Generate`). `unrecorded` remembers the files that a commit changed
on the hub and that no receipt has recorded since.

### Resolution: batches, cache and registry

One asset shard, built by one process after another. `Build` has the steps of
`AssetBatchProcessor.process` (`StartBatch`, `RecordBatch`) and of the end of
`build_asset_shard`; between them each reference of the batch has a task whose
`step` says what it awaits: a slot of the processor, its provider's semaphore,
the rate lock, the sleep with it, the answer, the sleep before a retry, or the
rate lock again for a cooldown. A record is its status and `due`, the time until
its image URL expires or its `retry_after` is reached; `RefreshRequired` reads it
in the cache, `RowDue` in the rows of the finalized shard. Time is relative:
`Tick` takes one unit off every timer and due time, so that any step may be late
but no sleep returns early, and nothing grows without bound. A request is one
attempt of a resolver (its redirects and pages included, which the code does not
pace either). `ProcessEnds` is a kill, an exception, a stop or the normal end:
tasks, snapshot and rows are gone, the cache and the last shard stay, and the
next process may have other credentials.

### References and Lookup: inside a request

References has `assets/references.py`: which provider, canonical reference and
kind a tag value has, and on which ones the parser raises. Lookup has the chain
of requests behind one attempt of Resolution: `Validate` is the URL policy with
its resolution of the host, `Connect` the second resolution by the pinned
transport or the reuse of a connection, `Respond` the answer and what
`http.py`, the resolver of the provider and `registry.py` make of it, `Redirect`
the next hop with or without the credential. The pages of a Commons category
and the batches of its titles are `CategoryPage` and `FileBatch`; a page may be
cut anywhere, to nothing too, its members may lack what the code reads, titles
may be normalised or left for a `continue` nobody follows (`Lossy`), and the
category may be edited in between (`Edit`). Lookups of a batch run concurrently and share
the pool; an exception that no layer catches (`Escaped`) ends the batch. A URL is
what the policy looks at, a reply what the code tells apart. Waiting (slots,
pace, cooldowns) is Resolution's. A credential in a query string (Flickr,
Streetside) is part of the URL and is not followed.

### Figures, Metadata and Reports: what is reported of a release

Figures are the pure parts: the mask of a catalog row, the SQL aggregates with
their quantiles, the counts over images and links, the cells of the map.
Metadata is `generate_metadata` step by step: the catalog's transaction batch by
batch, the figures, the map with its two caches, then caches, copies, statistics
and card, each written by a step of its own, with a kill before any of them and
any release after it. It starts over a data root that may hold copies and a
cell cache of an older schema. Reports is the abstract specification: it has no
catalog and no cache, each report is only ever replaced by that of the release,
and a generation returns when all are. `R == INSTANCE Reports WITH NoReport <-
None` and the property `RebuiltFromNothing` say that Metadata implements it.
`doubtful` is the one exception the code makes: a kill after the map and before
`pipeline.json`.

### DataRoot and Extraction: temporary files, and the build of a shard

DataRoot names every temporary file the code writes by directory, form and
target, with the patterns of `cleanup_stale_temps` (`IsOwned`) and what
`publication_inventory` accepts (`Unexpected`). Extraction has the build of one
source under `refresh_lock`: the scan into the tag store with its batches and
commits, the lines osmium writes into a bounded pipe, its messages in the other
pipe with the thread that drains them, the generators that pull batches of lines
(400 in the code) and of records (512), the transformation of a batch as a whole
or record by record (`IsEligible`), the promotion of the shard, the removal of
the store, the manifest. The run is that of `run-and-publish`. Beside the build
run the jobs of the worker, its own refreshes and those of the main thread, as
far as they open and close temporary files, with the request to pause
(`Checkpoint`), the pause (`Pause`), the `_paused` that outlives it (`Wake`) and
the refresh that takes it for an answer (`Refresh`; the history variable `stale`
says whether it was set before it was asked for). `MustFail` are the data on
which a build fails, `Raises` any exception at any of its steps, `Crash` the end
of osmium anywhere, `Kill` the end of the process. What
`restore_original_tags` does makes the rejection `missing_target_tag`
unreachable: records without tags are dropped before.

## What the runs show

Passing runs:

| Run | Instance | Result |
|---|---|---|
| `enrichment_publish` | 3 shards, 2 sources, queue of 1, with and without a publisher | `LockDiscipline`, `FirstCheckpointPaused`, `OneJobPerShard`, `SummaryComplete`, `AssetsBackfilled`; what was built is refreshed (`BuiltThenRefreshed`); `EndsOrHangs`: the only endless wait is the one of `enrichment_hang` |
| `shard_store` | 2 shards, one with 3 versions of which a size tells only the last apart, one whose rows fall due, 2 contract versions | `ReuseIsCurrent`, `AssetsOfTheirPolygons`; `Convergence`: runs without a kill come to a complete data root (every source its shard, every shard an asset shard made of it and not due), to the mismatch of `shard_resume`, or to the endless wait of `enrichment_hang` |
| `public_dataset` | 3 shard contents, 3 polygon lists, 2 asset lists, one of their shards replaced at any time, 6 rows of 2 polygons | `ReleaseIsWhole`, `ReturnsCurrent`, `WorkKept` |
| `publication` | 3 files, 2 contents | `PublishedIsRemote`, but for files in `unrecorded` |
| `resolution` | 3 references of one provider with a credential, 2 slots, 2 batches with one reference in both | `PacedRequests`, `NoEarlyRequest`, `SupersededIsDue`, `SnapshotIsDurable`, `BuiltIsFresh`, `BuildEnds` |
| `lookup` | 6 batches of references of all providers, a DNS with public, private, mixed and no answers, redirects with a mirror and an address, a category of 3 or 4 files with a cap of 2 | `SecretStaysHome`, `PublicAddresses`, `CategoryWhole`; `BatchEnds`, unless empty pages never end |
| `metadata` | 5 releases over 3 tables and none, 2 cache schemas, index batches of 2 | `CatalogIsWhole`, `FiguresMeanIt`, `RebuiltFromNothing` |
| `extraction` | 3 sources with up to 6 lines, batches of 2, 2 and 3, pipes of 1, 2 temporary files of a job and 2 reports beside, 1 kill | `ShardIsWhole`; `NoLiveFileRefused`, but for jobs beside a checkpoint that found `_paused` set; `SiblingsSwept`, `ForeignStays`, `BuildEnds` |

A shard beyond the sources in EnrichmentWorker is one whose PBF is gone, so
that initial and queued jobs of all kinds meet; capacity one makes the queue
full after one job. With two sources there is a second checkpoint, which is
where the stale `_paused` bites. Two shards are enough for ShardStore since
shards meet only in the scans, where one shard's leftover fails the other's
run. What makes the work of one of them long (versions, rows that fall due) is
given to one shard only. Two contents of a published file are enough for one to
come back, and three files for one that was lost, one that is planned and one
that stays. In `public_dataset` two inputs are enough for stale reuse and a third
list, the first one's beginning, for marks that fit it.

In `resolution` two requests of one provider are enough for one to be told to
cool down while the other sleeps with the rate lock; the invalid value is the
third user of two slots; a reference in both batches is what makes a record
stale in the middle of a build. A cooldown (2) is longer than the interval and
the retry delay (1), and two attempts have one retry; longer times only add
`Tick`s.

In `lookup` a batch has one or two rows, since lookups meet only in the pool and
in the gather. Three redirects lead away from the origin of the credential and
back to it. The category is larger than the cap before or after the edit, its
pages may be cut anywhere, and one title per request makes several. In
`metadata` two tables have maps of the same dimensions, which is what a cache
could mistake, and two releases share a table and not the images. In
`extraction` the sizes of the batches do not divide each other, the last ones
are short, and a pipe of one makes osmium wait at every line; one source has a
record with two defects, a blank line, a way without tags and a repeated record,
one mentions an object twice. One kill leaves files for all later runs; several
of them are covered by the proofs, which do not count kills. A job has its sorter
and its shard open at the same time.

CHECK_DEADLOCK is FALSE in `enrichment_publish` because the code can really stop
there, in the state `CheckpointHang` describes, and in `lookup` because a batch
ends.

Runs that show a disagreement between the code and its documentation (the
`findings` of `PROJECT.json` quote both):

- `enrichment_hang`: a checkpoint asked for while the worker polls an empty
  queue is never left, because `_pause_if_requested` is only called between two
  jobs. The source was built again, its shard was found at start, so nothing
  new was queued. Neither thread raises and a stop signal does not help.
  `Convergence` has it as its third outcome.
- `shard_resume`: a kill between a rebuilt polygon shard and its manifest leaves
  a size mismatch at which the scan at start raises, in every later run.
  A `build_one` that raises between the two does the same. `Convergence` has it
  as its second outcome. For asset shards the same kill makes at most the next
  refreshes fail.
- `lookup_collision`: the key under which a batch and the cache share a result is
  the provider and the canonical reference. An invalid Commons value `X` and the
  category `Category:X` have the same, and the first decides for both.
- `cleanup_leftover`: the rollback journal of the tag store is not among the
  names the next run removes, and every publication after it refuses the data
  root. The same holds of the temporary names of the two pictures, of
  `citation.cff` and of the receipt, which this run leaves out so that its trace
  ends in the journal.

Exceptions that passing properties make, each for something the code does. TLC
finds the property violated without the exception:

- `_pause_if_requested` clears `_paused` late, so that it may still be set at the
  next checkpoint, and the main thread refreshes while the worker goes on,
  against `docs/architecture.md:112-125`. `FirstCheckpointPaused` is therefore
  about the first one. In such a refresh an inventory can refuse the temporary
  files of a running job and so end the run (`NoLiveFileRefused`), and a public
  dataset can hold the rows of an asset shard other than the one its manifest
  lists (`misread` in `ReleaseIsWhole` and `ReturnsCurrent`).
- The plan of a publication, and the decision to skip it, look at the receipt
  only (`publication.py:64-79`, `94-97`). After a commit without a receipt, a file
  that has returned to the receipt's content is not uploaded, and a path that the
  lost commit added and that is retired again is not deleted, although
  `docs/operations.md:278-280` has the earlier receipt remain valid (`unrecorded`
  in `PublishedIsRemote`).
- `_collect_category_members` (`commons.py:126-140`) follows continuations until
  it has enough members, and the timeout is that of one `get_json`: an API that
  answers for ever with pages that have no member and a continuation keeps the
  batch, and so the worker, for ever (`BatchEnds`).

Seen while modelling and without a run of their own:

- Artifacts finalized by a run that was killed before its refresh are not
  published by a later `run-and-publish` that builds nothing
  (`_needs_final_artifacts`, against `docs/cli.md:36`).
- The asset checkpoint is removed before the public manifest is written, where
  `docs/operations.md:105-106` says after; it costs work, not data.
- A task that already sleeps for its turn, or waits for the rate lock before the
  task that was told to cool down, still sends its request. A temporary failure
  without a `retry_after` (some answers of Panoramax and Commons), and
  `requires_auth` of Commons, are due at once, so that their shards are built
  again in every run. A row whose record was replaced later in the same build
  for the sake of a credential is not due in a run without it, which is why
  `SupersededIsDue` says so much and no more.
- A DNS failure at the second resolution (`pinned_transport.py:35`), a redirect
  to a malformed port or host (`http.py:57-60`, `policy.py:59-62`), a tag value
  on which `urlparse` raises, a date in a Mapillary URL that no `datetime` can be
  (`mapillary.py:20-26`) and a body that `json` cannot decode leave every handler
  and fail the build of the shard, in every run for what is permanent. An IPv6
  address reaches the transport without its brackets, so that what follows its
  first colon is taken for a port (`pinned_transport.py:36-37`) and the request
  is refused.
- The generic resolver makes a 429 or 503 a permanent `not_found`
  (`generic.py:31-32`), where `resolvers/README.md:25-26` has such answers
  retried. A Commons reply that reports an error reads as an empty category or
  as files that are missing.
- A kill between the drawing of the map and `pipeline.json` leaves a map that a
  later release of the old content takes for its own (`doubtful`).
- A shard promoted by a run that was killed before its manifest makes every
  inventory fail until its source is built again, those after the refresh of an
  earlier shard of the same run too.

Every property of a passing run has a mutant in `PROJECT.json`: a plausible bug
in one definition under which TLC finds the property violated. The definitions
marked faulty in the modules are those; no specification uses them.

## Fairness

`FairSpec` of EnrichmentWorker is weak fairness of each thread: the operating
system runs both, and a thread that waits for a free lock or for room in the
queue polls or is woken. A signal, a failure and a stop are never assumed. For
ShardStore, `FairSpec` also says that the operator starts the command again
after it ended, which is what the documentation tells them to do. `FairSpec` of
Resolution is weak fairness of time, of the steps of the build and of each task:
the event loop runs what is ready, and a request ends, at the latest by the
timeout around `get_json` and `probe_image`. A success is never assumed.
`FairSpec` of Lookup says the same of each lookup and of the batch; that a server
answers is not assumed, only that the timeout comes. `FairSpec` of Extraction is
weak fairness of the main thread's build, of osmium and of the thread that
drains its messages; jobs, refreshes, an exception or a kill are never assumed,
except that a build ends in an error when its data leave it no other way
(`MustFail`).

## Proofs

| Module | Theorems |
|---|---|
| `EnrichmentWorkerProofs` | `TypeCorrect`, `LockCorrect`, `FirstCheckpointCorrect`, `RefreshCorrect`, `OneJobCorrect`, `SummaryCorrect`, `BackfillCorrect`, for any number of shards and sources, any capacity, with and without a publisher |
| `ShardStoreProofs` | `TypeCorrect`, `ReuseCorrect`, `AssetsCorrect`, for any shards, versions, contracts and file sizes and any number of runs and kills |
| `PublicDatasetProofs` | `TypeCorrect`, `ReleaseCorrect`, `ReturnsCorrect`, `WorkIsKept`, for any rows, any lists of shards and any number of interrupted builds |
| `MetadataProofs` | `TypeCorrect`, `InvariantHolds`, `CatalogIsWholeHolds`, `FiguresCorrect`, `Implements` (Metadata implements Reports), for any releases, tables, providers, batch size and copies |
| `PublicationProofs` | `TypeCorrect`, `PublicationCorrect`, for any set of files |
| `ResolutionProofs` | `TypeCorrect`, `PacedCorrect`, `NotEarlyCorrect`, `DurableCorrect`, `SupersededCorrect`, `FreshCorrect`, for any references, batches, slots, limits, delays, cooldowns and answers, and any number of processes |
| `LookupProofs` | `TypeCorrect`, `PublicCorrect`, `SecretCorrect`, `CategoryCorrect`, for any URLs, DNS, batches, and any category, cap and sizes of pages and batches of titles |
| `ExtractionProofs` | `TypeCorrect`, `InventoryCorrect`, `SweepCorrect`, `WholeCorrect`, `ForeignCorrect`, for any sources, sizes of batches and pipes, jobs and reports |

The invariant of EnrichmentWorker (`IInv`) has one conjunct per protocol: which
thread holds the lock at which place (`LockDiscipline`), what the three events
are at each place of the handshake (`FirstHandshake` and its companions), that
the marker is sent last, and what `behind` can be at each place. The properties
are not inductive alone: `FirstCheckpointPaused`, for example, needs that
before the first checkpoint `_paused` was never set. `JInv` of
EnrichmentWorkerProofs follows each registered shard from the list of initial jobs
or the queue into the worker's hands and from there into the summary: no two of
those places have the same shard (`Apart`), together they are as many as the
registered shards (`Counted`), and the marker is the last entry of the queue, so
that the worker leaves nothing behind it. The invariant of ShardStore is a chain
per shard (`Chain`): PBFs and contracts never go back, so the polygon shards of a
PBF grow in the order `Leq`, a manifest is at most its shard, an asset manifest at
most its asset shard and that at most the polygon shard. If both ends of such a
chain are equal, so is what is between; that is why the label of an old job
(`Label`) does no harm. `Current` adds that a manifest of the present PBF is that
of the present shard, which needs that the PBF is hashed before it is read.
The invariant of
PublicDataset says which rows each database and file is made of, and what a build
can rely on at each of its places (the shards before the index are marked, the
transaction holds the rows added so far). The step that needs an argument is
`AddRow`: the ranking is total and transitive on all rows (`sort_key` is the
whole row, assumption `OrderAssumption`), so that the table does not depend on
the order of the rows (`CanonicalWith`); the other is the end of each loop, where
marks that match the list and cover it give the rows of the whole list
(`AllRowsDone`, `AllJoined`). Images are related to the listed shards by what was
read of each (`IsJoin`), which later replacements leave true (`JoinStays`). The invariant of Metadata says what is in the transaction at each
step (`Partial`: it grows by whole batches and is a prefix of the table's rows),
that a cache entry of this schema holds the cells of the table it names, and
which figures memory and files hold once they are written; the refinement maps
every step to one of Reports or to a stutter, `BuildMap` to `DrawMap` or to
nothing according to `MapIsCurrent`. `FiguresCorrect` is about data: that
invariant says the figures are those of a whole catalog, and lemmas say what they
mean. A sum over a finite set is what it is in whatever order it is taken
(`SumLemma`); the mask of a row is `2^p` times an odd or an even number, as `p` is
tagged or not, and less than `2^p` (`PartsLemma`), so that a division and a
remainder give the tag back (`BitLemma`); the counts of the combinations are those
of the fibres of one function and add up (`FibresLemma`); and every offset below
the number of rows has an area (`OffsetLemma`), which the rounding of the offset
makes the quantile (`QuantileLemma`). The invariant of Publication says that the hub holds what the
receipt says of every file that no unrecorded commit changed (`ReceiptIsRemote`)
and, once a plan is applied and verified, what the plan says of the files in it
(`PublisherKnows`); the receipt then takes those out of `unrecorded`. That of Lookup is
about one request: once it was validated it is for a public address, and it
carries the credential only to the origin it belongs to; what is in the pool was
connected through the same check. `LInv` follows a lookup of the category
(`Faithful`): while it lists, its members are those the category has before its
continuation (`Lists`), and afterwards what is left and what is fetched are a
selection that has all images or, if the category is larger than the cap, at most
`Cap` files (`Fetches`). It needs that a page cuts a finite set at a file (`PageLemma`:
what is first comes before the rest, and the rest has a least member, from which the
next page starts), that the first `Cap` of a set are at most `Cap`
(`FirstCardinality`), that a new attempt begins with nothing, and that only one key
of a batch is the category's (`OneCategoryKey`), since `disturbed` is about one
category. The invariant of Resolution has, beside the types, who sleeps
(`Sleepers`: at most one task per provider, the one with the rate lock, for exactly
the time until `nextRequest`), what a task beyond its slot has seen (`Lookups`: no
record, or one that is stale, which time does not undo), that the snapshot is the
cache on what the build has recorded, and what each row of the shard can be beside
its snapshot (`Superseded`, `Fresh`). That of Extraction says which step of which
thread has which temporary file open (`Owners`), that the files there are are those
of an owner or were left by a kill, and how full the pipes are; where the worker
stands in its pause (`Pausing`), so that a refresh of the main thread beside an
open job needs `stale`; and that what an inventory refuses is what it met
(`Refusing`). `WholeCorrect`
stands on an invariant of its own (`Whole`): while osmium has not failed, the
records among the lines taken from the pipe are those that were made into rows
and rejections, then those restored, then those of the batch of lines, in this
order (`Accounted`). Its lemmas say what a selection of a sequence is
(`SelectConcat` and the others, by an induction over sequences that
`SequenceInduction` states for sets, from the well-foundedness of the numbers) and
that a batch transformed as a whole comes out as its records one by one
(`TransformedLemma`). The model writes its selections with `Select`, a recursive
function, for the provers know nothing of `SelectSeq`.

Assumptions on the constants are those named in the modules: at least one place
in the queue, no more sources than shards, rows that differ differ in their sort
key, `None` is none of the values it stands beside, sizes of batches and pipes are
positive, files of others do not have the names the code writes
(`ForeignAssumption`), and a source is a sequence of objects and one of lines, each
blank, malformed, or a record with defects out of `Reasons` (`SourcesAssumption`). The others are facts about the inputs: no image key is
taken for a panoramax key (`PanoramaxAssumption`), the secret references are
references, files of a category have different page ids and sort keys, and a batch
has references to one category only (`OneCategory`: the model has one). That
`2^(n-1)` is a number (`DelayAssumption`) and that `2^(p+1)` is twice `2^p`
(`PowersAssumption`) is arithmetic that the provers lack. Percents are between 0 and
100 (`ProvidersAssumption`); areas are only compared, so that whole numbers stand
for them (`AreasAssumption`).

Only model-checked: the liveness properties, which need fairness and ENABLED and
are out of the reach of TLAPS.

## Not modelled

The decoding of an exported line and of a provider's JSON, geometry, H3 cells,
the drawing of the map, and the wording of cards have no state another part
depends on; where they can fail, the failure is modelled. Progress events,
experiment tracking, the console and the command line are output. Symlinks in
the data root and the validation of pictures before a publication are left out.
Parquet and SQLite are taken to do what they promise: a promoted file is whole,
a transaction is atomic. The digests are taken to be free of collisions. Two
processes on one data root are excluded by the documentation. Metadata reads the
asset shards at one moment, where a stale `_paused` would let one be replaced
between its manifest and its rows, as in PublicDataset.

## Plan

1. The asset pass of the public dataset in detail: the ranking of images and the
   choice between the durable and the local checkpoint.
2. An abstract specification of a release (the public files change in one step,
   the hub follows) implemented by PublicDataset and Publication.
