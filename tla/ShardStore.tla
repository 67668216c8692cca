---------------------------- MODULE ShardStore ----------------------------
(***************************************************************************)
(* The durable files of the data root over many pipeline runs, with crashes*)
(* between any two steps.  Per PBF: data/X.parquet and its manifest        *)
(* (runtime/pipeline.py), assets/X.assets.parquet and its manifest         *)
(* (assets/builder.py).  Each file is replaced atomically (core/atomic.py),*)
(* but a shard and its manifest are two files, promoted one after the      *)
(* other.  Scans of the manifests (artifacts/manifest_inventory.py and     *)
(* artifacts/asset_inventory.py) raise on a file of another size, and      *)
(* publication (artifacts/publication_inventory.py) on an unmanaged file.  *)
(*                                                                         *)
(* The run is that of run-and-publish.  Of the hand-over between the two    *)
(* threads, which EnrichmentWorker has in full, this module keeps what     *)
(* decides over the files: one job per shard and run, shards without       *)
(* artifacts first, and the pause for a checkpoint of the main thread,     *)
(* which the worker sees between two jobs only, and which its last pause   *)
(* can seem to answer.                                                     *)
(***************************************************************************)
EXTENDS Naturals, FiniteSets

CONSTANTS Shards,        \* one per PBF source
          MaxVersion,    \* bound on the changes of a PBF
          MaxContract,   \* bound on the processing contract versions released
          Epochs,        \* answers of the providers that tell two builds apart
          Changing,      \* shards whose PBF can change
          Expiring,      \* shards with rows that can fall due for a refresh, and
                         \* whose references are answered in more than one way
          None,
          SizeOf(_)      \* size of a file, all that a scan compares

ASSUME ShardsAssumption == Changing \subseteq Shards /\ Expiring \subseteq Shards
ASSUME EpochsAssumption == Epochs # {}
ASSUME MaxVersionAssumption == MaxVersion \in Nat \ {0}
ASSUME MaxContractAssumption == MaxContract \in Nat \ {0}

Versions == 1..MaxVersion
Contracts == 1..MaxContract
Polygons == [contract: Contracts, version: Versions]
Assets == [polygon: Polygons, epoch: Epochs]
Manifests == [source: Versions, output: Polygons]
AssetManifests == [polygon: Polygons, output: Assets]
Groups == {"missing", "present", "queued"}
Jobs == [shard: Shards, polygon: Polygons, group: Groups]

ASSUME NoneAssumption ==
  None \notin Polygons \cup Assets \cup Manifests \cup AssetManifests \cup Jobs \cup Shards

VARIABLES
  source,         \* content of each PBF, told apart by size and mtime
  contract,       \* contract version of the installed program
  data,           \* data/X.parquet
  manifest,       \* manifests/X.manifest.json
  assets,         \* assets/X.assets.parquet
  assetManifest,  \* asset-manifests/X.assets.manifest.json
  due,            \* asset shards with rows due for a refresh
  main, todo, current, hashed,       \* main thread: sources left, the one being
                                     \* built and the version that was hashed
  worker, jobs, seen, job, read,     \* worker: its jobs, the one it holds and
                                     \* the polygon file it read for it
  built,          \* this run has finalized something
  stop,           \* the stop token
  failure         \* why the last run failed: "none", "start", "build", "refresh"

files == <<data, manifest, assets, assetManifest>>
environment == <<source, contract, due>>
mainVars == <<main, todo, current, hashed>>
workerVars == <<worker, jobs, seen, job, read>>
vars == <<environment, files, mainVars, workerVars, built, stop, failure>>

OrNone(S) == S \cup {None}

\* The worker thread ended in an error, of a build or of a refresh.
Ended == {"build failed", "refresh failed"}
WorkerError == IF worker = "build failed" THEN "build" ELSE "refresh"

TypeOK ==
  /\ source \in [Shards -> Versions]
  /\ contract \in Contracts
  /\ data \in [Shards -> OrNone(Polygons)]
  /\ manifest \in [Shards -> OrNone(Manifests)]
  /\ assets \in [Shards -> OrNone(Assets)]
  /\ assetManifest \in [Shards -> OrNone(AssetManifests)]
  /\ due \in SUBSET Expiring
  /\ main \in {"stopped", "loop", "build", "record", "skipped", "recorded", "waitPaused",
               "refresh", "drain", "abort"}
  /\ todo \in SUBSET Shards
  /\ current \in OrNone(Shards)
  /\ hashed \in Versions
  /\ worker \in {"off", "idle", "promote", "record", "refresh", "paused", "resumed"} \cup Ended
  /\ jobs \in SUBSET Jobs
  /\ seen \in SUBSET Shards
  /\ job \in OrNone(Jobs)
  /\ read \in OrNone(Polygons)
  /\ built \in BOOLEAN
  /\ stop \in BOOLEAN
  /\ failure \in {"none", "start", "build", "refresh"}

\* An empty data root and no process.
Init ==
  /\ source = [s \in Shards |-> 1]
  /\ contract = 1
  /\ data = [s \in Shards |-> None]
  /\ manifest = [s \in Shards |-> None]
  /\ assets = [s \in Shards |-> None]
  /\ assetManifest = [s \in Shards |-> None]
  /\ due = {}
  /\ main = "stopped" /\ todo = {} /\ current = None /\ hashed = 1
  /\ worker = "off" /\ jobs = {} /\ seen = {} /\ job = None /\ read = None
  /\ built = FALSE /\ stop = FALSE /\ failure = "none"

\* The process is gone, and with it all that is not in a file.
ProcessEnds ==
  /\ main' = "stopped" /\ todo' = {} /\ current' = None /\ hashed' = 1
  /\ worker' = "off" /\ jobs' = {} /\ seen' = {} /\ job' = None /\ read' = None
  /\ built' = FALSE /\ stop' = FALSE

(***************************************************************************)
(* What a scan of the manifests accepts.                                   *)
(***************************************************************************)

\* _compatible_manifest: other contracts are passed over.
Compatible(s) == manifest[s] # None /\ manifest[s].output.contract = contract

\* _verified_output raises "output identity mismatch".
Mismatch(s) == Compatible(s) /\ SizeOf(data[s]) # SizeOf(manifest[s].output)

\* _verified_asset_candidate raises "asset output identity mismatch".
AssetMismatch(s) ==
  assetManifest[s] # None /\ SizeOf(assets[s]) # SizeOf(assetManifest[s].output)

\* publication_inventory rejects a file no manifest speaks of as unexpected.
Unmanaged(s) == \/ data[s] # None /\ manifest[s] = None
                \/ assets[s] # None /\ assetManifest[s] = None

\* generate_metadata scans both kinds of manifest, publication all the files.
ScanRaises == \E s \in Shards : Mismatch(s) \/ AssetMismatch(s) \/ Unmanaged(s)

\* reusable in build_one: same contract, same size and mtime of the PBF, same
\* size of the shard.
Reusable(s) ==
  /\ Compatible(s)
  /\ manifest[s].source = source[s]
  /\ SizeOf(data[s]) = SizeOf(manifest[s].output)

(***************************************************************************)
(* The main thread of one run.                                             *)
(***************************************************************************)

Artifacts(s) == IF assets[s] # None /\ assetManifest[s] # None THEN "present" ELSE "missing"
InitialJobs == {[shard |-> s, polygon |-> manifest[s].output, group |-> Artifacts(s)] :
                  s \in {t \in Shards : Compatible(t)}}

\* run_all up to worker.start: verified_manifests gives the initial jobs.
StartRun ==
  /\ main = "stopped"
  /\ ~ \E s \in Shards : Mismatch(s)
  /\ main' = "loop" /\ todo' = Shards
  /\ worker' = "idle" /\ jobs' = InitialJobs /\ seen' = {s \in Shards : Compatible(s)}
  /\ failure' = "none"
  /\ UNCHANGED <<environment, files, current, hashed, job, read, built, stop>>

\* verified_manifests raises: the run ends before it builds anything.
StartRaises ==
  /\ main = "stopped"
  /\ \E s \in Shards : Mismatch(s)
  /\ failure' = "start"
  /\ UNCHANGED <<environment, files, mainVars, workerVars, built, stop>>

\* Faulty: a PBF whose shard is not recorded yet is taken to be built already.
FirstStepUnbuilt(s) == IF Reusable(s) THEN "skipped" ELSE "record"
FirstStep(s) == IF Reusable(s) THEN "skipped" ELSE "build"

\* build_one of the next source: reuse it, or hash it first.
TakeSource(s) ==
  /\ main = "loop" /\ ~stop /\ s \in todo
  /\ todo' = todo \ {s}
  /\ current' = s
  /\ main' = FirstStep(s)
  /\ hashed' = IF main' = "build" THEN source[s] ELSE hashed
  /\ UNCHANGED <<environment, files, workerVars, built, stop, failure>>

\* write_geoparquet promotes the shard.  The PBF is read after it was hashed.
PromoteData ==
  /\ main = "build"
  /\ \E v \in hashed..source[current] :
        data' = [data EXCEPT ![current] = [contract |-> contract, version |-> v]]
  /\ main' = "record"
  /\ UNCHANGED <<environment, manifest, assets, assetManifest, todo, current, hashed,
                 workerVars, built, stop, failure>>

SourceAtTheEnd == source[current]  \* faulty: the PBF is hashed after it was read
SourceRecorded == hashed

\* write_manifest.
RecordManifest ==
  /\ main = "record"
  /\ manifest' = [manifest EXCEPT ![current] = [source |-> SourceRecorded, output |-> data[current]]]
  /\ built' = TRUE
  /\ main' = "recorded"
  /\ UNCHANGED <<environment, data, assets, assetManifest, todo, current, hashed,
                 workerVars, stop, failure>>

\* An exception on the main thread: token.request(), worker.finish().
Abort(reason) ==
  /\ main' = "abort" /\ stop' = TRUE /\ failure' = reason

\* build_one raises, before it promoted the shard or after.
BuildRaises ==
  /\ main \in {"build", "record"}
  /\ Abort("build")
  /\ UNCHANGED <<environment, files, todo, current, hashed, workerVars, built>>

\* submit registers a shard once in a run; after a built source the worker is
\* asked to pause.
Submit ==
  /\ main \in {"skipped", "recorded"}
  /\ \/ /\ current \in seen \/ worker \notin Ended
        /\ seen' = seen \cup {current}
        /\ jobs' = IF current \in seen THEN jobs
                   ELSE jobs \cup {[shard |-> current, polygon |-> manifest[current].output,
                                    group |-> "queued"]}
        /\ main' = IF main = "recorded" THEN "waitPaused" ELSE "loop"
        /\ UNCHANGED <<stop, failure>>
     \/ /\ current \notin seen /\ worker \in Ended
        /\ Abort(WorkerError)
        /\ UNCHANGED <<jobs, seen>>
  /\ UNCHANGED <<environment, files, todo, current, hashed, worker, job, read, built>>

\* _wait_until_paused: `paused` is also set while the worker has not cleared it
\* after the pause before.
WaitUntilPaused ==
  /\ main = "waitPaused"
  /\ \/ worker \in Ended /\ Abort(WorkerError)
     \/ worker \in {"paused", "resumed"} /\ main' = "refresh" /\ UNCHANGED <<stop, failure>>
  /\ UNCHANGED <<environment, files, todo, current, hashed, workerVars, built>>

\* _refresh_artifacts, and the end of checkpoint, whether it raises or not.
Refresh ==
  /\ main = "refresh"
  /\ worker' = IF worker = "paused" THEN "resumed" ELSE worker
  /\ IF ScanRaises THEN Abort("refresh")
     ELSE main' = "loop" /\ UNCHANGED <<stop, failure>>
  /\ UNCHANGED <<environment, files, todo, current, hashed, jobs, seen, job, read, built>>

\* No source is left or a stop was requested: finish() waits for the worker.
Drain ==
  /\ main = "loop" /\ (todo = {} \/ stop)
  /\ main' = "drain"
  /\ UNCHANGED <<environment, files, todo, current, hashed, workerVars, built, stop, failure>>

WorkerDone == worker \in Ended \/ (worker = "idle" /\ jobs = {})

\* run_all after finish(): a final refresh if anything was finalized.
EndRun ==
  /\ main \in {"drain", "abort"} /\ WorkerDone
  /\ ProcessEnds
  /\ failure' = IF main = "abort" THEN failure
                ELSE IF worker \in Ended THEN WorkerError
                ELSE IF built /\ ScanRaises THEN "refresh" ELSE "none"
  /\ UNCHANGED <<environment, files>>

(***************************************************************************)
(* The worker thread.                                                      *)
(***************************************************************************)

\* Faulty: it is not compared which polygon shard the manifest names.
AssetReusableUnlabelled(s, polygon) ==
  assetManifest[s] # None /\ assets[s] # None /\ SizeOf(assets[s]) = SizeOf(assetManifest[s].output)

\* _manifest_identity_matches and _manifest_output_matches.
AssetReusable(s, polygon) ==
  /\ assetManifest[s] # None
  /\ assetManifest[s].polygon = polygon
  /\ assets[s] # None /\ SizeOf(assets[s]) = SizeOf(assetManifest[s].output)

\* Between two jobs the worker sees whether the main thread asks for a pause.
AfterJob == IF main \in {"waitPaused", "refresh"} THEN "paused" ELSE "idle"

\* _pause_if_requested clears `paused` some time after the worker was resumed.
ClearPaused ==
  /\ worker = "resumed"
  /\ worker' = "idle"
  /\ UNCHANGED <<environment, files, mainVars, jobs, seen, job, read, built, stop, failure>>

\* The order of _next_job: missing shards before those with artifacts.
Eligible(j) == j.group = "present" => \A k \in jobs : k.group # "missing"

SkipAsset(j) ==
  /\ worker = "idle" /\ ~stop /\ j \in jobs /\ Eligible(j)
  /\ AssetReusable(j.shard, j.polygon) /\ j.shard \notin due
  /\ jobs' = jobs \ {j}
  /\ worker' = AfterJob
  /\ UNCHANGED <<environment, files, mainVars, seen, job, read, built, stop, failure>>

\* After a stop a job is taken and left pending.
LeavePending(j) ==
  /\ worker = "idle" /\ stop /\ j \in jobs
  /\ jobs' = jobs \ {j}
  /\ worker' = AfterJob
  /\ UNCHANGED <<environment, files, mainVars, seen, job, read, built, stop, failure>>

\* A shard that is missing, outdated or due for a refresh is built from the
\* polygon file as it is now; nothing compares that file with the job.
ReadPolygons(j) ==
  /\ worker = "idle" /\ ~stop /\ j \in jobs /\ Eligible(j)
  /\ ~AssetReusable(j.shard, j.polygon) \/ j.shard \in due
  /\ jobs' = jobs \ {j}
  /\ job' = j /\ read' = data[j.shard]
  /\ worker' = "promote"
  /\ UNCHANGED <<environment, files, mainVars, seen, built, stop, failure>>

Answers(s) == IF s \in Expiring THEN Epochs ELSE {CHOOSE e \in Epochs : TRUE}
\* AtomicAssetWriter, unless a stop leaves the shard pending.
PromoteAsset ==
  /\ worker = "promote"
  /\ \/ /\ \E e \in Answers(job.shard) :
              assets' = [assets EXCEPT ![job.shard] = [polygon |-> read, epoch |-> e]]
        /\ due' = due \ {job.shard}
        /\ worker' = "record" /\ UNCHANGED job
     \/ /\ stop
        /\ worker' = AfterJob /\ job' = None
        /\ UNCHANGED <<assets, due>>
  /\ UNCHANGED <<source, contract, data, manifest, assetManifest, mainVars, jobs, seen,
                 read, built, stop, failure>>

\* build_asset_shard raises, before it promoted the asset shard or after.
WorkerRaises ==
  /\ worker \in {"promote", "record"}
  /\ worker' = "build failed" /\ job' = None
  /\ UNCHANGED <<environment, files, mainVars, jobs, seen, read, built, stop, failure>>

LabelOfTheShard == manifest[job.shard].output  \* faulty: the present identity
Label == job.polygon

\* _write_asset_manifest names the identity of the job's polygon manifest.
RecordAsset ==
  /\ worker = "record"
  /\ assetManifest' = [assetManifest EXCEPT ![job.shard] =
                         [polygon |-> Label, output |-> assets[job.shard]]]
  /\ built' = TRUE
  /\ worker' = "refresh" /\ job' = None
  /\ UNCHANGED <<environment, data, manifest, assets, mainVars, jobs, seen, read, stop, failure>>

\* The worker's own refresh, excluded by refresh_lock while a source is built.
WorkerRefresh ==
  /\ worker = "refresh" /\ main \notin {"build", "record"}
  /\ worker' = IF ScanRaises THEN "refresh failed" ELSE AfterJob
  /\ UNCHANGED <<environment, files, mainVars, jobs, seen, job, read, built, stop, failure>>

(***************************************************************************)
(* The environment.                                                        *)
(***************************************************************************)

\* A new extract replaces a PBF; its mtime never goes back.
SourceChanges(s) ==
  /\ s \in Changing /\ source[s] < MaxVersion
  /\ source' = [source EXCEPT ![s] = @ + 1]
  /\ UNCHANGED <<contract, due, files, mainVars, workerVars, built, stop, failure>>

\* A resolved URL nears its expiry, or the cooldown of a failed one ends.
RowsFallDue(s) ==
  /\ s \in Expiring /\ assets[s] # None
  /\ due' = due \cup {s}
  /\ UNCHANGED <<source, contract, files, mainVars, workerVars, built, stop, failure>>

\* Another version of the program is installed between two runs.
Upgrade ==
  /\ main = "stopped" /\ contract < MaxContract
  /\ contract' = contract + 1
  /\ UNCHANGED <<source, due, files, mainVars, workerVars, built, stop, failure>>

StopSignal ==
  /\ main # "stopped" /\ ~stop
  /\ stop' = TRUE
  /\ UNCHANGED <<environment, files, mainVars, workerVars, built, failure>>

\* A hard kill: only the files stay.
Crash ==
  /\ main # "stopped"
  /\ ProcessEnds
  /\ failure' = "none"
  /\ UNCHANGED <<environment, files>>

Main == StartRun \/ (\E s \in Shards : TakeSource(s)) \/ PromoteData \/ RecordManifest
        \/ BuildRaises \/ Submit \/ WaitUntilPaused \/ Refresh \/ Drain \/ EndRun
Worker == (\E j \in jobs : SkipAsset(j) \/ ReadPolygons(j) \/ LeavePending(j))
          \/ PromoteAsset \/ WorkerRaises \/ RecordAsset \/ WorkerRefresh \/ ClearPaused
Environment == (\E s \in Shards : SourceChanges(s) \/ RowsFallDue(s)) \/ Upgrade \/ StopSignal \/ Crash

Next == Main \/ StartRaises \/ Worker \/ Environment

Spec == Init /\ [][Next]_vars

\* The operator starts the command again after every run; both threads run.
FairSpec == Spec /\ WF_vars(Main) /\ WF_vars(Worker)

(***************************************************************************)
(* Properties.                                                             *)
(***************************************************************************)

\* A polygon shard that a run would reuse without looking into it holds the
\* rows of the present PBF under the present contract, whatever crashed or
\* changed before, and whatever files happen to have the same size.
ReuseIsCurrent ==
  \A s \in Shards : Reusable(s) => data[s] = [contract |-> contract, version |-> source[s]]

\* An asset shard whose manifest names the finalized polygon shard was built
\* from the rows of that shard.
AssetsOfTheirPolygons ==
  \A s \in Shards :
    /\ manifest[s] # None /\ assetManifest[s] # None
    /\ data[s] = manifest[s].output
    /\ assetManifest[s].polygon = manifest[s].output
    => assets[s].polygon = data[s]

\* Once crashes, stops and failing builds cease and no further row falls due,
\* repeating the command gives every source its shard, every shard an asset
\* shard made of it with no row due, and files that all scans accept, even if
\* the first repetitions fail over what a crash, or a checkpoint that ran beside
\* the worker, left or saw.  There are two ways it does not: a run is refused
\* for ever, for the one reason of ResumeStarts, or the main thread waits for
\* ever for the pause of a worker that has no job left.
\* The end of a run that fails nowhere leaves what a crash leaves; it is no crash.
Trouble == (Crash /\ ~EndRun) \/ StopSignal \/ BuildRaises \/ WorkerRaises
Complete ==
  /\ ~ScanRaises
  /\ \A s \in Shards : /\ Reusable(s) /\ s \notin due
                       /\ assetManifest[s] # None
                       /\ assetManifest[s].polygon = manifest[s].output
Hung == main = "waitPaused" /\ worker = "idle" /\ jobs = {}
Convergence ==
  <>[][~(Trouble \/ \E s \in Shards : RowsFallDue(s))]_vars
    => <>[]Complete \/ <>[](\E s \in Shards : Mismatch(s)) \/ <>[]Hung

\* What docs/operations.md says, "Resuming after a stop or crash: run": a run
\* is never refused by the files an earlier run left behind.
ResumeStarts == failure # "start"
===========================================================================
