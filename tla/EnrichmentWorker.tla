------------------------- MODULE EnrichmentWorker -------------------------
(***************************************************************************)
(* One pipeline run: run_all on the main thread (runtime/orchestrator.py)  *)
(* and the enrichment worker on its own thread (runtime/enrichment.py).    *)
(*                                                                         *)
(* The main thread builds the PBF sources one after the other, hands every *)
(* finished polygon shard to the worker through a bounded queue and, when  *)
(* a publisher is configured, pauses the worker after each built source to *)
(* refresh metadata and publish.  The worker drains the jobs found at      *)
(* start and the queued ones, and refreshes after every shard it builds.   *)
(*                                                                         *)
(* A shard is its index in the order of its path; the first NumSources of  *)
(* them have a PBF under the source root, the others only their finalized  *)
(* polygon shard.  A generation stands for the content of a polygon shard: *)
(* 0 is absent, 1 was left by an earlier run, 2 was built by this one.     *)
(***************************************************************************)
EXTENDS Naturals, Sequences, FiniteSets

CONSTANTS NumShards,       \* polygon shards the data root can hold
          NumSources,      \* PBF files under the source root
          QueueCapacity    \* maxsize of the job queue, 16 in the code

ASSUME ShardsAssumption == NumShards \in Nat
ASSUME SourcesAssumption == NumSources \in Nat /\ NumSources <= NumShards
ASSUME CapacityAssumption == QueueCapacity \in Nat \ {0}

Shards == 1..NumShards
Sources == 1..NumSources
Generations == 0..2
Jobs == [shard: Shards, gen: Generations]
FinishMarker == [shard |-> 0, gen |-> 0]
NoJob == [shard |-> 0, gen |-> 1]

VARIABLES
  main,          \* where the main thread is
  next,          \* the source the main thread works on
  status,        \* the result of that source: "none", "built" or "skipped"
  builtSources,  \* sources built so far
  worker,        \* where the worker thread is
  initialJobs,   \* _initial_jobs
  queue,         \* _jobs
  preferInitial, \* _prefer_initial
  finishSeen,    \* _finish_marker_seen
  seen,          \* _seen, the shards registered
  job,           \* the job the worker holds
  tally,         \* the counts of EnrichmentSummary
  error,         \* _error is set
  pauseRequested, paused, resume,    \* the three events of the handshake
  lock,          \* holder of refresh_lock
  token,         \* the stop token
  publisher,     \* TRUE in run-and-publish, FALSE in run
  polygon,       \* generation of each polygon shard
  asset,         \* generation each asset shard's manifest names
  behind         \* artifacts no refresh covers: "no", "earlier" or "now"

sourceVars == <<next, status, builtSources>>
mainVars == <<main, sourceVars>>
queueVars == <<initialJobs, queue, preferInitial, finishSeen, seen>>
workVars == <<job, tally, error>>
workerVars == <<worker, workVars>>
pauseVars == <<pauseRequested, paused, resume>>
runVars == <<token, publisher>>
dataVars == <<polygon, asset, behind>>
vars == <<mainVars, worker, queueVars, workVars, pauseVars, lock, runVars, dataVars>>

MainStates == {"start", "loop", "buildLock", "build", "submit", "enqueue", "put",
               "checkpoint", "waitPaused", "checkpointLock", "checkpointRefresh",
               "finish", "join", "finalLock", "finalRefresh",
               "errorFinish", "errorJoin", "returned", "raised"}
WorkerStates == {"off", "opening", "top", "pausing", "blocked", "resumed", "take", "holding",
                 "build", "refreshLock", "refresh", "closing", "failing", "dead"}

TypeOK ==
  /\ main \in MainStates
  /\ next \in 1..(NumSources + 1)
  /\ status \in {"none", "built", "skipped"}
  /\ builtSources \in 0..NumSources
  /\ worker \in WorkerStates
  /\ initialJobs \in Seq(Jobs)
  /\ queue \in Seq(Jobs \cup {FinishMarker})
  /\ preferInitial \in BOOLEAN
  /\ finishSeen \in BOOLEAN
  /\ seen \in SUBSET Shards
  /\ job \in Jobs \cup {NoJob}
  /\ tally \in [built: Nat, skipped: Nat, pending: Nat]
  /\ error \in BOOLEAN
  /\ pauseRequested \in BOOLEAN
  /\ paused \in BOOLEAN
  /\ resume \in BOOLEAN
  /\ lock \in {"none", "main", "worker"}
  /\ token \in BOOLEAN /\ publisher \in BOOLEAN
  /\ polygon \in [Shards -> Generations]
  /\ asset \in [Shards -> Generations]
  /\ behind \in {"no", "earlier", "now"}

(***************************************************************************)
(* The data root may hold any finalized shards of earlier runs, with or    *)
(* without their asset shards, and refreshed artifacts or not (an earlier  *)
(* run may have been killed, or have failed, before it refreshed).         *)
(***************************************************************************)
Init ==
  /\ main = "start" /\ next = 1 /\ status = "none" /\ builtSources = 0
  /\ worker = "off"
  /\ initialJobs = <<>> /\ queue = <<>> /\ seen = {}
  /\ preferInitial = TRUE /\ finishSeen = FALSE
  /\ job = NoJob /\ tally = [built |-> 0, skipped |-> 0, pending |-> 0]
  /\ error = FALSE
  /\ pauseRequested = FALSE /\ paused = FALSE /\ resume = TRUE
  /\ lock = "none" /\ token = FALSE /\ publisher \in BOOLEAN
  /\ polygon \in [Shards -> {0, 1}]
  /\ asset \in [Shards -> {0, 1}] /\ \A s \in Shards : asset[s] <= polygon[s]
  /\ behind \in {"no", "earlier"}

Alive == worker \notin {"off", "dead"}

(***************************************************************************)
(* The main thread.                                                        *)
(***************************************************************************)

\* Jobs of the manifests found at start: shards without asset artifacts come
\* first, each group in path order.
Before(a, b) == \/ asset[a] = 0 /\ asset[b] # 0
                \/ (asset[a] = 0) = (asset[b] = 0) /\ a < b
\* A faulty Found: only shards that already have an asset shard are registered.
FoundWithAssets == {s \in Shards : polygon[s] # 0 /\ asset[s] # 0}
Found == {s \in Shards : polygon[s] # 0}
Ordered(jobs) == \A i, j \in DOMAIN jobs : i < j => Before(jobs[i].shard, jobs[j].shard)
FoundJobs == {[shard |-> s, gen |-> polygon[s]] : s \in Found}

\* _start_enrichment_worker and EnrichmentWorker.start.
StartWorker ==
  /\ main = "start"
  /\ \E jobs \in [1..Cardinality(Found) -> FoundJobs] :
        Ordered(jobs) /\ initialJobs' = jobs
  /\ seen' = Found
  /\ worker' = "opening"
  /\ main' = "loop"
  /\ UNCHANGED <<sourceVars, queue, preferInitial, finishSeen, workVars, pauseVars, lock,
                 runVars, dataVars>>

\* verified_manifests raises before the worker exists.
StartFails ==
  /\ main = "start"
  /\ main' = "raised"
  /\ token' = TRUE /\ UNCHANGED publisher
  /\ UNCHANGED <<sourceVars, workerVars, queueVars, pauseVars, lock, dataVars>>

\* The head of the loop of _build_sources.
NextSource ==
  /\ main = "loop"
  /\ main' = IF token \/ next > NumSources THEN "finish" ELSE "buildLock"
  /\ UNCHANGED <<sourceVars, workerVars, queueVars, pauseVars, lock, runVars, dataVars>>

\* with refresh_lock, before build(source, paths).
LockForBuild ==
  /\ main = "buildLock" /\ lock = "none"
  /\ lock' = "main"
  /\ main' = "build"
  /\ UNCHANGED <<sourceVars, workerVars, queueVars, pauseVars, runVars, dataVars>>

\* build_one returns: it reuses a finalized shard, or finalizes a new one.
BuildSource ==
  /\ main = "build"
  /\ \/ /\ polygon[next] # 0
        /\ status' = "skipped"
        /\ UNCHANGED <<builtSources, polygon, behind>>
     \/ /\ status' = "built"
        /\ builtSources' = builtSources + 1
        /\ polygon' = [polygon EXCEPT ![next] = 2]
        /\ behind' = "now"
  /\ lock' = "none"
  /\ main' = "submit"
  /\ UNCHANGED <<next, worker, queueVars, workVars, pauseVars, runVars, asset>>

\* An exception in the loop: token.request(), then worker.finish() with its
\* own exceptions suppressed.
RaiseInLoop ==
  /\ main' = "errorFinish"
  /\ token' = TRUE /\ UNCHANGED publisher

BuildFails ==
  /\ main = "build"
  /\ lock' = "none"
  /\ RaiseInLoop
  /\ UNCHANGED <<sourceVars, workerVars, queueVars, pauseVars, dataVars>>

AfterSubmit == IF status = "built" /\ publisher THEN "checkpoint" ELSE "loop"

\* A faulty LeaveSource: a checkpoint moves the index on as well.
LeaveSourceTwice(pc) ==
  /\ main' = pc
  /\ next' = next + 1

\* The source is done; a checkpoint still belongs to it.
LeaveSource(pc) ==
  /\ main' = pc
  /\ next' = IF pc = "loop" THEN next + 1 ELSE next

\* _register: a shard is registered once, whatever the generation of its job.
NeverRegistered(s) == FALSE  \* faulty: nothing is looked up
Registered(s) == s \in seen

Submit ==
  /\ main = "submit"
  /\ \/ /\ Registered(next)
        /\ LeaveSource(AfterSubmit)
        /\ UNCHANGED seen
     \/ /\ ~Registered(next)
        /\ seen' = seen \cup {next}
        /\ LeaveSource("enqueue")
  /\ UNCHANGED <<status, builtSources, worker, initialJobs, queue, preferInitial,
                 finishSeen, workVars, pauseVars, lock, runVars, dataVars>>

\* _enqueue_job: the error check of its loop.
CheckBeforePut ==
  /\ main = "enqueue"
  /\ \/ error /\ RaiseInLoop
     \/ ~error /\ main' = "put" /\ UNCHANGED runVars
  /\ UNCHANGED <<sourceVars, workerVars, queueVars, pauseVars, lock, dataVars>>

Room == Len(queue) < QueueCapacity

\* _enqueue_job: put with a timeout; queue.Full goes round the loop.
Put ==
  /\ main = "put"
  /\ \/ /\ Room
        /\ queue' = Append(queue, [shard |-> next, gen |-> polygon[next]])
        /\ LeaveSource(AfterSubmit)
     \/ /\ ~Room
        /\ main' = "enqueue"
        /\ UNCHANGED <<queue, next>>
  /\ UNCHANGED <<status, builtSources, worker, initialJobs, preferInitial, finishSeen,
                 seen, workVars, pauseVars, lock, runVars, dataVars>>

\* checkpoint: raise the worker's error, or ask the worker to pause.  The
\* branch for a thread that ended without an error cannot be reached: the
\* main thread sends the finish marker only after its last checkpoint.
RequestPause ==
  /\ main = "checkpoint"
  /\ \/ /\ error
        /\ RaiseInLoop
        /\ UNCHANGED pauseVars
     \/ /\ ~error /\ Alive
        /\ resume' = FALSE /\ pauseRequested' = TRUE
        /\ main' = "waitPaused"
        /\ UNCHANGED <<paused, runVars>>
  /\ UNCHANGED <<sourceVars, workerVars, queueVars, lock, dataVars>>

\* A faulty ReleaseWorker: the request is withdrawn but the event is not set.
ReleaseWithoutResume ==
  /\ pauseRequested' = FALSE
  /\ UNCHANGED <<worker, paused, resume>>

\* _resume.set() also wakes a worker blocked in _resume.wait(), for good.
ReleaseWorker ==
  /\ pauseRequested' = FALSE /\ resume' = TRUE
  /\ worker' = IF worker = "blocked" THEN "resumed" ELSE worker
  /\ UNCHANGED paused

\* _wait_until_paused: the loop ends when the worker is dead or paused.
AnyTimeout == TRUE  \* faulty: the first timeout of the wait ends the loop
WorkerStopped == paused \/ ~Alive

WaitUntilPaused ==
  /\ main = "waitPaused"
  /\ WorkerStopped
  /\ \/ /\ error
        /\ ReleaseWorker
        /\ RaiseInLoop
     \/ /\ ~error
        /\ main' = "checkpointLock"
        /\ UNCHANGED <<worker, pauseVars, runVars>>
  /\ UNCHANGED <<sourceVars, queueVars, workVars, lock, dataVars>>

LockIgnored == TRUE  \* faulty: refresh_lock is not waited for
LockFree == lock = "none"

\* _refresh_artifacts enters with refresh_lock held and starts reading.
BeginRefresh(thread) ==
  /\ LockFree
  /\ lock' = thread
  /\ behind' = "no"
  /\ UNCHANGED <<polygon, asset>>

LockForCheckpoint ==
  /\ main = "checkpointLock"
  /\ BeginRefresh("main")
  /\ main' = "checkpointRefresh"
  /\ UNCHANGED <<sourceVars, workerVars, queueVars, pauseVars, runVars>>

\* checkpoint's finally clause runs whether the refresh returned or raised.
CheckpointRefreshed ==
  /\ main = "checkpointRefresh"
  /\ lock' = "none"
  /\ ReleaseWorker
  /\ LeaveSource("loop")
  /\ UNCHANGED <<status, builtSources, queueVars, workVars, runVars, dataVars>>

CheckpointRefreshFails ==
  /\ main = "checkpointRefresh"
  /\ lock' = "none"
  /\ behind' = "now"
  /\ ReleaseWorker
  /\ RaiseInLoop
  /\ UNCHANGED <<sourceVars, queueVars, workVars, polygon, asset>>

MarkerDropped == ~Alive \/ error \/ ~Room  \* faulty: queue.Full ends the attempts
MarkerUseless == ~Alive \/ error

\* _send_finish_marker, on the normal path and on the error path.
SendFinishMarker ==
  /\ main \in {"finish", "errorFinish"}
  /\ \/ /\ Alive /\ ~error /\ Room
        /\ queue' = Append(queue, FinishMarker)
     \/ MarkerUseless /\ UNCHANGED queue
  /\ main' = IF main = "finish" THEN "join" ELSE "errorJoin"
  /\ UNCHANGED <<sourceVars, worker, initialJobs, preferInitial, finishSeen, seen,
                 workVars, pauseVars, lock, runVars, dataVars>>

\* _needs_final_artifacts.
OnlyForSources == next = 1 \/ builtSources > 0  \* faulty: asset shards do not count
NeedsFinalRefresh == next = 1 \/ builtSources > 0 \/ tally.built > 0

\* thread.join(), then the worker's error or the final refresh.
Join ==
  /\ main = "join" /\ ~Alive
  /\ main' = IF error THEN "raised"
             ELSE IF NeedsFinalRefresh THEN "finalLock" ELSE "returned"
  /\ UNCHANGED <<sourceVars, workerVars, queueVars, pauseVars, lock, runVars, dataVars>>

JoinAfterError ==
  /\ main = "errorJoin" /\ ~Alive
  /\ main' = "raised"
  /\ UNCHANGED <<sourceVars, workerVars, queueVars, pauseVars, lock, runVars, dataVars>>

LockForFinalRefresh ==
  /\ main = "finalLock"
  /\ BeginRefresh("main")
  /\ main' = "finalRefresh"
  /\ UNCHANGED <<sourceVars, workerVars, queueVars, pauseVars, runVars>>

FinalRefresh ==
  /\ main = "finalRefresh"
  /\ lock' = "none"
  /\ \/ main' = "returned" /\ UNCHANGED behind
     \/ main' = "raised" /\ behind' = "now"
  /\ UNCHANGED <<sourceVars, workerVars, queueVars, pauseVars, runVars, polygon, asset>>

Main ==
  \/ StartWorker \/ StartFails \/ NextSource \/ LockForBuild \/ BuildSource \/ BuildFails
  \/ Submit \/ CheckBeforePut \/ Put
  \/ RequestPause \/ WaitUntilPaused \/ LockForCheckpoint
  \/ CheckpointRefreshed \/ CheckpointRefreshFails
  \/ SendFinishMarker \/ Join \/ JoinAfterError \/ LockForFinalRefresh \/ FinalRefresh

(***************************************************************************)
(* The worker thread.                                                      *)
(***************************************************************************)

\* _run: the cache and the registry are opened on the worker's thread.
OpenResources ==
  /\ worker = "opening"
  /\ worker' = "top"
  /\ UNCHANGED <<mainVars, queueVars, workVars, pauseVars, lock, runVars, dataVars>>

\* _pause_if_requested, up to _paused.set().
CheckPause ==
  /\ worker = "top"
  /\ \/ pauseRequested /\ paused' = TRUE /\ worker' = "pausing"
     \/ ~pauseRequested /\ worker' = "take" /\ UNCHANGED paused
  /\ UNCHANGED <<mainVars, queueVars, workVars, pauseRequested, resume, lock, runVars,
                 dataVars>>

\* _resume.wait(): it returns at once when the event is set and blocks otherwise.
WaitForResume ==
  /\ worker = "pausing"
  /\ worker' = IF resume THEN "resumed" ELSE "blocked"
  /\ UNCHANGED <<mainVars, queueVars, workVars, pauseVars, lock, runVars, dataVars>>

\* _paused.clear(), some time after the wake-up.
ClearPaused ==
  /\ worker = "resumed"
  /\ paused' = FALSE
  /\ worker' = "take"
  /\ UNCHANGED <<mainVars, queueVars, workVars, pauseRequested, resume, lock, runVars,
                 dataVars>>

Hold(taken) == job' = taken /\ worker' = "holding"

\* _next_initial_job.
TakeInitial ==
  /\ worker = "take" /\ initialJobs # <<>>
  /\ preferInitial \/ queue = <<>>
  /\ Hold(Head(initialJobs))
  /\ initialJobs' = Tail(initialJobs)
  /\ preferInitial' = (~preferInitial)
  /\ UNCHANGED <<mainVars, queue, finishSeen, seen, tally, error, pauseVars, lock, runVars,
                 dataVars>>

\* _next_initial_job: the marker is remembered and an initial job taken instead.
TakeMarkerThenInitial ==
  /\ worker = "take" /\ initialJobs # <<>>
  /\ ~preferInitial /\ queue # <<>> /\ Head(queue) = FinishMarker
  /\ queue' = Tail(queue)
  /\ finishSeen' = TRUE
  /\ Hold(Head(initialJobs))
  /\ initialJobs' = Tail(initialJobs)
  /\ UNCHANGED <<mainVars, preferInitial, seen, tally, error, pauseVars, lock, runVars,
                 dataVars>>

\* A queued job, between two initial ones or when none is left.
TakeQueued ==
  /\ worker = "take" /\ queue # <<>> /\ Head(queue) # FinishMarker
  /\ \/ initialJobs # <<>> /\ ~preferInitial /\ preferInitial' = TRUE
     \/ initialJobs = <<>> /\ ~finishSeen /\ UNCHANGED preferInitial
  /\ Hold(Head(queue))
  /\ queue' = Tail(queue)
  /\ UNCHANGED <<mainVars, initialJobs, finishSeen, seen, tally, error, pauseVars, lock,
                 runVars, dataVars>>

MarkerSuffices == TRUE  \* faulty: the marker ends the worker with jobs left
Drained == initialJobs = <<>>

\* _next_available_job returns None and the loop of _run_jobs ends.
\* With nothing to take and no marker it polls the queue, without looking at
\* the pause request.
NoMoreJobs ==
  /\ worker = "take" /\ Drained
  /\ \/ finishSeen /\ UNCHANGED queue
     \/ /\ ~finishSeen /\ queue # <<>> /\ Head(queue) = FinishMarker
        /\ queue' = Tail(queue)
  /\ worker' = "closing"
  /\ UNCHANGED <<mainVars, initialJobs, preferInitial, finishSeen, seen, workVars,
                 pauseVars, lock, runVars, dataVars>>

\* The finally clause of _run; the summary is stored and the thread ends.
CloseResources ==
  /\ worker = "closing"
  /\ worker' = "dead"
  /\ UNCHANGED <<mainVars, queueVars, workVars, pauseVars, lock, runVars, dataVars>>

Count(result) == tally' = [tally EXCEPT ![result] = @ + 1]

\* The stop check of _run_jobs.
StartJob ==
  /\ worker = "holding"
  /\ \/ token /\ Count("pending") /\ worker' = "top" /\ job' = NoJob
     \/ ~token /\ worker' = "build" /\ UNCHANGED <<job, tally>>
  /\ UNCHANGED <<mainVars, queueVars, error, pauseVars, lock, runVars, dataVars>>

\* build_asset_shard: a manifest of the job's generation is reused unless a
\* refresh is due, a stop leaves the shard pending, otherwise it is rebuilt.
BuildAsset ==
  /\ worker = "build"
  /\ job' = NoJob
  /\ \/ /\ asset[job.shard] = job.gen
        /\ Count("skipped") /\ worker' = "top"
        /\ UNCHANGED <<asset, behind>>
     \/ /\ token
        /\ Count("pending") /\ worker' = "top"
        /\ UNCHANGED <<asset, behind>>
     \/ /\ Count("built")
        /\ asset' = [asset EXCEPT ![job.shard] = job.gen]
        /\ behind' = "now"
        /\ worker' = IF publisher THEN "refreshLock" ELSE "top"
  /\ UNCHANGED <<mainVars, queueVars, error, pauseVars, lock, runVars, polygon>>

\* The cache, the registry, a build or a refresh raises out of _run.
WorkerFails ==
  /\ worker \in {"opening", "build", "refresh", "closing"}
  /\ worker' = "failing"
  /\ lock' = IF worker = "refresh" THEN "none" ELSE lock
  /\ behind' = IF worker = "refresh" THEN "now" ELSE behind
  /\ UNCHANGED <<mainVars, queueVars, workVars, pauseVars, runVars, polygon, asset>>

\* _thread_main records the exception; the thread ends after that.
RecordError ==
  /\ worker = "failing" /\ ~error
  /\ error' = TRUE
  /\ UNCHANGED <<mainVars, worker, queueVars, job, tally, pauseVars, lock, runVars, dataVars>>

ThreadEndsInError ==
  /\ worker = "failing" /\ error
  /\ worker' = "dead"
  /\ UNCHANGED <<mainVars, queueVars, workVars, pauseVars, lock, runVars, dataVars>>

\* _checkpoint_after with every=1: the callback follows each built shard.
LockForWorkerRefresh ==
  /\ worker = "refreshLock"
  /\ BeginRefresh("worker")
  /\ worker' = "refresh"
  /\ UNCHANGED <<mainVars, queueVars, workVars, pauseVars, runVars>>

WorkerRefreshed ==
  /\ worker = "refresh"
  /\ lock' = "none"
  /\ worker' = "top"
  /\ UNCHANGED <<mainVars, queueVars, workVars, pauseVars, runVars, dataVars>>

Worker ==
  \/ OpenResources \/ CloseResources \/ CheckPause \/ WaitForResume \/ ClearPaused
  \/ TakeInitial \/ TakeMarkerThenInitial \/ TakeQueued \/ NoMoreJobs
  \/ StartJob \/ BuildAsset \/ WorkerFails \/ RecordError \/ ThreadEndsInError
  \/ LockForWorkerRefresh \/ WorkerRefreshed

Ended == main \in {"returned", "raised"}

\* SIGINT or SIGTERM: StopToken.request.
StopSignal ==
  /\ ~token /\ ~Ended
  /\ token' = TRUE /\ UNCHANGED publisher
  /\ UNCHANGED <<mainVars, worker, queueVars, workVars, pauseVars, lock, dataVars>>

\* The process has nothing more to do.
Finished == Ended /\ ~Alive /\ UNCHANGED vars

Next == Main \/ Worker \/ StopSignal \/ Finished

Spec == Init /\ [][Next]_vars

\* The operating system runs both threads and always grants a free lock.
FairSpec == Spec /\ WF_vars(Main) /\ WF_vars(Worker)

(***************************************************************************)
(* Properties.                                                             *)
(***************************************************************************)

\* A refresh never overlaps a PBF build: a thread refreshes or builds a PBF
\* only while it holds refresh_lock (_build_source, _refresh_artifacts).
Holds(thread) == lock = thread
LockDiscipline ==
  /\ main \in {"build", "checkpointRefresh", "finalRefresh"} <=> Holds("main")
  /\ worker = "refresh" <=> Holds("worker")

\* While the main thread refreshes at its first checkpoint the worker stands
\* still in _pause_if_requested, so no asset build has a temporary file open.
\* (At a later one it may be building: _paused of the one before can still be set.)
FirstCheckpointPaused ==
  main = "checkpointRefresh" /\ builtSources = 1 => worker \in {"pausing", "blocked"}

\* The worker holds, waits for and finds at most one job of a shard, so an
\* asset shard is built at most once in a run (_register).
HeldShards == IF job = NoJob THEN <<>> ELSE <<job>>
OneJobPerShard ==
  LET waiting == HeldShards \o initialJobs \o queue
  IN  \A i, j \in DOMAIN waiting :
        i # j => waiting[i].shard # waiting[j].shard

\* A run that returns has accounted for every registered job in its summary
\* and has raised every error of the worker (finish).
SummaryComplete ==
  main = "returned" =>
    /\ tally.built + tally.skipped + tally.pending = Cardinality(seen)
    /\ ~error

\* A run that returns without a stop leaves no finalized polygon shard without
\* an asset shard: the worker backfills the missing ones.
AssetsBackfilled ==
  main = "returned" /\ ~token => \A s \in Shards : polygon[s] # 0 => asset[s] # 0

\* A run that returns has covered every artifact it built by a refresh that
\* began after the artifact was finalized (_needs_final_artifacts).
BuiltThenRefreshed == main = "returned" => behind # "now"

\* A main thread in checkpoint whose worker polls an empty queue for ever.
CheckpointHang ==
  /\ main = "waitPaused" /\ ~paused
  /\ worker = "take" /\ initialJobs = <<>> /\ queue = <<>> /\ ~finishSeen

\* Every run ends, or hangs in exactly one way: no other wait of the two
\* threads (the lock, the bounded queue, the join, the pause) is for ever.
EndsOrHangs == <>[](Ended \/ CheckpointHang)

\* What docs/operations.md says of explicit checkpoints: they are coordinated
\* with the worker, so that one that was asked for is eventually left.
CheckpointLeft == main = "waitPaused" ~> main # "waitPaused"
===========================================================================
