----------------------- MODULE EnrichmentWorkerProofs -----------------------
(***************************************************************************)
(* Proofs about EnrichmentWorker, for any number of shards and sources,    *)
(* any capacity of the job queue, with and without a publisher.            *)
(***************************************************************************)
EXTENDS EnrichmentWorker, FiniteSetTheorems, TLAPS

(***************************************************************************)
(* The inductive invariant.                                                *)
(***************************************************************************)

\* main is past its last checkpoint: it has dealt with the finish marker.
Late == main \in {"join", "finalLock", "finalRefresh", "errorJoin", "returned", "raised"}

\* The worker ends without an error only after a finish marker, which main
\* sends only after its last checkpoint.
MarkerIsLate ==
  /\ finishSeen \/ worker = "closing" => Late
  /\ worker = "dead" => Late \/ error
  /\ \A i \in DOMAIN queue : queue[i] = FinishMarker => Late

\* The thread exists from StartWorker on; main joins it before it goes on.
Lifetime ==
  /\ main = "start" <=> (worker = "off" /\ main # "raised")
  /\ main \in {"finalLock", "finalRefresh", "returned"} => worker = "dead"

\* The sources main has yet to submit and the checkpoints of the built ones.
AtCheckpoint == main \in {"checkpoint", "waitPaused", "checkpointLock", "checkpointRefresh"}
Progress ==
  /\ main = "start" => next = 1 /\ builtSources = 0
  /\ main \in {"buildLock", "build", "submit", "enqueue", "put"} => next <= NumSources
  /\ builtSources <= next
  /\ main \in {"loop", "buildLock", "build"} => builtSources < next
  /\ AtCheckpoint => next <= NumSources /\ status = "built"
  /\ AtCheckpoint \/ (main \in {"submit", "enqueue", "put"} /\ status = "built")
       => builtSources > 0

\* No checkpoint has been asked for yet.
BeforeCheckpoints ==
  \/ builtSources = 0
  \/ builtSources = 1 /\ status = "built" /\ main \in {"submit", "enqueue", "put", "checkpoint"}

\* Up to the first checkpoint the events of the handshake are as created, and
\* during it they tell where the worker is.
FirstHandshake ==
  /\ BeforeCheckpoints =>
       /\ ~pauseRequested /\ resume /\ ~paused
       /\ worker \notin {"pausing", "blocked", "resumed"}
  /\ main \in {"waitPaused", "checkpointLock", "checkpointRefresh"} /\ builtSources = 1 =>
       /\ ~resume
       /\ worker # "resumed"
       /\ paused <=> worker \in {"pausing", "blocked"}
  /\ main \in {"checkpointLock", "checkpointRefresh"} /\ builtSources = 1 => paused

\* What no refresh covers was built by this run, unless main raised.
Behind ==
  /\ behind = "now" => builtSources > 0 \/ tally.built > 0 \/ main = "raised"
  /\ worker \in {"refreshLock", "refresh"} => tally.built > 0
  /\ main = "finalRefresh" => behind = "no"

IInv == TypeOK /\ LockDiscipline /\ MarkerIsLate /\ Lifetime /\ Progress /\ FirstHandshake
        /\ Behind /\ BuiltThenRefreshed

USE ShardsAssumption, SourcesAssumption, CapacityAssumption

(***************************************************************************)
(* The types, in three parts: the truth values, the rest of the control,   *)
(* and the data.                                                           *)
(***************************************************************************)

Events ==
  /\ preferInitial \in BOOLEAN /\ finishSeen \in BOOLEAN
  /\ error \in BOOLEAN /\ token \in BOOLEAN /\ publisher \in BOOLEAN
  /\ pauseRequested \in BOOLEAN /\ paused \in BOOLEAN /\ resume \in BOOLEAN

Control ==
  /\ main \in MainStates /\ worker \in WorkerStates
  /\ next \in 1..(NumSources + 1)
  /\ status \in {"none", "built", "skipped"}
  /\ builtSources \in 0..NumSources
  /\ lock \in {"none", "main", "worker"}
  /\ behind \in {"no", "earlier", "now"}

Data ==
  /\ initialJobs \in Seq(Jobs)
  /\ queue \in Seq(Jobs \cup {FinishMarker})
  /\ seen \in SUBSET Shards
  /\ job \in Jobs \cup {NoJob}
  /\ tally \in [built: Nat, skipped: Nat, pending: Nat]
  /\ polygon \in [Shards -> Generations]
  /\ asset \in [Shards -> Generations]

LEMMA TypeParts == TypeOK <=> Events /\ Control /\ Data
  BY Zenon DEF TypeOK, Events, Control, Data

(***************************************************************************)
(* The initial states.                                                     *)
(***************************************************************************)

LEMMA ShardsFinite == IsFiniteSet(Shards)
  BY FS_Interval DEF Shards

\* The jobs found at start are a sequence of jobs, without a finish marker.
LEMMA FoundJobsAreJobs ==
  ASSUME TypeOK, NEW jobs \in [1..Cardinality(Found) -> FoundJobs]
  PROVE  jobs \in Seq(Jobs)
<1>1. IsFiniteSet(Found)
  BY ShardsFinite, FS_Subset DEF Found
<1>2. Cardinality(Found) \in Nat
  BY <1>1, FS_CardinalityType
<1>3. FoundJobs \subseteq Jobs
  BY DEF FoundJobs, Found, Jobs, TypeOK
<1> QED BY <1>2, <1>3

LEMMA MarkerIsNoJob == FinishMarker \notin Jobs /\ NoJob \notin Jobs
  BY DEF FinishMarker, NoJob, Jobs, Shards

LEMMA InitInvariant == Init => IInv
<1> SUFFICES ASSUME Init PROVE IInv
  OBVIOUS
<1>1. TypeOK
  <2>1. polygon \in [Shards -> Generations] /\ asset \in [Shards -> Generations]
    BY DEF Init, Generations
  <2>2. initialJobs \in Seq(Jobs) /\ queue \in Seq(Jobs \cup {FinishMarker})
    BY DEF Init
  <2>3. Events
    BY Zenon DEF Init, Events
  <2>4. Control
    BY DEF Init, Control, MainStates, WorkerStates
  <2>5. Data
    BY <2>1, <2>2 DEF Init, Data
  <2> QED BY <2>3, <2>4, <2>5, TypeParts
<1>2. MarkerIsLate /\ Lifetime /\ LockDiscipline
  BY DEF Init, MarkerIsLate, Lifetime, LockDiscipline, Holds
<1>3. Progress /\ FirstHandshake
  BY DEF Init, Progress, AtCheckpoint, FirstHandshake, BeforeCheckpoints
<1>4. Behind /\ BuiltThenRefreshed
  BY DEF Init, Behind, BuiltThenRefreshed
<1> QED BY <1>1, <1>2, <1>3, <1>4 DEF IInv

(***************************************************************************)
(* Every step keeps the types.                                             *)
(***************************************************************************)

\* A step of a queue: nothing, the finish marker put, the head taken.
LEMMA QueueStep ==
  ASSUME NEW q \in Seq(Jobs \cup {FinishMarker}), NEW r,
         r = q \/ r = Append(q, FinishMarker) \/ (q # <<>> /\ r = Tail(q))
  PROVE  r \in Seq(Jobs \cup {FinishMarker})
  OBVIOUS

\* What StartWorker does to the control, without the order of the jobs.
LEMMA StartWorkerControl ==
  StartWorker => /\ main = "start" /\ main' = "loop" /\ worker' = "opening"
                 /\ UNCHANGED <<next, status, builtSources, queue, finishSeen, error, tally,
                                lock, behind, pauseRequested, paused, resume>>
  BY Zenon DEF StartWorker, sourceVars, workVars, pauseVars, runVars, dataVars

\* A checkpoint follows a built source only.
LEMMA AfterSubmitLemma ==
  AfterSubmit = "loop" \/ (AfterSubmit = "checkpoint" /\ status = "built")
  BY Zenon DEF AfterSubmit

LEMMA EventsStep == Events /\ [Next]_vars => Events'
<1> SUFFICES ASSUME Events, [Next]_vars PROVE Events'
  OBVIOUS
<1> USE DEF Events, mainVars, sourceVars, queueVars, workVars, workerVars, pauseVars, runVars, dataVars
<1>1. CASE Main
  <2> USE DEF Main, StartWorker, StartFails, NextSource, LockForBuild, BuildSource, BuildFails, Submit, CheckBeforePut, Put, RequestPause, WaitUntilPaused, LockForCheckpoint, CheckpointRefreshed, CheckpointRefreshFails, SendFinishMarker, Join, JoinAfterError, LockForFinalRefresh, FinalRefresh, LeaveSource, RaiseInLoop, ReleaseWorker, BeginRefresh
  <2>1. publisher' = publisher
    BY <1>1, Zenon
  <2>2. token' = token \/ token' = TRUE
    BY <1>1, Zenon
  <2>3. preferInitial' \in BOOLEAN /\ finishSeen' \in BOOLEAN /\ error' \in BOOLEAN
    BY <1>1, Zenon
  <2>4. pauseRequested' \in BOOLEAN /\ paused' \in BOOLEAN /\ resume' \in BOOLEAN
    BY <1>1, Zenon
  <2> QED BY <2>1, <2>2, <2>3, <2>4, Zenon
<1>2. CASE Worker
  <2>1. UNCHANGED <<pauseRequested, resume, token, publisher>>
    BY <1>2, Zenon
    DEF Worker, OpenResources, CloseResources, CheckPause, WaitForResume, ClearPaused, TakeInitial, TakeMarkerThenInitial, TakeQueued, NoMoreJobs, StartJob, BuildAsset, WorkerFails, RecordError, ThreadEndsInError, LockForWorkerRefresh, WorkerRefreshed
  <2>2. paused' \in BOOLEAN
    <3>1. CASE CheckPause \/ ClearPaused
      BY <3>1, Zenon DEF CheckPause, ClearPaused
    <3>2. CASE ~ (CheckPause \/ ClearPaused)
      BY <1>2, <3>2, Zenon
      DEF Worker, OpenResources, CloseResources, WaitForResume, TakeInitial, TakeMarkerThenInitial, TakeQueued, NoMoreJobs, StartJob, BuildAsset, WorkerFails, RecordError, ThreadEndsInError, LockForWorkerRefresh, WorkerRefreshed
    <3> QED BY <3>1, <3>2
  <2>3. error' \in BOOLEAN
    <3>1. CASE RecordError
      BY <3>1, Zenon DEF RecordError
    <3>2. CASE ~ RecordError
      BY <1>2, <3>2, Zenon
      DEF Worker, OpenResources, CloseResources, CheckPause, WaitForResume, ClearPaused, TakeInitial, TakeMarkerThenInitial, TakeQueued, NoMoreJobs, StartJob, BuildAsset, WorkerFails, ThreadEndsInError, LockForWorkerRefresh, WorkerRefreshed
    <3> QED BY <3>1, <3>2
  <2>4. preferInitial' \in BOOLEAN /\ finishSeen' \in BOOLEAN
    <3>1. CASE TakeInitial \/ TakeMarkerThenInitial \/ TakeQueued
      BY <3>1, Zenon DEF TakeInitial, TakeMarkerThenInitial, TakeQueued
    <3>2. CASE ~ (TakeInitial \/ TakeMarkerThenInitial \/ TakeQueued)
      BY <1>2, <3>2, Zenon
      DEF Worker, OpenResources, CloseResources, CheckPause, WaitForResume, ClearPaused, NoMoreJobs, StartJob, BuildAsset, WorkerFails, RecordError, ThreadEndsInError, LockForWorkerRefresh, WorkerRefreshed
    <3> QED BY <3>1, <3>2
  <2> QED BY <2>1, <2>2, <2>3, <2>4, Zenon
<1>3. CASE StopSignal \/ Finished \/ UNCHANGED vars
  BY <1>3, Zenon DEF StopSignal, Finished, vars
<1> QED BY <1>1, <1>2, <1>3 DEF Next

LEMMA ControlStep == Control /\ Progress /\ [Next]_vars => Control'
<1> SUFFICES ASSUME Control, Progress, [Next]_vars PROVE Control'
  OBVIOUS
<1> USE DEF Control, MainStates, WorkerStates, mainVars, sourceVars, queueVars, workVars,
            workerVars, pauseVars, runVars, dataVars
<1>1. CASE Main
  BY <1>1
  DEF Main, StartWorker, StartFails, NextSource, LockForBuild, BuildSource, BuildFails, Submit, CheckBeforePut, Put, RequestPause, WaitUntilPaused, LockForCheckpoint, CheckpointRefreshed, CheckpointRefreshFails, SendFinishMarker, Join, JoinAfterError, LockForFinalRefresh, FinalRefresh, LeaveSource, RaiseInLoop, ReleaseWorker, BeginRefresh, AfterSubmit, Progress, AtCheckpoint
<1>2. CASE Worker
  BY <1>2
  DEF Worker, OpenResources, CloseResources, CheckPause, WaitForResume, ClearPaused, TakeInitial, TakeMarkerThenInitial, TakeQueued, NoMoreJobs, StartJob, BuildAsset, WorkerFails, RecordError, ThreadEndsInError, LockForWorkerRefresh, WorkerRefreshed, Hold, Count, BeginRefresh
<1>3. CASE StopSignal \/ Finished \/ UNCHANGED vars
  BY <1>3 DEF StopSignal, Finished, vars
<1> QED BY <1>1, <1>2, <1>3 DEF Next

LEMMA DataStep == TypeOK /\ Progress /\ [Next]_vars => Data'
<1> SUFFICES ASSUME Data, TypeOK, Progress, [Next]_vars PROVE Data'
  BY TypeParts
<1> USE DEF Data, mainVars, sourceVars, queueVars, workVars, workerVars, pauseVars, runVars, dataVars
<1> DEFINE NoDataStep ==
      UNCHANGED <<initialJobs, queue, seen, job, tally, polygon, asset>>
<1>1. NoDataStep => Data'
  OBVIOUS
<1>2. CASE StartWorker
  <2>1. initialJobs' \in Seq(Jobs)
    BY <1>2, FoundJobsAreJobs DEF StartWorker
  <2> QED BY <1>2, <2>1 DEF StartWorker, Found
<1>3. CASE BuildSource
  <2>1. polygon' \in [Shards -> Generations]
    BY <1>3 DEF BuildSource, Generations
  <2> QED BY <1>3, <2>1 DEF BuildSource
<1>4. CASE Submit
  <2>1. seen' = seen \/ seen' = seen \cup {next}
    BY <1>4, Zenon DEF Submit
  <2>2. next \in Shards
    BY <1>4 DEF Submit, Progress, Shards, TypeOK
  <2>3. seen' \in SUBSET Shards
    BY <2>1, <2>2
  <2> QED BY <1>4, <2>3 DEF Submit
<1>5. CASE Put
  <2>1. [shard |-> next, gen |-> polygon[next]] \in Jobs
    BY <1>5 DEF Put, Progress, Jobs, Shards, TypeOK
  <2>2. queue' = queue \/ queue' = Append(queue, [shard |-> next, gen |-> polygon[next]])
    BY <1>5, Zenon DEF Put
  <2>3. queue' \in Seq(Jobs \cup {FinishMarker})
    BY <2>1, <2>2
  <2> QED BY <1>5, <2>3 DEF Put
<1>6. CASE SendFinishMarker
  <2>1. queue' = queue \/ queue' = Append(queue, FinishMarker)
    BY <1>6, Zenon DEF SendFinishMarker
  <2>2. queue' \in Seq(Jobs \cup {FinishMarker})
    BY <2>1, QueueStep
  <2> QED BY <1>6, <2>2 DEF SendFinishMarker
<1>7. CASE TakeInitial
  <2>1. Head(initialJobs) \in Jobs /\ Tail(initialJobs) \in Seq(Jobs)
    BY <1>7 DEF TakeInitial
  <2> QED BY <1>7, <2>1 DEF TakeInitial, Hold
<1>8. CASE TakeMarkerThenInitial
  <2>1. Head(initialJobs) \in Jobs /\ Tail(initialJobs) \in Seq(Jobs)
    BY <1>8 DEF TakeMarkerThenInitial
  <2>2. Tail(queue) \in Seq(Jobs \cup {FinishMarker})
    BY <1>8 DEF TakeMarkerThenInitial
  <2> QED BY <1>8, <2>1, <2>2 DEF TakeMarkerThenInitial, Hold
<1>9. CASE TakeQueued
  <2>1. Head(queue) \in Jobs /\ Tail(queue) \in Seq(Jobs \cup {FinishMarker})
    BY <1>9 DEF TakeQueued
  <2> QED BY <1>9, <2>1 DEF TakeQueued, Hold
<1>10. CASE NoMoreJobs
  <2>1. queue' = queue \/ (queue # <<>> /\ queue' = Tail(queue))
    BY <1>10, Zenon DEF NoMoreJobs
  <2>2. queue' \in Seq(Jobs \cup {FinishMarker})
    BY <2>1, QueueStep
  <2> QED BY <1>10, <2>2 DEF NoMoreJobs
<1>11. CASE StartJob
  <2>1. tally' \in [built: Nat, skipped: Nat, pending: Nat]
    BY <1>11 DEF StartJob, Count
  <2>2. job' \in Jobs \cup {NoJob}
    BY <1>11 DEF StartJob
  <2> QED BY <1>11, <2>1, <2>2 DEF StartJob
<1>12. CASE BuildAsset
  <2>1. tally' \in [built: Nat, skipped: Nat, pending: Nat]
    <3>1. Count("built") \/ Count("skipped") \/ Count("pending")
      BY <1>12, Zenon DEF BuildAsset
    <3> QED BY <3>1 DEF Count
  <2>2. job' \in Jobs \cup {NoJob}
    BY <1>12 DEF BuildAsset
  <2>3. asset' = asset \/ asset' = [asset EXCEPT ![job.shard] = job.gen]
    BY <1>12, Zenon DEF BuildAsset
  <2>4. job.gen \in Generations
    BY DEF Jobs, NoJob, Generations
  <2>5. asset' \in [Shards -> Generations]
    BY <2>3, <2>4
  <2> QED BY <1>12, <2>1, <2>2, <2>5 DEF BuildAsset
<1>13. CASE \/ StartFails \/ NextSource \/ LockForBuild \/ BuildFails \/ CheckBeforePut
            \/ RequestPause \/ WaitUntilPaused \/ LockForCheckpoint
            \/ CheckpointRefreshed \/ CheckpointRefreshFails
            \/ Join \/ JoinAfterError \/ LockForFinalRefresh \/ FinalRefresh
  <2>1. NoDataStep
    BY <1>13
    DEF StartFails, NextSource, LockForBuild, BuildFails, CheckBeforePut, RequestPause,
        WaitUntilPaused, LockForCheckpoint, CheckpointRefreshed, CheckpointRefreshFails,
        Join, JoinAfterError, LockForFinalRefresh, FinalRefresh, BeginRefresh
  <2> QED BY <1>1, <2>1
<1>14. CASE \/ OpenResources \/ CloseResources \/ CheckPause \/ WaitForResume \/ ClearPaused
            \/ WorkerFails \/ RecordError \/ ThreadEndsInError
            \/ LockForWorkerRefresh \/ WorkerRefreshed
            \/ StopSignal \/ Finished \/ UNCHANGED vars
  <2>1. NoDataStep
    BY <1>14
    DEF OpenResources, CloseResources, CheckPause, WaitForResume, ClearPaused, WorkerFails,
        RecordError, ThreadEndsInError, LockForWorkerRefresh, WorkerRefreshed, BeginRefresh,
        StopSignal, Finished, vars
  <2> QED BY <1>1, <2>1
<1> QED
  BY <1>2, <1>3, <1>4, <1>5, <1>6, <1>7, <1>8, <1>9, <1>10, <1>11, <1>12, <1>13, <1>14
  DEF Next, Main, Worker

(***************************************************************************)
(* Every step keeps the other parts of the invariant.                      *)
(***************************************************************************)

LEMMA LockStep ==
  Lifetime /\ LockDiscipline /\ [Next]_vars => LockDiscipline'
<1> SUFFICES ASSUME Lifetime, LockDiscipline, [Next]_vars PROVE LockDiscipline'
  OBVIOUS
<1> USE DEF LockDiscipline, Holds,
            mainVars, sourceVars, queueVars, workVars, workerVars, pauseVars, runVars, dataVars
<1>1. CASE Main
  <2>1. CASE StartWorker
    BY <2>1, StartWorkerControl DEF Lifetime
  <2>2. CASE StartFails
    BY <2>2 DEF StartFails
  <2>3. CASE NextSource
    BY <2>3 DEF NextSource
  <2>4. CASE LockForBuild
    BY <2>4 DEF LockForBuild
  <2>5. CASE BuildSource
    BY <2>5 DEF BuildSource
  <2>6. CASE BuildFails
    BY <2>6 DEF BuildFails, RaiseInLoop
  <2>7. CASE Submit
    BY <2>7, AfterSubmitLemma DEF Submit, LeaveSource
  <2>8. CASE CheckBeforePut
    BY <2>8 DEF CheckBeforePut, RaiseInLoop
  <2>9. CASE Put
    BY <2>9, AfterSubmitLemma DEF Put, LeaveSource
  <2>10. CASE RequestPause
    BY <2>10 DEF RequestPause, RaiseInLoop
  <2>11. CASE WaitUntilPaused
    BY <2>11 DEF WaitUntilPaused, ReleaseWorker, RaiseInLoop
  <2>12. CASE LockForCheckpoint
    BY <2>12 DEF LockForCheckpoint, BeginRefresh, LockFree
  <2>13. CASE CheckpointRefreshed
    BY <2>13 DEF CheckpointRefreshed, ReleaseWorker, LeaveSource
  <2>14. CASE CheckpointRefreshFails
    BY <2>14 DEF CheckpointRefreshFails, ReleaseWorker, RaiseInLoop
  <2>15. CASE SendFinishMarker
    BY <2>15 DEF SendFinishMarker
  <2>16. CASE Join
    BY <2>16 DEF Join
  <2>17. CASE JoinAfterError
    BY <2>17 DEF JoinAfterError
  <2>18. CASE LockForFinalRefresh
    BY <2>18 DEF LockForFinalRefresh, BeginRefresh, LockFree
  <2>19. CASE FinalRefresh
    BY <2>19 DEF FinalRefresh
  <2> QED BY <1>1, <2>1, <2>2, <2>3, <2>4, <2>5, <2>6, <2>7, <2>8, <2>9, <2>10, <2>11,
         <2>12, <2>13, <2>14, <2>15, <2>16, <2>17, <2>18, <2>19 DEF Main
<1>2. CASE Worker
  BY <1>2
  DEF Worker, OpenResources, CloseResources, CheckPause, WaitForResume, ClearPaused,
      TakeInitial, TakeMarkerThenInitial, TakeQueued, NoMoreJobs, StartJob, BuildAsset,
      WorkerFails, RecordError, ThreadEndsInError, LockForWorkerRefresh, WorkerRefreshed,
      Hold, Count, BeginRefresh, LockFree
<1>3. CASE StopSignal \/ Finished \/ UNCHANGED vars
  BY <1>3 DEF StopSignal, Finished, vars
<1> QED BY <1>1, <1>2, <1>3 DEF Next

LEMMA LifetimeStep ==
  Lifetime /\ [Next]_vars => Lifetime'
<1> SUFFICES ASSUME Lifetime, [Next]_vars PROVE Lifetime'
  OBVIOUS
<1> USE DEF Lifetime, Alive,
            mainVars, sourceVars, queueVars, workVars, workerVars, pauseVars, runVars, dataVars
<1>1. CASE Main
  BY <1>1
  DEF Main, StartWorker, StartFails, NextSource, LockForBuild, BuildSource, BuildFails,
      Submit, CheckBeforePut, Put, RequestPause, WaitUntilPaused, LockForCheckpoint,
      CheckpointRefreshed, CheckpointRefreshFails, SendFinishMarker, Join, JoinAfterError,
      LockForFinalRefresh, FinalRefresh, LeaveSource, RaiseInLoop, ReleaseWorker,
      BeginRefresh, AfterSubmit
<1>2. CASE Worker
  BY <1>2
  DEF Worker, OpenResources, CloseResources, CheckPause, WaitForResume, ClearPaused,
      TakeInitial, TakeMarkerThenInitial, TakeQueued, NoMoreJobs, StartJob, BuildAsset,
      WorkerFails, RecordError, ThreadEndsInError, LockForWorkerRefresh, WorkerRefreshed,
      Hold, Count, BeginRefresh
<1>3. CASE StopSignal \/ Finished \/ UNCHANGED vars
  BY <1>3 DEF StopSignal, Finished, vars
<1> QED BY <1>1, <1>2, <1>3 DEF Next

LEMMA ProgressStep ==
  TypeOK /\ Progress /\ [Next]_vars => Progress'
<1> SUFFICES ASSUME TypeOK, Progress, [Next]_vars PROVE Progress'
  OBVIOUS
<1> USE DEF Progress, AtCheckpoint, Sources,
            mainVars, sourceVars, queueVars, workVars, workerVars, pauseVars, runVars, dataVars
<1>1. CASE Main
  <2>1. CASE StartWorker
    BY <2>1, StartWorkerControl DEF TypeOK
  <2>2. CASE StartFails
    BY <2>2 DEF StartFails, TypeOK
  <2>3. CASE NextSource
    BY <2>3 DEF NextSource, TypeOK
  <2>4. CASE LockForBuild
    BY <2>4 DEF LockForBuild, TypeOK
  <2>5. CASE BuildSource
    BY <2>5 DEF BuildSource, TypeOK
  <2>6. CASE BuildFails
    BY <2>6 DEF BuildFails, RaiseInLoop, TypeOK
  <2>7. CASE Submit
    BY <2>7, AfterSubmitLemma DEF Submit, LeaveSource, TypeOK
  <2>8. CASE CheckBeforePut
    BY <2>8 DEF CheckBeforePut, RaiseInLoop, TypeOK
  <2>9. CASE Put
    BY <2>9, AfterSubmitLemma DEF Put, LeaveSource, TypeOK
  <2>10. CASE RequestPause
    BY <2>10 DEF RequestPause, RaiseInLoop, TypeOK
  <2>11. CASE WaitUntilPaused
    BY <2>11 DEF WaitUntilPaused, ReleaseWorker, RaiseInLoop, TypeOK
  <2>12. CASE LockForCheckpoint
    BY <2>12 DEF LockForCheckpoint, BeginRefresh, TypeOK
  <2>13. CASE CheckpointRefreshed
    BY <2>13 DEF CheckpointRefreshed, ReleaseWorker, LeaveSource, TypeOK
  <2>14. CASE CheckpointRefreshFails
    BY <2>14 DEF CheckpointRefreshFails, ReleaseWorker, RaiseInLoop, TypeOK
  <2>15. CASE SendFinishMarker
    BY <2>15 DEF SendFinishMarker, TypeOK
  <2>16. CASE Join
    BY <2>16 DEF Join, TypeOK
  <2>17. CASE JoinAfterError
    BY <2>17 DEF JoinAfterError, TypeOK
  <2>18. CASE LockForFinalRefresh
    BY <2>18 DEF LockForFinalRefresh, BeginRefresh, TypeOK
  <2>19. CASE FinalRefresh
    BY <2>19 DEF FinalRefresh, TypeOK
  <2> QED BY <1>1, <2>1, <2>2, <2>3, <2>4, <2>5, <2>6, <2>7, <2>8, <2>9, <2>10, <2>11,
         <2>12, <2>13, <2>14, <2>15, <2>16, <2>17, <2>18, <2>19 DEF Main
<1>2. CASE Worker
  BY <1>2
  DEF Worker, OpenResources, CloseResources, CheckPause, WaitForResume, ClearPaused,
      TakeInitial, TakeMarkerThenInitial, TakeQueued, NoMoreJobs, StartJob, BuildAsset,
      WorkerFails, RecordError, ThreadEndsInError, LockForWorkerRefresh, WorkerRefreshed,
      Hold, Count, BeginRefresh
<1>3. CASE StopSignal \/ Finished \/ UNCHANGED vars
  BY <1>3 DEF StopSignal, Finished, vars
<1> QED BY <1>1, <1>2, <1>3 DEF Next

LEMMA BehindStep ==
  TypeOK /\ Lifetime /\ Progress /\ Behind /\ [Next]_vars => Behind'
<1> SUFFICES ASSUME TypeOK, Lifetime, Progress, Behind, [Next]_vars PROVE Behind'
  OBVIOUS
<1> USE DEF Lifetime, Progress, Behind, AtCheckpoint,
            mainVars, sourceVars, queueVars, workVars, workerVars, pauseVars, runVars, dataVars
<1>1. CASE Main
  BY <1>1
  DEF Main, StartWorker, StartFails, NextSource, LockForBuild, BuildSource, BuildFails,
      Submit, CheckBeforePut, Put, RequestPause, WaitUntilPaused, LockForCheckpoint,
      CheckpointRefreshed, CheckpointRefreshFails, SendFinishMarker, Join, JoinAfterError,
      LockForFinalRefresh, FinalRefresh, LeaveSource, RaiseInLoop, ReleaseWorker,
      BeginRefresh, AfterSubmit, TypeOK
<1>2. CASE Worker
  <2>1. CASE OpenResources
    BY <2>1 DEF OpenResources, TypeOK
  <2>2. CASE CloseResources
    BY <2>2 DEF CloseResources, TypeOK
  <2>3. CASE CheckPause
    BY <2>3 DEF CheckPause, TypeOK
  <2>4. CASE WaitForResume
    BY <2>4 DEF WaitForResume, TypeOK
  <2>5. CASE ClearPaused
    BY <2>5 DEF ClearPaused, TypeOK
  <2>6. CASE TakeInitial
    BY <2>6 DEF TakeInitial, Hold, TypeOK
  <2>7. CASE TakeMarkerThenInitial
    BY <2>7 DEF TakeMarkerThenInitial, Hold, TypeOK
  <2>8. CASE TakeQueued
    BY <2>8 DEF TakeQueued, Hold, TypeOK
  <2>9. CASE NoMoreJobs
    BY <2>9 DEF NoMoreJobs, TypeOK
  <2>10. CASE StartJob
    BY <2>10 DEF StartJob, Count, TypeOK
  <2>11. CASE BuildAsset
    BY <2>11 DEF BuildAsset, Count, TypeOK
  <2>12. CASE WorkerFails
    BY <2>12 DEF WorkerFails, TypeOK
  <2>13. CASE RecordError
    BY <2>13 DEF RecordError, TypeOK
  <2>14. CASE ThreadEndsInError
    BY <2>14 DEF ThreadEndsInError, TypeOK
  <2>15. CASE LockForWorkerRefresh
    BY <2>15 DEF LockForWorkerRefresh, BeginRefresh, TypeOK
  <2>16. CASE WorkerRefreshed
    BY <2>16 DEF WorkerRefreshed, TypeOK
  <2> QED BY <1>2, <2>1, <2>2, <2>3, <2>4, <2>5, <2>6, <2>7, <2>8, <2>9, <2>10, <2>11,
         <2>12, <2>13, <2>14, <2>15, <2>16 DEF Worker
<1>3. CASE StopSignal \/ Finished \/ UNCHANGED vars
  BY <1>3 DEF StopSignal, Finished, vars
<1> QED BY <1>1, <1>2, <1>3 DEF Next

LEMMA FirstHandshakeStep ==
  TypeOK /\ Lifetime /\ Progress /\ MarkerIsLate /\ FirstHandshake /\ [Next]_vars => FirstHandshake'
<1> SUFFICES ASSUME TypeOK, Lifetime, Progress, MarkerIsLate, FirstHandshake, [Next]_vars PROVE FirstHandshake'
  OBVIOUS
<1> USE DEF Progress, MarkerIsLate, Late, FirstHandshake, BeforeCheckpoints, AtCheckpoint,
            mainVars, sourceVars, queueVars, workVars, workerVars, pauseVars, runVars, dataVars
<1>1. CASE Main
  <2>1. CASE StartWorker
    BY <2>1, StartWorkerControl
  <2>2. CASE StartFails
    BY <2>2 DEF StartFails
  <2>3. CASE NextSource
    BY <2>3 DEF NextSource
  <2>4. CASE LockForBuild
    BY <2>4 DEF LockForBuild
  <2>5. CASE BuildSource
    BY <2>5 DEF BuildSource, TypeOK
  <2>6. CASE BuildFails
    BY <2>6 DEF BuildFails, RaiseInLoop
  <2>7. CASE Submit
    BY <2>7, AfterSubmitLemma DEF Submit, LeaveSource
  <2>8. CASE CheckBeforePut
    BY <2>8 DEF CheckBeforePut, RaiseInLoop
  <2>9. CASE Put
    BY <2>9, AfterSubmitLemma DEF Put, LeaveSource
  <2>10. CASE RequestPause
    BY <2>10 DEF RequestPause, RaiseInLoop
  <2>11. CASE WaitUntilPaused
    BY <2>11 DEF WaitUntilPaused, ReleaseWorker, RaiseInLoop, Alive, WorkerStopped, Lifetime
  <2>12. CASE LockForCheckpoint
    BY <2>12 DEF LockForCheckpoint, BeginRefresh
  <2>13. CASE CheckpointRefreshed
    BY <2>13 DEF CheckpointRefreshed, ReleaseWorker, LeaveSource
  <2>14. CASE CheckpointRefreshFails
    BY <2>14 DEF CheckpointRefreshFails, ReleaseWorker, RaiseInLoop
  <2>15. CASE SendFinishMarker
    BY <2>15 DEF SendFinishMarker
  <2>16. CASE Join
    BY <2>16 DEF Join
  <2>17. CASE JoinAfterError
    BY <2>17 DEF JoinAfterError
  <2>18. CASE LockForFinalRefresh
    BY <2>18 DEF LockForFinalRefresh, BeginRefresh
  <2>19. CASE FinalRefresh
    BY <2>19 DEF FinalRefresh
  <2> QED BY <1>1, <2>1, <2>2, <2>3, <2>4, <2>5, <2>6, <2>7, <2>8, <2>9, <2>10, <2>11,
         <2>12, <2>13, <2>14, <2>15, <2>16, <2>17, <2>18, <2>19 DEF Main
<1>2. CASE Worker
  BY <1>2
  DEF Worker, OpenResources, CloseResources, CheckPause, WaitForResume, ClearPaused,
      TakeInitial, TakeMarkerThenInitial, TakeQueued, NoMoreJobs, StartJob, BuildAsset,
      WorkerFails, RecordError, ThreadEndsInError, LockForWorkerRefresh, WorkerRefreshed,
      Hold, Count, BeginRefresh
<1>3. CASE StopSignal \/ Finished \/ UNCHANGED vars
  BY <1>3 DEF StopSignal, Finished, vars
<1> QED BY <1>1, <1>2, <1>3 DEF Next

LEMMA BuiltThenRefreshedStep ==
  TypeOK /\ Lifetime /\ Behind /\ BuiltThenRefreshed /\ [Next]_vars => BuiltThenRefreshed'
<1> SUFFICES ASSUME TypeOK, Lifetime, Behind, BuiltThenRefreshed, [Next]_vars PROVE BuiltThenRefreshed'
  OBVIOUS
<1> USE DEF Lifetime, Behind, BuiltThenRefreshed,
            mainVars, sourceVars, queueVars, workVars, workerVars, pauseVars, runVars, dataVars
<1>1. CASE Main
  BY <1>1
  DEF Main, StartWorker, StartFails, NextSource, LockForBuild, BuildSource, BuildFails,
      Submit, CheckBeforePut, Put, RequestPause, WaitUntilPaused, LockForCheckpoint,
      CheckpointRefreshed, CheckpointRefreshFails, SendFinishMarker, Join, JoinAfterError,
      LockForFinalRefresh, FinalRefresh, LeaveSource, RaiseInLoop, ReleaseWorker,
      BeginRefresh, AfterSubmit, NeedsFinalRefresh, TypeOK
<1>2. CASE Worker
  BY <1>2
  DEF Worker, OpenResources, CloseResources, CheckPause, WaitForResume, ClearPaused,
      TakeInitial, TakeMarkerThenInitial, TakeQueued, NoMoreJobs, StartJob, BuildAsset,
      WorkerFails, RecordError, ThreadEndsInError, LockForWorkerRefresh, WorkerRefreshed,
      Hold, Count, BeginRefresh
<1>3. CASE StopSignal \/ Finished \/ UNCHANGED vars
  BY <1>3 DEF StopSignal, Finished, vars
<1> QED BY <1>1, <1>2, <1>3 DEF Next

\* A marker in the queue was put by a main thread that is late.
LEMMA QueueStaysUnmarked ==
  ASSUME NEW q \in Seq(Jobs \cup {FinishMarker}), NEW r,
         \A i \in DOMAIN q : q[i] # FinishMarker,
         \/ r = q
         \/ \E j \in Jobs : r = Append(q, j)
         \/ q # <<>> /\ r = Tail(q)
  PROVE  \A i \in DOMAIN r : r[i] # FinishMarker
  BY MarkerIsNoJob

\* The steps that touch the queue.
LEMMA QueueSteps ==
  [Next]_vars => \/ Put \/ SendFinishMarker
                 \/ TakeMarkerThenInitial \/ TakeQueued \/ NoMoreJobs
                 \/ UNCHANGED queue
  BY Zenon
  DEF Next, Main, StartWorker, StartFails, NextSource, LockForBuild, BuildSource,
      BuildFails, Submit, CheckBeforePut, Put, RequestPause, WaitUntilPaused,
      LockForCheckpoint, CheckpointRefreshed, CheckpointRefreshFails, SendFinishMarker,
      Join, JoinAfterError, LockForFinalRefresh, FinalRefresh, LeaveSource, RaiseInLoop,
      ReleaseWorker, BeginRefresh, AfterSubmit, Worker, OpenResources, CloseResources,
      CheckPause, WaitForResume, ClearPaused, TakeInitial, TakeMarkerThenInitial,
      TakeQueued, NoMoreJobs, StartJob, BuildAsset, WorkerFails, RecordError,
      ThreadEndsInError, LockForWorkerRefresh, WorkerRefreshed, Hold, Count, BeginRefresh,
      StopSignal, Finished, vars, mainVars, sourceVars, queueVars, workVars, workerVars,
      pauseVars, runVars, dataVars

LEMMA MarkerIsLateStep ==
  TypeOK /\ Lifetime /\ Progress /\ MarkerIsLate /\ [Next]_vars => MarkerIsLate'
<1> SUFFICES ASSUME TypeOK, Lifetime, Progress, MarkerIsLate, [Next]_vars PROVE MarkerIsLate'
  OBVIOUS
<1> DEFINE Unmarked == \A i \in DOMAIN queue : queue[i] # FinishMarker
<1>1. Late => Late'
  BY Zenon
  DEF Late, Next, Main, StartWorker, StartFails, NextSource, LockForBuild, BuildSource,
      BuildFails, Submit, CheckBeforePut, Put, RequestPause, WaitUntilPaused,
      LockForCheckpoint, CheckpointRefreshed, CheckpointRefreshFails, SendFinishMarker,
      Join, JoinAfterError, LockForFinalRefresh, FinalRefresh, LeaveSource, RaiseInLoop,
      ReleaseWorker, BeginRefresh, AfterSubmit, Worker, OpenResources, CloseResources,
      CheckPause, WaitForResume, ClearPaused, TakeInitial, TakeMarkerThenInitial,
      TakeQueued, NoMoreJobs, StartJob, BuildAsset, WorkerFails, RecordError,
      ThreadEndsInError, LockForWorkerRefresh, WorkerRefreshed, Hold, Count, BeginRefresh,
      StopSignal, Finished, vars, mainVars, sourceVars, queueVars, workVars, workerVars,
      pauseVars, runVars, dataVars
<1>2. ~Late => ~finishSeen /\ worker # "closing" /\ (worker = "dead" => error) /\ Unmarked
  BY Zenon DEF MarkerIsLate
<1>3. ~Late' => Unmarked'
  <2> SUFFICES ASSUME ~Late' PROVE Unmarked'
    OBVIOUS
  <2>1. Unmarked
    BY <1>1, <1>2
  <2>2. CASE Put
    <3>1. [shard |-> next, gen |-> polygon[next]] \in Jobs
      BY <2>2 DEF Put, Progress, Jobs, Shards, TypeOK
    <3>2. queue' = queue \/ queue' = Append(queue, [shard |-> next, gen |-> polygon[next]])
      BY <2>2, Zenon DEF Put
    <3> QED BY <2>1, <3>1, <3>2, QueueStaysUnmarked DEF TypeOK
  <2>3. CASE SendFinishMarker
    BY <2>3 DEF SendFinishMarker, Late
  <2>4. CASE TakeMarkerThenInitial \/ TakeQueued \/ NoMoreJobs
    <3>1. queue' = queue \/ (queue # <<>> /\ queue' = Tail(queue))
      BY <2>4, Zenon DEF TakeMarkerThenInitial, TakeQueued, NoMoreJobs
    <3> QED BY <2>1, <3>1, QueueStaysUnmarked DEF TypeOK
  <2>5. CASE UNCHANGED queue
    BY <2>1, <2>5
  <2> QED BY <2>2, <2>3, <2>4, <2>5, QueueSteps
<1>4. ~Late' => ~finishSeen' /\ worker' # "closing" /\ (worker' = "dead" => error')
  <2> SUFFICES ASSUME ~Late, ~finishSeen, worker # "closing", worker = "dead" => error,
                      Unmarked
               PROVE  ~Late' => ~finishSeen' /\ worker' # "closing" /\ (worker' = "dead" => error')
    BY <1>1, <1>2
  <2>1. queue # <<>> => Head(queue) # FinishMarker
    BY DEF TypeOK
  <2>2. CASE Main
    BY <2>2, Zenon
    DEF Main, StartWorker, StartFails, NextSource, LockForBuild, BuildSource, BuildFails,
        Submit, CheckBeforePut, Put, RequestPause, WaitUntilPaused, LockForCheckpoint,
        CheckpointRefreshed, CheckpointRefreshFails, SendFinishMarker, Join,
        JoinAfterError, LockForFinalRefresh, FinalRefresh, LeaveSource, RaiseInLoop,
        ReleaseWorker, BeginRefresh, AfterSubmit, mainVars, sourceVars, queueVars,
        workVars, workerVars, pauseVars, runVars, dataVars
  <2>3. CASE Worker
    BY <2>1, <2>3, Zenon
    DEF Worker, OpenResources, CloseResources, CheckPause, WaitForResume, ClearPaused,
        TakeInitial, TakeMarkerThenInitial, TakeQueued, NoMoreJobs, StartJob, BuildAsset,
        WorkerFails, RecordError, ThreadEndsInError, LockForWorkerRefresh,
        WorkerRefreshed, Hold, Count, BeginRefresh, mainVars, sourceVars, queueVars,
        workVars, workerVars, pauseVars, runVars, dataVars
  <2>4. CASE StopSignal \/ Finished \/ UNCHANGED vars
    <3>1. UNCHANGED <<worker, finishSeen, error>>
      BY <2>4 DEF StopSignal, Finished, vars, queueVars, workVars
    <3> QED BY <3>1, Zenon
  <2> QED BY <2>2, <2>3, <2>4 DEF Next
<1> QED BY <1>3, <1>4, Zenon DEF MarkerIsLate

(***************************************************************************)
(* The invariant and what it implies.                                      *)
(***************************************************************************)

LEMMA StepInvariant == IInv /\ [Next]_vars => IInv'
<1> SUFFICES ASSUME IInv, [Next]_vars PROVE IInv'
  OBVIOUS
<1>1. TypeOK'
  <2>1. Events' /\ Control' /\ Data'
    BY TypeParts, EventsStep, ControlStep, DataStep DEF IInv
  <2> QED BY <2>1, Zenon DEF TypeOK, Events, Control, Data
<1>2. Lifetime' /\ LockDiscipline' /\ Progress'
  BY LifetimeStep, LockStep, ProgressStep DEF IInv
<1>3. MarkerIsLate' /\ FirstHandshake'
  BY MarkerIsLateStep, FirstHandshakeStep DEF IInv
<1>4. Behind' /\ BuiltThenRefreshed'
  BY BehindStep, BuiltThenRefreshedStep DEF IInv
<1> QED BY <1>1, <1>2, <1>3, <1>4 DEF IInv

\* The inductive invariant holds in every reachable state of both threads.
THEOREM InvariantHolds == Spec => []IInv
  BY InitInvariant, StepInvariant, PTL DEF Spec

\* run_all and the worker keep every variable in its type, for any number of
\* shards and sources and any capacity of the queue.
THEOREM TypeCorrect == Spec => []TypeOK
<1>1. IInv => TypeOK
  BY DEF IInv
<1> QED BY <1>1, InvariantHolds, PTL

\* A refresh never overlaps a PBF build or another refresh (refresh_lock).
THEOREM LockCorrect == Spec => []LockDiscipline
<1>1. IInv => LockDiscipline
  BY DEF IInv
<1> QED BY <1>1, InvariantHolds, PTL

\* The first checkpoint of a run really pauses the worker: while the main
\* thread refreshes, the worker stands in _pause_if_requested.
THEOREM FirstCheckpointCorrect == Spec => []FirstCheckpointPaused
<1>1. IInv => FirstCheckpointPaused
  BY DEF IInv, FirstHandshake, FirstCheckpointPaused
<1> QED BY <1>1, InvariantHolds, PTL

\* A run that returns has covered every artifact it built by a refresh that
\* began after the artifact was finalized (_needs_final_artifacts).
THEOREM RefreshCorrect == Spec => []BuiltThenRefreshed
<1>1. IInv => BuiltThenRefreshed
  BY DEF IInv
<1> QED BY <1>1, InvariantHolds, PTL

(***************************************************************************)
(* The jobs of a run: no shard has two jobs, and a run that returns has    *)
(* done, skipped or postponed every one of them.                           *)
(*                                                                         *)
(* A registered shard is followed from _register on: main is about to      *)
(* queue it, or it waits as an initial or a queued job, or the worker      *)
(* holds it, or it is counted in the summary.  The finish marker is the    *)
(* last of the queue, so that a worker that ends without an error leaves   *)
(* nothing behind.                                                         *)
(***************************************************************************)

ShardsOf(q) == {q[i].shard : i \in DOMAIN q}
Distinct(q) == \A i, j \in DOMAIN q : i # j => q[i].shard # q[j].shard
Held == IF job = NoJob THEN {} ELSE {job.shard}
Submitting == main \in {"enqueue", "put"}
Lost == main \in {"errorFinish", "errorJoin", "raised"}

\* No shard has two jobs, and each job is that of a registered shard.
Apart ==
  /\ Distinct(initialJobs) /\ Distinct(queue)
  /\ ShardsOf(initialJobs) \cap ShardsOf(queue) = {}
  /\ Held \cap ShardsOf(initialJobs) = {} /\ Held \cap ShardsOf(queue) = {}
  /\ Held \cup ShardsOf(initialJobs) \cup ShardsOf(queue) \subseteq seen \cup {0}
  /\ main = "start" => seen = {}
  /\ Submitting => /\ next \in seen
                   /\ next \notin Held \cup ShardsOf(initialJobs) \cup ShardsOf(queue)

\* What the worker holds at its places, and what it leaves.
NothingLeft == job = NoJob /\ initialJobs = <<>> /\ queue = <<>>
WorkerHolds ==
  /\ \A i \in DOMAIN queue : queue[i] = FinishMarker => i = Len(queue)
  /\ finishSeen => queue = <<>>
  /\ worker \in {"holding", "build"} => job # NoJob
  /\ worker \notin {"holding", "build", "failing", "dead"} => job = NoJob
  /\ worker \in {"off", "closing"} \/ (worker = "dead" /\ ~error) => NothingLeft
  /\ main \in {"finalLock", "finalRefresh", "returned"} => ~error

\* Every registered shard is somewhere.
Marked == \E i \in DOMAIN queue : queue[i] = FinishMarker
Queued == Len(queue) - (IF Marked THEN 1 ELSE 0)
HeldCount == IF job = NoJob THEN 0 ELSE 1
SubmitCount == IF Submitting THEN 1 ELSE 0
Counted ==
  ~ Lost => tally.built + tally.skipped + tally.pending
              + HeldCount + Len(initialJobs) + Queued + SubmitCount = Cardinality(seen)

\* Without a stop, a registered shard without an asset shard still has its
\* job, and a polygon shard that is there is registered or about to be.
Real ==
  /\ \A i \in DOMAIN initialJobs : initialJobs[i].gen # 0
  /\ \A i \in DOMAIN queue : queue[i] # FinishMarker => queue[i].gen # 0
  /\ job.gen # 0
  /\ main \in {"submit", "enqueue", "put"} => polygon[next] # 0
Awaited == Held \cup ShardsOf(initialJobs) \cup ShardsOf(queue)
           \cup (IF Submitting THEN {next} ELSE {})
Backfilled ==
  /\ ~ Lost /\ ~ token => \A s \in seen : asset[s] # 0 \/ s \in Awaited
  /\ ~ Lost => \A s \in Shards : polygon[s] # 0 =>
       s \in seen \/ main = "start" \/ (main = "submit" /\ s = next)

JInv == IInv /\ Apart /\ WorkerHolds /\ Counted /\ Real /\ Backfilled

(***************************************************************************)
(* Taking the first job of a queue, and putting one at its end.            *)
(***************************************************************************)

Entries == Jobs \cup {FinishMarker}

LEMMA TailLemma ==
  ASSUME NEW q \in Seq(Entries), q # <<>>
  PROVE  /\ Len(Tail(q)) = Len(q) - 1 /\ DOMAIN Tail(q) = 1..(Len(q) - 1)
         /\ \A i \in DOMAIN Tail(q) : Tail(q)[i] = q[i + 1]
         /\ DOMAIN q = 1..Len(q) /\ Head(q) = q[1] /\ Len(q) \in Nat \ {0}
OBVIOUS

LEMMA TailShards ==
  ASSUME NEW q \in Seq(Entries), q # <<>>, Distinct(q)
  PROVE  /\ Distinct(Tail(q))
         /\ ShardsOf(q) = {Head(q).shard} \cup ShardsOf(Tail(q))
         /\ Head(q).shard \notin ShardsOf(Tail(q))
<1>1. \A j \in DOMAIN q : j = 1 \/ (j - 1 \in DOMAIN Tail(q) /\ Tail(q)[j - 1] = q[j])
  BY TailLemma
<1>2. \A i \in DOMAIN Tail(q) : /\ i + 1 \in DOMAIN q /\ i + 1 # 1
                                /\ Tail(q)[i] = q[i + 1] /\ i \in Int
  BY TailLemma
<1>3. 1 \in DOMAIN q /\ Head(q) = q[1]
  BY TailLemma
<1>4. ASSUME NEW i \in DOMAIN Tail(q), NEW j \in DOMAIN Tail(q), i # j
      PROVE  Tail(q)[i].shard # Tail(q)[j].shard
  BY <1>2, <1>4 DEF Distinct
<1>5. ShardsOf(q) = {Head(q).shard} \cup ShardsOf(Tail(q))
  <2>1. ASSUME NEW x \in ShardsOf(q) PROVE x = Head(q).shard \/ x \in ShardsOf(Tail(q))
    BY <1>1, <1>3 DEF ShardsOf
  <2>2. ASSUME NEW x \in ShardsOf(Tail(q)) PROVE x \in ShardsOf(q)
    BY <1>2 DEF ShardsOf
  <2>3. Head(q).shard \in ShardsOf(q)
    BY <1>3 DEF ShardsOf
  <2> QED
    BY <2>1, <2>2, <2>3
<1>6. Head(q).shard \notin ShardsOf(Tail(q))
  BY <1>2, <1>3 DEF Distinct, ShardsOf
<1> QED
  BY <1>4, <1>5, <1>6 DEF Distinct

LEMMA AppendLemma ==
  ASSUME NEW q \in Seq(Entries), NEW e \in Entries
  PROVE  /\ Len(Append(q, e)) = Len(q) + 1 /\ DOMAIN Append(q, e) = 1..(Len(q) + 1)
         /\ \A i \in DOMAIN q : Append(q, e)[i] = q[i]
         /\ Append(q, e)[Len(q) + 1] = e
         /\ DOMAIN q = 1..Len(q) /\ Len(q) \in Nat
OBVIOUS

LEMMA AppendShards ==
  ASSUME NEW q \in Seq(Entries), NEW e \in Entries, Distinct(q), e.shard \notin ShardsOf(q)
  PROVE  /\ Distinct(Append(q, e))
         /\ ShardsOf(Append(q, e)) = ShardsOf(q) \cup {e.shard}
<1>1. \A i \in DOMAIN Append(q, e) : i \in DOMAIN q \/ i = Len(q) + 1
  BY AppendLemma
<1>2. Len(q) + 1 \notin DOMAIN q /\ Len(q) + 1 \in DOMAIN Append(q, e)
  BY AppendLemma
<1>3. DOMAIN q \subseteq DOMAIN Append(q, e)
  BY AppendLemma
<1> QED
  BY <1>1, <1>2, <1>3, AppendLemma DEF Distinct, ShardsOf

\* Two sequences that have no shard in common, one after the other.
LEMMA ConcatShards ==
  ASSUME NEW p \in Seq(Entries), NEW q \in Seq(Entries), Distinct(p), Distinct(q),
         ShardsOf(p) \cap ShardsOf(q) = {}
  PROVE  /\ p \o q \in Seq(Entries) /\ Distinct(p \o q)
         /\ ShardsOf(p \o q) \subseteq ShardsOf(p) \cup ShardsOf(q)
<1>1. /\ p \o q \in Seq(Entries) /\ DOMAIN (p \o q) = 1..(Len(p) + Len(q))
      /\ \A i \in 1..(Len(p) + Len(q)) :
           (p \o q)[i] = IF i <= Len(p) THEN p[i] ELSE q[i - Len(p)]
      /\ DOMAIN p = 1..Len(p) /\ DOMAIN q = 1..Len(q) /\ Len(p) \in Nat /\ Len(q) \in Nat
  OBVIOUS
<1>2. \A i \in DOMAIN (p \o q) :
        \/ i \in DOMAIN p /\ (p \o q)[i] = p[i]
        \/ i \notin DOMAIN p /\ i - Len(p) \in DOMAIN q /\ (p \o q)[i] = q[i - Len(p)]
  BY <1>1
<1>3. ShardsOf(p \o q) \subseteq ShardsOf(p) \cup ShardsOf(q)
  BY <1>2 DEF ShardsOf
<1>4. ASSUME NEW i \in DOMAIN (p \o q), NEW j \in DOMAIN (p \o q), i # j
      PROVE  (p \o q)[i].shard # (p \o q)[j].shard
  <2>1. CASE i \in DOMAIN p /\ j \in DOMAIN p
    BY <1>2, <1>4, <2>1 DEF Distinct
  <2>2. CASE i \notin DOMAIN p /\ j \notin DOMAIN p
    <3>1. i - Len(p) # j - Len(p)
      BY <1>1, <1>4
    <3> QED
      BY <1>2, <2>2, <3>1 DEF Distinct
  <2>3. CASE ~ (i \in DOMAIN p <=> j \in DOMAIN p)
    <3>1. ASSUME NEW k \in DOMAIN (p \o q), k \in DOMAIN p
          PROVE  (p \o q)[k].shard \in ShardsOf(p)
      BY <1>2, <3>1 DEF ShardsOf
    <3>2. ASSUME NEW k \in DOMAIN (p \o q), k \notin DOMAIN p
          PROVE  (p \o q)[k].shard \in ShardsOf(q)
      BY <1>2, <3>2 DEF ShardsOf
    <3> QED
      BY <2>3, <3>1, <3>2
  <2> QED
    BY <2>1, <2>2, <2>3
<1> QED
  BY <1>1, <1>3, <1>4 DEF Distinct

\* Shard 0 is that of the marker alone.
LEMMA MarkerShard ==
  ASSUME NEW e \in Entries PROVE e.shard \in Shards \cup {0} /\ (e.shard = 0 <=> e = FinishMarker)
BY DEF Entries, Jobs, FinishMarker, Shards

LEMMA Types ==
  ASSUME IInv
  PROVE  /\ initialJobs \in Seq(Entries) /\ queue \in Seq(Entries)
         /\ seen \in SUBSET Shards /\ IsFiniteSet(seen) /\ Cardinality(seen) \in Nat
         /\ job \in Jobs \cup {NoJob}
         /\ tally \in [built: Nat, skipped: Nat, pending: Nat]
         /\ polygon \in [Shards -> Generations] /\ asset \in [Shards -> Generations]
         /\ 0 \notin Shards
<1>1. seen \in SUBSET Shards /\ initialJobs \in Seq(Jobs) /\ queue \in Seq(Entries)
  BY DEF IInv, TypeOK, Entries
<1>2. IsFiniteSet(seen) /\ Cardinality(seen) \in Nat
  BY <1>1, ShardsFinite, FS_Subset, FS_CardinalityType
<1>3. initialJobs \in Seq(Entries)
  BY <1>1 DEF Entries
<1>4. 0 \notin Shards
  BY DEF Shards
<1> QED
  BY <1>1, <1>2, <1>3, <1>4 DEF IInv, TypeOK

(***************************************************************************)
(* The steps that leave every job where it is.                             *)
(***************************************************************************)

JobStep ==
  \/ StartWorker \/ BuildSource \/ Submit \/ Put \/ SendFinishMarker
  \/ TakeInitial \/ TakeMarkerThenInitial \/ TakeQueued \/ NoMoreJobs
  \/ StartJob \/ BuildAsset

\* How main goes on in such a step.
MainMoves ==
  \/ Lost'
  \/ UNCHANGED <<main, next>>
  \/ Submitting /\ Submitting' /\ next' = next
  \/ {main, main'} \cap {"start", "submit", "enqueue", "put"} = {}

LEMMA OtherMain ==
  Main /\ ~ JobStep =>
    /\ UNCHANGED <<initialJobs, queue, finishSeen, seen, job, tally, polygon, asset, error>>
    /\ MainMoves /\ (~ Lost' => ~ Lost) /\ (~ Lost' => UNCHANGED token)
    /\ worker' = worker \/ (worker = "blocked" /\ worker' = "resumed")
    /\ main' \in {"finalLock", "finalRefresh", "returned"} =>
         ~ error \/ main \in {"finalLock", "finalRefresh", "returned"}
<1> SUFFICES ASSUME Main, ~ JobStep
             PROVE  /\ UNCHANGED <<initialJobs, queue, finishSeen, seen, job, tally, polygon, asset,
                                   error>>
                    /\ MainMoves /\ (~ Lost' => ~ Lost) /\ (~ Lost' => UNCHANGED token)
                    /\ worker' = worker \/ (worker = "blocked" /\ worker' = "resumed")
                    /\ main' \in {"finalLock", "finalRefresh", "returned"} =>
                         ~ error \/ main \in {"finalLock", "finalRefresh", "returned"}
  OBVIOUS
<1> USE DEF MainMoves, Lost, Submitting, sourceVars, queueVars, workVars, workerVars, pauseVars,
            runVars, dataVars
<1>1. CASE StartFails \/ NextSource \/ LockForBuild
  BY <1>1 DEF StartFails, NextSource, LockForBuild
<1>2. CASE BuildFails
  BY <1>2 DEF BuildFails, RaiseInLoop
<1>3. CASE CheckBeforePut
  BY <1>3 DEF CheckBeforePut, RaiseInLoop
<1>4. CASE RequestPause
  BY <1>4 DEF RequestPause, RaiseInLoop
<1>5. CASE WaitUntilPaused
  BY <1>5 DEF WaitUntilPaused, RaiseInLoop, ReleaseWorker
<1>6. CASE LockForCheckpoint \/ LockForFinalRefresh
  BY <1>6 DEF LockForCheckpoint, LockForFinalRefresh, BeginRefresh
<1>7. CASE CheckpointRefreshed
  BY <1>7 DEF CheckpointRefreshed, ReleaseWorker, LeaveSource
<1>8. CASE CheckpointRefreshFails
  BY <1>8 DEF CheckpointRefreshFails, ReleaseWorker, RaiseInLoop
<1>9. CASE Join \/ JoinAfterError \/ FinalRefresh
  BY <1>9 DEF Join, JoinAfterError, FinalRefresh
<1> QED
  BY <1>1, <1>2, <1>3, <1>4, <1>5, <1>6, <1>7, <1>8, <1>9 DEF Main, JobStep

\* Places at which the worker holds no job and has not ended.
Between == {"opening", "top", "pausing", "blocked", "resumed", "take", "refreshLock", "refresh"}

LEMMA OtherWorker ==
  ASSUME Worker, ~ JobStep
  PROVE  /\ UNCHANGED <<main, next, initialJobs, queue, finishSeen, seen, job, tally, polygon, asset,
                        token>>
         /\ error' = error \/ worker' = "failing"
         /\ \/ worker' = "failing" /\ worker # "dead"
            \/ worker = "closing" /\ worker' = "dead"
            \/ worker = "failing" /\ worker' = "dead" /\ error'
            \/ worker \in Between /\ worker' \in Between
<1> USE DEF Between, mainVars, sourceVars, queueVars, workVars, pauseVars, runVars, dataVars
<1>1. CASE OpenResources \/ CloseResources
  BY <1>1 DEF OpenResources, CloseResources
<1>2. CASE CheckPause \/ WaitForResume \/ ClearPaused
  BY <1>2 DEF CheckPause, WaitForResume, ClearPaused
<1>3. CASE WorkerFails
  BY <1>3 DEF WorkerFails
<1>4. CASE RecordError \/ ThreadEndsInError
  BY <1>4 DEF RecordError, ThreadEndsInError
<1>5. CASE LockForWorkerRefresh \/ WorkerRefreshed
  BY <1>5 DEF LockForWorkerRefresh, WorkerRefreshed, BeginRefresh
<1> QED
  BY <1>1, <1>2, <1>3, <1>4, <1>5 DEF Worker, JobStep

LEMMA OtherStep ==
  [Next]_vars /\ ~ Main /\ ~ Worker =>
    /\ UNCHANGED <<main, next, worker, initialJobs, queue, finishSeen, seen, job, tally, polygon,
                   asset, error>>
    /\ token => token'
BY DEF Next, StopSignal, Finished, vars, mainVars, sourceVars, queueVars, workVars, pauseVars,
       runVars, dataVars

\* Where the jobs are depends on the sequences, the job and the submission.
Placed == <<initialJobs, queue, seen, job, tally, polygon, asset>>

LEMMA QuietStep ==
  ASSUME JInv, [Next]_vars, ~ JobStep
  PROVE  /\ UNCHANGED Placed /\ finishSeen' = finishSeen
         /\ MainMoves /\ (~ Lost' => ~ Lost) /\ (~ Lost' /\ token => token')
<1>1. UNCHANGED <<main, next>> => MainMoves /\ (~ Lost' => ~ Lost)
  BY DEF MainMoves, Lost
<1>2. CASE Main
  BY <1>2, OtherMain DEF Placed
<1>3. CASE Worker
  BY <1>1, <1>3, OtherWorker DEF Placed
<1>4. CASE ~ Main /\ ~ Worker
  BY <1>1, <1>4, OtherStep DEF Placed
<1> QED
  BY <1>2, <1>3, <1>4

LEMMA QuietHolds == ASSUME JInv, [Next]_vars, ~ JobStep PROVE WorkerHolds'
<1> USE DEF JInv, WorkerHolds, NothingLeft
<1>1. CASE Main
  BY <1>1, OtherMain
<1>2. CASE Worker
  <2>1. UNCHANGED <<main, initialJobs, queue, finishSeen, job>>
    BY <1>2, OtherWorker
  <2>2. main \in {"finalLock", "finalRefresh", "returned"} => worker = "dead"
    BY DEF IInv, Lifetime
  <2> QED
    BY <1>2, <2>1, <2>2, OtherWorker DEF Between
<1>3. CASE ~ Main /\ ~ Worker
  BY <1>3, OtherStep
<1> QED
  BY <1>1, <1>2, <1>3

LEMMA QuietJobs ==
  ASSUME JInv, [Next]_vars, ~ JobStep PROVE Apart' /\ Counted' /\ Real' /\ Backfilled'
<1> USE QuietStep DEF Placed, JInv, MainMoves
<1>1. Held' = Held /\ HeldCount' = HeldCount /\ Queued' = Queued
  BY DEF Held, HeldCount, Queued, Marked
<1>2. Submitting' /\ ~ Lost' => Submitting /\ next' = next
  BY DEF Submitting, Lost
<1>3. Lost' \/ SubmitCount' = SubmitCount
  BY DEF SubmitCount, Submitting, Lost
<1>4. Apart'
  <2>1. Submitting' => ~ Lost'
    BY DEF Submitting, Lost
  <2>2. main' = "start" => main = "start"
    BY DEF Lost, Submitting
  <2> QED
    BY <1>1, <1>2, <2>1, <2>2 DEF Apart
<1>5. Counted'
  BY <1>1, <1>3 DEF Counted
<1>6. Real'
  BY DEF Real, Lost, Submitting
<1>7. Backfilled'
  <2>1. Lost' \/ Awaited' = Awaited
    BY <1>1 DEF Awaited, Submitting, Lost
  <2>2. main = "start" => main' = "start" \/ Lost'
    BY DEF Submitting
  <2>3. main = "submit" => (main' = "submit" /\ next' = next) \/ Lost'
    BY DEF Submitting
  <2> QED
    BY <2>1, <2>2, <2>3 DEF Backfilled
<1> QED
  BY <1>4, <1>5, <1>6, <1>7

(***************************************************************************)
(* The steps of main that move a job.                                      *)
(***************************************************************************)

\* The jobs found at start are those of all the polygon shards there are: as
\* many as shards, and no shard twice.
LEMMA FoundJobsLemma ==
  ASSUME TypeOK, NEW jobs \in [1..Cardinality(Found) -> FoundJobs], Ordered(jobs)
  PROVE  /\ jobs \in Seq(Entries) /\ Len(jobs) = Cardinality(Found)
         /\ Distinct(jobs) /\ ShardsOf(jobs) = Found
         /\ \A i \in DOMAIN jobs : jobs[i].gen # 0
<1> DEFINE n == Cardinality(Found)
<1>1. IsFiniteSet(Found) /\ n \in Nat /\ Found \subseteq Shards
  BY ShardsFinite, FS_Subset, FS_CardinalityType DEF Found
<1>2. jobs \in Seq(Entries)
  BY FoundJobsAreJobs DEF Entries
<1>3. Len(jobs) = n /\ DOMAIN jobs = 1..n
  BY <1>1, <1>2
<1>4. \A i \in 1..n : jobs[i].shard \in Found /\ jobs[i].gen # 0
  BY DEF FoundJobs, Found
<1>5. ASSUME NEW i \in 1..n, NEW j \in 1..n, i < j PROVE jobs[i].shard # jobs[j].shard
  <2>1. Before(jobs[i].shard, jobs[j].shard)
    <3>1. i \in DOMAIN jobs /\ j \in DOMAIN jobs /\ i < j
      BY <1>3, <1>5
    <3> QED
      BY <3>1, Zenon DEF Ordered
  <2>2. jobs[i].shard \in Nat
    <3>1. Shards \subseteq Nat
      BY ShardsAssumption DEF Shards
    <3> QED
      BY <1>1, <1>4, <3>1
  <2> QED
    BY <2>1, <2>2 DEF Before
<1>6. ASSUME NEW i \in 1..n, NEW j \in 1..n, i # j PROVE jobs[i].shard # jobs[j].shard
  <2>1. CASE i < j
    BY <1>5, <2>1
  <2>2. CASE j < i
    BY <1>5, <2>2
  <2>3. i < j \/ j < i
    BY <1>1, <1>6
  <2> QED
    BY <2>1, <2>2, <2>3
<1>7. ShardsOf(jobs) = Found
  <2> DEFINE f == [i \in 1..n |-> jobs[i].shard]
  <2>1. f \in Injection(1..n, Found)
    BY <1>4, <1>6 DEF Injection, IsInjective
  <2>2. Cardinality(1..n) = n
    BY <1>1, FS_Interval
  <2>3. f \in Surjection(1..n, Found)
    BY <1>1, <2>1, <2>2, FS_Injection
  <2>4. ASSUME NEW s \in Found PROVE \E i \in 1..n : jobs[i].shard = s
    <3>1. \E i \in 1..n : f[i] = s
      BY <2>3 DEF Surjection
    <3> QED
      BY <3>1
  <2> QED
    BY <1>3, <1>4, <2>4 DEF ShardsOf
<1> QED
  BY <1>2, <1>3, <1>4, <1>6, <1>7 DEF Distinct

Kept == Apart' /\ WorkerHolds' /\ Counted' /\ Real' /\ Backfilled'

LEMMA StartWorkerStep == ASSUME JInv, StartWorker PROVE Kept
<1> USE Types DEF JInv
<1>1. PICK jobs \in [1..Cardinality(Found) -> FoundJobs] :
        Ordered(jobs) /\ initialJobs' = jobs
  BY DEF StartWorker
<1>2. /\ initialJobs' \in Seq(Entries) /\ Len(initialJobs') = Cardinality(Found)
      /\ Distinct(initialJobs') /\ ShardsOf(initialJobs') = Found
      /\ \A i \in DOMAIN initialJobs' : initialJobs'[i].gen # 0
  BY <1>1, FoundJobsLemma DEF IInv
<1>3. /\ main = "start" /\ main' = "loop" /\ worker' = "opening" /\ seen' = Found
      /\ UNCHANGED <<next, queue, finishSeen, job, tally, polygon, asset, token, error>>
  BY DEF StartWorker, sourceVars, workVars, runVars, dataVars
<1>4. worker = "off" /\ NothingLeft
  BY <1>3 DEF IInv, Lifetime, WorkerHolds
<1>5. ~ Submitting' /\ ~ Lost'
  BY <1>3 DEF Submitting, Lost
<1>6. DOMAIN queue = {} /\ Len(queue) = 0 /\ Len(initialJobs) = 0
  BY <1>4 DEF NothingLeft
<1>7. Apart'
  BY <1>2, <1>3, <1>4, <1>5, <1>6 DEF Apart, Held, ShardsOf, Distinct, NothingLeft
<1>8. WorkerHolds'
  BY <1>3, <1>4, <1>6 DEF WorkerHolds, NothingLeft
<1>9. Counted'
  <2>1. Queued' = 0 /\ HeldCount' = 0 /\ SubmitCount' = 0
    BY <1>3, <1>4, <1>5, <1>6 DEF Queued, HeldCount, SubmitCount, Marked, NothingLeft
  <2>2. tally.built + tally.skipped + tally.pending = 0
    <3>1. Cardinality(seen) = 0
      BY <1>3, FS_EmptySet DEF Apart
    <3>2. Queued = 0 /\ HeldCount = 0 /\ SubmitCount = 0 /\ ~ Lost
      BY <1>3, <1>4, <1>6 DEF Queued, HeldCount, SubmitCount, Submitting, Marked, Lost, NothingLeft
    <3> QED
      BY <1>6, <3>1, <3>2 DEF Counted
  <2> QED
    BY <1>2, <1>3, <2>1, <2>2 DEF Counted
<1>10. Real'
  BY <1>2, <1>3, <1>6 DEF Real
<1>11. Backfilled'
  BY <1>2, <1>3, <1>5 DEF Backfilled, Awaited, Found
<1> QED
  BY <1>7, <1>8, <1>9, <1>10, <1>11 DEF Kept

LEMMA BuildSourceStep == ASSUME JInv, BuildSource PROVE Kept
<1> USE Types DEF JInv
<1>1. /\ main = "build" /\ main' = "submit"
      /\ UNCHANGED <<next, worker, initialJobs, queue, finishSeen, seen, job, tally, asset, token,
                     error>>
  BY DEF BuildSource, queueVars, workVars, runVars
<1>2. next \in Shards
  BY <1>1, SourcesAssumption, ShardsAssumption DEF IInv, TypeOK, Progress, Shards
<1>3. /\ polygon' = polygon \/ polygon' = [polygon EXCEPT ![next] = 2]
      /\ polygon'[next] # 0
  BY <1>2 DEF BuildSource
<1>4. ~ Submitting /\ ~ Submitting' /\ ~ Lost /\ ~ Lost'
  BY <1>1 DEF Submitting, Lost
<1>5. Held' = Held /\ HeldCount' = HeldCount /\ Queued' = Queued /\ SubmitCount' = SubmitCount
  BY <1>1, <1>4 DEF Held, HeldCount, Queued, Marked, SubmitCount
<1>6. Apart'
  BY <1>1, <1>4, <1>5 DEF Apart
<1>7. WorkerHolds'
  BY <1>1 DEF WorkerHolds, NothingLeft
<1>8. Counted'
  BY <1>1, <1>4, <1>5 DEF Counted
<1>9. Real'
  BY <1>1, <1>3 DEF Real
<1>10. Backfilled'
  BY <1>1, <1>3, <1>4, <1>5 DEF Backfilled, Awaited
<1> QED
  BY <1>6, <1>7, <1>8, <1>9, <1>10 DEF Kept

\* _register: a shard that is new is about to be queued, another has its job.
LEMMA SubmitStep == ASSUME JInv, Submit PROVE Kept
<1> USE Types DEF JInv
<1>1. /\ main = "submit"
      /\ UNCHANGED <<worker, initialJobs, queue, finishSeen, job, tally, polygon, asset, token,
                     error>>
  BY DEF Submit, workVars, runVars, dataVars
<1>2. next \in Shards
  BY <1>1, SourcesAssumption, ShardsAssumption DEF IInv, TypeOK, Progress, Shards
<1>3. Held' = Held /\ HeldCount' = HeldCount /\ Queued' = Queued
  BY <1>1 DEF Held, HeldCount, Queued, Marked
<1>4. ~ Submitting /\ ~ Lost
  BY <1>1 DEF Submitting, Lost
<1>5. WorkerHolds'
  <2>1. main' \in {"loop", "checkpoint", "enqueue"}
    BY AfterSubmitLemma DEF Submit, LeaveSource
  <2> QED
    BY <1>1, <2>1 DEF WorkerHolds, NothingLeft
<1>6. CASE Registered(next)
  <2>1. main' \in {"loop", "checkpoint"} /\ seen' = seen
    BY <1>6, AfterSubmitLemma DEF Submit, LeaveSource
  <2>2. ~ Submitting' /\ ~ Lost'
    BY <2>1 DEF Submitting, Lost
  <2>3. Apart'
    BY <1>1, <1>3, <2>1, <2>2 DEF Apart
  <2>4. Counted'
    BY <1>1, <1>3, <1>4, <2>1, <2>2 DEF Counted, SubmitCount
  <2>5. Real'
    BY <1>1, <2>1 DEF Real
  <2>6. Backfilled'
    BY <1>1, <1>3, <1>4, <1>6, <2>1, <2>2 DEF Backfilled, Awaited, Registered
  <2> QED
    BY <1>5, <2>3, <2>4, <2>5, <2>6 DEF Kept
<1>7. CASE ~ Registered(next)
  <2>1. main' = "enqueue" /\ seen' = seen \cup {next} /\ next' = next /\ next \notin seen
    BY <1>7 DEF Submit, LeaveSource, Registered
  <2>2. Submitting' /\ ~ Lost'
    BY <2>1 DEF Submitting, Lost
  <2>3. Apart'
    BY <1>1, <1>2, <1>3, <2>1, <2>2 DEF Apart
  <2>4. Counted'
    <3>1. Cardinality(seen') = Cardinality(seen) + 1
      BY <2>1, FS_AddElement
    <3>2. SubmitCount = 0 /\ SubmitCount' = 1
      BY <1>4, <2>2 DEF SubmitCount
    <3>3. HeldCount \in Nat /\ Queued \in Int /\ Len(initialJobs) \in Nat
      BY DEF HeldCount, Queued
    <3> QED
      BY <1>1, <1>3, <1>4, <2>2, <3>1, <3>2, <3>3 DEF Counted
  <2>5. Real'
    BY <1>1, <2>1 DEF Real
  <2>6. Backfilled'
    BY <1>1, <1>3, <1>4, <2>1, <2>2 DEF Backfilled, Awaited
  <2> QED
    BY <1>5, <2>3, <2>4, <2>5, <2>6 DEF Kept
<1> QED
  BY <1>6, <1>7

\* _enqueue_job: the job goes to the end of the queue, or main tries again.
LEMMA PutStep == ASSUME JInv, Put PROVE Kept
<1> USE Types DEF JInv
<1> DEFINE new == [shard |-> next, gen |-> polygon[next]]
<1>1. /\ main = "put"
      /\ UNCHANGED <<worker, initialJobs, finishSeen, seen, job, tally, polygon, asset, token, error>>
  BY DEF Put, workVars, runVars, dataVars
<1>2. new \in Jobs /\ next \in Shards /\ new.shard = next /\ new.gen # 0
  BY <1>1, SourcesAssumption, ShardsAssumption
  DEF IInv, TypeOK, Progress, Shards, Jobs, Generations, Real
<1>3. Held' = Held /\ HeldCount' = HeldCount
  BY <1>1 DEF Held, HeldCount
<1>4. Submitting /\ ~ Lost
  BY <1>1 DEF Submitting, Lost
<1>5. CASE queue' = queue
  <2>1. main' = "enqueue" /\ next' = next
    <3>1. queue # Append(queue, new)
      BY AppendLemma, <1>2 DEF Entries
    <3> QED
      BY <1>5, <3>1 DEF Put
  <2>2. Submitting' /\ ~ Lost'
    BY <2>1 DEF Submitting, Lost
  <2>3. Queued' = Queued /\ SubmitCount' = SubmitCount
    BY <1>4, <1>5, <2>2 DEF Queued, Marked, SubmitCount
  <2>4. Apart'
    BY <1>1, <1>3, <1>4, <1>5, <2>1, <2>2 DEF Apart
  <2>5. WorkerHolds'
    BY <1>1, <1>5, <2>1 DEF WorkerHolds, NothingLeft
  <2>6. Counted'
    BY <1>1, <1>3, <1>4, <2>2, <2>3 DEF Counted
  <2>7. Real'
    BY <1>1, <1>5, <2>1 DEF Real
  <2>8. Backfilled'
    BY <1>1, <1>3, <1>4, <1>5, <2>1, <2>2 DEF Backfilled, Awaited
  <2> QED
    BY <2>4, <2>5, <2>6, <2>7, <2>8 DEF Kept
<1>6. CASE queue' = Append(queue, new)
  <2>1. main' \in {"loop", "checkpoint"}
    <3>1. queue # Append(queue, new)
      BY AppendLemma, <1>2 DEF Entries
    <3> QED
      BY <1>6, <3>1, AfterSubmitLemma DEF Put, LeaveSource
  <2>2. ~ Submitting' /\ ~ Lost'
    BY <2>1 DEF Submitting, Lost
  <2>3. Distinct(queue') /\ ShardsOf(queue') = ShardsOf(queue) \cup {next}
    BY <1>2, <1>4, <1>6, AppendShards DEF Apart, Entries
  <2>4. /\ Len(queue') = Len(queue) + 1 /\ DOMAIN queue' = 1..(Len(queue) + 1)
        /\ DOMAIN queue = 1..Len(queue) /\ Len(queue) \in Nat
        /\ \A i \in DOMAIN queue : queue'[i] = queue[i]
        /\ queue'[Len(queue) + 1] = new
    BY <1>2, <1>6, AppendLemma DEF Entries
  <2>5. ~ Marked /\ ~ finishSeen /\ worker # "closing" /\ (worker = "dead" => error)
    BY <1>1 DEF Marked, IInv, MarkerIsLate, Late
  <2>6. \A i \in DOMAIN queue' : queue'[i] # FinishMarker
    BY <1>2, <2>4, <2>5, MarkerIsNoJob DEF Marked
  <2>7. Apart'
    BY <1>1, <1>3, <1>4, <2>1, <2>2, <2>3 DEF Apart
  <2>8. WorkerHolds'
    <3>1. worker # "off"
      BY <1>1 DEF IInv, Lifetime
    <3> QED
      BY <1>1, <2>1, <2>5, <2>6, <3>1 DEF WorkerHolds
  <2>9. Counted'
    <3>1. Queued = Len(queue) /\ Queued' = Len(queue) + 1
      BY <2>4, <2>5, <2>6 DEF Queued, Marked
    <3>2. SubmitCount = 1 /\ SubmitCount' = 0
      BY <1>4, <2>2 DEF SubmitCount
    <3>3. HeldCount \in Nat /\ Len(initialJobs) \in Nat
      BY DEF HeldCount
    <3> QED
      BY <1>1, <1>3, <1>4, <2>2, <2>4, <3>1, <3>2, <3>3 DEF Counted
  <2>10. Real'
    <3>1. \A i \in DOMAIN queue' : i \in DOMAIN queue \/ i = Len(queue) + 1
      BY <2>4
    <3> HIDE DEF new
    <3>2. \A i \in DOMAIN queue' : queue'[i] # FinishMarker => queue'[i].gen # 0
      BY <1>2, <2>4, <3>1 DEF Real
    <3> QED
      BY <1>1, <2>1, <3>2 DEF Real
  <2>11. Backfilled'
    BY <1>1, <1>3, <1>4, <2>1, <2>2, <2>3 DEF Backfilled, Awaited
  <2> QED
    BY <2>7, <2>8, <2>9, <2>10, <2>11 DEF Kept
<1> QED
  BY <1>5, <1>6, Zenon DEF Put

\* _send_finish_marker: the first and only marker.
LEMMA SendFinishMarkerStep == ASSUME JInv, SendFinishMarker PROVE Kept
<1> USE Types DEF JInv
<1>1. /\ main \in {"finish", "errorFinish"} /\ main' \in {"join", "errorJoin"}
      /\ main = "finish" <=> main' = "join"
      /\ UNCHANGED <<next, worker, initialJobs, finishSeen, seen, job, tally, polygon, asset, token,
                     error>>
  BY DEF SendFinishMarker, sourceVars, workVars, runVars, dataVars
<1>2. Held' = Held /\ HeldCount' = HeldCount
  BY <1>1 DEF Held, HeldCount
<1>3. ~ Submitting /\ ~ Submitting' /\ (Lost <=> Lost')
  BY <1>1 DEF Submitting, Lost
<1>4. ~ Marked /\ ~ finishSeen /\ worker # "closing"
  BY <1>1 DEF Marked, IInv, MarkerIsLate, Late
<1>5. CASE queue' = queue
  <2>1. Queued' = Queued /\ SubmitCount' = SubmitCount
    BY <1>3, <1>5 DEF Queued, Marked, SubmitCount
  <2>2. Apart' /\ WorkerHolds'
    BY <1>1, <1>2, <1>3, <1>5 DEF Apart, WorkerHolds, NothingLeft
  <2>3. Counted'
    BY <1>1, <1>2, <1>3, <2>1 DEF Counted
  <2>4. Real'
    BY <1>1, <1>5 DEF Real
  <2>5. Backfilled'
    BY <1>1, <1>2, <1>3, <1>5 DEF Backfilled, Awaited
  <2> QED
    BY <2>2, <2>3, <2>4, <2>5 DEF Kept
<1>6. CASE Alive /\ queue' = Append(queue, FinishMarker)
  <2>1. FinishMarker \in Entries /\ FinishMarker.shard = 0
    BY DEF Entries, FinishMarker
  <2>2. /\ Len(queue') = Len(queue) + 1 /\ DOMAIN queue' = 1..(Len(queue) + 1)
        /\ DOMAIN queue = 1..Len(queue) /\ Len(queue) \in Nat
        /\ \A i \in DOMAIN queue : queue'[i] = queue[i]
        /\ queue'[Len(queue) + 1] = FinishMarker
    BY <1>6, <2>1, AppendLemma
  <2>3. 0 \notin ShardsOf(queue)
    <3>1. \A i \in DOMAIN queue : queue[i] \in Entries /\ queue[i] # FinishMarker
      BY <1>4 DEF Marked
    <3> QED
      BY <3>1, MarkerShard DEF ShardsOf
  <2>4. Distinct(queue') /\ ShardsOf(queue') = ShardsOf(queue) \cup {0}
    BY <1>6, <2>1, <2>3, AppendShards DEF Apart
  <2>5. 0 \notin ShardsOf(initialJobs) /\ 0 \notin Held
    <3>1. initialJobs \in Seq(Jobs)
      BY DEF IInv, TypeOK
    <3>2. \A e \in Jobs : e.shard \in Shards
      BY DEF Jobs
    <3>3. \A i \in DOMAIN initialJobs : initialJobs[i] \in Jobs
      BY <3>1
    <3> QED
      BY <3>2, <3>3 DEF ShardsOf, Held
  <2>6. Apart'
    BY <1>1, <1>2, <1>3, <2>4, <2>5 DEF Apart
  <2>7. WorkerHolds'
    <3>1. worker \notin {"off", "dead"}
      BY <1>6 DEF Alive
    <3>2. \A i \in DOMAIN queue' : queue'[i] = FinishMarker => i = Len(queue')
      BY <1>4, <2>2 DEF Marked
    <3> QED
      BY <1>1, <1>4, <3>1, <3>2 DEF WorkerHolds
  <2>8. Counted'
    <3>1. Len(queue) + 1 \in DOMAIN queue'
      BY <2>2
    <3>2. Marked'
      BY <2>2, <3>1 DEF Marked
    <3>3. Queued' = Queued
      BY <1>4, <2>2, <3>2 DEF Queued
    <3>4. SubmitCount' = SubmitCount
      BY <1>3 DEF SubmitCount
    <3> QED
      BY <1>1, <1>2, <1>3, <3>3, <3>4 DEF Counted
  <2>9. Real'
    BY <1>1, <2>2 DEF Real
  <2>10. Backfilled'
    BY <1>1, <1>2, <1>3, <2>4 DEF Backfilled, Awaited
  <2> QED
    BY <2>6, <2>7, <2>8, <2>9, <2>10 DEF Kept
<1> QED
  BY <1>5, <1>6, Zenon DEF SendFinishMarker

(***************************************************************************)
(* The steps of the worker that move a job.                                *)
(***************************************************************************)

LEMMA TakeInitialStep == ASSUME JInv, TakeInitial PROVE Kept
<1> USE Types DEF JInv
<1>1. /\ worker = "take" /\ worker' = "holding" /\ initialJobs # <<>>
      /\ job' = Head(initialJobs) /\ initialJobs' = Tail(initialJobs)
      /\ UNCHANGED <<main, next, queue, finishSeen, seen, tally, polygon, asset, token, error>>
  BY DEF TakeInitial, Hold, mainVars, sourceVars, runVars, dataVars
<1>2. /\ Distinct(initialJobs')
      /\ ShardsOf(initialJobs) = {job'.shard} \cup ShardsOf(initialJobs')
      /\ job'.shard \notin ShardsOf(initialJobs')
  BY <1>1, TailShards DEF Apart
<1>3. job = NoJob /\ Held = {} /\ HeldCount = 0
  BY <1>1 DEF WorkerHolds, Held, HeldCount
<1>4. /\ Len(initialJobs') = Len(initialJobs) - 1 /\ Len(initialJobs) \in Nat
      /\ \A i \in DOMAIN initialJobs' : \E j \in DOMAIN initialJobs : initialJobs'[i] = initialJobs[j]
      /\ \E j \in DOMAIN initialJobs : job' = initialJobs[j]
  BY <1>1, TailLemma
<1>5. job' # NoJob /\ Held' = {job'.shard} /\ HeldCount' = 1
  <2>1. initialJobs \in Seq(Jobs)
    BY DEF IInv, TypeOK
  <2>2. job' # NoJob
    BY <1>4, <2>1, MarkerIsNoJob
  <2> QED
    BY <2>2 DEF Held, HeldCount
<1>6. Submitting' = Submitting /\ Lost' = Lost /\ Queued' = Queued /\ SubmitCount' = SubmitCount
  BY <1>1 DEF Submitting, Lost, Queued, Marked, SubmitCount
<1>7. Apart'
  BY <1>1, <1>2, <1>3, <1>5, <1>6 DEF Apart
<1>8. WorkerHolds'
  BY <1>1, <1>5 DEF WorkerHolds
<1>9. Counted'
  <2>1. Queued \in Int /\ SubmitCount \in Int
    BY DEF Queued, SubmitCount
  <2> QED
    BY <1>1, <1>3, <1>4, <1>5, <1>6, <2>1 DEF Counted
<1>10. Real'
  BY <1>1, <1>4 DEF Real
<1>11. Backfilled'
  BY <1>1, <1>2, <1>3, <1>5, <1>6 DEF Backfilled, Awaited
<1> QED
  BY <1>7, <1>8, <1>9, <1>10, <1>11 DEF Kept

LEMMA NoneLemma == ASSUME NEW q \in Seq(Entries), Len(q) = 0 PROVE q = <<>>
OBVIOUS

\* The marker was the last of the queue.
LEMMA MarkerTaken ==
  ASSUME JInv, queue # <<>>, Head(queue) = FinishMarker
  PROVE  Tail(queue) = <<>> /\ Len(queue) = 1 /\ Marked /\ ShardsOf(queue) = {0}
<1> USE Types DEF JInv
<1>1. 1 \in DOMAIN queue /\ queue[1] = FinishMarker /\ Len(Tail(queue)) = Len(queue) - 1
  BY TailLemma
<1>2. Len(queue) = 1
  BY <1>1 DEF WorkerHolds
<1>3. DOMAIN queue = {1} /\ FinishMarker.shard = 0
  BY <1>2 DEF FinishMarker
<1>4. Tail(queue) = <<>>
  <2>1. Tail(queue) \in Seq(Entries) /\ Len(Tail(queue)) = 0
    BY <1>1, <1>2
  <2> QED
    BY <2>1, NoneLemma
<1> QED
  BY <1>1, <1>2, <1>3, <1>4 DEF Marked, ShardsOf

LEMMA EmptyLemma == ShardsOf(<<>>) = {} /\ Distinct(<<>>) /\ Len(<<>>) = 0 /\ DOMAIN <<>> = {}
BY DEF ShardsOf, Distinct

LEMMA TakeMarkerThenInitialStep == ASSUME JInv, TakeMarkerThenInitial PROVE Kept
<1> USE Types DEF JInv
<1>1. /\ worker = "take" /\ worker' = "holding" /\ initialJobs # <<>>
      /\ job' = Head(initialJobs) /\ initialJobs' = Tail(initialJobs)
      /\ queue # <<>> /\ Head(queue) = FinishMarker /\ queue' = Tail(queue)
      /\ UNCHANGED <<main, next, seen, tally, polygon, asset, token, error>>
  BY DEF TakeMarkerThenInitial, Hold, mainVars, sourceVars, runVars, dataVars
<1>2. /\ Distinct(initialJobs')
      /\ ShardsOf(initialJobs) = {job'.shard} \cup ShardsOf(initialJobs')
      /\ job'.shard \notin ShardsOf(initialJobs')
  BY <1>1, TailShards DEF Apart
<1>3. job = NoJob /\ Held = {} /\ HeldCount = 0
  BY <1>1 DEF WorkerHolds, Held, HeldCount
<1>4. /\ Len(initialJobs') = Len(initialJobs) - 1 /\ Len(initialJobs) \in Nat
      /\ \A i \in DOMAIN initialJobs' : \E j \in DOMAIN initialJobs : initialJobs'[i] = initialJobs[j]
      /\ \E j \in DOMAIN initialJobs : job' = initialJobs[j]
  <2>1. initialJobs \in Seq(Entries) /\ initialJobs # <<>>
    BY <1>1
  <2>2. /\ Len(initialJobs') = Len(initialJobs) - 1 /\ Len(initialJobs) \in Nat \ {0}
        /\ DOMAIN initialJobs' = 1..(Len(initialJobs) - 1) /\ DOMAIN initialJobs = 1..Len(initialJobs)
        /\ \A i \in DOMAIN initialJobs' : initialJobs'[i] = initialJobs[i + 1]
        /\ job' = initialJobs[1]
    BY <1>1, <2>1, TailLemma
  <2>3. 1 \in DOMAIN initialJobs /\ \A i \in DOMAIN initialJobs' : i + 1 \in DOMAIN initialJobs
    BY <2>2
  <2> QED
    BY <2>2, <2>3
<1>5. job' # NoJob /\ Held' = {job'.shard} /\ HeldCount' = 1 /\ job'.shard \in Shards
  <2>1. initialJobs \in Seq(Jobs)
    BY DEF IInv, TypeOK
  <2>2. job' \in Jobs /\ job' # NoJob
    BY <1>4, <2>1, MarkerIsNoJob
  <2> QED
    BY <2>2 DEF Held, HeldCount, Jobs
<1>6. Submitting' = Submitting /\ Lost' = Lost /\ SubmitCount' = SubmitCount
  BY <1>1 DEF Submitting, Lost, SubmitCount
<1>7. queue' = <<>> /\ Len(queue) = 1 /\ Marked /\ ShardsOf(queue) = {0}
  BY <1>1, MarkerTaken
<1>8. ShardsOf(queue') = {} /\ Distinct(queue') /\ Len(queue') = 0 /\ DOMAIN queue' = {}
  BY <1>7, EmptyLemma
<1>9. Apart'
  BY <1>1, <1>2, <1>3, <1>5, <1>6, <1>8 DEF Apart
<1>10. WorkerHolds'
  BY <1>1, <1>5, <1>7, <1>8 DEF WorkerHolds
<1>11. Counted'
  <2>1. Queued = 0 /\ Queued' = 0 /\ SubmitCount \in Int
    BY <1>7, <1>8 DEF Queued, Marked, SubmitCount
  <2> QED
    BY <1>1, <1>3, <1>4, <1>5, <1>6, <2>1 DEF Counted
<1>12. Real'
  BY <1>1, <1>4, <1>8 DEF Real
<1>13. Backfilled'
  BY <1>1, <1>2, <1>3, <1>5, <1>6, <1>7, <1>8 DEF Backfilled, Awaited
<1> QED
  BY <1>9, <1>10, <1>11, <1>12, <1>13 DEF Kept

LEMMA TakeQueuedStep == ASSUME JInv, TakeQueued PROVE Kept
<1> USE Types DEF JInv
<1>1. /\ worker = "take" /\ worker' = "holding"
      /\ queue # <<>> /\ Head(queue) # FinishMarker
      /\ job' = Head(queue) /\ queue' = Tail(queue)
      /\ UNCHANGED <<main, next, initialJobs, finishSeen, seen, tally, polygon, asset, token, error>>
  BY DEF TakeQueued, Hold, mainVars, sourceVars, runVars, dataVars
<1>2. /\ Distinct(queue')
      /\ ShardsOf(queue) = {job'.shard} \cup ShardsOf(queue')
      /\ job'.shard \notin ShardsOf(queue')
  BY <1>1, TailShards DEF Apart
<1>3. job = NoJob /\ Held = {} /\ HeldCount = 0
  BY <1>1 DEF WorkerHolds, Held, HeldCount
<1>4. /\ Len(queue') = Len(queue) - 1 /\ DOMAIN queue' = 1..(Len(queue) - 1)
      /\ \A i \in DOMAIN queue' : queue'[i] = queue[i + 1]
      /\ DOMAIN queue = 1..Len(queue) /\ job' = queue[1] /\ Len(queue) \in Nat \ {0}
  BY <1>1, TailLemma
<1>5. /\ 1 \in DOMAIN queue /\ queue[1] # FinishMarker
      /\ \A i \in DOMAIN queue' : i + 1 \in DOMAIN queue /\ i \in Int
      /\ \A j \in DOMAIN queue : j = 1 \/ (j - 1 \in DOMAIN queue' /\ queue'[j - 1] = queue[j])
  BY <1>1, <1>4
<1>6. job' # NoJob /\ Held' = {job'.shard} /\ HeldCount' = 1
  <2>1. job' \in Entries /\ job' # FinishMarker
    BY <1>4, <1>5
  <2>2. job' # NoJob
    BY <2>1, MarkerIsNoJob DEF Entries
  <2> QED
    BY <2>2 DEF Held, HeldCount
<1>7. Submitting' = Submitting /\ Lost' = Lost /\ SubmitCount' = SubmitCount
  BY <1>1 DEF Submitting, Lost, SubmitCount
<1>8. Marked' = Marked
  <2>1. Marked => Marked'
    BY <1>5 DEF Marked
  <2>2. Marked' => Marked
    BY <1>4, <1>5 DEF Marked
  <2> QED
    BY <2>1, <2>2 DEF Marked
<1>9. Apart'
  BY <1>1, <1>2, <1>3, <1>6, <1>7 DEF Apart
<1>10. WorkerHolds'
  <2>1. \A i \in DOMAIN queue' : queue'[i] = FinishMarker => i = Len(queue')
    BY <1>4, <1>5 DEF WorkerHolds
  <2>2. ~ finishSeen
    BY <1>1 DEF WorkerHolds
  <2> QED
    BY <1>1, <1>6, <2>1, <2>2 DEF WorkerHolds
<1>11. Counted'
  <2>1. Queued' = Queued - 1 /\ Queued \in Int /\ SubmitCount \in Int /\ Len(initialJobs) \in Nat
    BY <1>4, <1>8 DEF Queued, SubmitCount
  <2>2. tally.built + tally.skipped + tally.pending \in Nat /\ tally' = tally /\ seen' = seen
    BY <1>1
  <2>3. Len(initialJobs') = Len(initialJobs)
    BY <1>1
  <2> DEFINE sum == tally.built + tally.skipped + tally.pending
  <2>4. ~ Lost => sum + HeldCount + Len(initialJobs) + Queued + SubmitCount = Cardinality(seen)
    BY DEF Counted
  <2>5. sum' = sum /\ sum \in Nat /\ Cardinality(seen') = Cardinality(seen)
    BY <2>2
  <2> HIDE DEF sum
  <2>6. ~ Lost => sum + 1 + Len(initialJobs) + (Queued - 1) + SubmitCount = Cardinality(seen)
    BY <1>3, <2>1, <2>4, <2>5
  <2>7. ~ Lost' => sum' + HeldCount' + Len(initialJobs') + Queued' + SubmitCount' = Cardinality(seen')
    BY <1>6, <1>7, <2>1, <2>3, <2>5, <2>6
  <2> QED
    BY <2>7 DEF Counted, sum
<1>12. Real'
  BY <1>1, <1>4, <1>5 DEF Real
<1>13. Backfilled'
  BY <1>1, <1>2, <1>3, <1>6, <1>7 DEF Backfilled, Awaited
<1> QED
  BY <1>9, <1>10, <1>11, <1>12, <1>13 DEF Kept

\* The worker ends with nothing left.
LEMMA NoMoreJobsStep == ASSUME JInv, NoMoreJobs PROVE Kept
<1> USE Types DEF JInv
<1>1. /\ worker = "take" /\ worker' = "closing" /\ initialJobs = <<>>
      /\ UNCHANGED <<main, next, initialJobs, finishSeen, seen, job, tally, polygon, asset, token,
                     error>>
  BY DEF NoMoreJobs, Drained, mainVars, sourceVars, workVars, runVars, dataVars
<1>2. job = NoJob /\ Held' = Held /\ HeldCount' = HeldCount
  BY <1>1 DEF WorkerHolds, Held, HeldCount
<1>3. Submitting' = Submitting /\ Lost' = Lost /\ SubmitCount' = SubmitCount
  BY <1>1 DEF Submitting, Lost, SubmitCount
<1>4. \/ queue = <<>> /\ queue' = <<>>
      \/ queue' = <<>> /\ Len(queue) = 1 /\ Marked /\ ShardsOf(queue) = {0}
  BY MarkerTaken DEF NoMoreJobs, WorkerHolds
<1>5. /\ queue' = <<>> /\ ShardsOf(queue') = {} /\ Distinct(queue') /\ Len(queue') = 0
      /\ DOMAIN queue' = {} /\ ShardsOf(queue) \subseteq {0}
  BY <1>4, EmptyLemma
<1>6. Queued' = Queued
  BY <1>4, <1>5, EmptyLemma DEF Queued, Marked
<1>7. Apart'
  BY <1>1, <1>2, <1>3, <1>5 DEF Apart
<1>8. WorkerHolds'
  BY <1>1, <1>2, <1>5 DEF WorkerHolds, NothingLeft
<1>9. Counted'
  BY <1>1, <1>2, <1>3, <1>6 DEF Counted
<1>10. Real'
  BY <1>1, <1>5 DEF Real
<1>11. Backfilled'
  BY <1>1, <1>2, <1>3, <1>5 DEF Backfilled, Awaited
<1> QED
  BY <1>7, <1>8, <1>9, <1>10, <1>11 DEF Kept

Summed(t) == t.built + t.skipped + t.pending

LEMMA CountLemma ==
  ASSUME JInv, Count("built") \/ Count("skipped") \/ Count("pending")
  PROVE  Summed(tally) \in Nat /\ Summed(tally') = Summed(tally) + 1
<1>1. tally \in [built: Nat, skipped: Nat, pending: Nat]
  BY Types DEF JInv
<1>2. CASE Count("built")
  BY <1>1, <1>2 DEF Count, Summed
<1>3. CASE Count("skipped")
  BY <1>1, <1>3 DEF Count, Summed
<1>4. CASE Count("pending")
  BY <1>1, <1>4 DEF Count, Summed
<1> QED
  BY <1>2, <1>3, <1>4

\* The job the worker holds is done with: counted, and no longer held.
LEMMA DoneLemma ==
  ASSUME JInv, Summed(tally) \in Nat, Summed(tally') = Summed(tally) + 1,
         worker \in {"holding", "build"}, worker' \in {"top", "refreshLock"}, job' = NoJob,
         UNCHANGED <<main, next, initialJobs, queue, finishSeen, seen, polygon, error>>
  PROVE  Apart' /\ WorkerHolds' /\ Counted' /\ Real' /\ Awaited' \cup Held = Awaited
<1> USE Types DEF JInv
<1>1. Held' = {} /\ HeldCount' = 0 /\ HeldCount = 1 /\ job # NoJob
  BY DEF Held, HeldCount, WorkerHolds
<1>2. Submitting' = Submitting /\ Lost' = Lost /\ SubmitCount' = SubmitCount /\ Queued' = Queued
  BY DEF Submitting, Lost, SubmitCount, Queued, Marked
<1>3. Apart'
  BY <1>1, <1>2 DEF Apart
<1>4. WorkerHolds'
  BY DEF WorkerHolds
<1>5. Counted'
  <2>1. Queued \in Int /\ SubmitCount \in Int /\ Len(initialJobs) \in Nat
    BY DEF Queued, SubmitCount
  <2>2. ~ Lost => Summed(tally) + 1 + Len(initialJobs) + Queued + SubmitCount = Cardinality(seen)
    BY <1>1 DEF Counted, Summed
  <2>3. ~ Lost' => Summed(tally') + 0 + Len(initialJobs) + Queued + SubmitCount = Cardinality(seen)
    BY <1>2, <2>1, <2>2
  <2> QED
    BY <1>1, <1>2, <2>3 DEF Counted, Summed
<1>6. Real'
  BY DEF Real, NoJob
<1>7. Awaited' \cup Held = Awaited
  BY <1>1, <1>2 DEF Awaited
<1> QED
  BY <1>3, <1>4, <1>5, <1>6, <1>7

LEMMA StartJobStep == ASSUME JInv, StartJob PROVE Kept
<1> USE Types DEF JInv
<1>1. /\ worker = "holding"
      /\ UNCHANGED <<main, next, initialJobs, queue, finishSeen, seen, polygon, asset, token, error>>
  BY DEF StartJob, mainVars, sourceVars, queueVars, runVars, dataVars
<1>2. CASE token /\ Count("pending") /\ worker' = "top" /\ job' = NoJob
  <2>1. Apart' /\ WorkerHolds' /\ Counted' /\ Real'
    BY <1>1, <1>2, CountLemma, DoneLemma
  <2>2. Backfilled'
    BY <1>1, <1>2 DEF Backfilled, Lost
  <2> QED
    BY <2>1, <2>2 DEF Kept
<1>3. CASE worker' = "build" /\ UNCHANGED <<job, tally>>
  <2>1. /\ Held' = Held /\ HeldCount' = HeldCount /\ Queued' = Queued
        /\ Submitting' = Submitting /\ Lost' = Lost /\ SubmitCount' = SubmitCount
    BY <1>1, <1>3 DEF Held, HeldCount, Queued, Marked, Submitting, Lost, SubmitCount
  <2>2. Apart' /\ Counted'
    BY <1>1, <1>3, <2>1 DEF Apart, Counted
  <2>3. WorkerHolds'
    BY <1>1, <1>3 DEF WorkerHolds
  <2>4. Real'
    BY <1>1, <1>3 DEF Real
  <2>5. Backfilled'
    BY <1>1, <2>1 DEF Backfilled, Awaited
  <2> QED
    BY <2>2, <2>3, <2>4, <2>5 DEF Kept
<1> QED
  BY <1>2, <1>3 DEF StartJob

\* A built or a reused asset shard is there; one that was put off has a stop.
LEMMA BuildAssetStep == ASSUME JInv, BuildAsset PROVE Kept
<1> USE Types DEF JInv
<1>1. /\ worker = "build" /\ job' = NoJob /\ worker' \in {"top", "refreshLock"}
      /\ UNCHANGED <<main, next, initialJobs, queue, finishSeen, seen, polygon, token, error>>
  BY DEF BuildAsset, mainVars, sourceVars, queueVars, runVars
<1>2. Count("built") \/ Count("skipped") \/ Count("pending")
  BY Zenon DEF BuildAsset
<1>3. Apart' /\ WorkerHolds' /\ Counted' /\ Real' /\ Awaited' \cup Held = Awaited
  BY <1>1, <1>2, CountLemma, DoneLemma
<1>4. job \in Jobs /\ job.shard \in Shards /\ job.gen # 0 /\ Held = {job.shard}
  BY <1>1 DEF WorkerHolds, Jobs, Held, Real
<1>5. /\ \A s \in Shards : asset[s] # 0 => asset'[s] # 0
      /\ ~ token => asset'[job.shard] # 0
  <2>1. CASE asset' = asset /\ (asset[job.shard] = job.gen \/ token)
    BY <1>4, <2>1
  <2>2. CASE asset' = [asset EXCEPT ![job.shard] = job.gen]
    BY <1>4, <2>2
  <2> QED
    BY <2>1, <2>2 DEF BuildAsset
<1>6. Backfilled'
  <2>1. Lost' = Lost /\ (Submitting' = Submitting)
    BY <1>1 DEF Lost, Submitting
  <2>2. ASSUME ~ Lost', ~ token', NEW s \in seen' PROVE asset'[s] # 0 \/ s \in Awaited'
    <3>1. asset[s] # 0 \/ s \in Awaited
      BY <1>1, <2>1, <2>2 DEF Backfilled
    <3>2. CASE s = job.shard
      BY <1>1, <1>5, <2>2, <3>2
    <3>3. CASE s # job.shard
      BY <1>1, <1>3, <1>4, <1>5, <3>1, <3>3
    <3> QED
      BY <3>2, <3>3
  <2>3. ~ Lost' => \A s \in Shards : polygon'[s] # 0 =>
          s \in seen' \/ main' = "start" \/ (main' = "submit" /\ s = next')
    BY <1>1, <2>1 DEF Backfilled
  <2> QED
    BY <2>2, <2>3 DEF Backfilled
<1> QED
  BY <1>3, <1>6 DEF Kept

(***************************************************************************)
(* The invariant, and what follows from it.                                *)
(***************************************************************************)

LEMMA InitJobs == Init => JInv
<1> SUFFICES ASSUME Init PROVE JInv
  OBVIOUS
<1>1. IInv
  BY InitInvariant
<1> USE EmptyLemma DEF Init
<1>2. Held = {} /\ HeldCount = 0 /\ ~ Submitting /\ SubmitCount = 0 /\ ~ Marked /\ Queued = 0
  BY DEF Held, HeldCount, Submitting, SubmitCount, Marked, Queued
<1>3. Apart
  BY <1>2 DEF Apart
<1>4. WorkerHolds
  BY DEF WorkerHolds, NothingLeft
<1>5. Counted
  BY <1>2, FS_EmptySet DEF Counted
<1>6. Real
  BY DEF Real, NoJob
<1>7. Backfilled
  BY DEF Backfilled
<1> QED
  BY <1>1, <1>3, <1>4, <1>5, <1>6, <1>7 DEF JInv

LEMMA NextJobs == JInv /\ [Next]_vars => JInv'
<1> SUFFICES ASSUME JInv, [Next]_vars PROVE JInv'
  OBVIOUS
<1>1. IInv'
  BY StepInvariant DEF JInv
<1>2. CASE JobStep
  <2>1. Kept
    BY <1>2, StartWorkerStep, BuildSourceStep, SubmitStep, PutStep, SendFinishMarkerStep,
       TakeInitialStep, TakeMarkerThenInitialStep, TakeQueuedStep, NoMoreJobsStep, StartJobStep,
       BuildAssetStep, Zenon
    DEF JobStep
  <2> QED
    BY <1>1, <2>1 DEF Kept, JInv
<1>3. CASE ~ JobStep
  BY <1>1, <1>3, QuietHolds, QuietJobs DEF JInv
<1> QED
  BY <1>2, <1>3

\* Each registered shard is about to be queued, has one job, or is counted.
THEOREM JobsInvariant == Spec => []JInv
BY InitJobs, NextJobs, PTL DEF Spec

\* No shard has two jobs, so none is built twice in a run (_register).
THEOREM OneJobCorrect == Spec => []OneJobPerShard
<1>1. JInv => OneJobPerShard
  <2> SUFFICES ASSUME JInv PROVE OneJobPerShard
    OBVIOUS
  <2> USE Types DEF JInv
  <2> DEFINE first == HeldShards \o initialJobs
             waiting == first \o queue
  <2>0. HeldShards \in Seq(Entries) /\ Distinct(HeldShards) /\ ShardsOf(HeldShards) = Held
    <3>1. CASE job = NoJob
      BY <3>1, EmptyLemma DEF HeldShards, Held
    <3>2. CASE job # NoJob
      <4>1. HeldShards = <<job>> /\ job \in Entries /\ Held = {job.shard}
        BY <3>2 DEF HeldShards, Held, Entries
      <4>2. <<job>> \in Seq(Entries) /\ DOMAIN <<job>> = {1} /\ <<job>>[1] = job
        BY <4>1
      <4> QED
        BY <4>1, <4>2 DEF Distinct, ShardsOf
    <3> QED
      BY <3>1, <3>2
  <2>1. /\ first \in Seq(Entries) /\ Distinct(first)
        /\ ShardsOf(first) \subseteq Held \cup ShardsOf(initialJobs)
    BY <2>0, ConcatShards DEF Apart
  <2> HIDE DEF first
  <2>2. Distinct(waiting)
    BY <2>1, ConcatShards DEF Apart
  <2> QED
    BY <2>2 DEF Distinct, OneJobPerShard, first
<1> QED
  BY <1>1, JobsInvariant, PTL

\* A run that returns has counted every registered shard (EnrichmentSummary).
THEOREM SummaryCorrect == Spec => []SummaryComplete
<1>1. JInv => SummaryComplete
  <2> SUFFICES ASSUME JInv, main = "returned"
               PROVE  tally.built + tally.skipped + tally.pending = Cardinality(seen) /\ ~ error
    BY DEF SummaryComplete
  <2> USE Types, EmptyLemma DEF JInv
  <2>1. worker = "dead" /\ ~ error /\ NothingLeft
    BY DEF IInv, Lifetime, WorkerHolds
  <2>2. HeldCount = 0 /\ Queued = 0 /\ SubmitCount = 0 /\ Len(initialJobs) = 0 /\ ~ Lost
    BY <2>1 DEF NothingLeft, HeldCount, Queued, Marked, SubmitCount, Submitting, Lost
  <2> QED
    BY <2>1, <2>2 DEF Counted
<1> QED
  BY <1>1, JobsInvariant, PTL

\* A run that returns without a stop has an asset shard for every polygon shard.
THEOREM BackfillCorrect == Spec => []AssetsBackfilled
<1>1. JInv => AssetsBackfilled
  <2> SUFFICES ASSUME JInv, main = "returned", ~ token, NEW s \in Shards, polygon[s] # 0
               PROVE  asset[s] # 0
    BY DEF AssetsBackfilled
  <2> USE EmptyLemma DEF JInv
  <2>1. NothingLeft
    BY DEF IInv, Lifetime, WorkerHolds
  <2>2. Awaited = {} /\ ~ Lost
    BY <2>1 DEF NothingLeft, Awaited, Held, Submitting, Lost
  <2> QED
    BY <2>2 DEF Backfilled
<1> QED
  BY <1>1, JobsInvariant, PTL
=============================================================================
