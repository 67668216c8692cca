-------------------------- MODULE ShardStoreProofs --------------------------
(***************************************************************************)
(* What TLAPS proves of ShardStore: for any PBFs, versions and contracts,  *)
(* for files whose sizes tell their contents apart or not, and for any     *)
(* number of runs that are killed, stopped or fail anywhere, what is       *)
(* reused is current and an asset manifest names the rows it was made of.  *)
(*                                                                         *)
(* The argument: PBFs and contracts never go back, so that the polygon     *)
(* shards of a PBF grow in the order Leq, and what names or was read from  *)
(* an earlier one is below: a manifest is at most its shard, an asset      *)
(* manifest at most its asset shard, that at most the polygon shard.  What *)
(* is equal at both ends of such a chain is equal in between.              *)
(***************************************************************************)
EXTENDS ShardStore, TLAPS

Leq(p, q) ==
  p.contract < q.contract \/ (p.contract = q.contract /\ p.version <= q.version)

\* The files of a shard.
Chain(s) ==
  /\ data[s] # None => data[s].version <= source[s] /\ data[s].contract <= contract
  /\ manifest[s] # None =>
       data[s] # None /\ Leq(manifest[s].output, data[s]) /\ manifest[s].source <= source[s]
  /\ assets[s] # None => data[s] # None /\ Leq(assets[s].polygon, data[s])
  /\ assetManifest[s] # None =>
       assets[s] # None /\ Leq(assetManifest[s].polygon, assets[s].polygon)

\* A manifest of the present PBF and contract is that of the present shard.
Current(s) ==
  /\ manifest[s] # None
  /\ manifest[s].output.contract = contract /\ manifest[s].source = source[s]
  => data[s].contract = contract /\ data[s].version = source[s]

Files == \A s \in Shards : Chain(s) /\ Current(s)

\* The main thread between its steps: what it hashed, and what it wrote of it.
MainAt ==
  /\ main \in {"build", "record", "skipped", "recorded"} => current \in Shards
  /\ main \in {"build", "record"} =>
       /\ hashed <= source[current]
       /\ manifest[current] # None => manifest[current].source <= hashed
  /\ main = "build" /\ data[current] # None => data[current].version <= hashed
  /\ main = "record" =>
       data[current] # None /\ data[current].contract = contract /\ hashed <= data[current].version
  /\ main \in {"skipped", "recorded"} => manifest[current] # None
  /\ main = "stopped" => worker = "off" /\ jobs = {}

\* The worker reads a shard that is not older than its job.
WorkerAt ==
  /\ \A j \in jobs : data[j.shard] # None /\ Leq(j.polygon, data[j.shard])
  /\ worker \in {"promote", "record"} =>
       /\ job # None /\ read # None /\ data[job.shard] # None
       /\ Leq(job.polygon, read) /\ Leq(read, data[job.shard])
       /\ assets[job.shard] # None => Leq(assets[job.shard].polygon, read)
  /\ worker = "record" => assets[job.shard] # None /\ assets[job.shard].polygon = read

IInv == TypeOK /\ Files /\ MainAt /\ WorkerAt

(***************************************************************************)
(* The order of polygon shards.                                            *)
(***************************************************************************)

LEMMA NumbersLemma == Versions \subseteq Nat /\ Contracts \subseteq Nat /\ 1 \in Versions /\ 1 \in Contracts
BY MaxVersionAssumption, MaxContractAssumption DEF Versions, Contracts

LEMMA PolygonParts ==
  ASSUME NEW p \in Polygons
  PROVE  p.contract \in Contracts /\ p.version \in Versions
         /\ p = [contract |-> p.contract, version |-> p.version]
BY DEF Polygons

LEMMA LeqLemma ==
  ASSUME NEW p \in Polygons, NEW q \in Polygons
  PROVE  /\ Leq(p, p)
         /\ Leq(p, q) /\ Leq(q, p) => p = q
         /\ \A r \in Polygons : Leq(p, q) /\ Leq(q, r) => Leq(p, r)
<1>1. /\ p.contract \in Nat /\ p.version \in Nat /\ q.contract \in Nat /\ q.version \in Nat
  BY PolygonParts, NumbersLemma
<1>2. Leq(p, p)
  BY <1>1 DEF Leq
<1>3. ASSUME Leq(p, q), Leq(q, p) PROVE p = q
  <2>1. p.contract = q.contract /\ p.version = q.version
    BY <1>1, <1>3 DEF Leq
  <2> QED
    BY <2>1, PolygonParts, Zenon
<1>4. ASSUME NEW r \in Polygons, Leq(p, q), Leq(q, r) PROVE Leq(p, r)
  <2>1. r.contract \in Nat /\ r.version \in Nat
    BY PolygonParts, NumbersLemma
  <2> QED
    BY <1>1, <1>4, <2>1 DEF Leq
<1> QED
  BY <1>2, <1>3, <1>4

\* What the types say of the files, when they are there.
LEMMA Types ==
  ASSUME TypeOK
  PROVE  /\ \A s \in Shards : data[s] # None => data[s] \in Polygons
         /\ \A s \in Shards : manifest[s] # None =>
              /\ manifest[s] \in Manifests /\ manifest[s].output \in Polygons
              /\ manifest[s].source \in Versions
         /\ \A s \in Shards : assets[s] # None =>
              assets[s] \in Assets /\ assets[s].polygon \in Polygons
         /\ \A s \in Shards : assetManifest[s] # None =>
              /\ assetManifest[s] \in AssetManifests /\ assetManifest[s].polygon \in Polygons
         /\ \A j \in jobs : j.shard \in Shards /\ j.polygon \in Polygons /\ j \in Jobs
         /\ job # None => job \in Jobs /\ job.shard \in Shards /\ job.polygon \in Polygons
         /\ read # None => read \in Polygons
         /\ \A s \in Shards : source[s] \in Versions
         /\ contract \in Contracts /\ hashed \in Versions
BY DEF TypeOK, OrNone, Manifests, Assets, AssetManifests, Jobs

(***************************************************************************)
(* The initial state.                                                      *)
(***************************************************************************)

LEMMA InitInv == Init => IInv
<1> SUFFICES ASSUME Init PROVE IInv
  OBVIOUS
<1>1. TypeOK
  BY NumbersLemma DEF Init, TypeOK, OrNone, Ended
<1>2. Files /\ MainAt /\ WorkerAt
  BY DEF Init, Files, Chain, Current, MainAt, WorkerAt
<1> QED
  BY <1>1, <1>2 DEF IInv

(***************************************************************************)
(* The steps that write no file.                                           *)
(***************************************************************************)

Kept == TypeOK' /\ Files' /\ MainAt' /\ WorkerAt'

LEMMA FilesKept == ASSUME Files, UNCHANGED <<environment, files>> PROVE Files'
BY DEF Files, Chain, Current, environment, files

\* The end of the process, by itself or by a kill.
LEMMA EndStep ==
  ASSUME IInv, ProcessEnds, UNCHANGED <<environment, files>>,
         failure' \in {"none", "start", "build", "refresh"}
  PROVE  Kept
<1>1. TypeOK'
  BY NumbersLemma DEF IInv, TypeOK, ProcessEnds, environment, files, OrNone, Ended
<1>2. Files'
  BY FilesKept DEF IInv
<1>3. MainAt' /\ WorkerAt'
  BY DEF ProcessEnds, MainAt, WorkerAt
<1> QED
  BY <1>1, <1>2, <1>3 DEF Kept

LEMMA StartRunStep == ASSUME IInv, StartRun PROVE Kept
<1> USE Types DEF IInv
<1>1. Files'
  BY FilesKept DEF StartRun
<1>2. ASSUME NEW s \in Shards, Compatible(s)
      PROVE  /\ [shard |-> s, polygon |-> manifest[s].output, group |-> Artifacts(s)] \in Jobs
             /\ data[s] # None /\ Leq(manifest[s].output, data[s])
  BY <1>2 DEF Compatible, Files, Chain, Jobs, Groups, Artifacts
<1>3. InitialJobs \subseteq Jobs
  BY <1>2 DEF InitialJobs
<1>4. \A j \in InitialJobs : data[j.shard] # None /\ Leq(j.polygon, data[j.shard])
  BY <1>2 DEF InitialJobs
<1>5. TypeOK'
  BY <1>3 DEF StartRun, TypeOK, environment, files
<1>6. MainAt' /\ WorkerAt'
  BY <1>4 DEF StartRun, MainAt, WorkerAt, environment, files
<1> QED
  BY <1>1, <1>5, <1>6 DEF Kept

LEMMA TakeSourceStep == ASSUME IInv, NEW s \in Shards, TakeSource(s) PROVE Kept
<1> USE Types, NumbersLemma DEF IInv
<1>1. Files'
  BY FilesKept DEF TakeSource
<1>2. TypeOK'
  BY DEF TakeSource, FirstStep, TypeOK, environment, files, workerVars, OrNone
<1>3. MainAt'
  <2>1. /\ current' = s /\ s \in Shards
        /\ UNCHANGED <<source, contract, data, manifest, assets, assetManifest, worker, jobs>>
    BY DEF TakeSource, environment, files, workerVars
  <2>2. CASE Reusable(s)
    <3>1. main' = "skipped" /\ manifest[s] # None
      BY <2>2 DEF TakeSource, FirstStep, Reusable, Compatible
    <3> QED
      BY <2>1, <3>1 DEF MainAt
  <2>3. CASE ~Reusable(s)
    <3>1. main' = "build" /\ hashed' = source[s]
      BY <2>3 DEF TakeSource, FirstStep
    <3>2. /\ source[s] <= source[s]
          /\ manifest[s] # None => manifest[s].source <= source[s]
          /\ data[s] # None => data[s].version <= source[s]
      <4>1. source[s] \in Nat /\ Chain(s)
        BY DEF Files
      <4> HIDE Types DEF IInv
      <4> QED
        BY <4>1 DEF Chain
    <3> QED
      BY <2>1, <3>1, <3>2 DEF MainAt
  <2> QED
    BY <2>2, <2>3
<1>4. WorkerAt'
  BY DEF TakeSource, WorkerAt, files, workerVars
<1> QED
  BY <1>1, <1>2, <1>3, <1>4 DEF Kept

LEMMA SubmitStep == ASSUME IInv, Submit PROVE Kept
<1> USE Types DEF IInv
<1> DEFINE new == [shard |-> current, polygon |-> manifest[current].output, group |-> "queued"]
<1>1. Files'
  BY FilesKept DEF Submit
<1>2. current \in Shards /\ manifest[current] # None
  BY DEF Submit, MainAt
<1>3. /\ new \in Jobs /\ new.shard = current /\ data[current] # None
      /\ Leq(new.polygon, data[current])
  BY <1>2 DEF Jobs, Groups, Files, Chain
<1> HIDE DEF new
<1>4. jobs' = jobs \/ jobs' = jobs \cup {new}
  BY DEF Submit, new
<1>5. TypeOK'
  BY <1>2, <1>3, <1>4 DEF Submit, Abort, WorkerError, TypeOK, environment, files
<1>6. MainAt'
  BY DEF Submit, Abort, MainAt, environment, files
<1>7. WorkerAt'
  BY <1>3, <1>4 DEF Submit, WorkerAt, files
<1> QED
  BY <1>1, <1>5, <1>6, <1>7 DEF Kept

\* The other steps of the main thread and of the environment that write nothing.
LEMMA IdleStep ==
  ASSUME IInv, StartRaises \/ BuildRaises \/ WaitUntilPaused \/ Drain \/ StopSignal \/ UNCHANGED vars
  PROVE  Kept
<1> USE DEF IInv
<1>1. UNCHANGED <<environment, files, workerVars, todo, current, hashed>>
  BY DEF StartRaises, BuildRaises, WaitUntilPaused, Drain, StopSignal, vars, mainVars
<1>2. Files'
  BY <1>1, FilesKept
<1>3. WorkerAt'
  BY <1>1 DEF WorkerAt, workerVars, files
<1>4. MainAt'
  BY <1>1
  DEF StartRaises, BuildRaises, WaitUntilPaused, Drain, StopSignal, Abort, vars, MainAt, mainVars,
      workerVars, files, environment
<1>5. /\ main' \in {"stopped", "loop", "build", "record", "skipped", "recorded", "waitPaused",
                     "refresh", "drain", "abort"}
      /\ built' \in BOOLEAN /\ stop' \in BOOLEAN
      /\ failure' \in {"none", "start", "build", "refresh"}
  BY DEF StartRaises, BuildRaises, WaitUntilPaused, Drain, StopSignal, Abort, WorkerError, vars, mainVars,
         TypeOK
<1>6. TypeOK'
  BY <1>1, <1>5 DEF TypeOK, workerVars, files, environment
<1> QED
  BY <1>2, <1>3, <1>4, <1>6 DEF Kept

\* Both ends of a pause.
LEMMA PauseStep == ASSUME IInv, Refresh \/ ClearPaused PROVE Kept
<1> USE DEF IInv
<1>1. /\ UNCHANGED <<environment, files, todo, current, hashed, jobs, seen, job, read, built>>
      /\ worker' \in {worker, "idle", "resumed"}
  BY DEF Refresh, ClearPaused, mainVars
<1>2. Files'
  BY <1>1, FilesKept
<1>3. main # "stopped"
  BY DEF Refresh, ClearPaused, MainAt
<1>4. main' \in {main, "loop", "abort"}
  BY DEF Refresh, ClearPaused, Abort, mainVars
<1>5. MainAt'
  BY <1>1, <1>3, <1>4 DEF MainAt, files, environment
<1>6. WorkerAt'
  BY <1>1 DEF WorkerAt, files
<1>7. stop' \in BOOLEAN /\ failure' \in {"none", "start", "build", "refresh"}
  BY DEF Refresh, ClearPaused, Abort, TypeOK
<1>8. TypeOK'
  BY <1>1, <1>4, <1>7 DEF TypeOK, files, environment
<1> QED
  BY <1>2, <1>5, <1>6, <1>8 DEF Kept

LEMMA JobStep ==
  ASSUME IInv, NEW j \in jobs, SkipAsset(j) \/ ReadPolygons(j) \/ LeavePending(j) PROVE Kept
<1> USE Types DEF IInv
<1>1. UNCHANGED <<environment, files, mainVars, seen, built, stop, failure>> /\ jobs' = jobs \ {j}
  BY DEF SkipAsset, ReadPolygons, LeavePending
<1>2. Files'
  BY <1>1, FilesKept
<1>3. worker = "idle"
  BY DEF SkipAsset, ReadPolygons, LeavePending
<1>4. MainAt'
  BY <1>1, <1>3 DEF MainAt, mainVars, files, environment
<1>5. CASE SkipAsset(j) \/ LeavePending(j)
  <2>1. UNCHANGED <<job, read>> /\ worker' \in {"idle", "paused"}
    BY <1>5 DEF SkipAsset, LeavePending, AfterJob
  <2>2. TypeOK'
    BY <1>1, <2>1 DEF TypeOK, environment, files, mainVars
  <2>3. WorkerAt'
    BY <1>1, <2>1 DEF WorkerAt, files
  <2> QED
    BY <1>2, <1>4, <2>2, <2>3 DEF Kept
<1>6. CASE ReadPolygons(j)
  <2>1. j \in Jobs /\ j.shard \in Shards /\ data[j.shard] \in Polygons /\ Leq(j.polygon, data[j.shard])
    BY DEF WorkerAt
  <2>2. job' = j /\ read' = data[j.shard] /\ worker' = "promote"
    BY <1>6 DEF ReadPolygons
  <2>3. TypeOK'
    BY <1>1, <2>1, <2>2 DEF TypeOK, environment, files, mainVars, OrNone
  <2>4. WorkerAt'
    <3>1. Leq(data[j.shard], data[j.shard]) /\ j # None /\ data[j.shard] # None
      BY <2>1, LeqLemma, NoneAssumption
    <3>2. assets[j.shard] # None => Leq(assets[j.shard].polygon, data[j.shard])
      BY <2>1 DEF Files, Chain
    <3> QED
      BY <1>1, <2>1, <2>2, <3>1, <3>2 DEF WorkerAt, files
  <2> QED
    BY <1>2, <1>4, <2>3, <2>4 DEF Kept
<1> QED
  BY <1>5, <1>6

LEMMA WorkerRefreshStep == ASSUME IInv, WorkerRefresh \/ WorkerRaises PROVE Kept
<1> USE DEF IInv
<1>1. Files'
  BY FilesKept DEF WorkerRefresh, WorkerRaises
<1>2. TypeOK'
  BY DEF WorkerRefresh, WorkerRaises, AfterJob, TypeOK, environment, files, mainVars, Ended, OrNone
<1>3. MainAt' /\ WorkerAt'
  BY DEF WorkerRefresh, WorkerRaises, AfterJob, MainAt, WorkerAt, environment, files, mainVars
<1> QED
  BY <1>1, <1>2, <1>3 DEF Kept

(***************************************************************************)
(* The steps that write a file or change what files are compared with.     *)
(***************************************************************************)

\* The rows of a shard grow, since no PBF and no contract goes back.
LEMMA PromoteDataStep == ASSUME IInv, PromoteData PROVE Kept
<1> USE Types DEF IInv
<1> DEFINE s == current
<1>1. PICK v \in hashed..source[s] :
        data' = [data EXCEPT ![s] = [contract |-> contract, version |-> v]]
  BY DEF PromoteData
<1> DEFINE new == [contract |-> contract, version |-> v]
<1>2. /\ main = "build" /\ main' = "record" /\ s \in Shards
      /\ UNCHANGED <<source, contract, due, manifest, assets, assetManifest, todo, current, hashed,
                     worker, jobs, seen, job, read, built, stop, failure>>
  BY DEF PromoteData, MainAt, environment, workerVars
<1>3. /\ source[s] \in Versions /\ hashed \in Versions /\ contract \in Contracts
      /\ v \in Versions /\ hashed <= v /\ v <= source[s]
  <2>1. source[s] \in 1..MaxVersion /\ hashed \in 1..MaxVersion /\ MaxVersion \in Nat
    BY <1>2, MaxVersionAssumption DEF Versions
  <2> QED
    BY <1>2, <2>1 DEF Versions
<1>4. new \in Polygons /\ new # None
  BY <1>3, NoneAssumption DEF Polygons
<1>5. data'[s] = new /\ \A t \in Shards \ {s} : data'[t] = data[t]
  BY <1>1, <1>2 DEF TypeOK
<1>6. data[s] # None => Leq(data[s], new)
  <2> SUFFICES ASSUME data[s] # None PROVE Leq(data[s], new)
    OBVIOUS
  <2>1. data[s] \in Polygons /\ data[s].contract <= contract /\ data[s].version <= hashed
    BY <1>2 DEF Files, Chain, MainAt
  <2>2. /\ data[s].contract \in Nat /\ data[s].version \in Nat /\ contract \in Nat
        /\ hashed \in Nat /\ v \in Nat
    BY <1>3, <2>1, PolygonParts, NumbersLemma
  <2> HIDE Types DEF IInv
  <2> QED
    BY <1>3, <2>1, <2>2 DEF Leq
<1> HIDE DEF s
<1>7. \A t \in Shards, p \in Polygons :
        data[t] # None /\ Leq(p, data[t]) => data'[t] # None /\ Leq(p, data'[t])
  <2> SUFFICES ASSUME NEW t \in Shards, NEW p \in Polygons, data[t] # None, Leq(p, data[t])
               PROVE  data'[t] # None /\ Leq(p, data'[t])
    OBVIOUS
  <2>1. CASE t = s
    <3>1. data[s] \in Polygons
      BY <1>2, <2>1
    <3> QED
      BY <1>4, <1>5, <1>6, <2>1, <3>1, LeqLemma
  <2>2. CASE t # s
    BY <1>5, <2>2
  <2> QED
    BY <2>1, <2>2
<1>8. TypeOK'
  BY <1>1, <1>2, <1>4 DEF TypeOK, OrNone, s
<1>9. ASSUME NEW t \in Shards PROVE Chain(t)'
  <2>1. Chain(t)
    BY DEF Files
  <2>2. data'[t] # None => data'[t].version <= source[t] /\ data'[t].contract <= contract
    BY <1>3, <1>5, <2>1, NumbersLemma DEF Chain
  <2>3. manifest[t] # None =>
          data'[t] # None /\ Leq(manifest[t].output, data'[t]) /\ manifest[t].source <= source[t]
    BY <1>7, <2>1 DEF Chain
  <2>4. assets[t] # None => data'[t] # None /\ Leq(assets[t].polygon, data'[t])
    BY <1>7, <2>1 DEF Chain
  <2> HIDE Types DEF IInv
  <2> QED
    BY <1>2, <2>1, <2>2, <2>3, <2>4 DEF Chain
<1>10. ASSUME NEW t \in Shards PROVE Current(t)'
  <2>1. Current(t)
    BY DEF Files
  <2>2. CASE t = s
    <3> SUFFICES ASSUME manifest[s] # None, manifest[s].source = source[s]
                 PROVE  v = source[s]
      BY <1>2, <1>5, <2>2 DEF Current
    <3>1. manifest[s].source <= hashed
      BY <1>2 DEF MainAt, s
    <3>2. hashed \in Nat /\ v \in Nat /\ source[s] \in Nat
      BY <1>3, NumbersLemma
    <3> HIDE Types DEF IInv
    <3> QED
      BY <1>3, <3>1, <3>2
  <2>3. CASE t # s
    BY <1>2, <1>5, <2>1, <2>3 DEF Current
  <2> QED
    BY <2>2, <2>3
<1>11. MainAt'
  BY <1>2, <1>3, <1>4, <1>5 DEF MainAt, s
<1>12. WorkerAt'
  <2>1. \A j \in jobs : data'[j.shard] # None /\ Leq(j.polygon, data'[j.shard])
    BY <1>7 DEF WorkerAt
  <2>2. worker \in {"promote", "record"} =>
          /\ job # None /\ read # None /\ data'[job.shard] # None
          /\ Leq(job.polygon, read) /\ Leq(read, data'[job.shard])
          /\ assets[job.shard] # None => Leq(assets[job.shard].polygon, read)
    BY <1>7 DEF WorkerAt
  <2> QED
    BY <1>2, <2>1, <2>2 DEF WorkerAt
<1> QED
  BY <1>8, <1>9, <1>10, <1>11, <1>12 DEF Kept, Files

\* The manifest names the shard that was just written, under the hashed PBF.
LEMMA RecordManifestStep == ASSUME IInv, RecordManifest PROVE Kept
<1> USE Types DEF IInv
<1> DEFINE s == current
<1> DEFINE new == [source |-> hashed, output |-> data[s]]
<1>1. /\ main = "record" /\ main' = "recorded" /\ s \in Shards
      /\ manifest' = [manifest EXCEPT ![s] = new] /\ built' = TRUE
      /\ UNCHANGED <<source, contract, due, data, assets, assetManifest, todo, current, hashed,
                     worker, jobs, seen, job, read, stop, failure>>
  BY DEF RecordManifest, SourceRecorded, MainAt, environment, workerVars
<1>2. /\ data[s] \in Polygons /\ data[s] # None /\ data[s].contract = contract
      /\ hashed <= source[s] /\ hashed <= data[s].version /\ data[s].version <= source[s]
  BY <1>1 DEF MainAt, Files, Chain
<1>3. new \in Manifests /\ new # None
  BY <1>2, NoneAssumption DEF Manifests
<1>4. manifest'[s] = new /\ \A t \in Shards \ {s} : manifest'[t] = manifest[t]
  BY <1>1 DEF TypeOK
<1>5. TypeOK'
  BY <1>1, <1>3 DEF TypeOK, OrNone
<1>6. ASSUME NEW t \in Shards PROVE Chain(t)'
  <2>1. Chain(t)
    BY DEF Files
  <2>2. CASE t = s
    <3>1. Leq(data[s], data[s])
      BY <1>2, LeqLemma
    <3> HIDE Types DEF IInv
    <3> QED
      BY <1>1, <1>2, <1>4, <2>1, <2>2, <3>1 DEF Chain
  <2>3. CASE t # s
    BY <1>1, <1>4, <2>1, <2>3 DEF Chain
  <2> QED
    BY <2>2, <2>3
<1>7. ASSUME NEW t \in Shards PROVE Current(t)'
  <2>1. Current(t)
    BY DEF Files
  <2>2. CASE t = s
    <3> SUFFICES ASSUME hashed = source[s] PROVE data[s].version = source[s]
      BY <1>1, <1>2, <1>4, <2>2 DEF Current
    <3>1. data[s].version \in Nat /\ source[s] \in Nat
      BY <1>1, <1>2, PolygonParts, NumbersLemma
    <3> QED
      BY <1>2, <3>1
  <2>3. CASE t # s
    BY <1>1, <1>4, <2>1, <2>3 DEF Current
  <2> QED
    BY <2>2, <2>3
<1>8. MainAt' /\ WorkerAt'
  BY <1>1, <1>3, <1>4 DEF MainAt, WorkerAt
<1> QED
  BY <1>5, <1>6, <1>7, <1>8 DEF Kept, Files

\* The asset shard is at least as new as the one before, and its shard newer.
LEMMA PromoteAssetStep == ASSUME IInv, PromoteAsset PROVE Kept
<1> USE Types DEF IInv
<1> DEFINE s == job.shard
<1>1. /\ worker = "promote" /\ s \in Shards /\ read \in Polygons
      /\ job \in Jobs /\ data[s] # None /\ Leq(job.polygon, read) /\ Leq(read, data[s])
      /\ assets[s] # None => Leq(assets[s].polygon, read)
      /\ job # None /\ read # None
  BY DEF PromoteAsset, WorkerAt
<1>2. UNCHANGED <<source, contract, data, manifest, assetManifest, main, todo, current, hashed,
                  jobs, seen, read, built, stop, failure>>
  BY DEF PromoteAsset, mainVars
<1>3. due' \in SUBSET Expiring
  BY DEF PromoteAsset, TypeOK
<1>4. CASE assets' = assets /\ job' = None /\ worker' \in {"idle", "paused"}
  <2>1. TypeOK'
    BY <1>2, <1>3, <1>4 DEF TypeOK, OrNone, Ended
  <2>2. Files'
    BY <1>2, <1>4 DEF Files, Chain, Current
  <2>3. MainAt' /\ WorkerAt'
    BY <1>1, <1>2, <1>4 DEF MainAt, WorkerAt
  <2> QED
    BY <2>1, <2>2, <2>3 DEF Kept
<1>5. CASE /\ \E e \in Epochs : assets' = [assets EXCEPT ![s] = [polygon |-> read, epoch |-> e]]
           /\ worker' = "record" /\ job' = job
  <2>1. PICK e \in Epochs : assets' = [assets EXCEPT ![s] = [polygon |-> read, epoch |-> e]]
    BY <1>5
  <2> DEFINE new == [polygon |-> read, epoch |-> e]
  <2>2. new \in Assets /\ new # None /\ new.polygon = read
    BY <1>1, NoneAssumption DEF Assets
  <2>3. assets'[s] = new /\ \A t \in Shards \ {s} : assets'[t] = assets[t]
    BY <1>1, <2>1 DEF TypeOK
  <2> HIDE DEF new
  <2>4. TypeOK'
    <3>1. assets' \in [Shards -> OrNone(Assets)]
      BY <1>1, <2>1, <2>2 DEF TypeOK, OrNone, new
    <3> QED
      BY <1>2, <1>3, <1>5, <3>1 DEF TypeOK
  <2>5. ASSUME NEW t \in Shards PROVE Chain(t)' /\ Current(t)'
    <3>1. Chain(t) /\ Current(t)
      BY DEF Files
    <3>2. Current(t)'
      BY <1>2, <3>1 DEF Current
    <3>3. CASE t = s
      <4>1. assetManifest[s] # None => Leq(assetManifest[s].polygon, read)
        <5> SUFFICES ASSUME assetManifest[s] # None PROVE Leq(assetManifest[s].polygon, read)
          OBVIOUS
        <5>1. /\ assets[s] # None /\ assets[s].polygon \in Polygons
              /\ assetManifest[s].polygon \in Polygons
              /\ Leq(assetManifest[s].polygon, assets[s].polygon)
          BY <1>1, <3>1, <3>3 DEF Chain
        <5> QED
          BY <1>1, <5>1, LeqLemma
      <4> HIDE Types DEF IInv
      <4>2. Chain(t)'
        BY <1>1, <1>2, <2>2, <2>3, <3>1, <3>3, <4>1 DEF Chain
      <4> QED
        BY <3>2, <4>2
    <3>4. CASE t # s
      <4>1. Chain(t)'
        BY <1>2, <2>3, <3>1, <3>4 DEF Chain
      <4> QED
        BY <3>2, <4>1
    <3> QED
      BY <3>3, <3>4
  <2>6. MainAt'
    BY <1>1, <1>2 DEF MainAt
  <2>7. WorkerAt'
    <3>1. Leq(read, read)
      BY <1>1, LeqLemma
    <3>2. \A j \in jobs' : data'[j.shard] # None /\ Leq(j.polygon, data'[j.shard])
      BY <1>2 DEF WorkerAt
    <3>3. /\ job' # None /\ read' # None /\ data'[job'.shard] # None
          /\ Leq(job'.polygon, read') /\ Leq(read', data'[job'.shard])
      BY <1>1, <1>2, <1>5
    <3>4. assets'[job'.shard] # None /\ assets'[job'.shard].polygon = read'
      BY <1>2, <1>5, <2>2, <2>3
    <3> HIDE Types DEF IInv, s
    <3>5. Leq(assets'[job'.shard].polygon, read')
      BY <1>2, <3>1, <3>4
    <3> QED
      BY <3>2, <3>3, <3>4, <3>5 DEF WorkerAt
  <2> QED
    BY <2>4, <2>5, <2>6, <2>7 DEF Kept, Files
<1>6. Answers(s) \subseteq Epochs
  BY EpochsAssumption DEF Answers
<1>7. \/ /\ \E e \in Answers(s) : assets' = [assets EXCEPT ![s] = [polygon |-> read, epoch |-> e]]
         /\ worker' = "record" /\ job' = job
      \/ assets' = assets /\ job' = None /\ worker' \in {"idle", "paused"}
  BY DEF PromoteAsset, AfterJob
<1> QED
  BY <1>4, <1>5, <1>6, <1>7

\* The asset manifest names the job's polygon shard: no later one than was read.
LEMMA RecordAssetStep == ASSUME IInv, RecordAsset PROVE Kept
<1> USE Types DEF IInv
<1> DEFINE s == job.shard
<1> DEFINE new == [polygon |-> job.polygon, output |-> assets[s]]
<1>1. /\ worker = "record" /\ s \in Shards /\ job.polygon \in Polygons
      /\ assets[s] # None /\ assets[s] \in Assets /\ assets[s].polygon = read
      /\ Leq(job.polygon, read)
  BY DEF RecordAsset, WorkerAt
<1>2. /\ assetManifest' = [assetManifest EXCEPT ![s] = new]
      /\ built' = TRUE /\ worker' = "refresh" /\ job' = None
      /\ UNCHANGED <<source, contract, due, data, manifest, assets, main, todo, current, hashed,
                     jobs, seen, read, stop, failure>>
  BY DEF RecordAsset, Label, environment, mainVars
<1>3. new \in AssetManifests /\ new.polygon = job.polygon
  BY <1>1 DEF AssetManifests
<1>4. assetManifest'[s] = new /\ \A t \in Shards \ {s} : assetManifest'[t] = assetManifest[t]
  BY <1>1, <1>2 DEF TypeOK
<1> HIDE DEF new
<1>5. TypeOK'
  <2>1. assetManifest' \in [Shards -> OrNone(AssetManifests)]
    BY <1>1, <1>2, <1>3 DEF TypeOK, OrNone
  <2> QED
    BY <1>2, <2>1 DEF TypeOK, OrNone
<1>6. ASSUME NEW t \in Shards PROVE Chain(t)' /\ Current(t)'
  <2>1. Chain(t) /\ Current(t)
    BY DEF Files
  <2>2. Current(t)'
    BY <1>2, <2>1 DEF Current
  <2>3. assetManifest'[t] # None =>
          assets[t] # None /\ Leq(assetManifest'[t].polygon, assets[t].polygon)
    BY <1>1, <1>3, <1>4, <2>1 DEF Chain
  <2> HIDE Types DEF IInv
  <2>4. Chain(t)'
    BY <1>2, <2>1, <2>3 DEF Chain
  <2> QED
    BY <2>2, <2>4
<1>7. MainAt' /\ WorkerAt'
  BY <1>1, <1>2 DEF MainAt, WorkerAt
<1> QED
  BY <1>5, <1>6, <1>7 DEF Kept, Files

\* A newer PBF is no manifest's.
LEMMA SourceChangesStep == ASSUME IInv, NEW s \in Shards, SourceChanges(s) PROVE Kept
<1> USE Types, NumbersLemma DEF IInv
<1>1. /\ source[s] < MaxVersion /\ source' = [source EXCEPT ![s] = source[s] + 1]
      /\ UNCHANGED <<contract, due, data, manifest, assets, assetManifest, main, todo, current,
                     hashed, worker, jobs, seen, job, read, built, stop, failure>>
  BY DEF SourceChanges, files, mainVars, workerVars
<1>2. /\ source'[s] = source[s] + 1 /\ \A t \in Shards \ {s} : source'[t] = source[t]
      /\ source[s] + 1 \in Versions
  <2>1. source[s] \in 1..MaxVersion /\ MaxVersion \in Nat
    BY MaxVersionAssumption DEF Versions
  <2> QED
    BY <1>1, <2>1 DEF TypeOK, Versions
<1>3. \A t \in Shards : source[t] \in Nat /\ source'[t] \in Nat /\ source[t] <= source'[t]
  <2> SUFFICES ASSUME NEW t \in Shards
               PROVE  source[t] \in Nat /\ source'[t] \in Nat /\ source[t] <= source'[t]
    OBVIOUS
  <2>1. source[t] \in Nat /\ source[s] \in Nat
    OBVIOUS
  <2>2. source'[t] = source[t] \/ source'[t] = source[t] + 1
    BY <1>2
  <2> HIDE Types, NumbersLemma DEF IInv
  <2> QED
    BY <2>1, <2>2
<1>4. TypeOK'
  BY <1>1, <1>2 DEF TypeOK
<1>5. ASSUME NEW t \in Shards PROVE Chain(t)' /\ Current(t)'
  <2>1. Chain(t) /\ Current(t)
    BY DEF Files
  <2>2. /\ data[t] # None => data[t].version \in Nat
        /\ manifest[t] # None => manifest[t].source \in Nat
    BY PolygonParts
  <2>3. Chain(t)'
    <3> HIDE Types, NumbersLemma DEF IInv
    <3> QED
      BY <1>1, <1>3, <2>1, <2>2 DEF Chain
  <2>4. CASE t = s
    <3>1. manifest[t] # None => manifest[t].source # source'[t]
      BY <1>2, <1>3, <2>1, <2>2, <2>4 DEF Chain
    <3> QED
      BY <1>1, <2>3, <3>1 DEF Current
  <2>5. CASE t # s
    BY <1>1, <1>2, <2>1, <2>3, <2>5 DEF Current
  <2> QED
    BY <2>4, <2>5
<1>6. MainAt'
  <2>1. main \in {"build", "record"} => hashed \in Nat /\ hashed <= source'[current]
    <3>1. hashed \in Nat
      OBVIOUS
    <3>2. main \in {"build", "record"} => current \in Shards /\ hashed <= source[current]
      BY DEF MainAt
    <3> HIDE Types, NumbersLemma DEF IInv
    <3> QED
      BY <1>3, <3>1, <3>2
  <2> HIDE Types, NumbersLemma
  <2> QED
    BY <1>1, <2>1 DEF MainAt
<1>7. WorkerAt'
  BY <1>1 DEF WorkerAt
<1> QED
  BY <1>4, <1>5, <1>6, <1>7 DEF Kept, Files

LEMMA RowsFallDueStep == ASSUME IInv, NEW s \in Shards, RowsFallDue(s) PROVE Kept
<1> USE DEF IInv
<1>1. /\ s \in Expiring /\ due' = due \cup {s}
      /\ UNCHANGED <<source, contract, data, manifest, assets, assetManifest, main, todo, current,
                     hashed, worker, jobs, seen, job, read, built, stop, failure>>
  BY DEF RowsFallDue, files, mainVars, workerVars
<1>2. TypeOK'
  BY <1>1 DEF TypeOK
<1>3. Files' /\ MainAt' /\ WorkerAt'
  BY <1>1 DEF Files, Chain, Current, MainAt, WorkerAt
<1> QED
  BY <1>2, <1>3 DEF Kept

\* A newer contract is no manifest's, and nothing runs while it comes.
LEMMA UpgradeStep == ASSUME IInv, Upgrade PROVE Kept
<1> USE Types, NumbersLemma DEF IInv
<1>1. /\ main = "stopped" /\ contract' = contract + 1 /\ contract < MaxContract
      /\ UNCHANGED <<source, due, data, manifest, assets, assetManifest, main, todo, current,
                     hashed, worker, jobs, seen, job, read, built, stop, failure>>
  BY DEF Upgrade, files, mainVars, workerVars
<1>2. contract \in Nat /\ contract + 1 \in Contracts
  <2>1. contract \in 1..MaxContract /\ MaxContract \in Nat
    BY MaxContractAssumption DEF Contracts
  <2> QED
    BY <1>1, <2>1 DEF Contracts
<1>3. TypeOK'
  BY <1>1, <1>2 DEF TypeOK
<1>4. ASSUME NEW t \in Shards PROVE Chain(t)' /\ Current(t)'
  <2>1. Chain(t)
    BY DEF Files
  <2>2. data[t] # None => data[t].contract \in Nat
    BY PolygonParts
  <2>3. manifest[t] # None => manifest[t].output.contract # contract'
    <3> SUFFICES ASSUME manifest[t] # None PROVE manifest[t].output.contract # contract'
      OBVIOUS
    <3>1. manifest[t].output \in Polygons /\ data[t] # None /\ Leq(manifest[t].output, data[t])
          /\ data[t].contract <= contract
      BY <2>1 DEF Chain
    <3>2. manifest[t].output.contract \in Nat
      BY <3>1, PolygonParts
    <3> HIDE Types, NumbersLemma DEF IInv
    <3> QED
      BY <1>1, <1>2, <2>2, <3>1, <3>2 DEF Leq
  <2> HIDE Types, NumbersLemma DEF IInv
  <2>4. Chain(t)'
    BY <1>1, <1>2, <2>1, <2>2 DEF Chain
  <2> QED
    BY <1>1, <2>3, <2>4 DEF Current
<1>5. MainAt' /\ WorkerAt'
  BY <1>1 DEF MainAt, WorkerAt
<1> QED
  BY <1>3, <1>4, <1>5 DEF Kept, Files

(***************************************************************************)
(* All steps, and what follows.                                            *)
(***************************************************************************)

LEMMA NextInv == IInv /\ [Next]_vars => IInv'
<1> SUFFICES ASSUME IInv, [Next]_vars PROVE Kept
  BY DEF Kept, IInv
<1>1. CASE Main
  <2>1. CASE EndRun
    <3>1. failure \in {"none", "start", "build", "refresh"}
      BY DEF IInv, TypeOK
    <3> QED
      BY <2>1, <3>1, EndStep DEF EndRun, WorkerError
  <2>2. CASE WaitUntilPaused \/ Drain \/ BuildRaises
    BY <2>2, IdleStep, Zenon
  <2> QED
    BY <1>1, <2>1, <2>2, StartRunStep, TakeSourceStep, PromoteDataStep, RecordManifestStep,
       SubmitStep, PauseStep, Zenon DEF Main
<1>2. CASE Worker
  BY <1>2, JobStep, PromoteAssetStep, RecordAssetStep, WorkerRefreshStep, PauseStep, Zenon DEF Worker
<1>3. CASE Environment
  <2>1. CASE Crash
    BY <2>1, EndStep DEF Crash
  <2>2. CASE StopSignal
    BY <2>2, IdleStep, Zenon
  <2> QED
    BY <1>3, <2>1, <2>2, SourceChangesStep, RowsFallDueStep, UpgradeStep, Zenon DEF Environment
<1>4. CASE StartRaises \/ UNCHANGED vars
  BY <1>4, IdleStep, Zenon
<1> QED
  BY <1>1, <1>2, <1>3, <1>4, Zenon DEF Next

\* The inductive invariant holds in every state.
THEOREM InvariantHolds == Spec => []IInv
<1> QED
  BY InitInv, NextInv, PTL DEF Spec

\* Every file, job and step is of its kind in every state of every run.
THEOREM TypeCorrect == Spec => []TypeOK
<1>1. IInv => TypeOK
  BY DEF IInv
<1> QED
  BY <1>1, InvariantHolds, PTL

\* What build_one reuses without looking into it holds the rows of the present
\* PBF under the present contract, for any sizes of the files.
THEOREM ReuseCorrect == Spec => []ReuseIsCurrent
<1>1. IInv => ReuseIsCurrent
  <2> SUFFICES ASSUME IInv, NEW s \in Shards, Reusable(s)
               PROVE  data[s] = [contract |-> contract, version |-> source[s]]
    BY DEF ReuseIsCurrent
  <2>1. Chain(s) /\ Current(s)
    BY DEF IInv, Files
  <2>2. /\ data[s] # None /\ data[s].contract = contract /\ data[s].version = source[s]
    BY <2>1 DEF Chain, Current, Reusable, Compatible
  <2>3. data[s] \in Polygons
    BY <2>2, Types DEF IInv
  <2>4. data[s] = [contract |-> data[s].contract, version |-> data[s].version]
    BY <2>3, PolygonParts, Zenon
  <2> QED
    BY <2>2, <2>4
<1> QED
  BY <1>1, InvariantHolds, PTL

\* An asset shard whose manifest names the finalized polygon shard was built
\* from the rows of that shard, though _build_asset_shard reads whatever file
\* is there and names the one its job was made of.
THEOREM AssetsCorrect == Spec => []AssetsOfTheirPolygons
<1>1. IInv => AssetsOfTheirPolygons
  <2> SUFFICES ASSUME IInv, NEW s \in Shards,
                      manifest[s] # None, assetManifest[s] # None,
                      data[s] = manifest[s].output,
                      assetManifest[s].polygon = manifest[s].output
               PROVE  assets[s].polygon = data[s]
    BY DEF AssetsOfTheirPolygons
  <2>1. Chain(s)
    BY DEF IInv, Files
  <2>2. /\ assets[s] # None /\ data[s] # None /\ Leq(assets[s].polygon, data[s])
        /\ Leq(data[s], assets[s].polygon)
    BY <2>1 DEF Chain
  <2>3. assets[s].polygon \in Polygons /\ data[s] \in Polygons
    BY <2>2, Types DEF IInv
  <2> QED
    BY <2>2, <2>3, LeqLemma
<1> QED
  BY <1>1, InvariantHolds, PTL
=============================================================================
