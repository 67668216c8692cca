--------------------------- MODULE ExtractionProofs ---------------------------
(***************************************************************************)
(* What TLAPS proves of Extraction: for any sources, batch and pipe sizes, *)
(* any files of others and any number of kills, the temporary files of an  *)
(* earlier process are gone once a run has started, an inventory meets one *)
(* of the same process only after a pause that was not asked for in time,  *)
(* files of others stay, and a shard that is promoted is what its source   *)
(* is worth.                                                               *)
(*                                                                         *)
(* The argument: a temporary file is open only under who may write it      *)
(* (Owners), a worker that is paused has none (Pausing), a run begins by   *)
(* removing the siblings that nobody has open.  What the lines taken from  *)
(* osmium make is what is written and what is in the generators, in the    *)
(* order of the lines (Accounted).                                         *)
(***************************************************************************)
EXTENDS Extraction, SequenceTheorems, WellFoundedInduction, TLAPS

Runs == {"stopped", "running", "ending", "final"}
Locks == {"free", "build", "refresh", "own"}
BuildSteps == {"scan", "export", "close", "manifest"}

Files ==
  /\ files \subseteq PipelineTemps \cup {Final(f) : f \in PipelineTemps} \cup Foreign
  /\ open \subseteq files \cap PipelineTemps

\* What the build has open at each of its steps.
BuildOpens ==
  CASE step = "scan" -> {TagStore, TagStoreJournal}
    [] step = "export" -> {TagStore, ShardTemp}
    [] step = "close" -> {TagStore}
    [] step = "manifest" -> {ManifestTemp}
    [] OTHER -> {}

\* Who has what open, and what the lock says of it.
Owners ==
  /\ run \in Runs /\ lock \in Locks /\ step \in {"idle"} \cup BuildSteps
  /\ run = "stopped" => open = {} /\ lock = "free" /\ step = "idle" /\ asked = FALSE
  /\ (lock = "build") <=> (step # "idle")
  /\ open \cap BuildTemps \subseteq BuildOpens
  /\ ~ Refreshing => open \cap ReportTemps = {}

\* A refresh of the main thread is its last one, or the worker waits, or its
\* pause was there before it was asked for.  A worker that does not run, waits
\* or refreshes has nothing open.
Pausing ==
  /\ asked \in BOOLEAN /\ stale \in BOOLEAN /\ worker \in {"free", "waiting", "released"}
  /\ asked => run \in {"running", "ending"}
  /\ asked /\ ~ stale => worker # "released"
  /\ lock = "refresh" => run = "final" \/ (asked /\ (stale \/ worker = "waiting"))
  /\ lock = "own" \/ worker # "free" \/ run \in {"final", "stopped"} => open \cap AssetTemps = {}

\* While an inventory has refused something.
Refusing ==
  refused # {} =>
    /\ Refreshing /\ open \subseteq AssetTemps
    /\ open # {} => lock = "refresh" /\ stale /\ asked

Pipes ==
  /\ err \in 0..PipeSize
  /\ \E S : out \in Seq(S)
  /\ Len(out) <= PipeSize

IInv == Files /\ Owners /\ Pausing /\ Refusing /\ Pipes /\ SiblingsSwept

(***************************************************************************)
(* The names of temporary files.                                           *)
(***************************************************************************)

\* Which writer a file belongs to is seen from its directory and target.
LEMMA Kinds ==
  /\ PipelineTemps = BuildTemps \cup AssetTemps \cup ReportTemps
  /\ BuildTemps \cap AssetTemps = {} /\ BuildTemps \cap ReportTemps = {}
  /\ AssetTemps \cap ReportTemps = {}
<1> USE DEF TagStore, TagStoreJournal, ShardTemp, ManifestTemp, Temp, File
<1>1. \A f \in BuildTemps : f.dir \in {"tmp", "data", "manifests"}
  BY DEF BuildTemps
<1>2. \A f \in AssetTemps : f.dir \in {"assets", "asset-manifests"} /\ f.target # ".png"
  BY DEF AssetTemps
<1>3. \A f \in ReportTemps : \/ f.dir \in {"public", "cache", "root", "statistics", "receipts"}
                             \/ f.dir = "assets" /\ f.target = ".png"
  BY DEF ReportTemps
<1>4. PipelineTemps = BuildTemps \cup AssetTemps \cup ReportTemps
  BY DEF PipelineTemps, BuildTemps
<1> QED
  BY <1>1, <1>2, <1>3, <1>4

\* A file with a final name is no temporary file.
LEMMA FinalLemma == ASSUME NEW f PROVE Final(f) \notin PipelineTemps
<1>1. \A g \in PipelineTemps : g.form # "final"
  BY DEF PipelineTemps, AssetTemps, ReportTemps, TagStore, TagStoreJournal,
         ShardTemp, ManifestTemp, Temp, File
<1>2. Final(f).form = "final"
  BY DEF Final, File
<1> QED
  BY <1>1, <1>2

LEMMA SiblingsAreOwned == \A f \in Siblings : f \in PipelineTemps /\ IsOwned(f)
BY DEF Siblings, ParquetOrManifest, IsOwned, AtomicLocations, PipelineTemps, AssetTemps,
       ReportTemps, TagStore, TagStoreJournal, ShardTemp, ManifestTemp, Temp, File

\* cleanup_stale_temps removes only files with the names the code writes.
LEMMA OwnedAreWritten ==
  ASSUME NEW f, f = File(f.dir, f.form, f.target), IsOwned(f)
  PROVE  f \in PipelineTemps
BY DEF IsOwned, AtomicLocations, PipelineTemps, AssetTemps, ReportTemps, TagStore,
       TagStoreJournal, ShardTemp, ManifestTemp, Temp, File

(***************************************************************************)
(* What a step does to the files.                                          *)
(***************************************************************************)

TempStep ==
  \/ \E fs \in SUBSET PipelineTemps : Opens(fs) \/ Removes(fs)
  \/ \E f \in PipelineTemps : Promotes(f)

LEMMA FileStep == [Next]_vars => TempStep \/ UNCHANGED root \/ Start \/ Kill
<1> SUFFICES ASSUME [Next]_vars PROVE TempStep \/ UNCHANGED root \/ Start \/ Kill
  OBVIOUS
<1> USE Kinds
<1>1. {TagStore, TagStoreJournal, ShardTemp, ManifestTemp} \subseteq PipelineTemps
  BY DEF PipelineTemps
<1>2. ASSUME NEW s \in Sources, Build(s) PROVE TempStep
  BY <1>1, <1>2 DEF Build, Starts, TempStep
<1>3. CASE Main
  <2>1. CASE AddMany \/ Export \/ OpenManifest
    BY <1>1, <2>1 DEF AddMany, Export, OpenManifest, TempStep
  <2>2. CASE Flush \/ CloseStore \/ Fail
    BY <1>1, <2>2 DEF Flush, CloseStore, Fail, Raises, TempStep
  <2>3. CASE Promote \/ WriteManifest
    BY <1>1, <2>3 DEF Promote, WriteManifest, TempStep
  <2>4. CASE Scan \/ Read \/ Restore \/ Transform
    BY <2>4 DEF Scan, Read, Restore, Transform, root
  <2> QED
    BY <1>3, <2>1, <2>2, <2>3, <2>4 DEF Main
<1>4. CASE Osmium \/ Crash \/ Drain
  BY <1>4 DEF Osmium, WriteLine, WriteMessage, Finish, Crash, Drain, Inside
<1>5. CASE Jobs
  BY <1>5 DEF Jobs, CloseAsset, TempStep
<1>6. CASE Beside
  <2>1. CASE Join \/ Stop \/ Pause \/ Wake \/ Checkpoint
    BY <2>1 DEF Join, Stop, Pause, Wake, Checkpoint
  <2>4. CASE Refresh \/ OwnRefresh \/ Inventory \/ EndRefresh
    BY <2>4 DEF Refresh, OwnRefresh, Inventory, EndRefresh
  <2>2. ASSUME NEW f \in AssetJobs, OpenAsset(f) PROVE TempStep
    BY <2>2, JobsAssumption DEF OpenAsset, TempStep
  <2>3. ASSUME NEW f \in Reports, OpenReport(f) \/ CloseReport(f) PROVE TempStep
    BY <2>3, JobsAssumption DEF OpenReport, CloseReport, TempStep
  <2> QED
    BY <1>6, <2>1, <2>2, <2>3, <2>4 DEF Beside
<1>7. CASE UNCHANGED vars
  BY <1>7 DEF vars
<1>8. CASE Raises
  BY <1>1, <1>8 DEF Raises, TempStep
<1> QED
  BY <1>2, <1>3, <1>4, <1>5, <1>6, <1>7, <1>8 DEF Next

LEMMA FilesStep == Files /\ Owners /\ [Next]_vars => Files'
<1> SUFFICES ASSUME Files, Owners, [Next]_vars PROVE Files'
  OBVIOUS
<1> USE DEF Files
<1>1. CASE TempStep
  <2>1. ASSUME NEW fs \in SUBSET PipelineTemps, Opens(fs) \/ Removes(fs) PROVE Files'
    BY <2>1 DEF Opens, Removes
  <2>2. ASSUME NEW f \in PipelineTemps, Promotes(f) PROVE Files'
    BY <2>2, FinalLemma DEF Promotes
  <2> QED
    BY <1>1, <2>1, <2>2 DEF TempStep
<1>2. CASE UNCHANGED root
  BY <1>2 DEF root
<1>3. CASE Start \/ Kill
  <2>1. CASE Kill
    BY <2>1 DEF Kill
  <2>2. CASE Start
    BY <2>2 DEF Start, Cleaned, Owners
  <2> QED
    BY <1>3, <2>1, <2>2
<1> QED
  BY <1>1, <1>2, <1>3, FileStep

(***************************************************************************)
(* Who has what open.                                                      *)
(***************************************************************************)

\* A step of the build, which has refresh_lock, leaves alone the worker, its
\* pause and what it has open.
Building ==
  /\ UNCHANGED <<pause, refused>> /\ run' \in {run, "ending"}
  /\ lock \in {"free", "build"} /\ lock' \in {"free", "build"}
  /\ open' \cap AssetTemps = open \cap AssetTemps

LEMMA BuildingLemma == ASSUME Pausing, Refusing, Building PROVE Pausing' /\ Refusing'
BY DEF Building, Pausing, Refusing, Refreshing, pause

LEMMA BuildStep ==
  ASSUME Owners, NEW s \in Sources, Build(s) PROVE Owners' /\ Building /\ run # "stopped"
<1>1. Owners' /\ run # "stopped"
  BY Kinds DEF Owners, BuildOpens, Runs, Locks, BuildSteps, Build, Starts, Opens, BuildTemps,
     Refreshing, pause
<1>2. Building
  BY Kinds DEF Build, Starts, Opens, BuildTemps, Building
<1> QED
  BY <1>1, <1>2

\* An exception ends the build.
LEMMA RaisesStep == ASSUME Owners, Raises PROVE Owners' /\ Building /\ run # "stopped"
<1>1. Owners' /\ run # "stopped"
  BY Kinds DEF Owners, BuildOpens, Runs, Locks, BuildSteps, Raises, Removes, Forgets, BuildTemps,
     Refreshing, pause
<1>2. Building
  BY Kinds DEF Owners, Raises, Removes, Building
<1> QED
  BY <1>1, <1>2

LEMMA MainStep == ASSUME Owners, Main PROVE Owners' /\ Building /\ run # "stopped"
<1> USE Kinds DEF Owners, BuildOpens, Runs, Locks, BuildSteps, Refreshing, Building, pause
<1>1. BuildTemps = {TagStore, TagStoreJournal, ShardTemp, ManifestTemp}
  BY DEF BuildTemps
<1>2. CASE AddMany \/ Export \/ OpenManifest
  BY <1>1, <1>2 DEF AddMany, Export, OpenManifest, Opens, others
<1>3. CASE Flush
  BY <1>1, <1>3 DEF Flush, Removes, others
<1>4. CASE CloseStore \/ Promote
  BY <1>1, <1>4 DEF CloseStore, Promote, Removes, Promotes, others
<1>5. CASE Scan \/ Read \/ Restore \/ Transform
  BY <1>5 DEF Scan, Read, Restore, Transform, Pulling, root, others
<1>6. CASE WriteManifest
  BY <1>1, <1>6 DEF WriteManifest, Promotes, Forgets
<1>7. CASE Fail
  BY <1>7, RaisesStep DEF Fail
<1> QED
  BY <1>2, <1>3, <1>4, <1>5, <1>6, <1>7 DEF Main

\* Osmium and the thread that drains its messages.
LEMMA OutsideStep == ASSUME Osmium \/ Crash \/ Drain \/ UNCHANGED vars PROVE UNCHANGED Inside
<1>1. CASE Osmium
  BY <1>1 DEF Osmium, WriteLine, WriteMessage, Finish
<1>2. CASE Crash \/ Drain
  BY <1>2 DEF Crash, Drain
<1>3. CASE UNCHANGED vars
  BY <1>3 DEF vars, Inside
<1> QED
  BY <1>1, <1>2, <1>3

\* The steps of the process beside the build.
LEMMA BesideStep ==
  ASSUME Files, Owners, Beside \/ Jobs
  PROVE  Owners' /\ (run = "stopped" /\ ~ Start => run' = "stopped")
<1> USE Kinds, JobsAssumption DEF Owners, BuildOpens, Runs, Locks, BuildSteps, Refreshing
<1>1. CASE Start \/ Join \/ Stop
  BY <1>1 DEF Start, Join, AtRest, Stop, Rest, root, pause
<1>2. CASE Kill
  BY <1>2 DEF Kill, Forgets
<1>3. CASE Refresh \/ OwnRefresh \/ Inventory
  BY <1>3 DEF Refresh, OwnRefresh, BetweenJobs, Inventory, Rest, root, pause
<1>4. CASE EndRefresh
  BY <1>4 DEF EndRefresh, Rest, root
<1>5. CASE Pause \/ Wake \/ Checkpoint
  BY <1>5 DEF Pause, Wake, Checkpoint, Rest, root, others
<1>6. ASSUME NEW f \in AssetJobs, OpenAsset(f) \/ CloseAsset(f)
      PROVE  Owners' /\ run' = run
  BY <1>6 DEF OpenAsset, CloseAsset, Opens, Promotes, Removes, others, pause, Rest
<1>7. ASSUME NEW f \in Reports, OpenReport(f) \/ CloseReport(f)
      PROVE  Owners' /\ run' = run
  BY <1>7 DEF OpenReport, CloseReport, Opens, Promotes, others, pause, Rest
<1> QED
  BY <1>1, <1>2, <1>3, <1>4, <1>5, <1>6, <1>7 DEF Beside, Jobs

LEMMA OwnersStep ==
  ASSUME Files, Owners, [Next]_vars
  PROVE  Owners' /\ (run = "stopped" /\ ~ Start => run' = "stopped")
<1>1. CASE Osmium \/ Crash \/ Drain \/ UNCHANGED vars
  BY <1>1, OutsideStep DEF Inside, root, others, pause, Owners, BuildOpens, Refreshing
<1>2. CASE Main
  BY <1>2, MainStep
<1>3. CASE Beside \/ Jobs
  BY <1>3, BesideStep
<1>4. ASSUME NEW s \in Sources, Build(s) PROVE Owners' /\ run # "stopped"
  BY <1>4, BuildStep
<1>5. CASE Raises
  BY <1>5, RaisesStep
<1> QED
  BY <1>1, <1>2, <1>3, <1>4, <1>5 DEF Next

\* What the worker, its pause and the refreshes do.
LEMMA PausingStep ==
  ASSUME Files, Owners, Pausing, Beside \/ Jobs
  PROVE  Pausing'
<1> USE DEF Pausing, Owners, Runs, Locks
<1>1. CASE Start \/ Join \/ Stop
  BY <1>1 DEF Start, Join, AtRest, Stop, Rest, root, pause
<1>2. CASE Kill
  BY <1>2 DEF Kill
<1>3. CASE Refresh \/ OwnRefresh
  BY <1>3 DEF Refresh, OwnRefresh, BetweenJobs, root, pause
<1>4. CASE Inventory
  BY <1>4 DEF Inventory, root, pause
<1>5. CASE EndRefresh
  BY <1>5 DEF EndRefresh, Refreshing, root
<1>6. CASE Pause \/ Wake
  BY <1>6 DEF Pause, Wake, BetweenJobs, root, others
<1>7. CASE Checkpoint
  BY <1>7 DEF Checkpoint, root, others
<1>8. ASSUME NEW f \in AssetJobs, OpenAsset(f) \/ CloseAsset(f) PROVE Pausing'
  BY <1>8 DEF OpenAsset, CloseAsset, Opens, Promotes, Removes, others, pause
<1>9. ASSUME NEW f \in Reports, OpenReport(f) \/ CloseReport(f) PROVE Pausing'
  <2>1. open' \cap AssetTemps = open \cap AssetTemps /\ UNCHANGED <<others, pause>>
    BY <1>9, Kinds, JobsAssumption DEF OpenReport, CloseReport, Opens, Promotes
  <2> QED
    BY <2>1 DEF others, pause
<1> QED
  BY <1>1, <1>2, <1>3, <1>4, <1>5, <1>6, <1>7, <1>8, <1>9 DEF Beside, Jobs

LEMMA RefusingStep ==
  ASSUME Files, Owners, Pausing, Refusing, Beside \/ Jobs
  PROVE  Refusing'
<1> USE DEF Refusing, Refreshing
<1>1. CASE Start \/ Join \/ Stop \/ Kill
  BY <1>1 DEF Start, Join, AtRest, Stop, Kill, Owners, Rest, root
<1>2. CASE Refresh \/ OwnRefresh \/ EndRefresh
  BY <1>2 DEF Refresh, OwnRefresh, EndRefresh
<1>3. CASE Inventory
  <2>1. open \cap BuildTemps = {} /\ open \cap ReportTemps = {} /\ open \subseteq PipelineTemps
    BY <1>3 DEF Inventory, Owners, BuildOpens, Files
  <2>2. open \subseteq AssetTemps
    BY <2>1, Kinds
  <2>3. open # {} => lock = "refresh" /\ stale /\ asked
    BY <1>3, <2>2 DEF Inventory, Pausing
  <2> QED
    BY <1>3, <2>2, <2>3 DEF Inventory, root, pause
<1>4. CASE Pause \/ Wake
  BY <1>4 DEF Pause, Wake, root, others
<1>5. CASE Checkpoint
  BY <1>5 DEF Checkpoint, root, others
<1>6. ASSUME NEW f \in AssetJobs, OpenAsset(f) \/ CloseAsset(f) PROVE Refusing'
  <2>1. CASE OpenAsset(f)
    BY <1>6, <2>1, JobsAssumption DEF OpenAsset, Opens, Pausing, others, pause
  <2>2. CASE CloseAsset(f)
    BY <1>6, <2>2 DEF CloseAsset, Promotes, Removes, others, pause
  <2> QED
    BY <1>6, <2>1, <2>2
<1>7. ASSUME NEW f \in Reports, OpenReport(f) \/ CloseReport(f) PROVE Refusing'
  BY <1>7 DEF OpenReport, CloseReport, Opens, Promotes, others, pause
<1> QED
  BY <1>1, <1>2, <1>3, <1>4, <1>5, <1>6, <1>7 DEF Beside, Jobs

LEMMA PauseStep ==
  ASSUME Files, Owners, Pausing, Refusing, [Next]_vars
  PROVE  Pausing' /\ Refusing'
<1>1. CASE Osmium \/ Crash \/ Drain \/ UNCHANGED vars
  BY <1>1, OutsideStep DEF Inside, root, others, pause, Pausing, Refusing, Refreshing
<1>2. CASE Main \/ Raises
  BY <1>2, MainStep, RaisesStep, BuildingLemma
<1>3. CASE Beside \/ Jobs
  BY <1>3, PausingStep, RefusingStep
<1>4. ASSUME NEW s \in Sources, Build(s) PROVE Pausing' /\ Refusing'
  BY <1>4, BuildStep, BuildingLemma
<1> QED
  BY <1>1, <1>2, <1>3, <1>4 DEF Next

\* Once a run has started, the siblings in the data root are open.
LEMMA SweptStep == Files /\ Owners /\ SiblingsSwept /\ [Next]_vars => SiblingsSwept'
<1> SUFFICES ASSUME Files, Owners, SiblingsSwept, [Next]_vars PROVE SiblingsSwept'
  OBVIOUS
<1> USE DEF SiblingsSwept
<1>1. CASE Start
  BY <1>1, SiblingsAreOwned DEF Start, Cleaned
<1>2. CASE Kill
  BY <1>2 DEF Kill
<1>3. CASE ~ Start /\ ~ Kill /\ run # "stopped"
  <2>1. ASSUME NEW fs \in SUBSET PipelineTemps, Opens(fs) \/ Removes(fs) PROVE SiblingsSwept'
    BY <1>3, <2>1 DEF Opens, Removes
  <2>2. ASSUME NEW f \in PipelineTemps, Promotes(f) PROVE SiblingsSwept'
    BY <1>3, <2>2, FinalLemma, SiblingsAreOwned DEF Promotes
  <2> QED
    BY <1>3, <2>1, <2>2, FileStep DEF TempStep, root
<1>4. CASE ~ Start /\ run = "stopped"
  <2>1. run' = "stopped"
    BY <1>4, OwnersStep
  <2> QED
    BY <2>1
<1> QED
  BY <1>1, <1>2, <1>3, <1>4

(***************************************************************************)
(* The pipes of osmium hold what they can.                                 *)
(***************************************************************************)

LEMMA AppendLemma ==
  ASSUME NEW S, NEW q \in Seq(S), NEW e, Len(q) < PipeSize, PipeSize \in Nat
  PROVE  (\E T : Append(q, e) \in Seq(T)) /\ Len(Append(q, e)) <= PipeSize
<1>1. q \in Seq(S \cup {e}) /\ e \in S \cup {e}
  OBVIOUS
<1>2. Append(q, e) \in Seq(S \cup {e}) /\ Len(Append(q, e)) = Len(q) + 1 /\ Len(q) \in Nat
  BY <1>1
<1> QED
  BY <1>2

LEMMA PipesStep == ASSUME Pipes, [Next]_vars PROVE Pipes'
<1>s. PICK S : out \in Seq(S)
  BY DEF Pipes
<1>n. PipeSize \in Nat \ {0}
  BY BatchAssumption
<1> USE DEF Pipes
<1>1. CASE WriteLine
  BY <1>1, <1>s, <1>n, AppendLemma DEF WriteLine
<1>2. CASE WriteMessage \/ Drain
  BY <1>2, <1>n DEF WriteMessage, Drain
<1>3. CASE Crash
  <2>1. CASE UNCHANGED out
    BY <1>3, <2>1 DEF Crash
  <2>2. CASE Len(out) < PipeSize /\ out' = Append(out, Torn)
    BY <1>3, <2>2, <1>s, <1>n, AppendLemma DEF Crash
  <2> QED
    BY <1>3, <2>1, <2>2 DEF Crash
<1>4. CASE Finish \/ UNCHANGED vars
  BY <1>4 DEF Finish, vars, process
<1>5. CASE Read
  <2>1. Tail(out) \in Seq(S) /\ Len(Tail(out)) <= PipeSize
    BY <1>5, <1>s, <1>n DEF Read
  <2> QED
    BY <1>5, <2>1 DEF Read
<1>6. CASE Promote
  BY <1>6, <1>n DEF Promote
<1>7. CASE WriteManifest \/ Fail \/ Raises \/ Kill
  <2>1. out' = <<>> /\ err' = 0
    BY <1>7 DEF WriteManifest, Fail, Raises, Kill, Forgets
  <2>2. <<>> \in Seq({}) /\ Len(<<>>) = 0
    OBVIOUS
  <2> QED
    BY <2>1, <2>2, <1>n
<1>8. CASE Scan \/ AddMany \/ Flush \/ Export \/ Restore \/ Transform \/ CloseStore \/ OpenManifest
  BY <1>8 DEF Scan, AddMany, Flush, Export, Restore, Transform, CloseStore, OpenManifest, process
<1>9. CASE Start \/ Join \/ Stop \/ Pause \/ Wake \/ Checkpoint
  BY <1>9 DEF Start, Join, Stop, Pause, Wake, Checkpoint, Rest, process
<1>12. CASE Refresh \/ OwnRefresh \/ Inventory \/ EndRefresh
  BY <1>12 DEF Refresh, OwnRefresh, Inventory, EndRefresh, Rest, process
<1>10. ASSUME NEW f, OpenAsset(f) \/ CloseAsset(f) \/ OpenReport(f) \/ CloseReport(f) PROVE Pipes'
  BY <1>10 DEF OpenAsset, CloseAsset, OpenReport, CloseReport, Rest, process
<1>11. ASSUME NEW s \in Sources, Build(s) PROVE Pipes'
  BY <1>11 DEF Build, Starts, process
<1> QED
  BY <1>1, <1>2, <1>3, <1>4, <1>5, <1>6, <1>7, <1>8, <1>9, <1>10, <1>11, <1>12
  DEF Next, Main, Osmium, Jobs, Beside

(***************************************************************************)
(* The invariant, and what follows from it.                                *)
(***************************************************************************)

LEMMA InitInv == Init => IInv
<1> SUFFICES ASSUME Init PROVE IInv
  OBVIOUS
<1>1. Files
  <2>1. AssetJobs \cup Reports \subseteq PipelineTemps
    BY JobsAssumption, Kinds
  <2> QED
    BY <2>1 DEF Init, Files
<1>2. Owners
  BY DEF Init, NoBuild, Owners, BuildOpens, Runs, Locks, Refreshing
<1>3. Pipes
  <2>1. <<>> \in Seq({}) /\ Len(<<>>) = 0
    OBVIOUS
  <2> QED
    BY <2>1, BatchAssumption DEF Init, NoBuild, NoProcess, Pipes
<1>4. SiblingsSwept
  BY DEF Init, SiblingsSwept
<1>5. Pausing /\ Refusing
  BY DEF Init, Pausing, Refusing
<1> QED
  BY <1>1, <1>2, <1>3, <1>4, <1>5 DEF IInv

LEMMA NextInv == IInv /\ [Next]_vars => IInv'
BY FilesStep, OwnersStep, PauseStep, PipesStep, SweptStep DEF IInv

\* The inductive invariant of a build and of what runs beside it.
THEOREM InvariantHolds == Spec => []IInv
BY InitInv, NextInv, PTL DEF Spec

\* Files and pipes have the values they can have, who holds refresh_lock is who
\* uses it, and a process that does not run has nothing open.
THEOREM TypeCorrect == Spec => []TypeOK
<1>1. IInv => TypeOK
  BY BatchAssumption DEF IInv, Files, Owners, Runs, Pausing, Pipes, TypeOK
<1> QED
  BY <1>1, InvariantHolds, PTL

\* An inventory refuses no temporary file that this process has open, unless
\* the pause of the worker was set before the main thread asked for it.
THEOREM InventoryCorrect == Spec => []NoLiveFileRefused
<1>1. IInv => NoLiveFileRefused
  BY DEF IInv, Refusing, NoLiveFileRefused
<1> QED
  BY <1>1, InvariantHolds, PTL

\* cleanup_stale_temps removes every .tmp sibling an earlier process left.
THEOREM SweepCorrect == Spec => []SiblingsSwept
<1>1. IInv => SiblingsSwept
  BY DEF IInv
<1> QED
  BY <1>1, InvariantHolds, PTL

\* No step removes a file that does not have a name of the code.
LEMMA ForeignStep == [Next]_vars => files \cap Foreign \subseteq files'
<1> SUFFICES ASSUME [Next]_vars, NEW f \in files \cap Foreign PROVE f \in files'
  OBVIOUS
<1>1. f = File(f.dir, f.form, f.target) /\ f \notin PipelineTemps
  BY ForeignAssumption
<1>2. ~ IsOwned(f)
  BY <1>1, OwnedAreWritten
<1>3. CASE TempStep
  BY <1>1, <1>3 DEF TempStep, Opens, Removes, Promotes
<1>4. CASE Start \/ Kill \/ UNCHANGED root
  BY <1>2, <1>4 DEF Start, Cleaned, Kill, root
<1> QED
  BY <1>3, <1>4, FileStep

\* Unknown files are left untouched.
THEOREM ForeignCorrect == Spec => ForeignStays
BY ForeignStep, PTL DEF Spec, ForeignStays

(***************************************************************************)
(* Selections of a sequence.                                               *)
(***************************************************************************)

\* Induction over the numbers, for a set of them.
LEMMA Induction ==
  ASSUME NEW I, 0 \in I, \A n \in Nat : n \in I => n + 1 \in I
  PROVE  Nat \subseteq I
<1> SUFFICES ASSUME Nat \ I # {} PROVE FALSE
  OBVIOUS
<1> DEFINE Less == {p \in Nat \X Nat : p[1] < p[2]}
           T == Nat \ I
<1>1. IsWellFoundedOn(Less, Nat)
  BY NatLessThanWellFounded DEF OpToRel
<1>2. T \subseteq Nat /\ T # {}
  OBVIOUS
<1> HIDE DEF T, Less
<1>3. PICK x \in T : \A y \in T : ~ (<<y, x>> \in Less)
  BY <1>1, <1>2, WFMin
<1> USE DEF T, Less
<1>4. \A y \in T : ~ (y < x)
  BY <1>2, <1>3
<1>5. x \in Nat /\ x # 0 /\ x \notin I
  BY <1>3
<1>6. x - 1 \in Nat /\ x - 1 < x
  BY <1>5
<1>7. x - 1 \in I
  BY <1>4, <1>6
<1>8. (x - 1) + 1 \in I
  BY <1>6, <1>7
<1> QED
  BY <1>5, <1>8

\* And over the sequences, for a set of them.
LEMMA SequenceInduction ==
  ASSUME NEW E, NEW I, <<>> \in I,
         \A s \in Seq(E), e \in E : s \in I => Append(s, e) \in I
  PROVE  Seq(E) \subseteq I
<1> DEFINE J == {n \in Nat : \A s \in Seq(E) : Len(s) = n => s \in I}
<1>1. 0 \in J
  <2>1. \A s \in Seq(E) : Len(s) = 0 => s = <<>>
    BY EmptySeq
  <2> QED
    BY <2>1
<1>2. ASSUME NEW n \in Nat, n \in J PROVE n + 1 \in J
  <2>1. ASSUME NEW s \in Seq(E), Len(s) = n + 1 PROVE s \in I
    <3> DEFINE t == SubSeq(s, 1, n)
    <3>1. t \in Seq(E) /\ Len(t) = n
      BY <2>1, SubSeqProperties
    <3>2. s[n + 1] \in E
      BY <2>1
    <3>3. s = Append(t, s[n + 1])
      BY <2>1
    <3>4. t \in I
      BY <1>2, <3>1
    <3> HIDE DEF t
    <3> QED
      BY <3>1, <3>2, <3>3, <3>4
  <2> QED
    BY <2>1
<1> HIDE DEF J
<1>3. Nat \subseteq J
  BY <1>1, <1>2, Induction
<1>4. ASSUME NEW s \in Seq(E) PROVE s \in I
  <2>1. Len(s) \in J
    BY <1>3
  <2> QED
    BY <2>1 DEF J
<1> QED
  BY <1>4

\* The recursion of Select, over the first n entries.
Selected(g, n, s, S) ==
  g = [k \in 0..n |->
         IF k = 0 THEN <<>>
         ELSE IF s[k] \in S THEN Append(g[k - 1], s[k]) ELSE g[k - 1]]

LEMMA SelectedExists ==
  ASSUME NEW s, NEW S, NEW n \in Nat PROVE \E g : Selected(g, n, s, S)
<1> DEFINE I == {m \in Nat : \E g : Selected(g, m, s, S)}
<1>1. 0 \in I
  <2> DEFINE g == [k \in 0..0 |-> <<>>]
  <2>1. Selected(g, 0, s, S)
    BY DEF Selected
  <2> QED
    BY <2>1
<1>2. ASSUME NEW m \in Nat, m \in I PROVE m + 1 \in I
  <2>1. PICK g : Selected(g, m, s, S)
    BY <1>2
  <2> DEFINE last == IF s[m + 1] \in S THEN Append(g[m], s[m + 1]) ELSE g[m]
             h == [k \in 0..(m + 1) |-> IF k = m + 1 THEN last ELSE g[k]]
  <2>2. \A k \in 0..m : h[k] = g[k]
    OBVIOUS
  <2>3. h[m + 1] = last
    OBVIOUS
  <2>4. \A k \in 0..m : h[k] = IF k = 0 THEN <<>>
                               ELSE IF s[k] \in S THEN Append(h[k - 1], s[k]) ELSE h[k - 1]
    <3> SUFFICES ASSUME NEW k \in 0..m
        PROVE h[k] = IF k = 0 THEN <<>>
                     ELSE IF s[k] \in S THEN Append(h[k - 1], s[k]) ELSE h[k - 1]
      OBVIOUS
    <3>1. g[k] = IF k = 0 THEN <<>>
                 ELSE IF s[k] \in S THEN Append(g[k - 1], s[k]) ELSE g[k - 1]
      BY <2>1 DEF Selected
    <3>2. k # 0 => k - 1 \in 0..m
      OBVIOUS
    <3> HIDE DEF h
    <3> QED
      BY <2>2, <3>1, <3>2
  <2>5. h = [k \in 0..(m + 1) |-> h[k]]
    OBVIOUS
  <2>6. m + 1 # 0 /\ (m + 1) - 1 = m /\ m \in 0..m
    OBVIOUS
  <2>7. \A k \in 0..(m + 1) : k \in 0..m \/ k = m + 1
    OBVIOUS
  <2> HIDE DEF h
  <2>8. Selected(h, m + 1, s, S)
    <3>1. \A k \in 0..(m + 1) :
            h[k] = IF k = 0 THEN <<>>
                   ELSE IF s[k] \in S THEN Append(h[k - 1], s[k]) ELSE h[k - 1]
      BY <2>2, <2>3, <2>4, <2>6, <2>7
    <3> QED
      BY <2>5, <3>1 DEF Selected
  <2> QED
    BY <2>8
<1> HIDE DEF I
<1>3. n \in I
  BY <1>1, <1>2, Induction
<1> QED
  BY <1>3 DEF I

\* It depends on the entries before only.
LEMMA SelectedAgree ==
  ASSUME NEW s, NEW t, NEW S, NEW m \in Nat, NEW n \in Nat, m <= n,
         \A k \in 1..m : s[k] = t[k],
         NEW g, Selected(g, m, s, S), NEW h, Selected(h, n, t, S)
  PROVE  g[m] = h[m]
<1> DEFINE I == {k \in Nat : k <= m => g[k] = h[k]}
<1>1. \A k \in 0..m :
        g[k] = IF k = 0 THEN <<>>
               ELSE IF s[k] \in S THEN Append(g[k - 1], s[k]) ELSE g[k - 1]
  BY DEF Selected
<1>2. \A k \in 0..n :
        h[k] = IF k = 0 THEN <<>>
               ELSE IF t[k] \in S THEN Append(h[k - 1], t[k]) ELSE h[k - 1]
  BY DEF Selected
<1>3. 0 \in I
  BY <1>1, <1>2
<1>4. ASSUME NEW k \in Nat, k \in I PROVE k + 1 \in I
  <2> SUFFICES ASSUME k + 1 <= m PROVE g[k + 1] = h[k + 1]
    OBVIOUS
  <2>1. g[k] = h[k]
    BY <1>4
  <2>2. /\ k + 1 \in 0..m /\ k + 1 \in 0..n /\ k + 1 \in 1..m /\ k + 1 # 0
        /\ (k + 1) - 1 = k
    OBVIOUS
  <2>3. s[k + 1] = t[k + 1]
    BY <2>2
  <2> QED
    BY <1>1, <1>2, <2>1, <2>2, <2>3
<1> HIDE DEF I
<1>5. m \in I
  BY <1>3, <1>4, Induction
<1> QED
  BY <1>5 DEF I

LEMMA SelectDefined ==
  ASSUME NEW s, NEW S, Len(s) \in Nat
  PROVE  \E g : Selected(g, Len(s), s, S) /\ Select(s, S) = g[Len(s)]
<1> DEFINE g == CHOOSE h : Selected(h, Len(s), s, S)
<1>1. Selected(g, Len(s), s, S)
  BY SelectedExists
<1>2. Select(s, S) = g[Len(s)]
  BY DEF Select, Selected
<1> QED
  BY <1>1, <1>2

\* What is selected of a sequence, entry by entry.
LEMMA SelectAppend ==
  ASSUME NEW E, NEW s \in Seq(E), NEW e \in E, NEW S
  PROVE  Select(Append(s, e), S) = IF e \in S THEN Append(Select(s, S), e) ELSE Select(s, S)
<1> DEFINE t == Append(s, e)
           n == Len(s)
<1>1. n \in Nat /\ Len(t) = n + 1 /\ t[n + 1] = e /\ \A k \in 1..n : s[k] = t[k]
  OBVIOUS
<1> HIDE DEF t
<1>2. PICK g : Selected(g, n, s, S) /\ Select(s, S) = g[n]
  BY <1>1, SelectDefined
<1>3. PICK h : Selected(h, n + 1, t, S) /\ Select(t, S) = h[n + 1]
  BY <1>1, SelectDefined
<1> HIDE DEF n
<1>4. n + 1 \in Nat /\ n <= n + 1 /\ n + 1 \in 0..(n + 1) /\ n + 1 # 0 /\ (n + 1) - 1 = n
  BY <1>1
<1>5. g[n] = h[n]
  BY <1>1, <1>2, <1>3, <1>4, SelectedAgree
<1>6. h[n + 1] = IF t[n + 1] \in S THEN Append(h[n], t[n + 1]) ELSE h[n]
  BY <1>3, <1>4 DEF Selected
<1>7. Select(t, S) = IF e \in S THEN Append(Select(s, S), e) ELSE Select(s, S)
  BY <1>1, <1>2, <1>3, <1>5, <1>6
<1> QED
  BY <1>7 DEF t

LEMMA SelectEmpty == ASSUME NEW S PROVE Select(<<>>, S) = <<>>
<1>1. Len(<<>>) = 0
  OBVIOUS
<1>2. PICK g : Selected(g, 0, <<>>, S) /\ Select(<<>>, S) = g[0]
  BY <1>1, SelectDefined
<1> QED
  BY <1>2 DEF Selected

\* A selection has the entries of the set, and those of it that are in another
\* one are those that are in both.
LEMMA SelectType ==
  ASSUME NEW E, NEW S, NEW s \in Seq(E) PROVE Select(s, S) \in Seq(E \cap S)
<1> DEFINE I == {t \in Seq(E) : Select(t, S) \in Seq(E \cap S)}
<1>1. <<>> \in I
  BY SelectEmpty, EmptySeq
<1>2. ASSUME NEW t \in Seq(E), NEW e \in E, t \in I PROVE Append(t, e) \in I
  <2>1. Append(t, e) \in Seq(E)
    OBVIOUS
  <2> HIDE DEF Select
  <2>2. Select(t, S) \in Seq(E \cap S)
    BY <1>2
  <2>3. e \in S => Append(Select(t, S), e) \in Seq(E \cap S)
    BY <2>2
  <2> QED
    BY <2>1, <2>2, <2>3, SelectAppend
<1> HIDE DEF I
<1>3. s \in I
  BY <1>1, <1>2, SequenceInduction
<1> QED
  BY <1>3 DEF I

\* Only what a set has of the entries matters.
LEMMA SelectSame ==
  ASSUME NEW E, NEW S, NEW T, \A e \in E : e \in S <=> e \in T, NEW s \in Seq(E)
  PROVE  Select(s, S) = Select(s, T)
<1> DEFINE I == {t \in Seq(E) : Select(t, S) = Select(t, T)}
<1>1. <<>> \in I
  BY SelectEmpty, EmptySeq
<1>2. ASSUME NEW t \in Seq(E), NEW e \in E, t \in I PROVE Append(t, e) \in I
  <2>1. Append(t, e) \in Seq(E)
    OBVIOUS
  <2>2. \A R : Select(Append(t, e), R) = IF e \in R THEN Append(Select(t, R), e) ELSE Select(t, R)
    BY SelectAppend
  <2>3. Select(t, S) = Select(t, T)
    BY <1>2
  <2> QED
    BY <2>1, <2>2, <2>3
<1> HIDE DEF I
<1>3. s \in I
  BY <1>1, <1>2, SequenceInduction
<1> QED
  BY <1>3 DEF I

LEMMA SelectAll ==
  ASSUME NEW E, NEW S, E \subseteq S, NEW s \in Seq(E) PROVE Select(s, S) = s
<1> DEFINE I == {t \in Seq(E) : Select(t, S) = t}
<1>1. <<>> \in I
  BY SelectEmpty, EmptySeq
<1>2. ASSUME NEW t \in Seq(E), NEW e \in E, t \in I PROVE Append(t, e) \in I
  <2>1. Append(t, e) \in Seq(E)
    OBVIOUS
  <2> QED
    BY <1>2, <2>1, SelectAppend
<1> HIDE DEF I
<1>3. s \in I
  BY <1>1, <1>2, SequenceInduction
<1> QED
  BY <1>3 DEF I

LEMMA SelectNone ==
  ASSUME NEW E, NEW S, E \cap S = {}, NEW s \in Seq(E) PROVE Select(s, S) = <<>>
<1> DEFINE I == {t \in Seq(E) : Select(t, S) = <<>>}
<1>1. <<>> \in I
  BY SelectEmpty, EmptySeq
<1>2. ASSUME NEW t \in Seq(E), NEW e \in E, t \in I PROVE Append(t, e) \in I
  <2>1. Append(t, e) \in Seq(E)
    OBVIOUS
  <2> QED
    BY <1>2, <2>1, SelectAppend
<1> HIDE DEF I
<1>3. s \in I
  BY <1>1, <1>2, SequenceInduction
<1> QED
  BY <1>3 DEF I

\* A selection of two sequences is one of each.
LEMMA SelectConcat ==
  ASSUME NEW E, NEW S, NEW s \in Seq(E), NEW t \in Seq(E)
  PROVE  Select(s \o t, S) = Select(s, S) \o Select(t, S)
<1> DEFINE I == {u \in Seq(E) : Select(s \o u, S) = Select(s, S) \o Select(u, S)}
<1>0. Select(s, S) \in Seq(E \cap S)
  BY SelectType
<1>1. <<>> \in I
  <2>1. s \o <<>> = s /\ <<>> \in Seq(E)
    OBVIOUS
  <2>2. Select(s, S) \o <<>> = Select(s, S)
    BY <1>0, ConcatEmptySeq
  <2> QED
    BY <2>1, <2>2, SelectEmpty
<1>2. ASSUME NEW u \in Seq(E), NEW e \in E, u \in I PROVE Append(u, e) \in I
  <2>1. Append(u, e) \in Seq(E) /\ s \o u \in Seq(E)
    OBVIOUS
  <2>2. s \o Append(u, e) = Append(s \o u, e)
    OBVIOUS
  <2>3. Select(u, S) \in Seq(E \cap S)
    BY SelectType
  <2>4. e \in S => Select(s, S) \o Append(Select(u, S), e) = Append(Select(s, S) \o Select(u, S), e)
    BY <1>0, <2>3
  <2>5. Select(s \o u, S) = Select(s, S) \o Select(u, S)
    BY <1>2
  <2>6. /\ Select(Append(u, e), S) = IF e \in S THEN Append(Select(u, S), e) ELSE Select(u, S)
        /\ Select(Append(s \o u, e), S)
             = IF e \in S THEN Append(Select(s \o u, S), e) ELSE Select(s \o u, S)
    BY <2>1, SelectAppend
  <2>7. Select(s \o Append(u, e), S) = Select(s, S) \o Select(Append(u, e), S)
    <3>1. CASE e \in S
      BY <3>1, <2>2, <2>4, <2>5, <2>6
    <3>2. CASE e \notin S
      BY <3>2, <2>2, <2>5, <2>6
    <3> QED
      BY <3>1, <3>2
  <2> QED
    BY <2>1, <2>7
<1> HIDE DEF I
<1>3. t \in I
  BY <1>1, <1>2, SequenceInduction
<1> QED
  BY <1>3 DEF I

(***************************************************************************)
(* What a source is worth.                                                 *)
(***************************************************************************)

Records(s) == {line \in ToSet(s.lines) : line.kind = "record"}
SoundOf(s) == {record \in RecordsOf(s) : record.defects = {}}
UnsoundOf(s) == RecordsOf(s) \ SoundOf(s)
FirstDefects(q) == [n \in DOMAIN q |-> FirstDefect(q[n])]
Outcome(s, q) ==
  [rows |-> Select(q, SoundOf(s)), rejected |-> FirstDefects(Select(q, UnsoundOf(s)))]

LEMMA FirstDefectsConcat ==
  ASSUME NEW S, NEW q \in Seq(S), NEW r \in Seq(S)
  PROVE  /\ FirstDefects(q) \in Seq({FirstDefect(e) : e \in S})
         /\ FirstDefects(q \o r) = FirstDefects(q) \o FirstDefects(r)
<1> DEFINE D == {FirstDefect(e) : e \in S}
<1>1. ASSUME NEW p \in Seq(S)
      PROVE  /\ FirstDefects(p) \in Seq(D) /\ Len(FirstDefects(p)) = Len(p)
             /\ \A n \in 1..Len(p) : FirstDefects(p)[n] = FirstDefect(p[n])
  <2>1. Len(p) \in Nat /\ DOMAIN p = 1..Len(p) /\ \A n \in 1..Len(p) : p[n] \in S
    OBVIOUS
  <2>2. FirstDefects(p) = [n \in 1..Len(p) |-> FirstDefect(p[n])]
    BY <2>1 DEF FirstDefects
  <2>3. FirstDefects(p) \in [1..Len(p) -> D]
    BY <2>1, <2>2
  <2> HIDE DEF D
  <2> QED
    BY <2>1, <2>2, <2>3
<1> HIDE DEF D
<1>2. q \o r \in Seq(S) /\ Len(q \o r) = Len(q) + Len(r) /\ Len(q) \in Nat /\ Len(r) \in Nat
  OBVIOUS
<1>3. /\ FirstDefects(q) \in Seq(D) /\ FirstDefects(r) \in Seq(D)
      /\ FirstDefects(q \o r) \in Seq(D)
      /\ Len(FirstDefects(q)) = Len(q) /\ Len(FirstDefects(r)) = Len(r)
      /\ Len(FirstDefects(q \o r)) = Len(q) + Len(r)
  BY <1>1, <1>2
<1> DEFINE a == FirstDefects(q)
           b == FirstDefects(r)
<1>a. a \in Seq(D) /\ b \in Seq(D) /\ Len(a) = Len(q) /\ Len(b) = Len(r)
  BY <1>3
<1> HIDE DEF a, b
<1>4. /\ a \o b \in Seq(D) /\ Len(a \o b) = Len(q) + Len(r)
      /\ \A n \in 1..(Len(q) + Len(r)) :
           (a \o b)[n] = IF n <= Len(q) THEN a[n] ELSE b[n - Len(q)]
  <2>1. /\ a \o b \in Seq(D) /\ Len(a \o b) = Len(a) + Len(b)
        /\ \A n \in 1..(Len(a) + Len(b)) :
             (a \o b)[n] = IF n <= Len(a) THEN a[n] ELSE b[n - Len(a)]
    <3>1. a \in Seq(D) /\ b \in Seq(D)
      BY <1>a
    <3> QED
      BY ONLY <3>1, ConcatProperties
  <2> QED
    BY <1>a, <2>1
<1> USE DEF a, b
<1>5. ASSUME NEW n \in 1..(Len(q) + Len(r))
      PROVE  FirstDefects(q \o r)[n] = (a \o b)[n]
  <2>1. FirstDefects(q \o r)[n] = FirstDefect((q \o r)[n])
    BY <1>1, <1>2
  <2>2. CASE n <= Len(q)
    <3>1. (q \o r)[n] = q[n] /\ n \in 1..Len(q)
      BY <1>2, <2>2
    <3>2. FirstDefects(q)[n] = FirstDefect(q[n])
      BY <1>1, <3>1
    <3>3. (a \o b)[n] = FirstDefects(q)[n]
      BY <1>4, <2>2
    <3> QED
      BY <2>1, <3>1, <3>2, <3>3
  <2>3. CASE n > Len(q)
    <3>1. (q \o r)[n] = r[n - Len(q)] /\ n - Len(q) \in 1..Len(r)
      BY <1>2, <2>3
    <3>2. FirstDefects(r)[n - Len(q)] = FirstDefect(r[n - Len(q)])
      BY <1>1, <3>1
    <3>3. (a \o b)[n] = FirstDefects(r)[n - Len(q)]
      <4>1. ~ (n <= Len(q))
        BY <1>2, <2>3
      <4> QED
        BY <1>4, <4>1
    <3> QED
      BY <2>1, <3>1, <3>2, <3>3
  <2>4. n <= Len(q) \/ n > Len(q)
    <3>1. Len(q) \in Nat /\ Len(r) \in Nat
      BY <1>2
    <3> QED
      BY <3>1
  <2> QED
    BY <2>2, <2>3, <2>4
<1>6. FirstDefects(q \o r) = FirstDefects(q) \o FirstDefects(r)
  BY <1>3, <1>4, <1>5, SeqEqual
<1> QED
  BY <1>3, <1>6 DEF D

LEMMA OutcomeConcat ==
  ASSUME NEW s, NEW q \in Seq(RecordsOf(s)), NEW r \in Seq(RecordsOf(s))
  PROVE  Outcome(s, q \o r) = [rows |-> Outcome(s, q).rows \o Outcome(s, r).rows,
                               rejected |-> Outcome(s, q).rejected \o Outcome(s, r).rejected]
<1> DEFINE R == RecordsOf(s)
<1>1. \A S : Select(q \o r, S) = Select(q, S) \o Select(r, S)
  BY SelectConcat
<1>2. /\ Select(q, UnsoundOf(s)) \in Seq(R \cap UnsoundOf(s))
      /\ Select(r, UnsoundOf(s)) \in Seq(R \cap UnsoundOf(s))
  BY SelectType
<1>3. FirstDefects(Select(q, UnsoundOf(s)) \o Select(r, UnsoundOf(s)))
        = FirstDefects(Select(q, UnsoundOf(s))) \o FirstDefects(Select(r, UnsoundOf(s)))
  BY <1>2, FirstDefectsConcat
<1> QED
  BY <1>1, <1>3 DEF Outcome

\* The first reason that transform_record finds.
LEMMA ReasonLemma ==
  ASSUME NEW record, record.id \in store, record.defects \subseteq ToSet(Reasons),
         record.defects # {}
  PROVE  Reason(record) = FirstDefect(record)
<1> DEFINE D == record.defects
           IsFirst(n) == n \in 1..8 /\ Reasons[n] \in D /\ \A k \in 1..(n - 1) : Reasons[k] \notin D
<1>1. /\ DOMAIN Reasons = 1..8
      /\ \A j, k \in 1..8 : Reasons[j] = Reasons[k] => j = k
  BY DEF Reasons
<1>2. ToSet(Reasons) = {Reasons[n] : n \in 1..8}
  BY <1>1 DEF ToSet
<1>3. Defects(record) = D
  BY DEF Defects
<1>4. \E n : IsFirst(n)
  <2>1. \E n \in 1..8 : Reasons[n] \in D
    BY <1>2
  <2> HIDE DEF D
  <2>2. \/ Reasons[1] \in D \/ Reasons[2] \in D \/ Reasons[3] \in D \/ Reasons[4] \in D
        \/ Reasons[5] \in D \/ Reasons[6] \in D \/ Reasons[7] \in D \/ Reasons[8] \in D
    BY <2>1
  <2>3. IsFirst(1) \/ IsFirst(2) \/ IsFirst(3) \/ IsFirst(4) \/ IsFirst(5) \/ IsFirst(6)
        \/ IsFirst(7) \/ IsFirst(8)
    BY <2>2
  <2> QED
    BY <2>3
<1>5. PICK n : IsFirst(n)
  BY <1>4
<1> HIDE DEF D
<1>6. ASSUME NEW m, IsFirst(m) PROVE m = n
  <2>1. m \in 1..8 /\ n \in 1..8
    BY <1>5, <1>6
  <2>2. ~ (m < n)
    BY <1>5, <1>6, <2>1
  <2>3. ~ (n < m)
    BY <1>5, <1>6, <2>1
  <2> QED
    BY <2>1, <2>2, <2>3
<1> DEFINE IsReason(x) ==
      \A m \in DOMAIN Reasons : Reasons[m] \in D => \E k \in 1..m : Reasons[k] = x
<1>7. Reason(record) = Reasons[n]
  <2>1. Reason(record) = Reasons[CHOOSE m : IsFirst(m)]
    BY <1>1, <1>3 DEF Reason
  <2> HIDE DEF IsFirst
  <2> QED
    BY <1>5, <1>6, <2>1
<1>8. Reasons[n] \in D /\ IsReason(Reasons[n])
  <2>1. ASSUME NEW m \in 1..8, Reasons[m] \in D PROVE n \in 1..m
    BY <1>5, <2>1
  <2> QED
    BY <1>1, <1>5, <2>1
<1>9. ASSUME NEW x \in D, IsReason(x) PROVE x = Reasons[n]
  <2>1. PICK m \in 1..8 : x = Reasons[m]
    BY <1>2 DEF D
  <2>2. PICK k \in 1..n : Reasons[k] = x
    BY <1>1, <1>5, <1>9
  <2>3. k = m
    BY <1>1, <1>5, <2>1, <2>2
  <2>4. ~ (m < n)
    BY <1>5, <1>9, <2>1
  <2> QED
    BY <1>5, <2>1, <2>2, <2>3, <2>4
<1> HIDE DEF IsReason
<1>10. FirstDefect(record) = CHOOSE x \in D : IsReason(x)
  BY DEF FirstDefect, D, IsReason
<1> QED
  BY <1>7, <1>8, <1>9, <1>10

\* A batch of records comes out as each of them would.
LEMMA TransformedLemma ==
  ASSUME NEW s \in Sources, store = TaggedIn(s.objects), NEW q \in Seq(RecordsOf(s))
  PROVE  Transformed(q) = Outcome(s, q)
<1> DEFINE R == RecordsOf(s)
<1>1. /\ ToSet(q) \subseteq R /\ DOMAIN q = 1..Len(q)
      /\ \A n \in 1..Len(q) : q[n] \in ToSet(q)
      /\ q \in Seq(ToSet(q))
  BY DEF ToSet
<1>2. \A r \in R : /\ r.id \in store /\ Defects(r) = r.defects
                   /\ r.defects \subseteq ToSet(Reasons)
  BY SourcesAssumption DEF RecordsOf, Defects
<1>3. SoundOf(s) \subseteq R /\ UnsoundOf(s) = {r \in R : r.defects # {}}
  BY DEF SoundOf, UnsoundOf
<1>4. CASE IsEligible(q)
  <2>1. \A n \in 1..Len(q) : q[n] \in R /\ Defects(q[n]) = {}
    BY <1>1, <1>4 DEF IsEligible
  <2>2. q \in Seq(SoundOf(s))
    <3>1. \A n \in 1..Len(q) : q[n] \in SoundOf(s)
      BY <1>2, <2>1 DEF SoundOf
    <3> QED
      BY <3>1
  <2>3. Select(q, SoundOf(s)) = q
    BY <2>2, SelectAll
  <2>4. Select(q, UnsoundOf(s)) = <<>>
    <3>1. SoundOf(s) \cap UnsoundOf(s) = {}
      BY DEF UnsoundOf
    <3> QED
      BY <2>2, <3>1, SelectNone
  <2>5. FirstDefects(<<>>) = <<>>
    BY DEF FirstDefects
  <2> QED
    BY <1>4, <2>3, <2>4, <2>5 DEF Transformed, Outcome
<1>5. CASE ~ IsEligible(q)
  <2> DEFINE accepted == {record \in ToSet(q) : Defects(record) = {}}
             refusals == Select(q, ToSet(q) \ accepted)
  <2>1. Select(q, accepted) = Select(q, SoundOf(s))
    <3>1. \A e \in ToSet(q) : e \in accepted <=> e \in SoundOf(s)
      BY <1>1, <1>2 DEF SoundOf
    <3> HIDE DEF accepted
    <3> QED
      BY <1>1, <3>1, SelectSame
  <2>2. refusals = Select(q, UnsoundOf(s))
    <3>1. \A e \in ToSet(q) : e \in ToSet(q) \ accepted <=> e \in UnsoundOf(s)
      BY <1>1, <1>2, <1>3
    <3> DEFINE refusedOnes == ToSet(q) \ accepted
    <3>2. \A e \in ToSet(q) : e \in refusedOnes <=> e \in UnsoundOf(s)
      BY <3>1
    <3> HIDE DEF refusedOnes
    <3>3. Select(q, refusedOnes) = Select(q, UnsoundOf(s))
      BY <1>1, <3>2, SelectSame
    <3> QED
      BY <3>3 DEF refusedOnes
  <2>3. refusals \in Seq(R \cap UnsoundOf(s))
    BY <2>2, SelectType
  <2>4. ASSUME NEW n \in DOMAIN refusals PROVE Reason(refusals[n]) = FirstDefect(refusals[n])
    <3>1. refusals[n] \in UnsoundOf(s)
      BY <2>3
    <3> QED
      BY <1>2, <1>3, <3>1, ReasonLemma
  <2>5. [n \in DOMAIN refusals |-> Reason(refusals[n])] = FirstDefects(refusals)
    BY <2>4 DEF FirstDefects
  <2>6. Transformed(q) = [rows |-> Select(q, accepted),
                          rejected |-> [n \in DOMAIN refusals |-> Reason(refusals[n])]]
    BY <1>5 DEF Transformed, Scalar
  <2> HIDE DEF accepted, refusals
  <2> QED
    BY <2>1, <2>2, <2>5, <2>6 DEF Outcome
<1> QED
  BY <1>4, <1>5

\* The outcome of all the records of a source is what it is worth.
LEMMA WorthLemma ==
  ASSUME NEW s, Select(s.lines, RecordsOf(s)) \in Seq(RecordsOf(s))
  PROVE  Worth(s) = [source |-> s,
                     rows |-> Outcome(s, Select(s.lines, RecordsOf(s))).rows,
                     rejected |-> Outcome(s, Select(s.lines, RecordsOf(s))).rejected]
<1> DEFINE q == Select(s.lines, RecordsOf(s))
           good == {record \in ToSet(q) : record.defects = {}}
           bad == {record \in ToSet(q) : record.defects # {}}
<1>0. Worth(s) = [source |-> s, rows |-> Select(q, good), rejected |-> FirstDefects(Select(q, bad))]
  BY DEF Worth, FirstDefects
<1>1. ToSet(q) \subseteq RecordsOf(s) /\ q \in Seq(ToSet(q))
  <2> HIDE DEF q
  <2>1. q \in Seq(RecordsOf(s))
    BY DEF q
  <2> QED
    BY <2>1 DEF ToSet
<1>2. \A e \in ToSet(q) : (e \in good <=> e \in SoundOf(s)) /\ (e \in bad <=> e \in UnsoundOf(s))
  BY <1>1 DEF SoundOf, UnsoundOf
<1> HIDE DEF q, good, bad
<1>3. Select(q, good) = Select(q, SoundOf(s))
  BY <1>1, <1>2, SelectSame
<1>4. Select(q, bad) = Select(q, UnsoundOf(s))
  BY <1>1, <1>2, SelectSame
<1>5. Worth(s) = [source |-> s, rows |-> Outcome(s, q).rows, rejected |-> Outcome(s, q).rejected]
  BY <1>0, <1>3, <1>4 DEF Outcome
<1> QED
  BY <1>5 DEF q

(***************************************************************************)
(* A build, as long as osmium has not failed: what it wrote is what the    *)
(* lines taken so far make, less what is in the generators.                *)
(***************************************************************************)

Before(s, n) == {s.objects[k].id : k \in {j \in 1..n : s.objects[j].tagged}}
Taken == sent - Len(out)

Unstarted ==
  /\ step = "idle" => scanned = 0 /\ pending = <<>> /\ store = {}
  /\ step \in {"idle", "scan"} =>
       /\ osmium = "none" /\ sent = 0 /\ out = <<>>
       /\ batch = <<>> /\ restored = <<>> /\ written = Nothing
Scanned ==
  step = "scan" =>
    /\ source \in Sources /\ scanned \in 0..Len(source.objects)
    /\ pending \in Seq({object.id : object \in ToSet(source.objects)})
    /\ store \cup ToSet(pending) = Before(source, scanned)
Accounted(made) ==
  /\ made \in Seq(RecordsOf(source))
  /\ Select(SubSeq(source.lines, 1, Taken), RecordsOf(source))
       = made \o restored \o Select(batch, RecordsOf(source))
  /\ written = Outcome(source, made)
InPipe ==
  /\ osmium \in {"running", "finished"} /\ sent \in 0..Len(source.lines)
  /\ out \in Seq(ToSet(source.lines)) /\ Len(out) <= sent
  /\ \A n \in 1..Len(out) : out[n] = source.lines[Taken + n]
  /\ osmium = "finished" => sent = Len(source.lines)
InGenerators == batch \in Seq(Records(source)) /\ restored \in Seq(RecordsOf(source))
Exported ==
  step = "export" =>
    /\ source \in Sources /\ store = TaggedIn(source.objects)
    /\ osmium # "failed" => InPipe /\ InGenerators /\ \E made : Accounted(made)

Whole == Unstarted /\ Scanned /\ Exported /\ ShardIsWhole
seen ==
  <<step, source, scanned, pending, store, osmium, sent, out, batch, restored, written, output>>

LEMMA SourceLemma ==
  ASSUME NEW s \in Sources
  PROVE  /\ s.objects \in Seq(ToSet(s.objects)) /\ s.lines \in Seq(ToSet(s.lines))
         /\ Len(s.objects) \in Nat /\ Len(s.lines) \in Nat
         /\ DOMAIN s.objects = 1..Len(s.objects) /\ DOMAIN s.lines = 1..Len(s.lines)
         /\ \A n \in 1..Len(s.objects) : s.objects[n] \in ToSet(s.objects)
         /\ \A n \in 1..Len(s.lines) : s.lines[n] \in ToSet(s.lines)
<1>1. s.objects \in Seq(ToSet(s.objects)) /\ s.lines \in Seq(ToSet(s.lines))
  BY SourcesAssumption
<1> QED
  BY <1>1, LenProperties, ElementOfSeq

LEMMA ToSetAppend ==
  ASSUME NEW S, NEW q \in Seq(S), NEW e PROVE ToSet(Append(q, e)) = ToSet(q) \cup {e}
<1>1. /\ DOMAIN q = 1..Len(q) /\ Len(q) \in Nat /\ DOMAIN Append(q, e) = 1..(Len(q) + 1)
      /\ Append(q, e)[Len(q) + 1] = e /\ \A n \in 1..Len(q) : Append(q, e)[n] = q[n]
  OBVIOUS
<1>2. 1..(Len(q) + 1) = 1..Len(q) \cup {Len(q) + 1}
  BY <1>1
<1> QED
  BY <1>1, <1>2 DEF ToSet

LEMMA UnseenStep == ASSUME Whole, UNCHANGED seen PROVE Whole'
<1>1. Unstarted' /\ Scanned' /\ ShardIsWhole'
  BY DEF Whole, seen, Unstarted, Scanned, ShardIsWhole
<1>2. Exported'
  BY DEF Whole, seen, Exported, Accounted, InPipe, InGenerators, Taken
<1> QED
  BY <1>1, <1>2 DEF Whole

LEMMA ForgetsStep == ASSUME ShardIsWhole, Forgets, output' = output PROVE Whole'
BY DEF Whole, Forgets, Unstarted, Scanned, Exported, ShardIsWhole

LEMMA InitWhole == Init => Whole
BY DEF Init, NoBuild, NoProcess, Whole, Unstarted, Scanned, Exported, ShardIsWhole

LEMMA BuildWhole == ASSUME Whole, NEW s \in Sources, Build(s) PROVE Whole'
<1>1. /\ step = "idle" /\ step' = "scan" /\ source' = s /\ output' = output
      /\ UNCHANGED <<scanned, pending, store, osmium, sent, out, batch, restored, written>>
  BY DEF Build, Starts, scan, process, generators
<1>2. scanned' = 0 /\ pending' = <<>> /\ store' = {}
  BY <1>1 DEF Whole, Unstarted
<1>3. ToSet(<<>>) = {} /\ Before(s, 0) = {} /\ 0 \in 0..Len(s.objects)
  BY SourceLemma DEF ToSet, Before
<1>4. Scanned'
  BY <1>1, <1>2, <1>3, EmptySeq DEF Scanned
<1> QED
  BY <1>1, <1>4 DEF Whole, Unstarted, Exported, ShardIsWhole

LEMMA ScanWhole == ASSUME Whole, Scan PROVE Whole'
<1> DEFINE object == source.objects[scanned + 1]
           Ids == {o.id : o \in ToSet(source.objects)}
<1>1. /\ step = "scan" /\ scanned < Len(source.objects) /\ scanned' = scanned + 1
      /\ pending' = IF object.tagged THEN Append(pending, object.id) ELSE pending
      /\ UNCHANGED <<step, source, store, osmium, sent, out, batch, restored, written, output>>
  BY DEF Scan, process, generators
<1>2. /\ source \in Sources /\ scanned \in 0..Len(source.objects) /\ pending \in Seq(Ids)
      /\ store \cup ToSet(pending) = Before(source, scanned)
  BY <1>1 DEF Whole, Scanned
<1>3. Len(source.objects) \in Nat /\ object \in ToSet(source.objects)
  <2>1. scanned + 1 \in 1..Len(source.objects) /\ Len(source.objects) \in Nat
    BY <1>1, <1>2, SourceLemma
  <2> QED
    BY <1>2, <2>1, SourceLemma
<1>4. Before(source, scanned + 1)
        = Before(source, scanned) \cup (IF object.tagged THEN {object.id} ELSE {})
  <2>1. 1..(scanned + 1) = 1..scanned \cup {scanned + 1}
    BY <1>2, <1>3
  <2> QED
    BY <2>1 DEF Before
<1>5. pending' \in Seq(Ids)
  <2>1. object.id \in Ids
    BY <1>3
  <2> HIDE DEF object, Ids
  <2> QED
    BY <1>1, <1>2, <2>1
<1>6. store \cup ToSet(pending') = Before(source, scanned + 1)
  <2>1. CASE object.tagged
    <3>1. ToSet(pending') = ToSet(pending) \cup {object.id}
      BY <1>1, <1>2, <2>1, ToSetAppend
    <3> QED
      BY <1>2, <1>4, <2>1, <3>1
  <2>2. CASE ~ object.tagged
    BY <1>1, <1>2, <1>4, <2>2
  <2> QED
    BY <2>1, <2>2
<1>7. scanned' \in 0..Len(source'.objects)
  BY <1>1, <1>2, <1>3
<1>8. Scanned'
  BY <1>1, <1>2, <1>5, <1>6, <1>7 DEF Scanned
<1> QED
  BY <1>1, <1>8 DEF Whole, Unstarted, Exported, ShardIsWhole

LEMMA AddManyWhole == ASSUME Whole, AddMany PROVE Whole'
<1>1. /\ step = "scan" /\ store' = store \cup ToSet(pending) /\ pending' = <<>>
      /\ UNCHANGED <<step, source, scanned, osmium, sent, out, batch, restored, written, output>>
  BY DEF AddMany, process, generators
<1>2. Scanned'
  <2>1. ToSet(<<>>) = {}
    BY DEF ToSet
  <2> QED
    BY <1>1, <2>1, EmptySeq DEF Whole, Scanned
<1> QED
  BY <1>1, <1>2 DEF Whole, Unstarted, Exported, ShardIsWhole

LEMMA ExportWhole == ASSUME Whole, Export PROVE Whole'
<1>1. /\ step = "scan" /\ scanned = Len(source.objects) /\ pending = <<>>
      /\ step' = "export" /\ osmium' = "running"
      /\ UNCHANGED <<source, store, sent, out, batch, restored, written, output>>
  BY DEF Export, EndOfScan, scan, generators
<1>2. /\ source \in Sources /\ store = Before(source, scanned)
      /\ sent = 0 /\ out = <<>> /\ batch = <<>> /\ restored = <<>> /\ written = Nothing
  <2>1. ToSet(<<>>) = {}
    BY DEF ToSet
  <2> QED
    BY <1>1, <2>1 DEF Whole, Scanned, Unstarted
<1>3. store = TaggedIn(source.objects)
  BY <1>1, <1>2, SourceLemma DEF Before, TaggedIn
<1>4. InPipe'
  <2>1. Len(source.lines) \in Nat /\ Len(<<>>) = 0
    BY <1>2, SourceLemma
  <2>2. /\ osmium' = "running" /\ sent' = 0 /\ out' = <<>> /\ source' = source
        /\ 0 \in 0..Len(source.lines) /\ 1..0 = {}
    BY <1>1, <1>2, <2>1
  <2>3. out' \in Seq(ToSet(source'.lines)) /\ Len(out') = 0
    BY <2>1, <2>2, EmptySeq
  <2> QED
    BY <2>2, <2>3 DEF InPipe
<1>5. InGenerators'
  BY <1>1, <1>2, EmptySeq DEF InGenerators
<1>6. Accounted(<<>>)'
  <2>1. SubSeq(source.lines, 1, 0) = <<>> /\ Len(<<>>) = 0
    <3>1. 1 \in Int /\ 0 \in Int /\ 0 < 1
      OBVIOUS
    <3>2. SubSeq(source.lines, 1, 0) = <<>>
      BY ONLY <3>1, SubSeqEmpty
    <3> QED
      BY <3>2
  <2>2. Taken' = 0
    <3>1. sent' = 0 /\ out' = <<>>
      BY <1>1, <1>2
    <3>2. Len(out') = 0
      BY <3>1
    <3>3. Taken' = sent' - Len(out')
      BY ZenonT(20) DEF Taken
    <3> QED
      BY <3>1, <3>2, <3>3
  <2>3. <<>> \o <<>> \o <<>> = <<>>
    OBVIOUS
  <2>4. Outcome(source, <<>>) = Nothing
    <3>1. FirstDefects(<<>>) = <<>>
      BY DEF FirstDefects
    <3> QED
      BY <3>1, SelectEmpty DEF Outcome, Nothing
  <2>5. /\ <<>> \in Seq(RecordsOf(source')) /\ written' = Outcome(source', <<>>)
        /\ Select(SubSeq(source'.lines, 1, Taken'), RecordsOf(source')) = <<>>
        /\ <<>> \o restored' \o Select(batch', RecordsOf(source')) = <<>>
    BY <1>1, <1>2, <2>1, <2>2, <2>3, <2>4, SelectEmpty, EmptySeq
  <2> QED
    BY <2>5 DEF Accounted
<1>7. Exported'
  BY <1>1, <1>2, <1>3, <1>4, <1>5, <1>6 DEF Exported
<1> QED
  BY <1>1, <1>7 DEF Whole, Unstarted, Scanned, ShardIsWhole

\* The lines of osmium.
LEMMA OsmiumWhole == ASSUME Whole, WriteLine \/ Finish PROVE Whole'
<1>1. /\ osmium = "running" /\ osmium' # "none" /\ osmium' # "failed"
      /\ UNCHANGED <<step, source, scanned, pending, store, batch, restored, written, output>>
  BY DEF WriteLine, Finish, Inside, scan, generators
<1>2. step \notin {"idle", "scan"}
  BY <1>1 DEF Whole, Unstarted
<1>3. ASSUME step = "export" PROVE Exported'
  <2> DEFINE L == source.lines
  <2>1. /\ source \in Sources /\ store = TaggedIn(source.objects)
        /\ InPipe /\ InGenerators /\ \E made : Accounted(made)
    BY <1>1, <1>3 DEF Whole, Exported
  <2>2. PICK made : Accounted(made)
    BY <2>1
  <2>3. L \in Seq(ToSet(L)) /\ Len(L) \in Nat /\ sent \in 0..Len(L)
    BY <2>1, SourceLemma DEF InPipe
  <2>4. InPipe' /\ Taken' = Taken
    <3>1. /\ out \in Seq(ToSet(L)) /\ Len(out) \in Nat /\ Len(out) <= sent
          /\ \A n \in 1..Len(out) : out[n] = L[Taken + n]
      BY <2>1 DEF InPipe
    <3>2. CASE Finish
      BY <1>1, <2>1, <3>2 DEF Finish, Inside, InPipe, Taken
    <3>3. CASE WriteLine
      <4> DEFINE e == L[sent + 1]
      <4>1. /\ sent < Len(L) /\ out' = Append(out, e) /\ sent' = sent + 1 /\ osmium' = osmium
        BY <3>3 DEF WriteLine
      <4>2. sent + 1 \in 1..Len(L)
        BY <2>3, <4>1
      <4>3. e \in ToSet(L)
        BY <2>1, <4>2, SourceLemma
      <4> HIDE DEF e, L
      <4>4. /\ out' \in Seq(ToSet(L)) /\ Len(out') = Len(out) + 1 /\ out'[Len(out) + 1] = e
            /\ \A n \in 1..Len(out) : out'[n] = out[n]
        BY <3>1, <4>1, <4>3
      <4>5. Taken' = Taken /\ Taken + (Len(out) + 1) = sent + 1 /\ Len(out') <= sent'
        BY <2>3, <3>1, <4>1, <4>4 DEF Taken
      <4>6. \A n \in 1..Len(out') : out'[n] = L[Taken' + n]
        <5>1. \A n \in 1..Len(out') : n \in 1..Len(out) \/ n = Len(out) + 1
          BY <3>1, <4>4
        <5> QED
          BY <3>1, <4>4, <4>5, <5>1 DEF e
      <4>7. sent' \in 0..Len(L)
        BY <2>3, <4>1
      <4> QED
        BY <1>1, <4>1, <4>4, <4>5, <4>6, <4>7 DEF InPipe, L
    <3> QED
      BY <3>2, <3>3
  <2>5. InGenerators'
    BY <1>1, <2>1 DEF InGenerators
  <2>6. Accounted(made)'
    BY <1>1, <2>2, <2>4 DEF Accounted
  <2> QED
    BY <1>1, <2>1, <2>4, <2>5, <2>6 DEF Exported
<1>4. Exported'
  BY <1>1, <1>3 DEF Exported
<1> QED
  BY <1>1, <1>2, <1>4 DEF Whole, Unstarted, Scanned, ShardIsWhole

LEMMA CrashWhole == ASSUME Whole, Crash PROVE Whole'
<1>1. /\ osmium = "running" /\ osmium' = "failed"
      /\ UNCHANGED <<step, source, scanned, pending, store, output>>
  BY DEF Crash, Inside, scan
<1>2. step \notin {"idle", "scan"}
  BY <1>1 DEF Whole, Unstarted
<1> QED
  BY <1>1, <1>2 DEF Whole, Unstarted, Scanned, Exported, ShardIsWhole

\* A step of the generators, which goes on only if it keeps the account.
LEMMA GeneratorsWhole ==
  ASSUME Whole, step = "export",
         UNCHANGED <<step, source, scanned, pending, store, osmium, sent, output>>,
         InPipe /\ InGenerators /\ (\E made : Accounted(made))
           => (InPipe /\ InGenerators /\ \E made : Accounted(made))'
  PROVE  Whole'
BY DEF Whole, Unstarted, Scanned, Exported, ShardIsWhole

LEMMA ReadWhole == ASSUME Whole, Read PROVE Whole'
<1> DEFINE e == Head(out)
           L == source.lines
           R == RecordsOf(source)
<1>1. /\ step = "export" /\ out # <<>> /\ e.kind # "malformed" /\ out' = Tail(out)
      /\ batch' = IF e.kind = "blank" THEN batch ELSE Append(batch, e)
      /\ UNCHANGED <<step, source, scanned, pending, store, osmium, sent, restored, written, output>>
  BY DEF Read, Pulling, scan
<1>2. ASSUME InPipe, InGenerators, NEW made, Accounted(made)
      PROVE  InPipe' /\ InGenerators' /\ Accounted(made)'
  <2>1. source \in Sources
    BY <1>1 DEF Whole, Exported
  <2>2. /\ L \in Seq(ToSet(L)) /\ Len(L) \in Nat /\ sent \in 0..Len(L)
        /\ out \in Seq(ToSet(L)) /\ Len(out) \in Nat \ {0} /\ Len(out) <= sent
        /\ \A n \in 1..Len(out) : out[n] = L[Taken + n]
    BY <1>1, <1>2, <2>1, SourceLemma, EmptySeq DEF InPipe
  <2>3. /\ out' \in Seq(ToSet(L)) /\ Len(out') = Len(out) - 1 /\ e = out[1]
        /\ \A n \in 1..Len(out') : out'[n] = out[n + 1]
    <3>1. e = out[1]
      BY <2>2
    <3> QED
      BY <1>1, <2>2, <3>1, HeadTailProperties
  <2>4. Taken' = Taken + 1 /\ Taken \in Nat /\ Taken + 1 \in 1..Len(L) /\ e = L[Taken + 1]
    BY <1>1, <2>2, <2>3 DEF Taken
  <2>5. InPipe'
    <3>1. \A n \in 1..Len(out') : out'[n] = L[Taken' + n]
      <4>1. ASSUME NEW n \in 1..Len(out') PROVE out'[n] = L[Taken' + n]
        <5>0. n \in 1..(Len(out) - 1) /\ Len(out) \in Nat
          BY <2>2, <2>3
        <5>1. n + 1 \in 1..Len(out) /\ Taken' + n = Taken + (n + 1)
          <6>1. Taken' = Taken + 1 /\ Taken \in Nat
            BY <2>4
          <6> HIDE DEF Taken
          <6> QED
            BY <5>0, <6>1
        <5>2. out'[n] = out[n + 1] /\ out[n + 1] = L[Taken + (n + 1)]
          BY <2>2, <2>3, <5>1
        <5> QED
          BY <5>1, <5>2
      <4> QED
        BY <4>1
    <3>2. Len(out') <= sent'
      BY <1>1, <2>2, <2>3
    <3> QED
      BY <1>1, <1>2, <2>3, <3>1, <3>2 DEF InPipe
  <2>6. e \in ToSet(L) /\ e.kind \in {"record", "blank"}
    BY <1>1, <2>1, <2>4, SourceLemma, SourcesAssumption
  <2>7. SubSeq(L, 1, Taken + 1) = Append(SubSeq(L, 1, Taken), e) /\ SubSeq(L, 1, Taken) \in Seq(ToSet(L))
    <3> HIDE DEF L, e
    <3> QED
      BY <2>2, <2>4
  <2>8. Select(SubSeq(L, 1, Taken'), R)
          = IF e \in R THEN Append(Select(SubSeq(L, 1, Taken), R), e)
                       ELSE Select(SubSeq(L, 1, Taken), R)
    <3> DEFINE p == SubSeq(L, 1, Taken)
    <3>1. /\ SubSeq(L, 1, Taken') = Append(p, e) /\ p \in Seq(ToSet(L)) /\ e \in ToSet(L)
      BY <2>4, <2>6, <2>7
    <3> HIDE DEF p, e, R
    <3>2. Select(Append(p, e), R) = IF e \in R THEN Append(Select(p, R), e) ELSE Select(p, R)
      BY <3>1, SelectAppend
    <3> QED
      BY <3>1, <3>2 DEF p
  <2>9. /\ batch \in Seq(Records(source)) /\ restored \in Seq(R) /\ made \in Seq(R)
        /\ written = Outcome(source, made)
        /\ Select(SubSeq(L, 1, Taken), R) = made \o restored \o Select(batch, R)
    BY <1>2 DEF InGenerators, Accounted
  <2>10. CASE e.kind = "blank"
    <3>1. e \notin R
      BY <2>10 DEF RecordsOf
    <3> QED
      BY <1>1, <2>5, <2>8, <2>9, <2>10, <3>1 DEF InGenerators, Accounted
  <2>11. CASE e.kind = "record"
    <3>1. e \in Records(source) /\ batch' = Append(batch, e)
      BY <1>1, <2>6, <2>11 DEF Records
    <3> HIDE DEF e, R, L
    <3>2. batch' \in Seq(Records(source))
      BY <2>9, <3>1
    <3>3. Select(batch', R) = IF e \in R THEN Append(Select(batch, R), e) ELSE Select(batch, R)
      BY <2>9, <3>1, SelectAppend
    <3>4. Select(batch, R) \in Seq(Records(source) \cap R)
      BY <2>9, SelectType
    <3>5. made \o restored \o Append(Select(batch, R), e)
            = Append(made \o restored \o Select(batch, R), e)
      <4>1. Select(batch, R) \in Seq(R \cup {e}) /\ made \o restored \in Seq(R \cup {e})
        <5>1. Select(batch, R) \in Seq(R \cup {e}) /\ made \in Seq(R \cup {e}) /\ restored \in Seq(R \cup {e})
          BY <2>9, <3>4, SeqMonotonic
        <5> QED
          BY <5>1
      <4> QED
        BY <4>1
    <3>6. Select(SubSeq(L, 1, Taken'), R) = made \o restored \o Select(batch', R)
      <4>1. CASE e \in R
        BY <2>8, <2>9, <3>3, <3>5, <4>1
      <4>2. CASE e \notin R
        BY <2>8, <2>9, <3>3, <4>2
      <4> QED
        BY <4>1, <4>2
    <3> QED
      BY <1>1, <2>5, <2>9, <3>2, <3>6 DEF InGenerators, Accounted, R, L
  <2> QED
    BY <2>6, <2>10, <2>11
<1> HIDE DEF e
<1> QED
  BY <1>1, <1>2, GeneratorsWhole

LEMMA RestoreWhole == ASSUME Whole, Restore PROVE Whole'
<1> DEFINE R == RecordsOf(source)
           known == {record \in ToSet(batch) : record.id \in store}
<1>1. /\ step = "export" /\ restored' = restored \o Select(batch, known) /\ batch' = <<>>
      /\ UNCHANGED <<step, source, scanned, pending, store, osmium, sent, out, written, output>>
  BY DEF Restore, Pulling, scan, process
<1>2. ASSUME InPipe, InGenerators, NEW made, Accounted(made)
      PROVE  InPipe' /\ InGenerators' /\ Accounted(made)'
  <2>1. source \in Sources /\ store = TaggedIn(source.objects)
    BY <1>1 DEF Whole, Exported
  <2>2. /\ batch \in Seq(Records(source)) /\ restored \in Seq(R) /\ made \in Seq(R)
        /\ written = Outcome(source, made)
        /\ Select(SubSeq(source.lines, 1, Taken), R) = made \o restored \o Select(batch, R)
    BY <1>2 DEF InGenerators, Accounted
  <2>3. Select(batch, known) = Select(batch, R)
    <3>1. batch \in Seq(ToSet(batch)) /\ ToSet(batch) \subseteq Records(source)
      BY <2>2 DEF ToSet
    <3>2. \A record \in ToSet(batch) : record \in known <=> record \in R
      BY <2>1, <3>1 DEF Records, RecordsOf
    <3> HIDE DEF known, R
    <3> QED
      BY <3>1, <3>2, SelectSame
  <2>4. Select(batch, R) \in Seq(R)
    <3>1. Select(batch, R) \in Seq(Records(source) \cap R)
      BY <2>2, SelectType
    <3> QED
      BY <3>1, SeqMonotonic
  <2> HIDE DEF R, known
  <2>5. restored' \in Seq(R) /\ restored' = restored \o Select(batch, R)
    BY <1>1, <2>2, <2>3, <2>4
  <2>6. made \o restored' \o Select(batch', R) = made \o restored \o Select(batch, R)
    <3>1. Select(batch', R) = <<>>
      BY <1>1, SelectEmpty
    <3>2. made \o restored' \in Seq(R) /\ (made \o restored') \o <<>> = made \o restored'
      BY <2>2, <2>5
    <3>3. made \o (restored \o Select(batch, R)) = (made \o restored) \o Select(batch, R)
      BY <2>2, <2>4, ConcatAssociative
    <3> QED
      BY <2>5, <3>1, <3>2, <3>3
  <2>7. InPipe' /\ Taken' = Taken
    BY <1>1, <1>2 DEF InPipe, Taken
  <2>8. InGenerators'
    BY <1>1, <2>5, EmptySeq DEF InGenerators, R
  <2> QED
    BY <1>1, <2>2, <2>6, <2>7, <2>8 DEF Accounted, R
<1> HIDE DEF known
<1> QED
  BY <1>1, <1>2, GeneratorsWhole

LEMMA TransformWhole == ASSUME Whole, Transform PROVE Whole'
<1> DEFINE R == RecordsOf(source)
           size == Upto(restored, TransformBatch)
           x == SubSeq(restored, 1, size)
           y == SubSeq(restored, size + 1, Len(restored))
<1>1. /\ step = "export" /\ restored' = y
      /\ written' = [rows |-> written.rows \o Transformed(x).rows,
                     rejected |-> written.rejected \o Transformed(x).rejected]
      /\ UNCHANGED <<step, source, scanned, pending, store, osmium, sent, out, batch, output>>
  BY Zenon DEF Transform, scan, process
<1>2. ASSUME InPipe, InGenerators, NEW made, Accounted(made)
      PROVE  InPipe' /\ InGenerators' /\ \E m : Accounted(m)'
  <2>1. source \in Sources /\ store = TaggedIn(source.objects)
    BY <1>1 DEF Whole, Exported
  <2>2. /\ batch \in Seq(Records(source)) /\ restored \in Seq(R) /\ made \in Seq(R)
        /\ written = Outcome(source, made)
        /\ Select(SubSeq(source.lines, 1, Taken), R) = made \o restored \o Select(batch, R)
    BY <1>2 DEF InGenerators, Accounted
  <2>3. size \in 0..Len(restored) /\ Len(restored) \in Nat
    BY <2>2, BatchAssumption DEF Upto
  <2> HIDE DEF size
  <2>4. x \in Seq(R) /\ y \in Seq(R) /\ restored = x \o y
    <3> HIDE DEF R
    <3>1. x \in Seq(R) /\ Len(x) = size /\ \A n \in 1..size : x[n] = restored[n]
      BY <2>2, <2>3
    <3>2. /\ y \in Seq(R) /\ Len(y) = Len(restored) - size
          /\ \A n \in 1..(Len(restored) - size) : y[n] = restored[n + size]
      BY <2>2, <2>3
    <3> HIDE DEF x, y
    <3>3. /\ x \o y \in Seq(R) /\ Len(x \o y) = Len(restored)
          /\ \A n \in 1..Len(restored) :
               (x \o y)[n] = IF n <= size THEN x[n] ELSE y[n - size]
      <4>1. x \in Seq(R) /\ y \in Seq(R)
        BY <3>1, <3>2
      <4>2. /\ x \o y \in Seq(R) /\ Len(x \o y) = Len(x) + Len(y)
            /\ \A n \in 1..(Len(x) + Len(y)) :
                 (x \o y)[n] = IF n <= Len(x) THEN x[n] ELSE y[n - Len(x)]
        BY ONLY <4>1, ConcatProperties
      <4>3. Len(x) = size /\ Len(x) + Len(y) = Len(restored)
        BY <2>3, <3>1, <3>2
      <4> QED
        BY <4>2, <4>3
    <3>4. ASSUME NEW n \in 1..Len(restored) PROVE (x \o y)[n] = restored[n]
      <4>1. CASE n <= size
        BY <2>3, <3>1, <3>3, <4>1
      <4>2. CASE ~ (n <= size)
        <5>1. n - size \in 1..(Len(restored) - size) /\ (n - size) + size = n
          BY <2>3, <4>2
        <5> QED
          BY <3>2, <3>3, <4>2, <5>1
      <4> QED
        BY <4>1, <4>2
    <3>5. restored = x \o y
      BY <2>2, <3>3, <3>4, SeqEqual
    <3> QED
      BY <3>1, <3>2, <3>5
  <2> HIDE DEF R, x, y
  <2>5. made \o x \in Seq(R) /\ made \o x \o y = made \o restored
    <3>1. made \o (x \o y) = (made \o x) \o y
      BY <2>2, <2>4, ConcatAssociative
    <3> QED
      BY <2>2, <2>4, <3>1
  <2>6. written' = Outcome(source, made \o x)
    <3>1. Transformed(x) = Outcome(source, x)
      BY <2>1, <2>4, TransformedLemma DEF R
    <3> QED
      BY <1>1, <2>2, <2>4, <3>1, OutcomeConcat DEF R
  <2>7. InPipe' /\ Taken' = Taken
    BY <1>1, <1>2 DEF InPipe, Taken
  <2>8. InGenerators'
    BY <1>1, <2>2, <2>4 DEF InGenerators, R
  <2>9. PICK m : m = made \o x
    OBVIOUS
  <2>10. Accounted(m)'
    <3>1. made \o x \o restored' \o Select(batch, R) = made \o restored \o Select(batch, R)
      BY <1>1, <2>5
    <3>2. /\ m \in Seq(RecordsOf(source)) /\ written' = Outcome(source, m)
          /\ Select(SubSeq(source.lines, 1, Taken), RecordsOf(source))
               = m \o restored' \o Select(batch, RecordsOf(source))
      BY <2>2, <2>5, <2>6, <2>9, <3>1 DEF R
    <3>3. source' = source /\ batch' = batch /\ Taken' = Taken
      BY <1>1, <2>7
    <3> QED
      BY <3>2, <3>3 DEF Accounted
  <2> QED
    BY <2>7, <2>8, <2>10
<1> HIDE DEF x, y
<1>3. (\E made : Accounted(made)) /\ InPipe /\ InGenerators => (\E made : Accounted(made))'
  BY <1>2
<1> QED
  BY <1>1, <1>2, <1>3, GeneratorsWhole

LEMMA PromoteWhole == ASSUME Whole, Promote PROVE Whole'
<1> DEFINE L == source.lines
           R == RecordsOf(source)
<1>1. /\ step = "export" /\ out = <<>> /\ osmium = "finished" /\ batch = <<>> /\ restored = <<>>
      /\ output' = [source |-> source, rows |-> written.rows, rejected |-> written.rejected]
      /\ step' = "close"
  BY DEF Promote, EndOfExport
<1>2. source \in Sources /\ InPipe /\ \E made : Accounted(made)
  BY <1>1 DEF Whole, Exported
<1>3. PICK made : Accounted(made)
  BY <1>2
<1>4. L \in Seq(ToSet(L)) /\ Len(L) \in Nat
  BY <1>2, SourceLemma
<1>5. Taken = Len(L)
  <2>1. Len(out) = 0 /\ sent = Len(L)
    BY <1>1, <1>2 DEF InPipe
  <2> QED
    BY <1>4, <2>1 DEF Taken
<1>6. Select(L, R) = made /\ made \in Seq(R) /\ written = Outcome(source, made)
  <2>1. SubSeq(L, 1, Taken) = L
    BY <1>4, <1>5, SubSeqFull
  <2>2. /\ made \in Seq(R) /\ written = Outcome(source, made)
        /\ Select(L, R) = made \o <<>> \o Select(<<>>, R)
    BY <1>1, <1>3, <2>1 DEF Accounted
  <2> HIDE DEF R, L
  <2>3. made \o <<>> \o <<>> = made
    BY <2>2
  <2> QED
    BY <2>2, <2>3, SelectEmpty
<1>7. output' = Worth(source)
  BY <1>1, <1>6, WorthLemma
<1>8. output'.source = source
  BY <1>1
<1> QED
  BY <1>1, <1>7, <1>8 DEF Whole, Unstarted, Scanned, Exported, ShardIsWhole

LEMMA WholeStep == ASSUME Whole, [Next]_vars PROVE Whole'
<1>1. ASSUME NEW s \in Sources, Build(s) PROVE Whole'
  BY <1>1, BuildWhole
<1>2. CASE Main
  <2>1. CASE Scan \/ AddMany \/ Export \/ Read \/ Restore \/ Transform \/ Promote
    BY <2>1, ScanWhole, AddManyWhole, ExportWhole, ReadWhole, RestoreWhole, TransformWhole,
       PromoteWhole
  <2>2. CASE Flush \/ OpenManifest
    <3>1. UNCHANGED seen
      BY <2>2 DEF Flush, OpenManifest, scan, process, generators, seen
    <3> QED
      BY <3>1, UnseenStep
  <2>3. CASE CloseStore
    BY <2>3 DEF CloseStore, Whole, Unstarted, Scanned, Exported, ShardIsWhole
  <2>4. CASE WriteManifest \/ Fail
    <3>1. Forgets /\ output' = output
      BY <2>4 DEF WriteManifest, Fail, Raises
    <3> QED
      BY <3>1, ForgetsStep DEF Whole
  <2> QED
    BY <1>2, <2>1, <2>2, <2>3, <2>4 DEF Main
<1>3. CASE WriteLine \/ Finish \/ Crash
  BY <1>3, OsmiumWhole, CrashWhole
<1>4. CASE WriteMessage \/ Drain \/ UNCHANGED vars
  <2>1. CASE WriteMessage \/ Drain
    BY <2>1, UnseenStep DEF WriteMessage, Drain, Inside, scan, generators, seen
  <2>2. CASE UNCHANGED vars
    BY <2>2, UnseenStep DEF vars, process, scan, generators, seen
  <2> QED
    BY <1>4, <2>1, <2>2
<1>5. CASE Kill \/ Raises
  BY <1>5, ForgetsStep DEF Kill, Raises, Whole
<1>6. CASE \/ Start \/ Join \/ Stop \/ Pause \/ Wake \/ Checkpoint
           \/ Refresh \/ OwnRefresh \/ Inventory \/ EndRefresh
  <2>1. UNCHANGED Rest
    BY <1>6, Zenon DEF Start, Join, Stop, Pause, Wake, Checkpoint, Refresh, OwnRefresh, Inventory,
       EndRefresh
  <2> QED
    BY <2>1, UnseenStep DEF Rest, process, scan, generators, seen
<1>7. ASSUME NEW f, OpenAsset(f) \/ CloseAsset(f) \/ OpenReport(f) \/ CloseReport(f) PROVE Whole'
  <2>1. UNCHANGED Rest
    BY <1>7 DEF OpenAsset, CloseAsset, OpenReport, CloseReport
  <2> QED
    BY <2>1, UnseenStep DEF Rest, process, scan, generators, seen
<1> QED
  BY <1>1, <1>2, <1>3, <1>4, <1>5, <1>6, <1>7 DEF Next, Osmium, Jobs, Beside

\* The shard of a source has its rows and accounts for its other records,
\* whatever the sizes of the batches and wherever osmium stops.
THEOREM WholeCorrect == Spec => []ShardIsWhole
<1>1. Init => Whole
  BY InitWhole
<1>2. Whole /\ [Next]_vars => Whole'
  BY WholeStep
<1>3. Whole => ShardIsWhole
  BY DEF Whole
<1> QED
  BY <1>1, <1>2, <1>3, PTL DEF Spec
=============================================================================
