----------------------------- MODULE Extraction -----------------------------
(***************************************************************************)
(* How a source becomes a shard (runtime/pipeline_build.py), beside the    *)
(* worker and the refreshes of the same process (run-and-publish), in a    *)
(* data root that a kill may leave in any state.                           *)
(*                                                                         *)
(* Under refresh_lock the main thread scans the source for tagged ways and *)
(* relations into a tag store (ingest/tag_store.py), then pulls the lines  *)
(* that osmium exports through a chain of generators: restore the tags of  *)
(* a batch of lines, transform a batch of records (ingest/transform.py),   *)
(* write the rows to a temporary Parquet file.  Osmium writes to two pipes *)
(* of bounded size; a thread drains the one of its messages.  After a      *)
(* build the main thread asks the worker to pause, and refreshes; the      *)
(* worker refreshes after a job (runtime/enrichment.py).                   *)
(*                                                                         *)
(* A source is its objects in file order and the lines osmium writes for   *)
(* it: a line is blank, malformed, or a record with an identity and with   *)
(* the defects of its geometry and timestamp.                              *)
(***************************************************************************)
EXTENDS DataRoot, Integers, Sequences, SequencesExt

CONSTANTS Sources,                   \* [objects, lines]
          Foreign,                   \* files with names the code does not write
          AddBatch,                  \* _TAG_STORE_BATCH_SIZE, and the commit interval
          RestoreBatch,              \* _DEFAULT_RESTORE_BATCH_SIZE
          TransformBatch,            \* _DEFAULT_TRANSFORM_BATCH_SIZE
          PipeSize, Messages,        \* of osmium: pipe sizes, and messages it writes
          AssetJobs, Reports,        \* what is written beside the build
          MaxKills,                  \* bound on the kills
          None

ASSUME JobsAssumption == AssetJobs \subseteq AssetTemps /\ Reports \subseteq ReportTemps
ASSUME ForeignAssumption ==
  \A f \in Foreign : f = File(f.dir, f.form, f.target) /\ f \notin PipelineTemps
ASSUME BatchAssumption == {AddBatch, RestoreBatch, TransformBatch, PipeSize} \subseteq Nat \ {0}

\* The entries of a sequence that are in a set, in their order: selected[n] are
\* those of the first n.
Select(s, S) ==
  LET selected[n \in 0..Len(s)] ==
        IF n = 0 THEN <<>>
        ELSE IF s[n] \in S THEN Append(selected[n - 1], s[n]) ELSE selected[n - 1]
  IN selected[Len(s)]

\* The reasons of a rejection, in the order in which transform_record finds them.
Reasons ==
  <<"missing_target_tag", "malformed_wkb", "empty_geometry", "non_polygon_geometry",
    "invalid_geometry", "non_finite_geometry", "non_positive_area", "invalid_timestamp">>
Torn == [kind |-> "malformed"]

\* A line is blank, malformed or a record, whose defects transform_record knows.
ASSUME SourcesAssumption ==
  \A s \in Sources :
    /\ s.objects \in Seq(ToSet(s.objects)) /\ s.lines \in Seq(ToSet(s.lines))
    /\ \A line \in ToSet(s.lines) :
         /\ line.kind \in {"record", "blank", "malformed"}
         /\ line.kind = "record" => line.defects \subseteq ToSet(Reasons)

VARIABLES
  files,              \* the data root
  open,               \* temporary files of the process that runs
  run, lock,          \* of that process, and who has refresh_lock
  asked,              \* whether the main thread wants the worker paused: _pause_requested
  worker,             \* "free", "waiting" for _resume, or "released" from that wait
  stale,              \* history: _paused was set before the main thread asked
  kills,              \* of processes so far
  refused,            \* what an inventory under way refuses
  step, source,       \* where the build is
  scanned, pending,   \* objects scanned, and those not added yet
  store,              \* tag store: identities with their tags
  osmium, sent, told, \* its state, lines and messages written
  out, err,           \* what its pipes hold
  batch, restored,    \* lines and records in the generators
  written,            \* rows and rejections
  output              \* what is in the shard, and of which source

process == <<osmium, sent, told, out, err>>
generators == <<batch, restored, written>>
scan == <<scanned, pending, store>>
root == <<files, open>>
others == <<run, lock, refused, kills>>
pause == <<asked, worker, stale>>
vars == <<root, others, pause, step, source, scan, process, generators, output>>

Nothing == [rows |-> <<>>, rejected |-> <<>>]
NoProcess == osmium = "none" /\ sent = 0 /\ told = 0 /\ out = <<>> /\ err = 0
NoBuild ==
  /\ step = "idle" /\ source = None /\ scanned = 0 /\ pending = <<>> /\ store = {}
  /\ NoProcess /\ batch = <<>> /\ restored = <<>> /\ written = Nothing

\* Earlier runs have written the files of other shards and releases.
Init ==
  /\ open = {} /\ kills = 0
  /\ \E foreign \in SUBSET Foreign : files = foreign \cup {Final(f) : f \in AssetJobs \cup Reports}
  /\ run = "stopped" /\ lock = "free" /\ refused = {}
  /\ asked = FALSE /\ worker = "free" /\ stale = FALSE
  /\ NoBuild /\ output = None

(***************************************************************************)
(* Temporary files: core/atomic.py.                                        *)
(***************************************************************************)

Opens(fs) == files' = files \cup fs /\ open' = open \cup fs
Promotes(f) == files' = (files \ {f}) \cup {Final(f)} /\ open' = open \ {f}
Removes(fs) == files' = files \ fs /\ open' = open \ fs

(***************************************************************************)
(* The scan.                                                               *)
(***************************************************************************)

Starts(s) ==
  /\ source' = s /\ step' = "scan"
  /\ Opens({TagStore})
  /\ UNCHANGED <<run, kills, refused, pause, scan, process, generators, output>>
\* _build_source and TagStore.create.  Faulty: without refresh_lock.
BuildWithoutLock(s) ==
  run = "running" /\ step = "idle" /\ ~ asked /\ Starts(s) /\ UNCHANGED lock
Build(s) ==
  /\ run = "running" /\ step = "idle" /\ ~ asked
  /\ lock = "free" /\ lock' = "build" /\ Starts(s)

\* _SourceTagHandler._handle and emit_tag.
Scan ==
  /\ step = "scan" /\ scanned < Len(source.objects) /\ Len(pending) < AddBatch
  /\ LET object == source.objects[scanned + 1]
     IN pending' = IF object.tagged THEN Append(pending, object.id) ELSE pending
  /\ scanned' = scanned + 1
  /\ UNCHANGED <<root, others, pause, step, source, store, process, generators, output>>

EndOfScan == scanned = Len(source.objects)
IsDuplicate == ~ IsInjective(pending) \/ ToSet(pending) \cap store # {}

\* TagStore.add_many: the insertion opens a transaction.
AddMany ==
  /\ step = "scan" /\ pending # <<>> /\ (Len(pending) = AddBatch \/ EndOfScan)
  /\ ~ IsDuplicate /\ TagStoreJournal \notin open
  /\ store' = store \cup ToSet(pending) /\ pending' = <<>>
  /\ Opens({TagStoreJournal})
  /\ UNCHANGED <<others, pause, step, source, scanned, process, generators, output>>

\* TagStore.flush.
Flush ==
  /\ TagStoreJournal \in open
  /\ Removes({TagStoreJournal})
  /\ UNCHANGED <<others, pause, step, source, scan, process, generators, output>>

\* restore_original_tags, write_geoparquet and stream_export, up to the first line.
Export ==
  /\ step = "scan" /\ EndOfScan /\ pending = <<>> /\ TagStoreJournal \notin open
  /\ step' = "export" /\ osmium' = "running"
  /\ Opens({ShardTemp})
  /\ UNCHANGED <<others, pause, source, scan, sent, told, out, err, generators, output>>

(***************************************************************************)
(* Osmium, and the thread that drains its messages.                        *)
(***************************************************************************)

Inside == <<root, others, pause, step, source, scan, generators, output>>

WriteLine ==
  /\ osmium = "running" /\ sent < Len(source.lines) /\ Len(out) < PipeSize
  /\ out' = Append(out, source.lines[sent + 1]) /\ sent' = sent + 1
  /\ UNCHANGED <<Inside, osmium, told, err>>
WriteMessage ==
  /\ osmium = "running" /\ told < Messages /\ err < PipeSize
  /\ err' = err + 1 /\ told' = told + 1
  /\ UNCHANGED <<Inside, osmium, sent, out>>
Finish ==
  /\ osmium = "running" /\ sent = Len(source.lines) /\ told = Messages
  /\ osmium' = "finished"
  /\ UNCHANGED <<Inside, sent, told, out, err>>
\* It may fail anywhere, in the middle of a line too.
Crash ==
  /\ osmium = "running" /\ osmium' = "failed"
  /\ \/ UNCHANGED out
     \/ sent < Len(source.lines) /\ Len(out) < PipeSize /\ out' = Append(out, Torn)
  /\ UNCHANGED <<Inside, sent, told, err>>

\* _drain_stderr.  Faulty: it waits for osmium to end.
DrainAtTheEnd ==
  /\ osmium \in {"finished", "failed"} /\ err > 0 /\ err' = err - 1
  /\ UNCHANGED <<Inside, osmium, sent, told, out>>
Drain ==
  /\ err > 0 /\ err' = err - 1
  /\ UNCHANGED <<Inside, osmium, sent, told, out>>

(***************************************************************************)
(* The generators: transform_records pulls a batch of records from         *)
(* _restore_in_batches, which pulls a batch of lines from iter_records.    *)
(***************************************************************************)

Pulling == step = "export" /\ Len(restored) < TransformBatch

\* parse_copy_record; a blank line is skipped.
Read ==
  /\ Pulling /\ Len(batch) < RestoreBatch /\ out # <<>> /\ Head(out).kind # "malformed"
  /\ batch' = IF Head(out).kind = "blank" THEN batch ELSE Append(batch, Head(out))
  /\ out' = Tail(out)
  /\ UNCHANGED <<root, others, pause, step, source, scan, osmium, sent, told, err, restored, written, output>>

\* The end of stream_export.
EndOfExport == out = <<>> /\ osmium = "finished"

\* lookup_many and _restore_batch: a record that has no tags in the store is
\* dropped, the others get those of the store.
Restore ==
  /\ Pulling /\ (Len(batch) = RestoreBatch \/ (EndOfExport /\ batch # <<>>))
  /\ restored' = restored \o Select(batch, {record \in ToSet(batch) : record.id \in store})
  /\ batch' = <<>>
  /\ UNCHANGED <<root, others, pause, step, source, scan, process, written, output>>

\* transform_record.
Defects(record) == record.defects \cup (IF record.id \in store THEN {} ELSE {"missing_target_tag"})
Reason(record) ==
  Reasons[CHOOSE n \in DOMAIN Reasons :
            /\ Reasons[n] \in Defects(record)
            /\ \A k \in 1..(n - 1) : Reasons[k] \notin Defects(record)]
Scalar(records) ==
  LET accepted == {record \in ToSet(records) : Defects(record) = {}}
      rejected == Select(records, ToSet(records) \ accepted)
  IN [rows |-> Select(records, accepted),
      rejected |-> [n \in DOMAIN rejected |-> Reason(rejected[n])]]
\* _try_transform_batch: all or none.  Faulty: rows are not looked at one by one.
IsEligibleByGeometry(records) ==
  \A n \in DOMAIN records :
    Defects(records[n]) \subseteq {"non_finite_geometry", "non_positive_area", "invalid_timestamp"}
IsEligible(records) == \A n \in DOMAIN records : Defects(records[n]) = {}
Transformed(records) ==
  IF IsEligible(records) THEN [rows |-> records, rejected |-> <<>>] ELSE Scalar(records)

Upto(sequence, n) == IF Len(sequence) < n THEN Len(sequence) ELSE n

\* transform_records and _write_transformed_output.
Transform ==
  /\ step = "export"
  /\ \/ Len(restored) >= TransformBatch
     \/ EndOfExport /\ batch = <<>> /\ restored # <<>>
  /\ LET size == Upto(restored, TransformBatch)
     IN \E outcome \in {Transformed(SubSeq(restored, 1, size))} :
        /\ written' = [rows |-> written.rows \o outcome.rows,
                       rejected |-> written.rejected \o outcome.rejected]
        /\ restored' = SubSeq(restored, size + 1, Len(restored))
  /\ UNCHANGED <<root, others, pause, step, source, scan, process, batch, output>>

(***************************************************************************)
(* The end of a build.                                                     *)
(***************************************************************************)

\* write_geoparquet.
Promote ==
  /\ step = "export" /\ EndOfExport /\ batch = <<>> /\ restored = <<>>
  /\ Promotes(ShardTemp)
  /\ output' = [source |-> source, rows |-> written.rows, rejected |-> written.rejected]
  /\ step' = "close" /\ osmium' = "none" /\ sent' = 0 /\ told' = 0 /\ err' = 0 /\ UNCHANGED out
  /\ UNCHANGED <<others, pause, source, scan, generators>>

CloseStore ==
  /\ step = "close" /\ Removes({TagStore})
  /\ step' = "manifest"
  /\ UNCHANGED <<others, pause, source, scan, process, generators, output>>

Forgets ==
  /\ step' = "idle" /\ source' = None /\ scanned' = 0 /\ pending' = <<>> /\ store' = {}
  /\ osmium' = "none" /\ sent' = 0 /\ told' = 0 /\ out' = <<>> /\ err' = 0
  /\ batch' = <<>> /\ restored' = <<>> /\ written' = Nothing

\* write_manifest of core/manifest.py, and the release of refresh_lock.
OpenManifest ==
  /\ step = "manifest" /\ ManifestTemp \notin open /\ Opens({ManifestTemp})
  /\ UNCHANGED <<others, pause, step, source, scan, process, generators, output>>
WriteManifest ==
  /\ step = "manifest" /\ ManifestTemp \in open /\ Promotes(ManifestTemp)
  /\ Forgets /\ lock' = "free"
  /\ UNCHANGED <<run, kills, refused, pause, output>>

\* An exception.  The context managers remove the temporary files, osmium is
\* stopped, and _build_sources ends the run, which waits for the worker.
BuildTemps == {TagStore, TagStoreJournal, ShardTemp, ManifestTemp}
Raises ==
  /\ step # "idle"
  /\ Removes(BuildTemps \cap open)
  /\ Forgets /\ lock' = "free" /\ run' = "ending"
  /\ UNCHANGED <<kills, refused, pause, output>>

\* A duplicate, a malformed line, or an osmium that failed.  Anything else may
\* raise at any step: the scan, an osmium that is not there, the disk, the
\* validation of what was written.
MustFail ==
  \/ step = "scan" /\ pending # <<>> /\ (Len(pending) = AddBatch \/ EndOfScan) /\ IsDuplicate
     /\ TagStoreJournal \notin open
  \/ Pulling /\ Len(batch) < RestoreBatch /\ out # <<>> /\ Head(out).kind = "malformed"
  \/ Pulling /\ Len(batch) < RestoreBatch /\ out = <<>> /\ osmium = "failed"
Fail == MustFail /\ Raises

(***************************************************************************)
(* The rest of the process.                                                *)
(***************************************************************************)

Rest == <<step, source, scan, process, generators, output>>

\* _prepare_run.
Start ==
  /\ run = "stopped" /\ run' = "running"
  /\ files' = Cleaned(files)
  /\ UNCHANGED <<open, lock, kills, refused, pause, Rest>>
\* _finish_enrichment: the thread of the worker is joined.
AtRest == step = "idle" /\ lock = "free" /\ ~ asked /\ worker = "free" /\ open = {}
Join ==
  /\ run = "running" /\ AtRest /\ run' = "final"
  /\ UNCHANGED <<root, lock, kills, refused, pause, Rest>>
Stop ==
  /\ run \in {"final", "ending"} /\ AtRest /\ run' = "stopped"
  /\ UNCHANGED <<root, lock, kills, refused, pause, Rest>>
Kill ==
  /\ run # "stopped" /\ kills < MaxKills /\ run' = "stopped" /\ kills' = kills + 1
  /\ lock' = "free" /\ refused' = {} /\ open' = {} /\ Forgets
  /\ asked' = FALSE /\ worker' = "free" /\ stale' = FALSE
  /\ UNCHANGED <<files, output>>

\* A job of the worker, the sorter of which is open while the shard is written;
\* what it did not finish is removed.
OpenAsset(f) ==
  /\ run \in {"running", "ending"} /\ lock # "own" /\ worker = "free" /\ f \notin open
  /\ Opens({f})
  /\ UNCHANGED <<others, pause, Rest>>
CloseAsset(f) ==
  /\ f \in open \cap AssetTemps
  /\ (f.form = "temp" /\ Promotes(f)) \/ Removes({f})
  /\ UNCHANGED <<others, pause, Rest>>

\* _pause_if_requested, between two jobs: _paused is set while worker # "free".
BetweenJobs == lock # "own" /\ open \cap AssetTemps = {} /\ run \in {"running", "ending"}
Pause ==
  /\ asked /\ worker = "free" /\ BetweenJobs /\ worker' = "waiting"
  /\ UNCHANGED <<root, others, asked, stale, Rest>>
Wake ==
  /\ worker = "released" \/ (worker = "waiting" /\ ~ asked)
  /\ worker' = "free"
  /\ UNCHANGED <<root, others, asked, stale, Rest>>

\* checkpoint and _pause_for_checkpoint, after a build.
Checkpoint ==
  /\ run = "running" /\ step = "idle" /\ ~ asked
  /\ asked' = TRUE /\ stale' = (worker # "free")
  /\ UNCHANGED <<root, others, worker, Rest>>
\* _wait_until_paused, and _refresh_artifacts of the main thread; it is the last
\* one when the worker has ended.  Faulty: it does not wait for the pause.
RefreshOnceAsked ==
  /\ asked \/ run = "final"
  /\ lock = "free" /\ lock' = "refresh"
  /\ UNCHANGED <<root, run, kills, refused, pause, Rest>>
Refresh ==
  /\ (asked /\ worker # "free") \/ run = "final"
  /\ lock = "free" /\ lock' = "refresh"
  /\ UNCHANGED <<root, run, kills, refused, pause, Rest>>
\* The worker's, after a job.
OwnRefresh ==
  /\ worker = "free" /\ BetweenJobs
  /\ lock = "free" /\ lock' = "own"
  /\ UNCHANGED <<root, run, kills, refused, pause, Rest>>

Refreshing == lock \in {"refresh", "own"}
OpenReport(f) ==
  /\ Refreshing /\ refused = {} /\ open \cap ReportTemps = {} /\ Opens({f})
  /\ UNCHANGED <<others, pause, Rest>>
CloseReport(f) ==
  /\ f \in open \cap ReportTemps /\ Promotes(f)
  /\ UNCHANGED <<others, pause, Rest>>
Inventory ==
  /\ Refreshing /\ open \cap ReportTemps = {} /\ refused = {}
  /\ refused' = Unexpected(files)
  /\ UNCHANGED <<root, run, lock, kills, pause, Rest>>
\* What is refused is an error, which ends the run.  The end of a checkpoint
\* sets _resume: a worker that waits wakes up at once, or finds it set later,
\* unless the next checkpoint clears it first.
EndRefresh ==
  /\ Refreshing /\ open \cap ReportTemps = {} /\ lock' = "free" /\ refused' = {}
  /\ run' \in IF refused = {} THEN {run} ELSE IF lock = "own" THEN {run, "ending"} ELSE {"ending"}
  /\ IF asked /\ lock = "refresh"
     THEN /\ asked' = FALSE
          /\ worker' \in IF worker = "waiting" THEN {"waiting", "released"} ELSE {worker}
     ELSE UNCHANGED <<asked, worker>>
  /\ UNCHANGED <<root, kills, stale, Rest>>

Main ==
  \/ Scan \/ AddMany \/ Flush \/ Export \/ Read \/ Restore \/ Transform
  \/ Promote \/ CloseStore \/ OpenManifest \/ WriteManifest \/ Fail
Osmium == WriteLine \/ WriteMessage \/ Finish
Jobs == \E f \in AssetJobs : CloseAsset(f)
Beside ==
  \/ Start \/ Join \/ Stop \/ Kill \/ Pause \/ Wake
  \/ Checkpoint \/ Refresh \/ OwnRefresh \/ Inventory \/ EndRefresh
  \/ \E f \in AssetJobs : OpenAsset(f)
  \/ \E f \in Reports : OpenReport(f) \/ CloseReport(f)
Next ==
  (\E s \in Sources : Build(s)) \/ Main \/ Raises \/ Osmium \/ Crash \/ Drain \/ Jobs \/ Beside
Spec == Init /\ [][Next]_vars
FairSpec == Spec /\ WF_vars(Main) /\ WF_vars(Osmium) /\ WF_vars(Drain)

(***************************************************************************)
(* Properties.                                                             *)
(***************************************************************************)

\* A process that does not run has nothing open and holds nothing; who has the
\* lock is who uses it.
TypeOK ==
  /\ files \subseteq PipelineTemps \cup {Final(f) : f \in PipelineTemps} \cup Foreign
  /\ open \subseteq files \cap PipelineTemps
  /\ run \in {"running", "ending", "final", "stopped"}
  /\ run = "stopped" => open = {} /\ lock = "free" /\ step = "idle" /\ ~ asked
  /\ worker \in {"free", "waiting", "released"} /\ stale \in BOOLEAN
  /\ (lock = "build") <=> (step # "idle")
  /\ Len(out) <= PipeSize /\ err <= PipeSize

\* What a source is worth: its records whose object is tagged, in the order of
\* the export, and the first defect of each that is refused.
TaggedIn(objects) == {objects[n].id : n \in {k \in DOMAIN objects : objects[k].tagged}}
RecordsOf(s) ==
  {line \in ToSet(s.lines) : line.kind = "record" /\ line.id \in TaggedIn(s.objects)}
FirstDefect(record) ==
  CHOOSE reason \in record.defects :
    \A n \in DOMAIN Reasons :
      Reasons[n] \in record.defects => \E k \in 1..n : Reasons[k] = reason
Worth(s) ==
  LET records == Select(s.lines, RecordsOf(s))
      bad == Select(records, {record \in ToSet(records) : record.defects # {}})
  IN [source |-> s,
      rows |-> Select(records, {record \in ToSet(records) : record.defects = {}}),
      rejected |-> [n \in DOMAIN bad |-> FirstDefect(bad[n])]]

\* A shard that is promoted has all the rows of its source and accounts for all
\* the others, however the lines fell into batches, and never those of an
\* export that osmium did not finish (osmium.stream_export, transform_records).
ShardIsWhole == output # None => output = Worth(output.source)

\* A publication inventory never meets a temporary file of the build or of a
\* refresh of the same process, which refresh_lock keeps apart, nor one of a job
\* of the worker, which the worker's own refresh follows and the main thread's
\* pause excludes, but for one case: _paused may still be set from the last
\* checkpoint when the next one asks for it, and the main thread goes on while
\* the worker goes on too (orchestrator._build_source, _refresh_artifacts,
\* enrichment._wait_until_paused, _pause_if_requested).
NoLiveFileRefused ==
  /\ refused \cap open \subseteq AssetTemps
  /\ refused \cap open # {} => lock = "refresh" /\ stale

\* Once a run has started, the .tmp siblings of Parquet and manifest writes are
\* those of this process: what earlier ones left is gone (runtime/cleanup.py).
SiblingsSwept == run # "stopped" => files \cap Siblings \subseteq open

\* cleanup_stale_temps: "Unknown files are intentionally left untouched".
ForeignStays == [][files \cap Foreign \subseteq files']_vars

\* A build ends, whatever osmium writes where, for its messages are drained
\* beside its lines (osmium._drain_stderr).
BuildEnds == step # "idle" ~> step = "idle"

\* docs/operations.md: "After a hard kill: stale temporary files are confined to"
\* those that "the next `run` or `run-and-publish` removes".
LeftoversSwept == run # "stopped" => files \cap PipelineTemps \subseteq open
=============================================================================
