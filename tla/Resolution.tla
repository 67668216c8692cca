----------------------------- MODULE Resolution -----------------------------
(***************************************************************************)
(* How an asset shard gets its resolutions.  assets/batch.py takes the     *)
(* references of the shard in batches, looks each up in the durable cache  *)
(* (assets/cache.py) or in what it keeps of it for this shard, and resolves*)
(* the rest concurrently through resolvers/registry.py, which limits,      *)
(* paces, retries and cools down the requests to each provider.  A shard   *)
(* is built again when a row of it is due (assets/build_state.py).         *)
(*                                                                         *)
(* Tasks interleave only where they await.  Time is relative: a timer, a   *)
(* retry_after or an expiry is the time left until it, and Tick takes one  *)
(* unit off all of them, so that any step may be late but no sleep returns *)
(* early.  asyncio's locks and semaphores are first come, first served;    *)
(* here any waiter may be next.                                            *)
(***************************************************************************)
EXTENDS Integers, Sequences, FiniteSets

CONSTANTS References,     \* (provider, canonical reference)
          Providers,
          Provider(_),    \* of a reference
          Invalid,        \* references whose resolver_kind is "invalid"
          Secret,         \* references that must not be stored
          Batches,        \* references of the shard, a set for each batch
          Slots,          \* semaphore of AssetBatchProcessor
          Limit(_),       \* max_concurrency of a provider
          Interval(_),    \* 1 / requests_per_second
          Attempts,       \* _TRANSIENT_ATTEMPTS
          RetryDelay,     \* _TRANSIENT_RETRY_SECONDS
          Cooldowns,      \* Retry-After of the answers 429
          Answers(_),     \* records a provider can answer a reference with
          Commons,        \* the provider "wikimedia_commons"
          Keyed,          \* providers that take a credential
          None

Never == -1     \* due time of a record that is not refreshed because of time
Statuses == {"resolved", "resolved_page_only", "temporary_failure", "requires_auth", "not_found",
             "invalid_reference"}

\* due: the time until an hour before the first expiry of an image URL, or
\* until retry_after; 0 for a temporary failure without retry_after.
Record == [status: Statuses, due: Nat \cup {Never}]

ASSUME ProviderAssumption ==
  \A r \in References : Provider(r) \in Providers /\ Answers(r) \subseteq Record
ASSUME LimitAssumption ==
  /\ Slots \in Nat \ {0} /\ Attempts \in Nat \ {0} /\ RetryDelay \in Nat
  /\ Cooldowns \subseteq Nat
  /\ \A p \in Providers : Limit(p) \in Nat \ {0} /\ Interval(p) \in Nat
\* A fact of arithmetic: the delays between attempts are numbers.
ASSUME DelayAssumption == \A n \in 1..Attempts : 2 ^ (n - 1) \in Nat
ASSUME BatchesAssumption == Batches \in Seq(SUBSET References)
ASSUME SecretAssumption == Secret \subseteq References

VARIABLES
  cache,          \* resolutions.sqlite
  credentialed,   \* the environment has the credentials
  build,          \* where the build of the shard is
  batch,          \* the batch being processed, or next
  snapshot,       \* _snapshot_records
  rows,           \* of the sorter: a reference and the record it was given
  step, tries, timer, result,   \* of the task of each reference
  nextRequest,    \* _next_request of each provider
  shard           \* the finalized asset shard: its rows and its snapshot

taskVars == <<step, tries, timer, result>>
buildVars == <<build, batch, snapshot, rows>>
vars == <<cache, credentialed, buildVars, taskVars, nextRequest, shard>>

OrNone(S) == S \cup {None}
Rows == SUBSET (References \X Record)
Snapshots == [References -> OrNone(Record)]
NoRecords == [r \in References |-> None]
Shards == [rows: Rows, snapshot: Snapshots]

ASSUME NoneAssumption == None \notin Record \cup Shards

\* A task waits for a slot, for its provider, for the rate lock, sleeps with
\* it, has a request out, sleeps before a retry, or waits for the rate lock to
\* set a cooldown.  It ends with a record of the cache or with a new one.
Running == {"slot", "provider", "pace", "sleep", "request", "backoff", "cooldown"}
Done == {"reused", "resolved"}

TypeOK ==
  /\ cache \in Snapshots /\ credentialed \in BOOLEAN
  /\ build \in {"none", "batch", "tasks", "built"} /\ batch \in 1..(Len(Batches) + 1)
  /\ snapshot \in Snapshots /\ rows \in Rows
  /\ step \in [References -> {"none"} \cup Running \cup Done]
  /\ tries \in [References -> 0..Attempts]
  /\ timer \in [References -> Nat]
  /\ result \in [References -> OrNone(Record)]
  /\ nextRequest \in [Providers -> Nat]
  /\ shard = None \/ shard \in Shards

Zero == [r \in References |-> 0]
NoStep == [r \in References |-> "none"]
NoTime == [p \in Providers |-> 0]

Init ==
  /\ cache = NoRecords /\ shard = None /\ credentialed \in BOOLEAN
  /\ build = "none" /\ batch = 1 /\ snapshot = NoRecords /\ rows = {}
  /\ step = NoStep /\ tries = Zero /\ timer = Zero /\ result = NoRecords
  /\ nextRequest = NoTime

ClearTasks == step' = NoStep /\ tries' = Zero /\ timer' = Zero /\ result' = NoRecords
ClearBuild == batch' = 1 /\ snapshot' = NoRecords /\ rows' = {}

\* A kill, an exception in any task, or the end of a run: only files stay.  A
\* stop, looked at between two batches, ends the build and then the process.
ProcessEnds ==
  /\ build' = "none" /\ ClearBuild /\ ClearTasks
  /\ credentialed' \in BOOLEAN /\ nextRequest' = NoTime
  /\ UNCHANGED <<cache, shard>>

(***************************************************************************)
(* assets/refresh_policy.py and its uses.                                  *)
(***************************************************************************)

Credentialed(p) == credentialed /\ p \in Keyed     \* capability

\* credential_refresh_required.
CredentialRefresh(p, status) ==
  \/ status = "requires_auth" /\ (p = Commons \/ Credentialed(p))
  \/ status = "resolved_page_only" /\ Credentialed(p)

\* _cached_refresh_required.  Faulty: retry_after is not looked at.
RefreshIgnoringRetryAfter(r, record) ==
  \/ record.due = 0 \/ record.status = "temporary_failure"
  \/ CredentialRefresh(Provider(r), record.status)
RefreshRequired(r, record) == record.due = 0 \/ CredentialRefresh(Provider(r), record.status)

\* _needs_refresh_row.  Faulty: retry_after is not looked at, or temporary
\* failures are not looked at.
RowDueIgnoringRetryAfter(row) ==
  \/ row[2].due = 0 \/ row[2].status = "temporary_failure"
  \/ CredentialRefresh(Provider(row[1]), row[2].status)
RowDueExceptRetries(row) ==
  /\ row[2].status # "temporary_failure"
  /\ (row[2].due = 0 \/ CredentialRefresh(Provider(row[1]), row[2].status))
RowDue(row) == row[2].due = 0 \/ CredentialRefresh(Provider(row[1]), row[2].status)

\* _needs_refresh.
Due == shard # None /\ \E row \in shard.rows : RowDue(row)

(***************************************************************************)
(* The build of the shard, batch by batch.                                 *)
(***************************************************************************)

\* build_asset_shard: a manifest without due rows is reused.
StartBuild ==
  /\ build = "none"
  /\ shard = None \/ Due
  /\ build' = "batch" /\ ClearBuild
  /\ UNCHANGED <<cache, credentialed, taskVars, nextRequest, shard>>

\* _unique_pending and _cached_records: what the snapshot lacks is looked up.
StartBatch ==
  /\ build = "batch" /\ batch \in DOMAIN Batches
  /\ snapshot' = [r \in References |->
                    IF r \in Batches[batch] \ Secret /\ snapshot[r] = None THEN cache[r]
                    ELSE snapshot[r]]
  /\ step' = [r \in References |-> IF r \in Batches[batch] THEN "slot" ELSE "none"]
  /\ build' = "tasks"
  /\ UNCHANGED <<cache, credentialed, batch, rows, tries, timer, result, nextRequest, shard>>

\* _new_cache_records.  Faulty: what is not for the cache is taken as well.
AllNewRecords == {r \in Batches[batch] : step[r] = "resolved"}
NewRecords == {r \in Batches[batch] \ Secret : step[r] = "resolved"}

\* After gather: put_many in one transaction, then the snapshot and the rows.
RecordBatch ==
  /\ build = "tasks" /\ \A r \in Batches[batch] : step[r] \in Done
  /\ cache' = [r \in References |-> IF r \in NewRecords THEN result[r] ELSE cache[r]]
  /\ snapshot' = [r \in References |->
                    IF r \in Batches[batch] \ Secret THEN result[r] ELSE snapshot[r]]
  /\ rows' = rows \cup {<<r, result[r]>> : r \in Batches[batch]}
  /\ ClearTasks
  /\ build' = "batch" /\ batch' = batch + 1
  /\ UNCHANGED <<credentialed, nextRequest, shard>>

\* The writer promotes the sorted rows; the manifest has the snapshot's digest.
\* A process builds a shard at most once.  A kill between the two files is in
\* ShardStore.
FinishBuild ==
  /\ build = "batch" /\ batch \notin DOMAIN Batches
  /\ shard' = [rows |-> rows, snapshot |-> snapshot]
  /\ build' = "built" /\ ClearBuild
  /\ UNCHANGED <<cache, credentialed, taskVars, nextRequest>>

(***************************************************************************)
(* A task: _resolve_one, _resolve and resolve_reference.                   *)
(***************************************************************************)

SlotsTaken == {q \in References : step[q] \in Running \ {"slot"}}
Holders(p) == {q \in SlotsTaken : Provider(q) = p /\ step[q] # "provider"}
\* Faulty: the rate lock is kept until the request has ended.
RateLockFreeAfterRequest(p) ==
  \A q \in References : Provider(q) = p => step[q] \notin {"sleep", "request", "cooldown"}
RateLockFree(p) == \A q \in References : Provider(q) = p => step[q] # "sleep"

\* Without its credential a keyed provider is not asked.
PageOnly == [status |-> "resolved_page_only", due |-> Never]
Asks(p) == p \in Keyed => credentialed
AnswersNow(r) == IF Asks(Provider(r)) THEN Answers(r) ELSE {PageOnly}

Goto(r, next) == step' = [step EXCEPT ![r] = next]

\* The task of r ends with a record, one of the cache or a new one.
EndsWith(r, how, record) ==
  /\ Goto(r, how)
  /\ result' = [result EXCEPT ![r] = record]
  /\ timer' = [timer EXCEPT ![r] = 0]
  /\ UNCHANGED <<cache, credentialed, buildVars, tries, shard>>

TemporaryFailure(due) == [status |-> "temporary_failure", due |-> due]

Reusable(r) == r \notin Secret /\ snapshot[r] # None /\ ~RefreshRequired(r, snapshot[r])

TakeSlot(r) ==
  /\ step[r] = "slot" /\ Cardinality(SlotsTaken) < Slots
  /\ \/ /\ Reusable(r)
        /\ EndsWith(r, "reused", snapshot[r])
     \/ /\ ~Reusable(r) /\ r \in Invalid
        /\ EndsWith(r, "resolved", [status |-> "invalid_reference", due |-> Never])
     \/ /\ ~Reusable(r) /\ r \notin Invalid
        /\ Goto(r, "provider")
        /\ UNCHANGED <<cache, credentialed, buildVars, tries, timer, result, shard>>
  /\ UNCHANGED nextRequest

EnterProvider(r) ==
  /\ step[r] = "provider" /\ Cardinality(Holders(Provider(r))) < Limit(Provider(r))
  /\ Goto(r, "pace")
  /\ tries' = [tries EXCEPT ![r] = 1]
  /\ UNCHANGED <<cache, credentialed, buildVars, timer, result, nextRequest, shard>>

\* The request goes out and the rate lock is released.
SendRequest(r) ==
  /\ Goto(r, "request")
  /\ nextRequest' = [nextRequest EXCEPT ![Provider(r)] = Interval(Provider(r))]
  /\ UNCHANGED <<cache, credentialed, buildVars, tries, timer, result, shard>>

Pace(r) ==
  /\ step[r] = "pace" /\ RateLockFree(Provider(r))
  /\ \/ /\ nextRequest[Provider(r)] = 0
        /\ SendRequest(r)
     \/ /\ nextRequest[Provider(r)] > 0
        /\ Goto(r, "sleep")
        /\ timer' = [timer EXCEPT ![r] = nextRequest[Provider(r)]]
        /\ UNCHANGED <<cache, credentialed, buildVars, tries, result, nextRequest, shard>>

PaceEnds(r) == step[r] = "sleep" /\ timer[r] = 0 /\ SendRequest(r)

\* A result, an error that is one (404, 401, 403, an unsafe URL) included.
Answered(r) ==
  /\ step[r] = "request"
  /\ \E record \in AnswersNow(r) : EndsWith(r, "resolved", record)
  /\ UNCHANGED nextRequest

\* _rate_limited_result: 429, with or without a valid Retry-After.
RateLimited(r) ==
  /\ step[r] = "request" /\ Asks(Provider(r))
  /\ \/ \E seconds \in Cooldowns :
          /\ Goto(r, "cooldown")
          /\ timer' = [timer EXCEPT ![r] = seconds]
          /\ UNCHANGED <<cache, credentialed, buildVars, tries, result, shard>>
     \/ EndsWith(r, "resolved", TemporaryFailure(RetryDelay))
  /\ UNCHANGED nextRequest

\* _cooldown.  Faulty: it does not take the rate lock.
CoolDownUnlocked(r) ==
  /\ step[r] = "cooldown"
  /\ nextRequest' = [nextRequest EXCEPT ![Provider(r)] = IF @ > timer[r] THEN @ ELSE timer[r]]
  /\ EndsWith(r, "resolved", TemporaryFailure(timer[r]))
CoolDown(r) ==
  /\ step[r] = "cooldown" /\ RateLockFree(Provider(r))
  /\ nextRequest' = [nextRequest EXCEPT ![Provider(r)] = IF @ > timer[r] THEN @ ELSE timer[r]]
  /\ EndsWith(r, "resolved", TemporaryFailure(timer[r]))

\* _safe_http_result: a request that fails is made again after 1, 2, ...
\* seconds, Attempts in all.  Faulty: one more.
MayRetryOnceMore(r) == tries[r] <= Attempts
MayRetry(r) == tries[r] < Attempts

RequestFails(r) ==
  /\ step[r] = "request" /\ Asks(Provider(r))
  /\ \/ /\ MayRetry(r)
        /\ Goto(r, "backoff")
        /\ timer' = [timer EXCEPT ![r] = 2 ^ (tries[r] - 1)]
        /\ UNCHANGED <<cache, credentialed, buildVars, tries, result, shard>>
     \/ /\ ~MayRetry(r)
        /\ EndsWith(r, "resolved", TemporaryFailure(RetryDelay))
  /\ UNCHANGED nextRequest

BackoffEnds(r) ==
  /\ step[r] = "backoff" /\ timer[r] = 0
  /\ Goto(r, "pace")
  /\ tries' = [tries EXCEPT ![r] = @ + 1]
  /\ UNCHANGED <<cache, credentialed, buildVars, timer, result, nextRequest, shard>>

Task(r) ==
  \/ TakeSlot(r) \/ EnterProvider(r) \/ Pace(r) \/ PaceEnds(r)
  \/ Answered(r) \/ RateLimited(r) \/ CoolDown(r)
  \/ RequestFails(r) \/ BackoffEnds(r)

(***************************************************************************)
(* Time.                                                                   *)
(***************************************************************************)

Less(n) == IF n > 0 THEN n - 1 ELSE n
Aged(record) == IF record = None THEN None ELSE [record EXCEPT !.due = Less(@)]
AllAged(records) == [r \in References |-> Aged(records[r])]
RowsAged(some) == {<<row[1], Aged(row[2])>> : row \in some}

\* A cooldown that waits for the rate lock counts from the time it gets it.
Tick ==
  /\ cache' = AllAged(cache) /\ snapshot' = AllAged(snapshot) /\ result' = AllAged(result)
  /\ rows' = RowsAged(rows)
  /\ shard' = IF shard = None THEN None
              ELSE [rows |-> RowsAged(shard.rows), snapshot |-> AllAged(shard.snapshot)]
  /\ timer' = [r \in References |-> IF step[r] = "cooldown" THEN timer[r] ELSE Less(timer[r])]
  /\ nextRequest' = [p \in Providers |-> Less(nextRequest[p])]
  /\ UNCHANGED <<credentialed, build, batch, step, tries>>

Build == StartBatch \/ RecordBatch \/ FinishBuild

Next == ProcessEnds \/ StartBuild \/ Build \/ (\E r \in References : Task(r)) \/ Tick

Spec == Init /\ [][Next]_vars

\* Time passes, the event loop runs what can run, and a request ends, by the
\* timeouts of the client if not otherwise.
FairSpec ==
  /\ Spec
  /\ WF_vars(Tick) /\ WF_vars(Build)
  /\ \A r \in References : WF_vars(Task(r))

(***************************************************************************)
(* Properties.                                                             *)
(***************************************************************************)

\* No request goes out before the time the pacing and the cooldowns of its
\* provider set, whichever task set it and whichever slept for it.
PacedRequests ==
  [][\A r \in References :
       step[r] # "request" /\ step'[r] = "request" => nextRequest[Provider(r)] = 0]_vars

\* What the cache has is asked for again only if its time has come, or for a
\* credential: neither another batch nor a later run hurries a retry.
NoEarlyRequest ==
  [][\A r \in References \ Secret :
       step[r] # "request" /\ step'[r] = "request" =>
         \/ cache[r] = None
         \/ cache[r].due = 0
         \/ cache[r].status \in {"requires_auth", "resolved_page_only"}]_vars

\* If a record went stale between two batches of a shard and was replaced, so
\* that rows of the shard are not what its snapshot says, a later run builds it
\* again; if it was replaced for the sake of a credential, a run that has it.
SupersededIsDue ==
  shard # None =>
    \A row \in shard.rows :
      row[1] \notin Secret /\ row[2] # shard.snapshot[row[1]] =>
        Due \/ (~credentialed /\ row[2].status \in {"requires_auth", "resolved_page_only"})

\* What a build keeps in memory is in the cache, so that a kill at any moment
\* loses no recorded batch, and no secret reference gets into either.
SnapshotIsDurable ==
  /\ \A r \in References : snapshot[r] # None => cache[r] = snapshot[r]
  /\ \A r \in Secret : cache[r] = None

\* A run does not build a shard only to find it due again: of what it built, a
\* row is due because time has passed or because of what the provider has just
\* answered, and not for a credential it had or a retry it did not make.  The
\* batches and the next run read the refresh policy from different data.
BuiltIsFresh ==
  build = "built" =>
    \A row \in shard.rows :
      RowDue(row) =>
        row[2].due = 0 \/ row[2].status \in {record.status : record \in Answers(row[1])}

\* Every build ends: no task waits for ever for a slot, for its provider, for
\* the rate lock or for another attempt.
BuildEnds == (build \in {"batch", "tasks"}) ~> (build \in {"none", "built"})
=============================================================================
