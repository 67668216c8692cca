-------------------------- MODULE ResolutionProofs --------------------------
(***************************************************************************)
(* What TLAPS proves of Resolution: for any references, providers, limits, *)
(* batches and answers, and for any number of builds that are killed       *)
(* anywhere, no request goes out before its time, no record is asked for   *)
(* again before its own, no recorded batch is lost, and what is due of a   *)
(* finished shard is due for a reason.                                     *)
(*                                                                         *)
(* The argument: the snapshot of a build is a part of the cache, and what  *)
(* the cache has of a batch is in it before the batch is asked for.  A     *)
(* task that goes beyond its slot found the record missing or stale, and   *)
(* time keeps a stale record stale.  At most one task of a provider sleeps *)
(* with the rate lock, exactly until the next request may go out.          *)
(***************************************************************************)
EXTENDS Resolution, TLAPS

\* What makes a record stale stays with it: its time has come, or it has a
\* status that a credential may improve.
Improvable(r, status) ==
  \/ status = "requires_auth" /\ (Provider(r) = Commons \/ Provider(r) \in Keyed)
  \/ status = "resolved_page_only" /\ Provider(r) \in Keyed
Stale(r, record) == record.due = 0 \/ Improvable(r, record.status)

\* Where tasks are, and what they hold.
Tasks ==
  /\ build = "tasks" => batch \in DOMAIN Batches
  /\ \A r \in References :
       /\ build = "tasks" => (step[r] = "none" <=> r \notin Batches[batch])
       /\ build # "tasks" => step[r] = "none"
       /\ step[r] \in Done => result[r] # None
       /\ step[r] \in {"pace", "sleep", "request", "backoff", "cooldown"} => tries[r] >= 1
       /\ step[r] = "backoff" => tries[r] < Attempts

\* The sleeper of a provider holds the rate lock, until the next request.
Sleepers ==
  \A r \in References :
    step[r] = "sleep" =>
      /\ timer[r] = nextRequest[Provider(r)]
      /\ \A q \in References : step[q] = "sleep" /\ Provider(q) = Provider(r) => q = r

\* What the tasks of a batch ask for and what they take from the snapshot.
Lookups ==
  /\ build = "tasks" => \A r \in Batches[batch] \ Secret : snapshot[r] = cache[r]
  /\ \A r \in References :
       /\ step[r] = "reused" => r \notin Secret /\ result[r] = snapshot[r]
       /\ step[r] \in (Running \ {"slot"}) \cup {"resolved"} /\ r \notin Secret =>
            snapshot[r] = None \/ Stale(r, snapshot[r])

\* Rows that differ from the snapshot differ for a reason.
Superseded(some, records) ==
  \A row \in some :
    row[1] \notin Secret => row[2] = records[row[1]] \/ Stale(row[1], row[2])

\* A record of this process is due for no credential, but by an answer.
Justified(r, record) ==
  CredentialRefresh(Provider(r), record.status) =>
    record.status \in {answer.status : answer \in Answers(r)}

Fresh ==
  /\ \A r \in References : step[r] \in Done => Justified(r, result[r])
  /\ \A row \in rows : Justified(row[1], row[2])
  /\ build = "built" => shard # None /\ \A row \in shard.rows : Justified(row[1], row[2])

IInv ==
  /\ TypeOK /\ Tasks /\ Sleepers /\ SnapshotIsDurable /\ Lookups
  /\ Superseded(rows, snapshot)
  /\ shard # None => Superseded(shard.rows, shard.snapshot)
  /\ Fresh

(***************************************************************************)
(* Records, rows and the initial state.                                    *)
(***************************************************************************)

LEMMA RecordsLemma ==
  /\ PageOnly \in Record /\ PageOnly # None
  /\ [status |-> "invalid_reference", due |-> Never] \in Record
  /\ \A n \in Nat : TemporaryFailure(n) \in Record
  /\ \A record \in Record : record # None
BY NoneAssumption DEF PageOnly, Record, Statuses, Never, TemporaryFailure

LEMMA JustifiedLemma ==
  ASSUME NEW r \in References
  PROVE  /\ Justified(r, [status |-> "invalid_reference", due |-> Never])
         /\ \A n \in Nat : Justified(r, TemporaryFailure(n))
         /\ \A record \in AnswersNow(r) : record \in Record /\ Justified(r, record)
<1>1. /\ Justified(r, [status |-> "invalid_reference", due |-> Never])
      /\ \A n \in Nat : Justified(r, TemporaryFailure(n))
  BY DEF Justified, CredentialRefresh, TemporaryFailure
<1>2. ASSUME NEW record \in AnswersNow(r) PROVE record \in Record /\ Justified(r, record)
  <2>1. CASE Asks(Provider(r))
    <3>1. record \in Answers(r) /\ Answers(r) \subseteq Record
      BY <2>1, ProviderAssumption DEF AnswersNow
    <3> QED
      BY <3>1 DEF Justified
  <2>2. CASE ~ Asks(Provider(r))
    <3>1. record = PageOnly /\ ~ credentialed
      BY <2>2 DEF AnswersNow, Asks
    <3>2. record.status = "resolved_page_only"
      BY <3>1 DEF PageOnly
    <3> QED
      BY <3>1, <3>2, RecordsLemma DEF Justified, CredentialRefresh, Credentialed
  <2> QED
    BY <2>1, <2>2
<1> QED
  BY <1>1, <1>2

LEMMA RowLemma ==
  ASSUME NEW some \in Rows, NEW row \in some
  PROVE  row[1] \in References /\ row[2] \in Record /\ row = <<row[1], row[2]>>
BY DEF Rows

LEMMA InitInv == Init => IInv
<1> SUFFICES ASSUME Init PROVE IInv
  OBVIOUS
<1> USE SecretAssumption DEF Init
<1>1. TypeOK
  <2>1. Len(Batches) \in Nat /\ Attempts \in Nat
    BY BatchesAssumption, LimitAssumption
  <2>2. NoRecords \in Snapshots /\ {} \in Rows
    BY DEF NoRecords, Snapshots, OrNone, Rows
  <2>3. /\ NoStep \in [References -> {"none"} \cup Running \cup Done]
        /\ Zero \in [References -> 0..Attempts] /\ Zero \in [References -> Nat]
        /\ NoTime \in [Providers -> Nat]
    BY <2>1 DEF NoStep, Zero, NoTime
  <2> QED
    BY <2>1, <2>2, <2>3 DEF TypeOK, Snapshots
<1>2. Tasks /\ Sleepers /\ Lookups
  BY DEF Tasks, Sleepers, Lookups, NoStep, Done, Running
<1>3. SnapshotIsDurable /\ Superseded(rows, snapshot) /\ Fresh
  BY DEF SnapshotIsDurable, NoRecords, Superseded, Fresh, NoStep, Done
<1> QED
  BY <1>1, <1>2, <1>3 DEF IInv

(***************************************************************************)
(* The steps of a task.                                                    *)
(***************************************************************************)

\* Only the task of r moves: what other tasks hold and what is kept outside.
OnlyTask(r) ==
  /\ UNCHANGED <<cache, credentialed, buildVars, shard>>
  /\ step' \in [References -> {"none"} \cup Running \cup Done]
  /\ tries' \in [References -> 0..Attempts]
  /\ timer' \in [References -> Nat]
  /\ result' \in [References -> OrNone(Record)]
  /\ nextRequest' \in [Providers -> Nat]
  /\ \A q \in References \ {r} :
       /\ step'[q] = step[q] /\ tries'[q] = tries[q]
       /\ timer'[q] = timer[q] /\ result'[q] = result[q]

\* Where it comes from and what it then holds.
Holds(r) ==
  /\ step[r] \in Running /\ step'[r] \in (Running \ {"slot"}) \cup Done
  /\ step'[r] \in {"pace", "sleep", "request", "backoff", "cooldown"} => tries'[r] >= 1
  /\ step'[r] = "backoff" => tries'[r] < Attempts
  /\ step'[r] \in Done => result'[r] # None /\ Justified(r, result'[r])
  /\ step'[r] = "reused" => r \notin Secret /\ result'[r] = snapshot[r]
  /\ step[r] = "slot" /\ step'[r] # "reused" /\ r \notin Secret =>
       snapshot[r] = None \/ Stale(r, snapshot[r])

LEMMA TaskKeeps ==
  ASSUME IInv, NEW r \in References, OnlyTask(r), Holds(r), Sleepers'
  PROVE  IInv'
<1> USE DEF IInv
<1>1. UNCHANGED <<cache, credentialed, build, batch, snapshot, rows, shard>>
  BY DEF OnlyTask, buildVars
<1>2. TypeOK'
  BY <1>1 DEF TypeOK, OnlyTask
<1>3. build = "tasks" /\ r \in Batches[batch]
  BY DEF Tasks, Holds, Running
<1>4. Tasks'
  <2>1. ASSUME NEW q \in References
        PROVE  /\ step'[q] = "none" <=> q \notin Batches[batch]
               /\ step'[q] \in Done => result'[q] # None
               /\ step'[q] \in {"pace", "sleep", "request", "backoff", "cooldown"} => tries'[q] >= 1
               /\ step'[q] = "backoff" => tries'[q] < Attempts
    <3>1. CASE q = r
      BY <1>3, <3>1 DEF Holds, Running, Done
    <3>2. CASE q # r
      BY <1>3, <3>2 DEF OnlyTask, Tasks
    <3> QED
      BY <3>1, <3>2
  <2> QED
    BY <1>1, <1>3, <2>1 DEF Tasks
<1>5. SnapshotIsDurable' /\ Superseded(rows, snapshot)'
      /\ (shard # None => Superseded(shard.rows, shard.snapshot))'
  BY <1>1 DEF SnapshotIsDurable, Superseded
<1>6. Lookups'
  <2>1. ASSUME NEW q \in References
        PROVE  /\ step'[q] = "reused" => q \notin Secret /\ result'[q] = snapshot[q]
               /\ step'[q] \in (Running \ {"slot"}) \cup {"resolved"} /\ q \notin Secret =>
                    snapshot[q] = None \/ Stale(q, snapshot[q])
    <3>1. CASE q = r
      BY <3>1 DEF Holds, Lookups, Running, Done
    <3>2. CASE q # r
      BY <3>2 DEF OnlyTask, Lookups
    <3> QED
      BY <3>1, <3>2
  <2> QED
    BY <1>1, <2>1 DEF Lookups
<1>7. Fresh'
  <2>1. \A q \in References : \A record : Justified(q, record)' <=> Justified(q, record)
    BY <1>1 DEF Justified, CredentialRefresh, Credentialed
  <2>2. ASSUME NEW q \in References, step'[q] \in Done PROVE Justified(q, result'[q])
    <3>1. CASE q = r
      BY <2>2, <3>1 DEF Holds
    <3>2. CASE q # r
      BY <2>2, <3>2 DEF OnlyTask, Fresh
    <3> QED
      BY <3>1, <3>2
  <2> QED
    BY <1>1, <1>3, <2>1, <2>2 DEF Fresh, Justified, CredentialRefresh, Credentialed
<1> QED
  BY <1>2, <1>4, <1>5, <1>6, <1>7

\* A step that neither begins to sleep nor sets a time leaves the sleepers.
LEMMA SleepersKept ==
  ASSUME IInv, NEW r \in References, OnlyTask(r), step'[r] # "sleep", UNCHANGED nextRequest
  PROVE  Sleepers'
BY DEF IInv, Sleepers, OnlyTask

\* A time is set only while no other task of the provider sleeps.
LEMMA SleepersLocked ==
  ASSUME IInv, NEW r \in References, OnlyTask(r), step'[r] # "sleep",
         \A q \in References \ {r} : Provider(q) = Provider(r) => step[q] # "sleep",
         NEW n \in Nat, nextRequest' = [nextRequest EXCEPT ![Provider(r)] = n]
  PROVE  Sleepers'
<1>1. ASSUME NEW q \in References, step'[q] = "sleep"
      PROVE  q # r /\ step[q] = "sleep" /\ timer'[q] = timer[q] /\ Provider(q) # Provider(r)
  BY <1>1 DEF OnlyTask
<1>2. ASSUME NEW q \in References, Provider(q) # Provider(r)
      PROVE  nextRequest'[Provider(q)] = nextRequest[Provider(q)]
  BY <1>2, ProviderAssumption DEF IInv, TypeOK
<1> QED
  BY <1>1, <1>2 DEF IInv, Sleepers

\* What EndsWith makes of the variables.
LEMMA EndsLemma ==
  ASSUME IInv, NEW r \in References, NEW how \in Done, NEW record \in Record,
         EndsWith(r, how, record), nextRequest' \in [Providers -> Nat]
  PROVE  OnlyTask(r) /\ step'[r] = how /\ result'[r] = record
<1> USE DEF IInv
<1>1. /\ step' = [step EXCEPT ![r] = how] /\ result' = [result EXCEPT ![r] = record]
      /\ timer' = [timer EXCEPT ![r] = 0]
      /\ UNCHANGED <<cache, credentialed, buildVars, tries, shard>>
  BY DEF EndsWith, Goto
<1> QED
  BY <1>1 DEF OnlyTask, TypeOK, OrNone

\* A task that goes on without a record.
LEMMA GoesLemma ==
  ASSUME IInv, NEW r \in References, NEW next \in Running, Goto(r, next),
         UNCHANGED <<cache, credentialed, buildVars, result, shard>>,
         NEW n \in Nat, timer' = [timer EXCEPT ![r] = n],
         NEW k \in 0..Attempts, tries' = [tries EXCEPT ![r] = k],
         nextRequest' \in [Providers -> Nat]
  PROVE  OnlyTask(r) /\ step'[r] = next /\ timer'[r] = n /\ tries'[r] = k
BY DEF IInv, OnlyTask, TypeOK, Goto

\* The parts of the state a task starts from.
LEMMA TaskTypes ==
  ASSUME IInv, NEW r \in References
  PROVE  /\ timer[r] \in Nat /\ timer = [timer EXCEPT ![r] = timer[r]]
         /\ tries[r] \in 0..Attempts /\ tries = [tries EXCEPT ![r] = tries[r]]
         /\ snapshot[r] \in OrNone(Record) /\ nextRequest \in [Providers -> Nat]
         /\ Provider(r) \in Providers /\ nextRequest[Provider(r)] \in Nat
         /\ Attempts \in Nat \ {0}
BY ProviderAssumption, LimitAssumption DEF IInv, TypeOK, Snapshots

LEMMA TakeSlotStep == ASSUME IInv, NEW r \in References, TakeSlot(r) PROVE IInv'
<1> USE TaskTypes
<1>1. step[r] = "slot" /\ UNCHANGED nextRequest
  BY DEF TakeSlot
<1>2. ASSUME Reusable(r), EndsWith(r, "reused", snapshot[r]) PROVE IInv'
  <2>1. snapshot[r] \in Record /\ snapshot[r] # None /\ r \notin Secret
        /\ ~ RefreshRequired(r, snapshot[r])
    BY <1>2 DEF Reusable, OrNone
  <2>2. OnlyTask(r) /\ step'[r] = "reused" /\ result'[r] = snapshot[r]
    BY <1>1, <1>2, <2>1, EndsLemma DEF Done
  <2>3. Holds(r)
    BY <1>1, <2>1, <2>2 DEF Holds, Running, Done, Justified, RefreshRequired
  <2> QED
    BY <1>1, <2>2, <2>3, SleepersKept, TaskKeeps
<1>3. ASSUME ~ Reusable(r), r \notin Secret PROVE snapshot[r] = None \/ Stale(r, snapshot[r])
  BY <1>3
  DEF Reusable, RefreshRequired, CredentialRefresh, Credentialed, Stale, Improvable
<1>4. ASSUME ~ Reusable(r),
             EndsWith(r, "resolved", [status |-> "invalid_reference", due |-> Never])
      PROVE  IInv'
  <2> DEFINE record == [status |-> "invalid_reference", due |-> Never]
  <2>1. record \in Record /\ record # None /\ Justified(r, record)
    BY RecordsLemma, JustifiedLemma
  <2> HIDE DEF record
  <2>2. OnlyTask(r) /\ step'[r] = "resolved" /\ result'[r] = record
    BY <1>1, <1>4, <2>1, EndsLemma DEF Done, record
  <2>3. Holds(r)
    BY <1>1, <1>3, <1>4, <2>1, <2>2 DEF Holds, Running, Done
  <2> QED
    BY <1>1, <2>2, <2>3, SleepersKept, TaskKeeps
<1>5. ASSUME ~ Reusable(r), Goto(r, "provider"),
             UNCHANGED <<cache, credentialed, buildVars, tries, timer, result, shard>>
      PROVE  IInv'
  <2>1. OnlyTask(r) /\ step'[r] = "provider"
    BY <1>1, <1>5, GoesLemma DEF Running
  <2>2. Holds(r)
    BY <1>1, <1>3, <1>5, <2>1 DEF Holds, Running, Done
  <2> QED
    BY <1>1, <2>1, <2>2, SleepersKept, TaskKeeps
<1> QED
  BY <1>2, <1>4, <1>5 DEF TakeSlot

LEMMA EnterProviderStep == ASSUME IInv, NEW r \in References, EnterProvider(r) PROVE IInv'
<1> USE TaskTypes
<1>1. OnlyTask(r) /\ step'[r] = "pace" /\ tries'[r] = 1
  <2>1. /\ Goto(r, "pace") /\ tries' = [tries EXCEPT ![r] = 1]
        /\ UNCHANGED <<cache, credentialed, buildVars, timer, result, nextRequest, shard>>
    BY DEF EnterProvider
  <2>2. 1 \in 0..Attempts /\ "pace" \in Running
    BY DEF Running
  <2> QED
    BY <2>1, <2>2 DEF OnlyTask, Goto, IInv, TypeOK
<1>2. Holds(r)
  BY <1>1 DEF EnterProvider, Holds, Running, Done
<1> QED
  BY <1>1, <1>2, SleepersKept, TaskKeeps DEF EnterProvider

\* A task between two steps of its attempts has made one.
LEMMA TriesLemma ==
  ASSUME IInv, NEW r \in References,
         step[r] \in {"pace", "sleep", "request", "backoff", "cooldown"}
  PROVE  tries[r] \in 1..Attempts /\ step[r] \in Running /\ step[r] # "slot"
<1>1. tries[r] >= 1
  BY DEF IInv, Tasks
<1> QED
  BY <1>1, TaskTypes DEF Running

LEMMA SendRequestStep ==
  ASSUME IInv, NEW r \in References, step[r] \in {"pace", "sleep"}, SendRequest(r),
         \A q \in References \ {r} : Provider(q) = Provider(r) => step[q] # "sleep"
  PROVE  IInv'
<1> USE TaskTypes, TriesLemma
<1>1. Interval(Provider(r)) \in Nat
  BY LimitAssumption
<1>2. /\ nextRequest' = [nextRequest EXCEPT ![Provider(r)] = Interval(Provider(r))]
      /\ nextRequest' \in [Providers -> Nat]
  BY <1>1 DEF SendRequest
<1>3. OnlyTask(r) /\ step'[r] = "request" /\ tries'[r] = tries[r]
  BY <1>2, GoesLemma DEF SendRequest, Running
<1>4. Holds(r)
  BY <1>3 DEF Holds, Running, Done
<1> QED
  BY <1>1, <1>2, <1>3, <1>4, SleepersLocked, TaskKeeps

LEMMA PaceStep == ASSUME IInv, NEW r \in References, Pace(r) PROVE IInv'
<1> USE TaskTypes, TriesLemma
<1>1. step[r] = "pace" /\ \A q \in References : Provider(q) = Provider(r) => step[q] # "sleep"
  BY DEF Pace, RateLockFree
<1>2. CASE SendRequest(r)
  BY <1>1, <1>2, SendRequestStep
<1>3. ASSUME Goto(r, "sleep"), timer' = [timer EXCEPT ![r] = nextRequest[Provider(r)]],
             UNCHANGED <<cache, credentialed, buildVars, tries, result, nextRequest, shard>>
      PROVE  IInv'
  <2>1. /\ OnlyTask(r) /\ step'[r] = "sleep" /\ timer'[r] = nextRequest[Provider(r)]
        /\ tries'[r] = tries[r]
    BY <1>3, GoesLemma DEF Running
  <2>2. Holds(r)
    BY <1>1, <2>1 DEF Holds, Running, Done
  <2>3. Sleepers'
    BY <1>1, <1>3, <2>1 DEF IInv, Sleepers, OnlyTask
  <2> QED
    BY <2>1, <2>2, <2>3, TaskKeeps
<1> QED
  BY <1>2, <1>3 DEF Pace

LEMMA PaceEndsStep == ASSUME IInv, NEW r \in References, PaceEnds(r) PROVE IInv'
<1>1. step[r] = "sleep" /\ SendRequest(r)
  BY DEF PaceEnds
<1>2. \A q \in References \ {r} : Provider(q) = Provider(r) => step[q] # "sleep"
  BY <1>1 DEF IInv, Sleepers
<1> QED
  BY <1>1, <1>2, SendRequestStep

\* A request or a cooldown ends with a record that is justified.
LEMMA EndStep ==
  ASSUME IInv, NEW r \in References, step[r] \in {"request", "cooldown"},
         NEW record \in Record, Justified(r, record), EndsWith(r, "resolved", record),
         nextRequest' \in [Providers -> Nat]
  PROVE  OnlyTask(r) /\ Holds(r) /\ step'[r] = "resolved"
<1>1. OnlyTask(r) /\ step'[r] = "resolved" /\ result'[r] = record
  BY EndsLemma DEF Done
<1> QED
  BY <1>1, RecordsLemma, TriesLemma DEF Holds, Running, Done

LEMMA AnsweredStep == ASSUME IInv, NEW r \in References, Answered(r) PROVE IInv'
<1> USE TaskTypes
<1>1. PICK record \in AnswersNow(r) : EndsWith(r, "resolved", record)
  BY DEF Answered
<1>2. record \in Record /\ Justified(r, record)
  BY JustifiedLemma
<1>3. step[r] = "request" /\ UNCHANGED nextRequest
  BY DEF Answered
<1>4. OnlyTask(r) /\ Holds(r) /\ step'[r] = "resolved"
  BY <1>1, <1>2, <1>3, EndStep
<1> QED
  BY <1>3, <1>4, SleepersKept, TaskKeeps

\* A request or a cooldown ends with a temporary failure.
LEMMA FailureStep ==
  ASSUME IInv, NEW r \in References, step[r] = "request", UNCHANGED nextRequest,
         EndsWith(r, "resolved", TemporaryFailure(RetryDelay))
  PROVE  IInv'
<1>1. /\ TemporaryFailure(RetryDelay) \in Record
      /\ Justified(r, TemporaryFailure(RetryDelay))
  BY RecordsLemma, JustifiedLemma, LimitAssumption
<1>2. OnlyTask(r) /\ Holds(r) /\ step'[r] = "resolved"
  BY <1>1, EndStep, TaskTypes
<1> QED
  BY <1>2, SleepersKept, TaskKeeps

LEMMA RateLimitedStep == ASSUME IInv, NEW r \in References, RateLimited(r) PROVE IInv'
<1> USE TaskTypes, TriesLemma
<1>1. step[r] = "request" /\ UNCHANGED nextRequest
  BY DEF RateLimited
<1>2. CASE EndsWith(r, "resolved", TemporaryFailure(RetryDelay))
  BY <1>1, <1>2, FailureStep
<1>3. ASSUME NEW seconds \in Cooldowns, Goto(r, "cooldown"),
             timer' = [timer EXCEPT ![r] = seconds],
             UNCHANGED <<cache, credentialed, buildVars, tries, result, shard>>
      PROVE  IInv'
  <2>1. seconds \in Nat
    BY LimitAssumption
  <2>2. OnlyTask(r) /\ step'[r] = "cooldown" /\ tries'[r] = tries[r]
    BY <1>1, <1>3, <2>1, GoesLemma DEF Running
  <2>3. Holds(r)
    BY <1>1, <2>2 DEF Holds, Running, Done
  <2> QED
    BY <1>1, <2>2, <2>3, SleepersKept, TaskKeeps
<1> QED
  BY <1>2, <1>3 DEF RateLimited

LEMMA CoolDownStep == ASSUME IInv, NEW r \in References, CoolDown(r) PROVE IInv'
<1> USE TaskTypes
<1> DEFINE p == Provider(r)
           n == IF nextRequest[p] > timer[r] THEN nextRequest[p] ELSE timer[r]
<1>1. /\ step[r] = "cooldown" /\ n \in Nat /\ nextRequest' = [nextRequest EXCEPT ![p] = n]
      /\ nextRequest' \in [Providers -> Nat]
      /\ \A q \in References : Provider(q) = p => step[q] # "sleep"
  BY DEF CoolDown, RateLockFree
<1>2. EndsWith(r, "resolved", TemporaryFailure(timer[r]))
  BY DEF CoolDown
<1>3. TemporaryFailure(timer[r]) \in Record /\ Justified(r, TemporaryFailure(timer[r]))
  BY RecordsLemma, JustifiedLemma
<1>4. OnlyTask(r) /\ Holds(r) /\ step'[r] = "resolved"
  BY <1>1, <1>2, <1>3, EndStep
<1> HIDE DEF n
<1> QED
  BY <1>1, <1>4, SleepersLocked, TaskKeeps

LEMMA RequestFailsStep == ASSUME IInv, NEW r \in References, RequestFails(r) PROVE IInv'
<1> USE TaskTypes, TriesLemma
<1>1. step[r] = "request" /\ UNCHANGED nextRequest
  BY DEF RequestFails
<1>2. CASE EndsWith(r, "resolved", TemporaryFailure(RetryDelay))
  BY <1>1, <1>2, FailureStep
<1>3. ASSUME MayRetry(r), Goto(r, "backoff"),
             timer' = [timer EXCEPT ![r] = 2 ^ (tries[r] - 1)],
             UNCHANGED <<cache, credentialed, buildVars, tries, result, shard>>
      PROVE  IInv'
  <2>1. 2 ^ (tries[r] - 1) \in Nat
    BY <1>1, DelayAssumption
  <2> DEFINE n == 2 ^ (tries[r] - 1)
  <2> HIDE DEF n
  <2>2. OnlyTask(r) /\ step'[r] = "backoff" /\ tries'[r] = tries[r]
    <3>1. n \in Nat /\ timer' = [timer EXCEPT ![r] = n] /\ "backoff" \in Running
      BY <1>3, <2>1 DEF n, Running
    <3> QED
      BY <1>1, <1>3, <3>1 DEF OnlyTask, Goto, IInv, TypeOK
  <2>3. Holds(r)
    BY <1>1, <1>3, <2>2 DEF Holds, Running, Done, MayRetry
  <2> QED
    BY <1>1, <2>2, <2>3, SleepersKept, TaskKeeps
<1> QED
  BY <1>2, <1>3 DEF RequestFails

LEMMA BackoffEndsStep == ASSUME IInv, NEW r \in References, BackoffEnds(r) PROVE IInv'
<1> USE TaskTypes, TriesLemma
<1>1. step[r] = "backoff" /\ tries[r] < Attempts
  BY DEF BackoffEnds, IInv, Tasks
<1>2. tries[r] + 1 \in 1..Attempts
  BY <1>1
<1>3. OnlyTask(r) /\ step'[r] = "pace" /\ tries'[r] = tries[r] + 1
  <2>1. /\ Goto(r, "pace") /\ tries' = [tries EXCEPT ![r] = tries[r] + 1]
        /\ UNCHANGED <<cache, credentialed, buildVars, timer, result, nextRequest, shard>>
    BY DEF BackoffEnds
  <2>2. tries[r] + 1 \in 0..Attempts /\ "pace" \in Running
    BY <1>2 DEF Running
  <2>3. timer' = [timer EXCEPT ![r] = timer[r]] /\ nextRequest' \in [Providers -> Nat]
    BY <2>1
  <2> QED
    BY <2>1, <2>2, <2>3, GoesLemma
<1>4. Holds(r)
  BY <1>1, <1>2, <1>3 DEF Holds, Running, Done
<1> QED
  BY <1>3, <1>4, SleepersKept, TaskKeeps DEF BackoffEnds

LEMMA TaskStep == ASSUME IInv, NEW r \in References, Task(r) PROVE IInv'
BY TakeSlotStep, EnterProviderStep, PaceStep, PaceEndsStep, AnsweredStep, RateLimitedStep,
   CoolDownStep, RequestFailsStep, BackoffEndsStep, Zenon DEF Task

(***************************************************************************)
(* The steps of a build and of a process.                                  *)
(***************************************************************************)

LEMMA LenLemma == Len(Batches) \in Nat /\ DOMAIN Batches = 1..Len(Batches)
                  /\ \A b \in DOMAIN Batches : Batches[b] \subseteq References
BY BatchesAssumption

\* Without tasks, and with an empty build.
LEMMA ClearLemma ==
  /\ NoRecords \in Snapshots /\ {} \in Rows /\ 1 \in 1..(Len(Batches) + 1)
  /\ NoStep \in [References -> {"none"} \cup Running \cup Done]
  /\ Zero \in [References -> 0..Attempts] /\ Zero \in [References -> Nat]
  /\ NoTime \in [Providers -> Nat]
  /\ NoRecords \in [References -> OrNone(Record)]
<1>1. Attempts \in Nat
  BY LimitAssumption
<1> QED
  BY <1>1, LenLemma DEF NoRecords, Snapshots, OrNone, Rows, NoStep, Zero, NoTime

LEMMA NoTasksLemma ==
  ASSUME step' = NoStep, build' # "tasks"
  PROVE  Tasks' /\ Sleepers' /\ Lookups' /\ \A r \in References : step'[r] \notin Done
BY DEF NoStep, Tasks, Sleepers, Lookups, Done, Running

LEMMA ProcessEndsStep == ASSUME IInv, ProcessEnds PROVE IInv'
<1> USE DEF IInv, ProcessEnds, ClearTasks, ClearBuild
<1>1. TypeOK'
  BY ClearLemma DEF TypeOK
<1>2. Tasks' /\ Sleepers' /\ Lookups' /\ \A r \in References : step'[r] \notin Done
  BY NoTasksLemma
<1>3. SnapshotIsDurable' /\ Superseded(rows, snapshot)' /\ Fresh'
  BY <1>2 DEF SnapshotIsDurable, Superseded, Fresh, NoRecords
<1>4. (shard # None => Superseded(shard.rows, shard.snapshot))'
  BY DEF Superseded
<1> QED
  BY <1>1, <1>2, <1>3, <1>4

LEMMA StartBuildStep == ASSUME IInv, StartBuild PROVE IInv'
<1> USE DEF IInv, StartBuild, ClearBuild
<1>1. TypeOK'
  BY ClearLemma DEF TypeOK, taskVars
<1>2. Tasks' /\ Sleepers' /\ Lookups' /\ \A r \in References : step'[r] \notin Done
  BY DEF Tasks, Sleepers, Lookups, Done, Running, taskVars
<1>3. SnapshotIsDurable' /\ Superseded(rows, snapshot)' /\ Fresh'
  BY <1>2 DEF SnapshotIsDurable, Superseded, Fresh, NoRecords
<1>4. (shard # None => Superseded(shard.rows, shard.snapshot))'
  BY DEF Superseded
<1> QED
  BY <1>1, <1>2, <1>3, <1>4

\* What the snapshot lacks of a batch it has from the cache, so that it agrees
\* with the cache on the whole batch.
LEMMA StartBatchStep == ASSUME IInv, StartBatch PROVE IInv'
<1> USE DEF IInv
<1>1. /\ build = "batch" /\ build' = "tasks" /\ batch \in DOMAIN Batches
      /\ UNCHANGED <<cache, credentialed, batch, rows, tries, timer, result, nextRequest, shard>>
  BY DEF StartBatch
<1>2. \A r \in References : step'[r] = IF r \in Batches[batch] THEN "slot" ELSE "none"
  BY DEF StartBatch
<1>3. \A r \in References :
        snapshot'[r] = IF r \in Batches[batch] \ Secret /\ snapshot[r] = None THEN cache[r]
                       ELSE snapshot[r]
  BY DEF StartBatch
<1>4. TypeOK'
  <2>1. snapshot' \in Snapshots
    BY <1>3 DEF StartBatch, TypeOK, Snapshots
  <2>2. step' \in [References -> {"none"} \cup Running \cup Done]
    BY DEF StartBatch, Running
  <2> QED
    BY <1>1, <2>1, <2>2 DEF TypeOK
<1>5. Tasks' /\ Sleepers'
  BY <1>1, <1>2 DEF Tasks, Sleepers, Done
<1>6. \A r \in References : snapshot[r] # None => snapshot'[r] = snapshot[r]
  BY <1>3
<1>7. SnapshotIsDurable'
  BY <1>1, <1>3 DEF SnapshotIsDurable
<1>8. Lookups'
  <2>1. \A r \in Batches[batch] \ Secret : r \in References /\ snapshot'[r] = cache[r]
    BY <1>1, <1>3, LenLemma DEF SnapshotIsDurable
  <2> QED
    BY <1>1, <1>2, <2>1 DEF Lookups, Done, Running
<1>9. Superseded(rows, snapshot)'
  <2> SUFFICES ASSUME NEW row \in rows, row[1] \notin Secret
               PROVE  row[2] = snapshot'[row[1]] \/ Stale(row[1], row[2])
    BY <1>1 DEF Superseded
  <2>1. row[1] \in References /\ row[2] # None
    BY RowLemma, RecordsLemma DEF TypeOK
  <2>2. row[2] = snapshot[row[1]] \/ Stale(row[1], row[2])
    BY DEF Superseded
  <2> QED
    BY <1>6, <2>1, <2>2
<1>10. (shard # None => Superseded(shard.rows, shard.snapshot))'
  BY <1>1 DEF Superseded
<1>11. Fresh'
  BY <1>1, <1>2 DEF Fresh, Done, Justified, CredentialRefresh, Credentialed
<1> QED
  BY <1>4, <1>5, <1>7, <1>8, <1>9, <1>10, <1>11

\* All tasks have ended: what was reused is what the snapshot has, and what was
\* resolved replaces a record that was missing or stale.
LEMMA RecordBatchStep == ASSUME IInv, RecordBatch PROVE IInv'
<1> USE DEF IInv
<1> DEFINE B == Batches[batch]
<1>1. /\ build = "tasks" /\ build' = "batch" /\ batch \in DOMAIN Batches /\ batch' = batch + 1
      /\ step' = NoStep /\ tries' = Zero /\ timer' = Zero /\ result' = NoRecords
      /\ rows' = rows \cup {<<r, result[r]>> : r \in B}
      /\ UNCHANGED <<credentialed, nextRequest, shard>>
  BY DEF RecordBatch, ClearTasks, Tasks
<1>2. \A r \in B : /\ r \in References /\ step[r] \in Done
                   /\ result[r] \in Record /\ result[r] # None
  BY <1>1, LenLemma DEF RecordBatch, Tasks, TypeOK, OrNone
<1>3. \A r \in References :
        /\ cache'[r] = IF r \in B \ Secret /\ step[r] = "resolved" THEN result[r] ELSE cache[r]
        /\ snapshot'[r] = IF r \in B \ Secret THEN result[r] ELSE snapshot[r]
  BY DEF RecordBatch, NewRecords
<1>4. TypeOK'
  <2>1. cache' \in Snapshots /\ snapshot' \in Snapshots
    <3>1. /\ cache' = [r \in References |-> cache'[r]]
          /\ snapshot' = [r \in References |-> snapshot'[r]]
      BY DEF RecordBatch
    <3>2. \A r \in References : cache'[r] \in OrNone(Record) /\ snapshot'[r] \in OrNone(Record)
      BY <1>2, <1>3 DEF TypeOK, Snapshots, OrNone
    <3> QED
      BY <3>1, <3>2 DEF Snapshots
  <2>2. rows' \in Rows
    BY <1>1, <1>2 DEF TypeOK, Rows
  <2>3. batch' \in 1..(Len(Batches) + 1)
    BY <1>1, LenLemma
  <2> QED
    BY <1>1, <2>1, <2>2, <2>3, ClearLemma DEF TypeOK
<1>5. Tasks' /\ Sleepers' /\ Lookups' /\ \A r \in References : step'[r] \notin Done
  BY <1>1, NoTasksLemma
<1>6. SnapshotIsDurable'
  <2>1. ASSUME NEW r \in References, snapshot'[r] # None PROVE cache'[r] = snapshot'[r]
    <3>1. CASE r \in B \ Secret /\ step[r] = "reused"
      BY <1>2, <1>3, <3>1 DEF Lookups, SnapshotIsDurable
    <3>2. CASE r \in B \ Secret /\ step[r] = "resolved"
      BY <1>3, <3>2
    <3>3. CASE r \notin B \ Secret
      BY <1>3, <2>1, <3>3 DEF SnapshotIsDurable
    <3> QED
      BY <1>2, <3>1, <3>2, <3>3 DEF Done
  <2>2. ASSUME NEW r \in Secret PROVE cache'[r] = None
    BY <1>3, SecretAssumption DEF SnapshotIsDurable
  <2> QED
    BY <2>1, <2>2 DEF SnapshotIsDurable
<1>7. Superseded(rows, snapshot)'
  <2> SUFFICES ASSUME NEW row \in rows', row[1] \notin Secret
               PROVE  row[2] = snapshot'[row[1]] \/ Stale(row[1], row[2])
    BY DEF Superseded
  <2>1. CASE row \in rows
    <3>1. row[1] \in References /\ row[2] # None
      BY <2>1, RowLemma, RecordsLemma DEF TypeOK
    <3>2. row[2] = snapshot[row[1]] \/ Stale(row[1], row[2])
      BY <2>1 DEF Superseded
    <3>3. CASE row[1] \in B /\ step[row[1]] = "reused"
      BY <1>3, <3>1, <3>2, <3>3 DEF Lookups
    <3>4. CASE row[1] \in B /\ step[row[1]] = "resolved"
      BY <3>1, <3>2, <3>4 DEF Lookups
    <3>5. CASE row[1] \notin B
      BY <1>3, <3>1, <3>2, <3>5
    <3> QED
      BY <1>2, <3>3, <3>4, <3>5 DEF Done
  <2>2. CASE row \notin rows
    <3>1. PICK r \in B : row = <<r, result[r]>>
      BY <1>1, <2>2
    <3> QED
      BY <1>2, <1>3, <3>1
  <2> QED
    BY <2>1, <2>2
<1>8. (shard # None => Superseded(shard.rows, shard.snapshot))'
  BY <1>1 DEF Superseded
<1>9. Fresh'
  <2>1. \A r, record : Justified(r, record)' <=> Justified(r, record)
    BY <1>1 DEF Justified, CredentialRefresh, Credentialed
  <2>2. ASSUME NEW row \in rows' PROVE Justified(row[1], row[2])
    <3>1. CASE row \in rows
      BY <3>1 DEF Fresh
    <3>2. CASE row \notin rows
      <4>1. PICK r \in B : row = <<r, result[r]>>
        BY <1>1, <3>2
      <4> QED
        BY <1>2, <4>1 DEF Fresh
    <3> QED
      BY <3>1, <3>2
  <2>3. \A row \in rows' : Justified(row[1], row[2])'
    BY <2>2 , <1>1 DEF Justified, CredentialRefresh, Credentialed
  <2> QED
    BY <1>1, <1>5, <2>3 DEF Fresh
<1> QED
  BY <1>4, <1>5, <1>6, <1>7, <1>8, <1>9

LEMMA FinishBuildStep == ASSUME IInv, FinishBuild PROVE IInv'
<1> USE DEF IInv, ClearBuild
<1>1. /\ build = "batch" /\ build' = "built" /\ shard' = [rows |-> rows, snapshot |-> snapshot]
      /\ batch' = 1 /\ snapshot' = NoRecords /\ rows' = {}
      /\ UNCHANGED <<cache, credentialed, step, tries, timer, result, nextRequest>>
  BY DEF FinishBuild, taskVars
<1>2. shard' \in Shards /\ shard'.rows = rows /\ shard'.snapshot = snapshot
  BY <1>1 DEF TypeOK, Shards
<1>3. TypeOK'
  BY <1>1, <1>2, ClearLemma DEF TypeOK
<1>4. Tasks' /\ Sleepers' /\ Lookups' /\ \A r \in References : step'[r] \notin Done
  BY <1>1 DEF Tasks, Sleepers, Lookups, Done, Running
<1>5. SnapshotIsDurable' /\ Superseded(rows, snapshot)'
  BY <1>1 DEF SnapshotIsDurable, Superseded, NoRecords
<1>6. (shard # None => Superseded(shard.rows, shard.snapshot))'
  BY <1>2 DEF Superseded
<1>7. Fresh'
  <2>1. shard' # None
    BY <1>2, NoneAssumption
  <2> QED
    BY <1>1, <1>2, <1>4, <2>1 DEF Fresh, Justified, CredentialRefresh, Credentialed
<1> QED
  BY <1>3, <1>4, <1>5, <1>6, <1>7

(***************************************************************************)
(* Time.                                                                   *)
(***************************************************************************)

\* Time takes nothing from a record but time.
LEMMA AgedLemma ==
  /\ Aged(None) = None
  /\ \A record \in Record :
       /\ Aged(record) \in Record /\ Aged(record) # None
       /\ Aged(record).status = record.status
       /\ record.due = 0 => Aged(record).due = 0
  /\ \A record \in OrNone(Record) : Aged(record) \in OrNone(Record)
<1>1. \A n \in Nat \cup {Never} : Less(n) \in Nat \cup {Never}
  BY DEF Less, Never
<1>2. ASSUME NEW record \in Record
      PROVE  /\ Aged(record) \in Record /\ Aged(record) # None
             /\ Aged(record).status = record.status
             /\ record.due = 0 => Aged(record).due = 0
  <2>1. record # None /\ Aged(record) = [record EXCEPT !.due = Less(record.due)]
    BY RecordsLemma, <1>2 DEF Aged
  <2>2. record.due \in Nat \cup {Never}
    BY DEF Record
  <2>3. Aged(record) \in Record /\ Aged(record).status = record.status
        /\ Aged(record).due = Less(record.due)
    BY <1>1, <2>1, <2>2 DEF Record
  <2> QED
    BY <2>3, RecordsLemma DEF Less
<1> QED
  BY <1>2 DEF Aged, OrNone

LEMMA StaleLemma ==
  ASSUME NEW r \in References, NEW record \in Record, Stale(r, record)
  PROVE  Stale(r, Aged(record))
BY AgedLemma DEF Stale

LEMMA SnapshotsAged ==
  ASSUME NEW records \in Snapshots
  PROVE  /\ AllAged(records) \in Snapshots
         /\ \A r \in References :
              /\ records[r] \in OrNone(Record)
              /\ AllAged(records)[r] = Aged(records[r])
              /\ AllAged(records)[r] = None <=> records[r] = None
BY AgedLemma DEF Snapshots, AllAged, OrNone

LEMMA RowsAgedLemma ==
  ASSUME NEW some \in Rows
  PROVE  /\ RowsAged(some) \in Rows
         /\ \A row \in RowsAged(some) :
              \E old \in some : row[1] = old[1] /\ row[2] = Aged(old[2])
<1>1. \A row \in some : <<row[1], Aged(row[2])>> \in References \X Record
  BY RowLemma, AgedLemma
<1> QED
  BY <1>1 DEF RowsAged, Rows

LEMMA SupersededAged ==
  ASSUME NEW some \in Rows, NEW records \in Snapshots, Superseded(some, records)
  PROVE  Superseded(RowsAged(some), AllAged(records))
<1> SUFFICES ASSUME NEW row \in RowsAged(some), row[1] \notin Secret
             PROVE  row[2] = AllAged(records)[row[1]] \/ Stale(row[1], row[2])
  BY DEF Superseded
<1>1. PICK old \in some : row[1] = old[1] /\ row[2] = Aged(old[2])
  BY RowsAgedLemma
<1>2. old[1] \in References /\ old[2] \in Record
  BY RowLemma
<1>3. old[2] = records[old[1]] \/ Stale(old[1], old[2])
  BY <1>1 DEF Superseded
<1> QED
  BY <1>1, <1>2, <1>3, SnapshotsAged, StaleLemma

LEMMA JustifiedAged ==
  ASSUME NEW some \in Rows, \A row \in some : Justified(row[1], row[2])
  PROVE  \A row \in RowsAged(some) : Justified(row[1], row[2])
<1> SUFFICES ASSUME NEW row \in RowsAged(some) PROVE Justified(row[1], row[2])
  OBVIOUS
<1>1. PICK old \in some : row[1] = old[1] /\ row[2] = Aged(old[2])
  BY RowsAgedLemma
<1>2. old[2] \in Record
  BY RowLemma
<1>3. row[2].status = old[2].status
  BY <1>1, <1>2, AgedLemma
<1>4. Justified(old[1], old[2])
  OBVIOUS
<1> QED
  BY <1>1, <1>3, <1>4 DEF Justified

LEMMA TickStep == ASSUME IInv, Tick PROVE IInv'
<1> USE DEF IInv
<1>1. /\ cache \in Snapshots /\ snapshot \in Snapshots /\ result \in Snapshots /\ rows \in Rows
      /\ shard # None => shard.rows \in Rows /\ shard.snapshot \in Snapshots
  BY DEF TypeOK, Snapshots, Shards
<1>2. /\ cache' = AllAged(cache) /\ snapshot' = AllAged(snapshot) /\ result' = AllAged(result)
      /\ rows' = RowsAged(rows)
      /\ UNCHANGED <<credentialed, build, batch, step, tries>>
  BY DEF Tick
<1>3. /\ shard = None => shard' = None
      /\ shard # None => /\ shard'.rows = RowsAged(shard.rows)
                        /\ shard'.snapshot = AllAged(shard.snapshot)
                        /\ shard' \in Shards
  BY <1>1, RowsAgedLemma, SnapshotsAged DEF Tick, Shards
<1>4. shard' # None <=> shard # None
  BY <1>3, NoneAssumption
<1>5. \A r \in References :
        /\ timer'[r] = IF step[r] = "cooldown" THEN timer[r] ELSE Less(timer[r])
        /\ timer[r] \in Nat /\ timer'[r] \in Nat
  BY DEF Tick, TypeOK, Less
<1>6. \A p \in Providers : nextRequest'[p] = Less(nextRequest[p]) /\ nextRequest'[p] \in Nat
  BY DEF Tick, TypeOK, Less
<1>7. TypeOK'
  <2>1. timer' \in [References -> Nat] /\ nextRequest' \in [Providers -> Nat]
    <3>1. timer' = [r \in References |-> timer'[r]]
      BY DEF Tick
    <3>2. nextRequest' = [p \in Providers |-> nextRequest'[p]]
      BY DEF Tick
    <3> QED
      BY <1>5, <1>6, <3>1, <3>2
  <2>2. /\ cache' \in Snapshots /\ snapshot' \in Snapshots /\ rows' \in Rows
        /\ result' \in [References -> OrNone(Record)]
    BY <1>1, <1>2, SnapshotsAged, RowsAgedLemma DEF Snapshots
  <2> QED
    BY <1>2, <1>3, <2>1, <2>2 DEF TypeOK
<1>8. Tasks'
  BY <1>1, <1>2, SnapshotsAged DEF Tasks
<1>9. Sleepers'
  BY <1>2, <1>5, <1>6, ProviderAssumption DEF Sleepers
<1>10. SnapshotIsDurable'
  <2>1. \A r \in References : snapshot'[r] # None => cache'[r] = snapshot'[r]
    BY <1>1, <1>2, SnapshotsAged DEF SnapshotIsDurable
  <2>2. \A r \in Secret : cache'[r] = None
    BY <1>1, <1>2, SnapshotsAged, SecretAssumption DEF SnapshotIsDurable
  <2> QED
    BY <2>1, <2>2 DEF SnapshotIsDurable
<1>11. Lookups'
  <2>1. build = "tasks" => \A r \in Batches[batch] \ Secret : r \in References /\ snapshot[r] = cache[r]
    BY LenLemma DEF Lookups, Tasks
  <2>2. build = "tasks" => \A r \in Batches[batch] \ Secret : snapshot'[r] = cache'[r]
    BY <1>1, <1>2, <2>1, SnapshotsAged
  <2>3. ASSUME NEW r \in References
        PROVE  /\ step[r] = "reused" => r \notin Secret /\ result'[r] = snapshot'[r]
               /\ step[r] \in (Running \ {"slot"}) \cup {"resolved"} /\ r \notin Secret =>
                    snapshot'[r] = None \/ Stale(r, snapshot'[r])
    <3>1. /\ snapshot[r] = None \/ snapshot[r] \in Record
          /\ result'[r] = Aged(result[r]) /\ snapshot'[r] = Aged(snapshot[r])
      BY <1>1, <1>2, SnapshotsAged DEF OrNone
    <3> QED
      BY <3>1, AgedLemma, StaleLemma DEF Lookups
  <2> QED
    BY <1>2, <2>2, <2>3 DEF Lookups
<1>12. Superseded(rows, snapshot)'
  BY <1>1, <1>2, SupersededAged DEF Superseded
<1>13. (shard # None => Superseded(shard.rows, shard.snapshot))'
  <2>1. shard # None => Superseded(RowsAged(shard.rows), AllAged(shard.snapshot))
    BY <1>1, SupersededAged
  <2> QED
    BY <1>3, <1>4, <2>1 DEF Superseded
<1>14. Fresh'
  <2>1. ASSUME NEW r \in References, step[r] \in Done PROVE Justified(r, result'[r])
    <3>1. result[r] \in Record /\ Justified(r, result[r])
      BY <1>1, <2>1, SnapshotsAged DEF Fresh, Tasks, OrNone
    <3>2. result'[r].status = result[r].status
      BY <1>1, <1>2, <3>1, SnapshotsAged, AgedLemma
    <3> QED
      BY <3>1, <3>2 DEF Justified
  <2>2. \A row \in rows' : Justified(row[1], row[2])
    BY <1>1, <1>2, JustifiedAged DEF Fresh
  <2>3. build = "built" => shard # None /\ \A row \in shard'.rows : Justified(row[1], row[2])
    BY <1>1, <1>3, JustifiedAged DEF Fresh
  <2> QED
    BY <1>2, <1>4, <2>1, <2>2, <2>3 DEF Fresh, Justified, CredentialRefresh, Credentialed
<1> QED
  BY <1>7, <1>8, <1>9, <1>10, <1>11, <1>12, <1>13, <1>14

LEMMA StutterStep == ASSUME IInv, UNCHANGED vars PROVE IInv'
<1> USE DEF IInv, vars, taskVars, buildVars
<1>1. TypeOK' /\ Tasks' /\ Sleepers' /\ SnapshotIsDurable' /\ Lookups'
  BY DEF TypeOK, Tasks, Sleepers, SnapshotIsDurable, Lookups
<1>2. Superseded(rows, snapshot)' /\ (shard # None => Superseded(shard.rows, shard.snapshot))'
  BY DEF Superseded
<1>3. Fresh'
  BY DEF Fresh, Justified, CredentialRefresh, Credentialed
<1> QED
  BY <1>1, <1>2, <1>3

LEMMA NextInv == IInv /\ [Next]_vars => IInv'
BY ProcessEndsStep, StartBuildStep, StartBatchStep, RecordBatchStep, FinishBuildStep, TaskStep,
   TickStep, StutterStep, Zenon DEF Next, Build

(***************************************************************************)
(* What follows.                                                           *)
(***************************************************************************)

\* The inductive invariant holds in every state.
THEOREM InvariantHolds == Spec => []IInv
BY InitInv, NextInv, PTL DEF Spec

\* Attempts, timers, records and rows are of their kinds in every state; no
\* task makes more than _TRANSIENT_ATTEMPTS attempts.
THEOREM TypeCorrect == Spec => []TypeOK
<1>1. IInv => TypeOK
  BY DEF IInv
<1> QED
  BY <1>1, InvariantHolds, PTL

\* A kill loses no recorded batch, and nothing secret is stored (put_many).
THEOREM DurableCorrect == Spec => []SnapshotIsDurable
<1>1. IInv => SnapshotIsDurable
  BY DEF IInv
<1> QED
  BY <1>1, InvariantHolds, PTL

\* Rows that a later batch overtook are due for a run that can improve them.
THEOREM SupersededCorrect == Spec => []SupersededIsDue
<1>1. IInv => SupersededIsDue
  <2> SUFFICES ASSUME IInv, shard # None, NEW row \in shard.rows, row[1] \notin Secret,
                      row[2] # shard.snapshot[row[1]]
               PROVE  Due \/ (~credentialed
                              /\ row[2].status \in {"requires_auth", "resolved_page_only"})
    BY DEF SupersededIsDue
  <2>1. row[2].due = 0 \/ Improvable(row[1], row[2].status)
    BY DEF IInv, Superseded, Stale
  <2> QED
    BY <2>1 DEF Due, RowDue, Improvable, CredentialRefresh, Credentialed
<1> QED
  BY <1>1, InvariantHolds, PTL

\* What a process has built is due for no reason it could have seen to.
THEOREM FreshCorrect == Spec => []BuiltIsFresh
<1>1. IInv => BuiltIsFresh
  BY DEF IInv, Fresh, Justified, BuiltIsFresh, RowDue
<1> QED
  BY <1>1, InvariantHolds, PTL

\* Which steps send a request, and who may.
LEMMA RequestLemma ==
  ASSUME IInv, [Next]_vars, NEW r \in References, step[r] # "request", step'[r] = "request"
  PROVE  /\ step[r] \in {"pace", "sleep"} /\ nextRequest[Provider(r)] = 0
         /\ UNCHANGED cache
<1>1. CASE \E q \in References : Task(q)
  <2>1. PICK q \in References : Task(q)
    BY <1>1
  <2>2. UNCHANGED cache
    BY <2>1
    DEF Task, TakeSlot, EnterProvider, Pace, PaceEnds, SendRequest, Answered, RateLimited, CoolDown,
        RequestFails, BackoffEnds, EndsWith
  <2>3. step'[r] = IF q = r THEN "request" ELSE step[r]
    BY <2>1
    DEF Task, TakeSlot, EnterProvider, Pace, PaceEnds, SendRequest, Answered, RateLimited, CoolDown,
        RequestFails, BackoffEnds, EndsWith, Goto, IInv, TypeOK
  <2>4. q = r
    BY <2>3
  <2>5. (Pace(r) /\ nextRequest[Provider(r)] = 0) \/ PaceEnds(r)
    BY <2>1, <2>4
    DEF Task, TakeSlot, EnterProvider, Pace, Answered, RateLimited, CoolDown,
        RequestFails, BackoffEnds, EndsWith, Goto, IInv, TypeOK
  <2>6. PaceEnds(r) => nextRequest[Provider(r)] = 0
    BY DEF PaceEnds, IInv, Sleepers
  <2> QED
    BY <2>2, <2>5, <2>6 DEF Pace, PaceEnds
<1>2. CASE ~ \E q \in References : Task(q)
  <2>1. step' = step \/ step'[r] \in {"slot", "none"}
    BY <1>2
    DEF Next, Build, ProcessEnds, ClearTasks, StartBuild, StartBatch, RecordBatch, FinishBuild,
        Tick, vars, taskVars, NoStep
  <2> QED
    BY <2>1
<1> QED
  BY <1>1, <1>2

\* Every request waits for the pace and the cooldowns of its provider, though
\* the time may be set while it sleeps (_pace, _cooldown).
THEOREM PacedCorrect == Spec => PacedRequests
<1>1. IInv /\ [Next]_vars =>
        [\A r \in References :
           step[r] # "request" /\ step'[r] = "request" => nextRequest[Provider(r)] = 0]_vars
  BY RequestLemma
<1> QED
  BY <1>1, InvariantHolds, PTL DEF Spec, PacedRequests

\* Nothing the cache has is asked for again before its time (_cached_is_reusable).
THEOREM NotEarlyCorrect == Spec => NoEarlyRequest
<1>1. ASSUME IInv, [Next]_vars, NEW r \in References \ Secret,
             step[r] # "request", step'[r] = "request"
      PROVE  \/ cache[r] = None \/ cache[r].due = 0
             \/ cache[r].status \in {"requires_auth", "resolved_page_only"}
  <2>1. step[r] \in Running \ {"slot"}
    BY <1>1, RequestLemma DEF Running
  <2>2. build = "tasks" /\ r \in Batches[batch]
    BY <1>1, <2>1 DEF IInv, Tasks, Running
  <2>3. cache[r] = snapshot[r] /\ (snapshot[r] = None \/ Stale(r, snapshot[r]))
    BY <1>1, <2>1, <2>2 DEF IInv, Lookups
  <2> QED
    BY <2>3 DEF Stale, Improvable
<1>2. IInv /\ [Next]_vars =>
        [\A r \in References \ Secret :
           step[r] # "request" /\ step'[r] = "request" =>
             \/ cache[r] = None
             \/ cache[r].due = 0
             \/ cache[r].status \in {"requires_auth", "resolved_page_only"}]_vars
  BY <1>1
<1> QED
  BY <1>2, InvariantHolds, PTL DEF Spec, NoEarlyRequest
=============================================================================
