----------------------------- MODULE MemoryAgent -----------------------------
(***************************************************************************)
(* What the memory sidecar does between an archived event and its jobs     *)
(* (memory-sidecar/src: ingest/archiveWriter.ts, agent/dirtyQueue.ts,      *)
(* agent/reconcile.ts, agent/jobQueue.ts, agent/jobRunner.ts,              *)
(* agent/workerRunOnce.ts and the loop of agent/workerLoop.ts).            *)
(*                                                                         *)
(* Every file is an append-only log.  Sessions append an event to the      *)
(* archive, then a dirty marker for it.  The worker turns each marker into *)
(* one job per job type, runs the jobs, and checkpoints the marker; it     *)
(* re-emits markers that a crashed session never wrote and retries failed  *)
(* jobs.  An operator may retry failed jobs from the command line.         *)
(*                                                                         *)
(* One step is one append, or one read a decision rests on.  worker.lock   *)
(* (module MemoryWorkerLock) keeps the workers apart, so there is one, that*)
(* may be killed and started again at any point.                           *)
(***************************************************************************)
EXTENDS Integers, Sequences, FiniteSets

CONSTANTS
    Event, SessionOf,   \* the conversation events and the session of each
    Type,               \* job types, numbers in the order they are enqueued
    Llm,                \* those that are skipped when no provider answers
    ScanWindow,         \* MEMORY_DEFAULT_RECONCILE_SCAN_WINDOW
    DirtyThreshold,     \* DEFAULT_DIRTY_COUNT_THRESHOLD
    MaxAttempts,        \* MEMORY_WORKER_DEFAULT_RETRY_MAX_ATTEMPTS
    RetryCap,           \* bound: retries of one job
    MaxFailures,        \* bound: jobs that fail
    MaxCrashes,         \* bound: times the worker is killed
    MaxCliRetries       \* bound: jobs retried from the command line

ASSUME AgentConstants ==
    /\ Event \subseteq DOMAIN SessionOf
    /\ Type \subseteq Nat /\ IsFiniteSet(Type) /\ Llm \subseteq Type
    /\ {ScanWindow, DirtyThreshold, MaxAttempts, RetryCap,
        MaxFailures, MaxCrashes, MaxCliRetries} \subseteq Nat

VARIABLES
    ingest,      \* how far the session's write of each event has come
    archive,     \* the events, in the order of their append
    markers,     \* the event sets of the dirty markers, in file order
    consumed,    \* positions of the markers that have a checkpoint
    jobs,        \* the latest line of each jobId, in the order of creation
    aged,        \* the markers up to here are old enough to be worked on alone
    ripe,        \* failed jobs whose retry backoff has passed
    pc,          \* where the worker is
    retries,     \* failed jobs it has still to retry
    scanned,     \* archive events it has read for the reconciliation
    repairs,     \* markers it has still to re-emit
    todo,        \* markers and job types it has still to enqueue
    batch,       \* markers it has taken up in this run
    queue,       \* pending jobs it has still to run, the running one first
    processed,   \* jobs it has run in this run
    failures, crashes, cliRetries

logs == <<archive, markers, consumed, jobs>>
local == <<retries, scanned, repairs, todo, batch, queue, processed>>
bounds == <<failures, crashes, cliRetries>>
vars == <<ingest, logs, aged, ripe, pc, local, bounds>>

Job(marker, type, parent, attempt) ==
    [marker |-> marker, type |-> type, status |-> "pending",
     parent |-> parent,          \* the job whose id this jobId ends in, or 0
     retryOf |-> parent, attempt |-> attempt]    \* result.retryOf, .retryAttempt

Status == {"pending", "running", "completed", "failed", "skipped"}
Ended == {"completed", "failed", "skipped"}

Init ==
    /\ ingest = [e \in Event |-> "new"]
    /\ archive = <<>> /\ markers = <<>> /\ consumed = {} /\ jobs = <<>>
    /\ aged = 0 /\ ripe = {}
    /\ pc = "idle"
    /\ retries = {} /\ scanned = {} /\ repairs = {} /\ todo = {}
    /\ batch = {} /\ queue = {} /\ processed = {}
    /\ failures = 0 /\ crashes = 0 /\ cliRetries = 0

IsFirst(x, S) == x \in S /\ \A y \in S : x <= y
Goto(label) == pc' = label

-----------------------------------------------------------------------------
(* ingestConversationEvent, in a session of its own                        *)

AppendArchive(e) ==
    /\ ingest[e] = "new"
    /\ archive' = Append(archive, e)
    /\ ingest' = [ingest EXCEPT ![e] = "archived"]
    /\ UNCHANGED <<markers, consumed, jobs, aged, ripe, pc, local, bounds>>

AppendMarker(e) ==
    /\ ingest[e] = "archived"
    /\ markers' = Append(markers, {e})
    /\ ingest' = [ingest EXCEPT ![e] = "done"]
    /\ UNCHANGED <<archive, consumed, jobs, aged, ripe, pc, local, bounds>>

\* The session dies between the two writes.
LoseMarker(e) ==
    /\ ingest[e] = "archived"
    /\ ingest' = [ingest EXCEPT ![e] = "done"]
    /\ UNCHANGED <<logs, aged, ripe, pc, local, bounds>>

-----------------------------------------------------------------------------
(* retryFailedMemoryAgentJobs                                              *)

RetriesOf(j) == {k \in DOMAIN jobs : jobs[k].parent = j}

\* retrySupersededJobIds reads result.retryOf of the latest line of each job.
Superseded(j) == \E k \in DOMAIN jobs : jobs[k].retryOf = j

Retryable == {j \in DOMAIN jobs : jobs[j].status = "failed" /\ ~Superseded(j)}

RetryOf(j) == Job(jobs[j].marker, jobs[j].type, j, jobs[j].attempt + 1)

BeginIteration ==
    /\ pc = "idle"
    /\ retries' = {j \in Retryable : \/ jobs[j].attempt >= MaxAttempts
                                     \/ j \in ripe /\ Cardinality(RetriesOf(j)) < RetryCap}
    /\ Goto("retry")
    /\ UNCHANGED <<ingest, logs, aged, ripe, scanned, repairs, todo, batch, queue,
                   processed, bounds>>

\* A job that has had its attempts is marked skipped; another gets a new job.
Retry ==
    /\ pc = "retry"
    /\ \E j \in retries :
       /\ IsFirst(j, retries)
       /\ jobs' = IF jobs[j].attempt >= MaxAttempts
                  THEN [jobs EXCEPT ![j].status = "skipped"]
                  ELSE Append(jobs, RetryOf(j))
       /\ retries' = retries \ {j}
    /\ UNCHANGED <<ingest, archive, markers, consumed, aged, ripe, pc, scanned, repairs,
                   todo, batch, queue, processed, bounds>>

\* `jobs retry`: no attempt limit, no backoff and no lock.
CliRetry(j) ==
    /\ cliRetries < MaxCliRetries /\ j \in Retryable
    /\ Cardinality(RetriesOf(j)) < RetryCap
    /\ jobs' = Append(jobs, RetryOf(j))
    /\ cliRetries' = cliRetries + 1
    /\ UNCHANGED <<ingest, archive, markers, consumed, aged, ripe, pc, local,
                   failures, crashes>>

-----------------------------------------------------------------------------
(* One iteration of runMemoryWorkerLoop up to runMemoryAgentOnce           *)

Unconsumed == DOMAIN markers \ consumed
Covered == UNION {markers[m] : m \in DOMAIN markers}

\* Mutant: jobs that a killed worker left running are taken up again.
Pending_AndRunning == {j \in DOMAIN jobs : jobs[j].status \in {"pending", "running"}}

Pending == {j \in DOMAIN jobs : jobs[j].status = "pending"}

\* recentArchiveEvents with the default limit
RecentEvents == {archive[i] : i \in {k \in DOMAIN archive : k > Len(archive) - ScanWindow}}

ShouldSchedule ==
    \/ Cardinality(Unconsumed) >= DirtyThreshold
    \/ \E m \in Unconsumed : m <= aged

\* Mutant: the loop does not look for archived events without a marker.
Decide_NoReconcile ==
    /\ pc = "retry" /\ retries = {}
    /\ Goto(IF ShouldSchedule \/ Pending # {} THEN "reconcile" ELSE "idle")
    /\ UNCHANGED <<ingest, logs, aged, ripe, local, bounds>>

\* Mutant: pending jobs alone do not make the loop run the agent.
Decide_NoPending ==
    /\ pc = "retry" /\ retries = {}
    /\ Goto(IF ShouldSchedule \/ RecentEvents \ Covered # {} THEN "reconcile" ELSE "idle")
    /\ UNCHANGED <<ingest, logs, aged, ripe, local, bounds>>

Decide ==
    /\ pc = "retry" /\ retries = {}
    /\ Goto(IF ShouldSchedule \/ Pending # {} \/ RecentEvents \ Covered # {}
            THEN "reconcile" ELSE "idle")
    /\ UNCHANGED <<ingest, logs, aged, ripe, local, bounds>>

-----------------------------------------------------------------------------
(* repairMissingDirtyMarkers: the archive is read before the markers       *)

ReadArchive ==
    /\ pc = "reconcile"
    /\ scanned' = RecentEvents
    /\ Goto("readMarkers")
    /\ UNCHANGED <<ingest, logs, aged, ripe, retries, repairs, todo, batch, queue,
                   processed, bounds>>

BySession(events) == {{e \in events : SessionOf[e] = SessionOf[d]} : d \in events}

ReadMarkers ==
    /\ pc = "readMarkers"
    /\ repairs' = BySession(scanned \ Covered)
    /\ scanned' = {}
    /\ Goto("repair")
    /\ UNCHANGED <<ingest, logs, aged, ripe, retries, todo, batch, queue, processed,
                   bounds>>

Repair ==
    /\ pc = "repair"
    /\ \E events \in repairs :
          /\ markers' = Append(markers, events)
          /\ repairs' = repairs \ {events}
    /\ UNCHANGED <<ingest, archive, consumed, jobs, aged, ripe, pc, retries, scanned,
                   todo, batch, queue, processed, bounds>>

-----------------------------------------------------------------------------
(* runMemoryAgentOnce                                                      *)

\* listUnconsumedDirtyMarkers
TakeBatch ==
    /\ pc = "repair" /\ repairs = {}
    /\ batch' = Unconsumed
    /\ todo' = Unconsumed \X Type
    /\ Goto("enqueue")
    /\ UNCHANGED <<ingest, logs, aged, ripe, retries, scanned, repairs, queue,
                   processed, bounds>>

\* Mutant: a job is looked for by its jobId.
KeyExists_ById(m, t) ==
    \E j \in DOMAIN jobs : jobs[j].type = t /\ jobs[j].marker = m /\ jobs[j].parent = 0

\* jobKey: a job of this type for the same events exists.  Only the worker
\* brings a new key into jobs.jsonl, so the keys it read at the start of the
\* run and those it has added since are the keys that are there.
KeyExists(m, t) ==
    \E j \in DOMAIN jobs : jobs[j].type = t /\ markers[jobs[j].marker] = markers[m]

Before(p, q) == p[1] < q[1] \/ (p[1] = q[1] /\ p[2] <= q[2])

Enqueue ==
    /\ pc = "enqueue"
    /\ \E p \in todo :
          /\ \A q \in todo : Before(p, q)
          /\ todo' = todo \ {p}
          /\ jobs' = IF KeyExists(p[1], p[2]) THEN jobs
                     ELSE Append(jobs, Job(p[1], p[2], 0, 0))
    /\ UNCHANGED <<ingest, archive, markers, consumed, aged, ripe, pc, retries, scanned,
                   repairs, batch, queue, processed, bounds>>

\* runPendingMemoryAgentJobs
TakeQueue ==
    /\ pc = "enqueue" /\ todo = {}
    /\ queue' = Pending
    /\ Goto("run")
    /\ UNCHANGED <<ingest, logs, aged, ripe, retries, scanned, repairs, todo, batch,
                   processed, bounds>>

StartJob ==
    /\ pc = "run"
    /\ \E j \in queue :
          /\ IsFirst(j, queue)
          /\ jobs' = [jobs EXCEPT ![j].status = "running"]
    /\ Goto("running")
    /\ UNCHANGED <<ingest, archive, markers, consumed, aged, ripe, local, bounds>>

\* The line of a job that ends takes the place of the job's `result`, and with
\* it of retryOf and retryAttempt; that of a job that throws keeps them.
WithResult(job, status) == [job EXCEPT !.status = status, !.retryOf = 0, !.attempt = 0]

\* Mutant: a job that throws is written with a status the schema does not know.
Thrown_Error(job) == [job EXCEPT !.status = "error"]

Thrown(job) == [job EXCEPT !.status = "failed"]

EndJob ==
    /\ pc = "running"
    /\ \E j \in queue :
       /\ IsFirst(j, queue)
       /\ \/ /\ jobs' = [jobs EXCEPT ![j] = WithResult(@, "completed")]
             /\ UNCHANGED failures
          \/ /\ jobs[j].type \in Llm
             /\ jobs' = [jobs EXCEPT ![j] = WithResult(@, "skipped")]
             /\ UNCHANGED failures
          \/ /\ failures < MaxFailures
             /\ jobs' = [jobs EXCEPT ![j] = Thrown(@)]
             /\ failures' = failures + 1
       /\ queue' = queue \ {j}
       /\ processed' = processed \cup {j}
    /\ Goto("run")
    /\ UNCHANGED <<ingest, archive, markers, consumed, aged, ripe, retries, scanned,
                   repairs, todo, batch, crashes, cliRetries>>

\* job_<type>_<dirtyId>
IsOwn(j, m, t) == jobs[j].parent = 0 /\ jobs[j].marker = m /\ jobs[j].type = t

\* Mutant: a marker taken up is consumed once the queue has been worked off.
RanForMarker_Taken(m) == m \in batch

RanForMarker(m) == \A t \in Type : \E j \in processed : IsOwn(j, m, t)

Checkpoint ==
    /\ pc = "run" /\ queue = {}
    /\ \E m \in batch :
       /\ IsFirst(m, batch)
       /\ consumed' = IF RanForMarker(m) THEN consumed \cup {m} ELSE consumed
       /\ batch' = batch \ {m}
    /\ UNCHANGED <<ingest, archive, markers, jobs, aged, ripe, pc, retries, scanned,
                   repairs, todo, queue, processed, bounds>>

EndIteration ==
    /\ pc = "run" /\ queue = {} /\ batch = {}
    /\ processed' = {}
    /\ Goto("idle")
    /\ UNCHANGED <<ingest, logs, aged, ripe, retries, scanned, repairs, todo, batch,
                   queue, bounds>>

-----------------------------------------------------------------------------
(* The worker's process, and time                                          *)

Crash ==
    /\ pc # "dead" /\ crashes < MaxCrashes
    /\ retries' = {} /\ scanned' = {} /\ repairs' = {} /\ todo' = {}
    /\ batch' = {} /\ queue' = {} /\ processed' = {}
    /\ crashes' = crashes + 1
    /\ Goto("dead")
    /\ UNCHANGED <<ingest, logs, aged, ripe, failures, cliRetries>>

Restart ==
    /\ pc = "dead"
    /\ Goto("idle")
    /\ UNCHANGED <<ingest, logs, aged, ripe, local, bounds>>

\* Every marker there is gets older than maxDirtyAgeMsThreshold.
Age ==
    /\ aged < Len(markers)
    /\ aged' = Len(markers)
    /\ UNCHANGED <<ingest, logs, ripe, pc, local, bounds>>

Ripen(j) ==
    /\ jobs[j].status = "failed" /\ j \notin ripe
    /\ ripe' = ripe \cup {j}
    /\ UNCHANGED <<ingest, logs, aged, pc, local, bounds>>

-----------------------------------------------------------------------------
Ingest(e) == AppendArchive(e) \/ AppendMarker(e) \/ LoseMarker(e)

Worker ==
    \/ BeginIteration \/ Retry \/ Decide \/ ReadArchive \/ ReadMarkers \/ Repair
    \/ TakeBatch \/ Enqueue \/ TakeQueue \/ StartJob \/ EndJob \/ Checkpoint
    \/ EndIteration

Next ==
    \/ \E e \in Event : Ingest(e)
    \/ Worker \/ Crash \/ Restart \/ Age
    \/ \E j \in DOMAIN jobs : CliRetry(j) \/ Ripen(j)

Spec == Init /\ [][Next]_vars

\* The worker's process is scheduled and started again, and time passes; a
\* session may stop between its two writes for good.
FairSpec ==
    /\ Spec
    /\ WF_vars(Worker) /\ WF_vars(Restart)
    /\ WF_vars(Age) /\ WF_vars(\E j \in DOMAIN jobs : Ripen(j))

-----------------------------------------------------------------------------
\* The variables' types.
TypeOK ==
    /\ ingest \in [Event -> {"new", "archived", "done"}]
    /\ archive \in Seq(Event)
    /\ markers \in Seq(SUBSET Event)
    /\ consumed \subseteq DOMAIN markers
    /\ jobs \in Seq([marker : Nat, type : Type, status : Status,
                     parent : Nat, retryOf : Nat, attempt : Nat])
    /\ \A j \in DOMAIN jobs : jobs[j].marker \in DOMAIN markers
    /\ aged \in 0 .. Len(markers)
    /\ ripe \cup retries \cup queue \cup processed \subseteq DOMAIN jobs
    /\ pc \in {"idle", "retry", "reconcile", "readMarkers", "repair", "enqueue",
               "run", "running", "dead"}
    /\ scanned \subseteq Event /\ repairs \subseteq SUBSET Event
    /\ todo \subseteq (DOMAIN markers) \X Type
    /\ batch \subseteq DOMAIN markers
    /\ failures \in 0 .. MaxFailures /\ crashes \in 0 .. MaxCrashes
    /\ cliRetries \in 0 .. MaxCliRetries

\* A marker is checkpointed only once a job of every type for its events has
\* come to an end: a checkpoint, which hides the marker from every later run,
\* never hides work that a killed worker left unfinished.
ConsumedWasRun ==
    \A m \in consumed : \A t \in Type :
        \E j \in DOMAIN jobs :
            /\ markers[jobs[j].marker] = markers[m] /\ jobs[j].type = t
            /\ jobs[j].status \in Ended

\* No two first jobs of one type work on the same events, whichever of a
\* session and the reconciliation wrote the marker and wherever a run stopped.
OneJobPerKey ==
    \A i, j \in DOMAIN jobs :
        /\ jobs[i].parent = 0 /\ jobs[j].parent = 0 /\ jobs[i].type = jobs[j].type
        /\ markers[jobs[i].marker] = markers[jobs[j].marker]
        => i = j

\* A job is run at most once, whoever retries and wherever a worker is killed:
\* only a pending job is started, and its line only goes from pending to
\* running, on to an end, and from failed to skipped once its attempts are used.
RunsOnce ==
    [][/\ pc # "running" /\ pc' = "running"
            => \E j \in queue : IsFirst(j, queue) /\ jobs[j].status = "pending"
       /\ \A j \in DOMAIN jobs :
            /\ j \in DOMAIN jobs'
            /\ \/ jobs'[j].status = jobs[j].status
               \/ jobs[j].status = "pending" /\ jobs'[j].status = "running"
               \/ jobs[j].status = "running" /\ jobs'[j].status \in Ended
               \/ jobs[j].status = "failed" /\ jobs'[j].status = "skipped"]_vars

InArchive(e) == \E i \in DOMAIN archive : archive[i] = e

\* Every archived event gets into a marker, also when its session dies before
\* it writes one (reconcile.ts), and then into a job of every type that the
\* worker starts, also when the worker is killed in between.
EveryEventIsWorkedOn ==
    \A e \in Event, t \in Type :
        InArchive(e) ~> \E j \in DOMAIN jobs :
            /\ e \in markers[jobs[j].marker] /\ jobs[j].type = t
            /\ jobs[j].status # "pending"

Failed(j) == j \in DOMAIN jobs /\ jobs[j].status = "failed"

Settled(j) ==
    /\ j \in DOMAIN jobs
    /\ \/ jobs[j].status = "skipped"
       \/ \E k \in RetriesOf(j) : jobs[k].status # "pending"

\* A failed job is retried, or given up once it has had its attempts, whether
\* or not its marker still schedules a run.
FailedIsSettled ==
    \A j \in 1 .. 2 * Cardinality(Event) * Cardinality(Type) : Failed(j) ~> Settled(j)

\* result.retryRootJobId, as the jobIds tell it
Root[j \in DOMAIN jobs] == IF jobs[j].parent = 0 THEN j ELSE Root[jobs[j].parent]

\* workerLoop.ts:29 allows a job MaxAttempts retries.
RetriesAreBounded ==
    \A j \in DOMAIN jobs : Cardinality({k \in DOMAIN jobs : Root[k] = j /\ k # j}) <= MaxAttempts
=============================================================================
