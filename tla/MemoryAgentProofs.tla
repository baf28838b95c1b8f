-------------------------- MODULE MemoryAgentProofs --------------------------
(***************************************************************************)
(* What the memory agent guarantees for all events, job types, bounds and  *)
(* numbers of crashes: types, that a checkpoint hides no unfinished work,  *)
(* that no two first jobs share their key, and that a job runs once.       *)
(***************************************************************************)
EXTENDS MemoryAgent, SequenceTheorems, TLAPS

JobType == [marker : Nat, type : Type, status : Status,
            parent : Nat, retryOf : Nat, attempt : Nat]

JobsTyped ==
    /\ jobs \in Seq(JobType)
    /\ \A j \in DOMAIN jobs : jobs[j].marker \in DOMAIN markers

\* What a step does to the log of markers and to that of jobs.
MarkersKept ==
    \A m \in DOMAIN markers : m \in DOMAIN markers' /\ markers'[m] = markers[m]

JobAdded(job) ==
    /\ DOMAIN jobs' = DOMAIN jobs \cup {Len(jobs) + 1}
    /\ \A j \in DOMAIN jobs : jobs'[j] = jobs[j]
    /\ jobs'[Len(jobs) + 1] = job

JobSet(i, job) ==
    /\ DOMAIN jobs' = DOMAIN jobs
    /\ \A j \in DOMAIN jobs : jobs'[j] = IF j = i THEN job ELSE jobs[j]

USE AgentConstants DEF Goto, logs, local, bounds

LEMMA AppendJob ==
    ASSUME JobsTyped, NEW job \in JobType, job.marker \in DOMAIN markers,
           markers' = markers, jobs' = Append(jobs, job)
    PROVE  JobsTyped' /\ JobAdded(job) /\ Len(jobs) + 1 \notin DOMAIN jobs
<1>1. jobs \in Seq(JobType)
  BY DEF JobsTyped
<1>2. /\ jobs' \in Seq(JobType) /\ Len(jobs') = Len(jobs) + 1
      /\ \A i \in 1 .. Len(jobs) : jobs'[i] = jobs[i]
      /\ jobs'[Len(jobs) + 1] = job
  BY <1>1, AppendProperties
<1>3. DOMAIN jobs = 1 .. Len(jobs) /\ DOMAIN jobs' = 1 .. Len(jobs') /\ Len(jobs) \in Nat
  BY <1>1, <1>2, LenProperties
<1>4. DOMAIN jobs' = DOMAIN jobs \cup {Len(jobs) + 1} /\ Len(jobs) + 1 \notin DOMAIN jobs
  BY <1>2, <1>3
<1> QED
  BY <1>2, <1>3, <1>4 DEF JobsTyped, JobAdded

LEMMA SetJob ==
    ASSUME JobsTyped, NEW i \in DOMAIN jobs, NEW job \in JobType,
           job.marker = jobs[i].marker, markers' = markers,
           jobs' = [jobs EXCEPT ![i] = job]
    PROVE  JobsTyped' /\ JobSet(i, job)
<1>1. jobs \in Seq(JobType)
  BY DEF JobsTyped
<1>2. DOMAIN jobs = 1 .. Len(jobs)
  BY <1>1, LenProperties
<1>3. jobs' \in Seq(JobType) /\ Len(jobs') = Len(jobs)
  BY <1>1, <1>2, ExceptSeq
<1>4. DOMAIN jobs' = DOMAIN jobs
  BY <1>2, <1>3, LenProperties
<1>5. \A j \in DOMAIN jobs : jobs'[j] = IF j = i THEN job ELSE jobs[j]
  OBVIOUS
<1> QED
  BY <1>3, <1>4, <1>5 DEF JobsTyped, JobSet

LEMMA AppendMarkers ==
    ASSUME JobsTyped, markers \in Seq(SUBSET Event), NEW events \in SUBSET Event,
           markers' = Append(markers, events), jobs' = jobs
    PROVE  /\ JobsTyped' /\ markers' \in Seq(SUBSET Event) /\ MarkersKept
           /\ Len(markers') = Len(markers) + 1 /\ Len(markers) \in Nat
<1>1. /\ markers' \in Seq(SUBSET Event) /\ Len(markers') = Len(markers) + 1
      /\ \A m \in 1 .. Len(markers) : markers'[m] = markers[m]
  BY AppendProperties
<1>2. /\ DOMAIN markers = 1 .. Len(markers) /\ DOMAIN markers' = 1 .. Len(markers')
      /\ Len(markers) \in Nat
  BY <1>1, LenProperties
<1>3. MarkersKept
  BY <1>1, <1>2 DEF MarkersKept
<1> QED
  BY <1>1, <1>2, <1>3 DEF JobsTyped, MarkersKept

-----------------------------------------------------------------------------
(* TypeOK                                                                  *)

LEMMA TypeOfJobs == TypeOK => JobsTyped
BY DEF TypeOK, JobsTyped, JobType

LEMMA JobFields ==
    ASSUME JobsTyped, NEW j \in DOMAIN jobs
    PROVE  jobs[j] \in JobType /\ jobs[j].marker \in DOMAIN markers
<1>1. jobs[j] \in JobType
  BY LenProperties, ElementOfSeq DEF JobsTyped
<1> QED
  BY <1>1 DEF JobsTyped

LEMMA RetryLine ==
    ASSUME JobsTyped, NEW j \in DOMAIN jobs
    PROVE  /\ RetryOf(j) \in JobType /\ RetryOf(j).marker \in DOMAIN markers
           /\ RetryOf(j).parent = j /\ RetryOf(j).parent # 0 /\ RetryOf(j).status = "pending"
<1>1. jobs[j] \in JobType /\ jobs[j].marker \in DOMAIN markers
  BY JobFields
<1>2. j \in Nat /\ j # 0
  BY LenProperties DEF JobsTyped
<1>3. jobs[j].marker \in Nat /\ jobs[j].type \in Type /\ jobs[j].attempt + 1 \in Nat
  BY <1>1 DEF JobType
<1> QED
  BY <1>1, <1>2, <1>3 DEF RetryOf, Job, JobType, Status

-----------------------------------------------------------------------------
LEMMA TypeInit == Init => TypeOK
<1> SUFFICES ASSUME Init PROVE TypeOK
  OBVIOUS
<1>1. archive \in Seq(Event) /\ markers \in Seq(SUBSET Event) /\ jobs \in Seq(JobType)
  BY EmptySeq DEF Init
<1>2. DOMAIN jobs = {} /\ DOMAIN markers = {} /\ Len(markers) = 0
  BY EmptySeq DEF Init
<1> QED
  BY <1>1, <1>2 DEF Init, TypeOK, JobType

LEMMA TypeIngest ==
    ASSUME TypeOK, NEW e \in Event, Ingest(e) PROVE TypeOK'
<1>0. JobsTyped
  BY TypeOfJobs
<1>1. CASE AppendArchive(e)
  <2>1. archive' \in Seq(Event)
    BY <1>1, AppendProperties DEF AppendArchive, TypeOK
  <2> QED
    BY <1>1, <2>1 DEF AppendArchive, TypeOK
<1>2. CASE AppendMarker(e)
  <2>1. {e} \in SUBSET Event /\ markers \in Seq(SUBSET Event)
    BY DEF TypeOK
  <2>2. markers' = Append(markers, {e}) /\ jobs' = jobs
    BY <1>2 DEF AppendMarker
  <2>3. /\ JobsTyped' /\ markers' \in Seq(SUBSET Event) /\ MarkersKept
        /\ Len(markers') = Len(markers) + 1 /\ Len(markers) \in Nat
    BY <1>0, <2>1, <2>2, AppendMarkers
  <2> QED
    BY <1>2, <2>3 DEF AppendMarker, TypeOK, JobsTyped, JobType, MarkersKept
<1>3. CASE LoseMarker(e)
  BY <1>3 DEF LoseMarker, TypeOK
<1> QED
  BY <1>1, <1>2, <1>3 DEF Ingest

LEMMA TypeRetry ==
    ASSUME TypeOK,
           BeginIteration \/ Retry \/ Decide \/ \E j \in DOMAIN jobs : CliRetry(j)
    PROVE  TypeOK'
<1>0. JobsTyped
  BY TypeOfJobs
<1>1. CASE BeginIteration
  BY <1>1 DEF BeginIteration, Retryable, TypeOK
<1>2. CASE Retry
  <2>1. PICK j \in retries : jobs' = IF jobs[j].attempt >= MaxAttempts
                                     THEN [jobs EXCEPT ![j].status = "skipped"]
                                     ELSE Append(jobs, RetryOf(j))
    BY <1>2 DEF Retry
  <2>2. j \in DOMAIN jobs /\ jobs[j] \in JobType
    BY <1>0, JobFields DEF TypeOK
  <2>3. JobsTyped' /\ DOMAIN jobs \subseteq DOMAIN jobs'
    <3>1. CASE jobs[j].attempt >= MaxAttempts
      <4> DEFINE job == [jobs[j] EXCEPT !.status = "skipped"]
      <4>1. job \in JobType /\ job.marker = jobs[j].marker
        BY <2>2 DEF JobType, Status
      <4>2. jobs' = [jobs EXCEPT ![j] = job]
        BY <2>1, <3>1
      <4> QED
        BY <1>0, <1>2, <2>2, <4>1, <4>2, SetJob DEF Retry, JobSet
    <3>2. CASE ~(jobs[j].attempt >= MaxAttempts)
      BY <1>0, <1>2, <2>1, <2>2, <3>2, RetryLine, AppendJob DEF Retry, JobAdded
    <3> QED
      BY <3>1, <3>2
  <2> QED
    BY <1>2, <2>3 DEF Retry, TypeOK, JobsTyped, JobType
<1>3. CASE Decide
  BY <1>3 DEF Decide, TypeOK
<1>4. ASSUME NEW j \in DOMAIN jobs, CliRetry(j) PROVE TypeOK'
  <2>1. JobsTyped' /\ DOMAIN jobs \subseteq DOMAIN jobs'
    BY <1>0, <1>4, RetryLine, AppendJob DEF CliRetry, JobAdded
  <2>2. cliRetries' \in 0 .. MaxCliRetries
    BY <1>4 DEF CliRetry, TypeOK
  <2> QED
    BY <1>4, <2>1, <2>2 DEF CliRetry, TypeOK, JobsTyped, JobType
<1> QED
  BY <1>1, <1>2, <1>3, <1>4

LEMMA TypeReconcile ==
    ASSUME TypeOK, ReadArchive \/ ReadMarkers \/ Repair \/ TakeBatch
    PROVE  TypeOK'
<1>0. JobsTyped
  BY TypeOfJobs
<1>1. CASE ReadArchive
  <2>1. RecentEvents \subseteq Event
    BY LenProperties, ElementOfSeq DEF RecentEvents, TypeOK
  <2> QED
    BY <1>1, <2>1 DEF ReadArchive, TypeOK
<1>2. CASE ReadMarkers
  <2>1. BySession(scanned \ Covered) \subseteq SUBSET Event
    BY DEF BySession, TypeOK
  <2> QED
    BY <1>2, <2>1 DEF ReadMarkers, TypeOK
<1>3. CASE Repair
  <2>1. PICK events \in repairs : markers' = Append(markers, events) /\ repairs' = repairs \ {events}
    BY <1>3 DEF Repair
  <2>2. events \in SUBSET Event
    BY DEF TypeOK
  <2>3. /\ JobsTyped' /\ markers' \in Seq(SUBSET Event) /\ MarkersKept
        /\ Len(markers') = Len(markers) + 1 /\ Len(markers) \in Nat
    BY <1>0, <1>3, <2>1, <2>2, AppendMarkers DEF Repair, TypeOK
  <2> QED
    BY <1>3, <2>1, <2>3 DEF Repair, TypeOK, JobsTyped, JobType, MarkersKept
<1>4. CASE TakeBatch
  BY <1>4 DEF TakeBatch, Unconsumed, TypeOK
<1> QED
  BY <1>1, <1>2, <1>3, <1>4

\* The three ways a job ends write a line of the same job.
LEMMA EndLines ==
    ASSUME NEW job \in JobType,
           NEW line \in {WithResult(job, "completed"), WithResult(job, "skipped"), Thrown(job)}
    PROVE  /\ line \in JobType /\ line.status \in Ended
           /\ line.marker = job.marker /\ line.type = job.type /\ line.parent = job.parent
<1>1. CASE line = WithResult(job, "completed")
  BY <1>1 DEF JobType, Status, Ended, WithResult
<1>2. CASE line = WithResult(job, "skipped")
  BY <1>2 DEF JobType, Status, Ended, WithResult
<1>3. CASE line = Thrown(job)
  BY <1>3 DEF JobType, Status, Ended, Thrown
<1> QED
  BY <1>1, <1>2, <1>3

LEMMA EndJobLog ==
    ASSUME TypeOK, EndJob
    PROVE  \E j \in queue, line \in JobType :
              /\ IsFirst(j, queue) /\ queue' = queue \ {j}
              /\ processed' = processed \cup {j}
              /\ JobsTyped' /\ JobSet(j, line) /\ line.status \in Ended
              /\ line.marker = jobs[j].marker /\ line.type = jobs[j].type
              /\ line.parent = jobs[j].parent
<1>0. JobsTyped
  BY TypeOfJobs
<1>1. PICK j \in queue :
        /\ IsFirst(j, queue) /\ queue' = queue \ {j} /\ processed' = processed \cup {j}
        /\ \/ jobs' = [jobs EXCEPT ![j] = WithResult(@, "completed")]
           \/ jobs' = [jobs EXCEPT ![j] = WithResult(@, "skipped")]
           \/ jobs' = [jobs EXCEPT ![j] = Thrown(@)]
  BY DEF EndJob
<1>2. j \in DOMAIN jobs /\ jobs[j] \in JobType
  BY <1>0, JobFields DEF TypeOK
<1>3. \/ jobs' = [jobs EXCEPT ![j] = WithResult(jobs[j], "completed")]
      \/ jobs' = [jobs EXCEPT ![j] = WithResult(jobs[j], "skipped")]
      \/ jobs' = [jobs EXCEPT ![j] = Thrown(jobs[j])]
  BY <1>1 DEF WithResult, Thrown
<1>4. PICK line \in {WithResult(jobs[j], "completed"), WithResult(jobs[j], "skipped"),
                     Thrown(jobs[j])} : jobs' = [jobs EXCEPT ![j] = line]
  BY <1>3
<1>5. /\ line \in JobType /\ line.status \in Ended
      /\ line.marker = jobs[j].marker /\ line.type = jobs[j].type
      /\ line.parent = jobs[j].parent
  BY <1>2, EndLines
<1>6. markers' = markers
  BY DEF EndJob
<1>7. JobsTyped' /\ JobSet(j, line)
  BY <1>0, <1>2, <1>4, <1>5, <1>6, SetJob
<1> QED
  BY <1>1, <1>5, <1>7

LEMMA TypeRun ==
    ASSUME TypeOK,
           Enqueue \/ TakeQueue \/ StartJob \/ EndJob \/ Checkpoint \/ EndIteration
    PROVE  TypeOK'
<1>0. JobsTyped
  BY TypeOfJobs
<1>1. CASE Enqueue
  <2>1. PICK p \in todo :
          /\ todo' = todo \ {p}
          /\ jobs' = IF KeyExists(p[1], p[2]) THEN jobs
                     ELSE Append(jobs, Job(p[1], p[2], 0, 0))
    BY <1>1 DEF Enqueue
  <2>2. p[1] \in DOMAIN markers /\ p[2] \in Type /\ p[1] \in Nat
    BY LenProperties DEF TypeOK
  <2>3. Job(p[1], p[2], 0, 0) \in JobType /\ Job(p[1], p[2], 0, 0).marker = p[1]
    BY <2>2 DEF Job, JobType, Status
  <2>4. JobsTyped' /\ DOMAIN jobs \subseteq DOMAIN jobs'
    <3>1. CASE KeyExists(p[1], p[2])
      BY <1>0, <1>1, <2>1, <3>1 DEF Enqueue, JobsTyped
    <3>2. CASE ~KeyExists(p[1], p[2])
      <4>1. jobs' = Append(jobs, Job(p[1], p[2], 0, 0)) /\ markers' = markers
        BY <1>1, <2>1, <3>2 DEF Enqueue
      <4> QED
        BY <1>0, <2>2, <2>3, <4>1, AppendJob DEF JobAdded
    <3> QED
      BY <3>1, <3>2
  <2> QED
    BY <1>1, <2>1, <2>4 DEF Enqueue, TypeOK, JobsTyped, JobType
<1>2. CASE TakeQueue
  BY <1>2 DEF TakeQueue, Pending, TypeOK
<1>3. CASE StartJob
  <2>1. PICK j \in queue : jobs' = [jobs EXCEPT ![j].status = "running"]
    BY <1>3 DEF StartJob
  <2> DEFINE job == [jobs[j] EXCEPT !.status = "running"]
  <2>2. j \in DOMAIN jobs /\ jobs[j] \in JobType
    BY <1>0, JobFields DEF TypeOK
  <2>3. job \in JobType /\ job.marker = jobs[j].marker
    BY <2>2 DEF JobType, Status
  <2>4. jobs' = [jobs EXCEPT ![j] = job] /\ markers' = markers
    BY <1>3, <2>1 DEF StartJob
  <2>5. JobsTyped' /\ DOMAIN jobs' = DOMAIN jobs
    BY <1>0, <2>2, <2>3, <2>4, SetJob DEF JobSet
  <2> QED
    BY <1>3, <2>5 DEF StartJob, TypeOK, JobsTyped, JobType
<1>4. CASE EndJob
  <2>1. PICK j \in queue, job \in JobType :
          /\ IsFirst(j, queue) /\ queue' = queue \ {j} /\ processed' = processed \cup {j}
          /\ JobsTyped' /\ JobSet(j, job)
    BY <1>4, EndJobLog
  <2>2. failures' \in 0 .. MaxFailures
    <3>1. failures' = failures \/ (failures < MaxFailures /\ failures' = failures + 1)
      BY <1>4 DEF EndJob
    <3>2. failures \in 0 .. MaxFailures /\ MaxFailures \in Nat
      BY DEF TypeOK
    <3> QED
      BY <3>1, <3>2
  <2>3. /\ ingest' = ingest /\ archive' = archive /\ markers' = markers
        /\ consumed' = consumed /\ aged' = aged /\ ripe' = ripe /\ retries' = retries
        /\ scanned' = scanned /\ repairs' = repairs /\ todo' = todo /\ batch' = batch
        /\ crashes' = crashes /\ cliRetries' = cliRetries /\ pc' = "run"
    BY <1>4 DEF EndJob
  <2>4. ripe' \cup retries' \cup queue' \cup processed' \subseteq DOMAIN jobs'
    BY <2>1, <2>3 DEF JobSet, TypeOK
  <2> QED
    BY <2>1, <2>2, <2>3, <2>4 DEF TypeOK, JobsTyped, JobType
<1>5. CASE Checkpoint
  BY <1>5 DEF Checkpoint, TypeOK
<1>6. CASE EndIteration
  BY <1>6 DEF EndIteration, TypeOK
<1> QED
  BY <1>1, <1>2, <1>3, <1>4, <1>5, <1>6

LEMMA TypeTime ==
    ASSUME TypeOK, Crash \/ Restart \/ Age \/ \E j \in DOMAIN jobs : Ripen(j)
    PROVE  TypeOK'
<1>1. CASE Crash
  <2>1. crashes' \in 0 .. MaxCrashes
    BY <1>1 DEF Crash, TypeOK
  <2> QED
    BY <1>1, <2>1 DEF Crash, TypeOK
<1>2. CASE Restart
  BY <1>2 DEF Restart, TypeOK
<1>3. CASE Age
  <2>1. Len(markers) \in Nat
    BY LenProperties DEF TypeOK
  <2>2. aged' \in 0 .. Len(markers)
    <3>1. aged' = Len(markers)
      BY <1>3 DEF Age
    <3> QED
      BY <2>1, <3>1
  <2>3. UNCHANGED <<ingest, archive, markers, consumed, jobs, ripe, pc, retries,
                    scanned, repairs, todo, batch, queue, processed, failures,
                    crashes, cliRetries>>
    BY <1>3 DEF Age
  <2> QED
    BY <2>2, <2>3 DEF TypeOK
<1>4. ASSUME NEW j \in DOMAIN jobs, Ripen(j) PROVE TypeOK'
  BY <1>4 DEF Ripen, TypeOK
<1> QED
  BY <1>1, <1>2, <1>3, <1>4

LEMMA TypeStep == TypeOK /\ [Next]_vars => TypeOK'
<1> SUFFICES ASSUME TypeOK, [Next]_vars PROVE TypeOK'
  OBVIOUS
<1>1. CASE UNCHANGED vars
  BY <1>1 DEF vars, TypeOK
<1>2. CASE Next
  BY <1>2, TypeIngest, TypeRetry, TypeReconcile, TypeRun, TypeTime DEF Next, Worker
<1> QED
  BY <1>1, <1>2

\* Every variable keeps its type, and every line of jobs.jsonl names a marker
\* that is there, whatever the events, the job types and the bounds are.
THEOREM TypeCorrect == Spec => []TypeOK
BY TypeInit, TypeStep, PTL DEF Spec

-----------------------------------------------------------------------------
(* What a step does to a job                                               *)

\* The jobs that the worker has listed are still what it takes them for, also
\* when a command line or a retry has appended to the log since.
QueueInv ==
    /\ \A j \in retries : jobs[j].status = "failed"
    /\ \A j \in processed : jobs[j].status \in Ended
    /\ \A j \in queue :
          jobs[j].status = IF pc = "running" /\ IsFirst(j, queue) THEN "running" ELSE "pending"

SameJob(j) ==
    /\ j \in DOMAIN jobs' /\ jobs'[j].marker = jobs[j].marker
    /\ jobs'[j].type = jobs[j].type /\ jobs'[j].parent = jobs[j].parent

Moves(j) ==
    \/ jobs'[j].status = jobs[j].status
    \/ jobs[j].status = "pending" /\ jobs'[j].status = "running"
    \/ jobs[j].status = "running" /\ jobs'[j].status \in Ended
    \/ jobs[j].status = "failed" /\ jobs'[j].status = "skipped"

\* A job that a step brings in, other than Enqueue, is a retry.
OnlyRetriesNew == \A j \in DOMAIN jobs' : j \notin DOMAIN jobs => jobs'[j].parent # 0

JobsStep == \A j \in DOMAIN jobs : SameJob(j) /\ Moves(j)

LEMMA UnchangedJobs == jobs' = jobs => JobsStep /\ OnlyRetriesNew
BY DEF JobsStep, SameJob, Moves, OnlyRetriesNew

LEMMA AddedJob ==
    ASSUME NEW job, JobAdded(job)
    PROVE  JobsStep /\ (job.parent # 0 => OnlyRetriesNew)
BY DEF JobAdded, JobsStep, SameJob, Moves, OnlyRetriesNew

LEMMA RetryStep ==
    ASSUME TypeOK, QueueInv, Retry
    PROVE  /\ JobsStep /\ OnlyRetriesNew
           /\ \A i \in DOMAIN jobs :
                 i \in queue \cup retries' => jobs'[i] = jobs[i]
<1>0. JobsTyped
  BY TypeOfJobs
<1>1. PICK j \in retries :
        /\ jobs' = IF jobs[j].attempt >= MaxAttempts
                   THEN [jobs EXCEPT ![j].status = "skipped"]
                   ELSE Append(jobs, RetryOf(j))
        /\ retries' = retries \ {j} /\ markers' = markers
  BY DEF Retry
<1>2. j \in DOMAIN jobs /\ jobs[j] \in JobType /\ jobs[j].status = "failed" /\ j \notin queue
  BY <1>0, JobFields DEF TypeOK, QueueInv
<1>3. CASE jobs[j].attempt >= MaxAttempts
  <2> DEFINE job == [jobs[j] EXCEPT !.status = "skipped"]
  <2>1. /\ job \in JobType /\ job.marker = jobs[j].marker /\ job.type = jobs[j].type
        /\ job.parent = jobs[j].parent /\ job.status = "skipped"
    BY <1>2 DEF JobType, Status
  <2>2. JobSet(j, job)
    <3>1. jobs' = [jobs EXCEPT ![j] = job]
      BY <1>1, <1>3
    <3> QED
      BY <1>0, <1>1, <1>2, <2>1, <3>1, SetJob
  <2> HIDE DEF job
  <2> QED
    BY <1>1, <1>2, <2>1, <2>2 DEF JobSet, JobsStep, SameJob, Moves, OnlyRetriesNew
<1>4. CASE ~(jobs[j].attempt >= MaxAttempts)
  <2>1. JobAdded(RetryOf(j)) /\ RetryOf(j).parent # 0
    BY <1>0, <1>1, <1>2, <1>4, RetryLine, AppendJob
  <2> QED
    BY <2>1, AddedJob DEF JobAdded
<1> QED
  BY <1>3, <1>4

LEMMA CliRetryStep ==
    ASSUME TypeOK, NEW j \in DOMAIN jobs, CliRetry(j)
    PROVE  JobsStep /\ OnlyRetriesNew /\ \A i \in DOMAIN jobs : jobs'[i] = jobs[i]
<1>1. JobAdded(RetryOf(j)) /\ RetryOf(j).parent # 0
  BY TypeOfJobs, RetryLine, AppendJob DEF CliRetry
<1> QED
  BY <1>1, AddedJob DEF JobAdded

LEMMA EnqueueStep ==
    ASSUME TypeOK, Enqueue
    PROVE  /\ JobsStep /\ markers' = markers /\ \A i \in DOMAIN jobs : jobs'[i] = jobs[i]
           /\ \/ jobs' = jobs
              \/ \E m \in DOMAIN markers, t \in Type :
                    ~KeyExists(m, t) /\ JobAdded(Job(m, t, 0, 0))
<1>1. PICK p \in todo :
        jobs' = IF KeyExists(p[1], p[2]) THEN jobs ELSE Append(jobs, Job(p[1], p[2], 0, 0))
  BY DEF Enqueue
<1>2. p[1] \in DOMAIN markers /\ p[2] \in Type /\ p[1] \in Nat /\ markers' = markers
  BY LenProperties DEF TypeOK, Enqueue
<1>3. CASE KeyExists(p[1], p[2])
  BY <1>1, <1>2, <1>3, UnchangedJobs
<1>4. CASE ~KeyExists(p[1], p[2])
  <2>1. Job(p[1], p[2], 0, 0) \in JobType /\ Job(p[1], p[2], 0, 0).marker = p[1]
    BY <1>2 DEF Job, JobType, Status
  <2>2. JobAdded(Job(p[1], p[2], 0, 0))
    BY <1>1, <1>2, <1>4, <2>1, TypeOfJobs, AppendJob
  <2> QED
    BY <1>2, <1>4, <2>2, AddedJob DEF JobAdded
<1> QED
  BY <1>3, <1>4

LEMMA StartStep ==
    ASSUME TypeOK, QueueInv, StartJob
    PROVE  /\ JobsStep /\ OnlyRetriesNew
           /\ \E j \in queue :
                 /\ IsFirst(j, queue) /\ jobs[j].status = "pending"
                 /\ jobs'[j].status = "running"
                 /\ \A i \in DOMAIN jobs : i # j => jobs'[i] = jobs[i]
<1>0. JobsTyped
  BY TypeOfJobs
<1>1. PICK j \in queue :
        /\ IsFirst(j, queue) /\ jobs' = [jobs EXCEPT ![j].status = "running"]
        /\ markers' = markers
  BY DEF StartJob
<1>2. j \in DOMAIN jobs /\ jobs[j] \in JobType /\ jobs[j].status = "pending"
  BY <1>0, JobFields DEF TypeOK, QueueInv, StartJob
<1> DEFINE job == [jobs[j] EXCEPT !.status = "running"]
<1>3. /\ job \in JobType /\ job.marker = jobs[j].marker /\ job.type = jobs[j].type
      /\ job.parent = jobs[j].parent /\ job.status = "running"
  BY <1>2 DEF JobType, Status
<1>4. JobSet(j, job)
  <2>1. jobs' = [jobs EXCEPT ![j] = job]
    BY <1>1
  <2> QED
    BY <1>0, <1>1, <1>2, <1>3, <2>1, SetJob
<1> HIDE DEF job
<1> QED
  BY <1>1, <1>2, <1>3, <1>4 DEF JobSet, JobsStep, SameJob, Moves, OnlyRetriesNew

LEMMA EndStep ==
    ASSUME TypeOK, QueueInv, EndJob
    PROVE  /\ JobsStep /\ OnlyRetriesNew
           /\ \E j \in queue :
                 /\ IsFirst(j, queue) /\ jobs[j].status = "running"
                 /\ jobs'[j].status \in Ended
                 /\ queue' = queue \ {j} /\ processed' = processed \cup {j}
                 /\ \A i \in DOMAIN jobs : i # j => jobs'[i] = jobs[i]
<1>1. PICK j \in queue, line \in JobType :
        /\ IsFirst(j, queue) /\ queue' = queue \ {j}
        /\ processed' = processed \cup {j}
        /\ JobSet(j, line) /\ line.status \in Ended
        /\ line.marker = jobs[j].marker /\ line.type = jobs[j].type
        /\ line.parent = jobs[j].parent
  BY EndJobLog
<1>2. j \in DOMAIN jobs /\ jobs[j].status = "running"
  BY <1>1 DEF TypeOK, QueueInv, EndJob
<1> QED
  BY <1>1, <1>2 DEF JobSet, JobsStep, SameJob, Moves, OnlyRetriesNew

\* The other actions leave jobs.jsonl alone.
OtherAction ==
    \/ \E e \in Event : Ingest(e)
    \/ BeginIteration \/ Decide \/ ReadArchive \/ ReadMarkers \/ Repair \/ TakeBatch
    \/ TakeQueue \/ Checkpoint \/ EndIteration \/ Crash \/ Restart \/ Age
    \/ \E j \in DOMAIN jobs : Ripen(j)

LEMMA OtherStep == OtherAction \/ UNCHANGED vars => jobs' = jobs
BY DEF OtherAction, Ingest, AppendArchive, AppendMarker, LoseMarker, BeginIteration, Decide,
       ReadArchive, ReadMarkers, Repair, TakeBatch, TakeQueue, Checkpoint, EndIteration,
       Crash, Restart, Age, Ripen, vars

LEMMA NextCases ==
    ASSUME [Next]_vars
    PROVE  \/ Retry \/ Enqueue \/ StartJob \/ EndJob
           \/ \E j \in DOMAIN jobs : CliRetry(j)
           \/ OtherAction \/ UNCHANGED vars
BY DEF Next, Worker, OtherAction

LEMMA JobsStepLemma == TypeOK /\ QueueInv /\ [Next]_vars => JobsStep
BY NextCases, RetryStep, EnqueueStep, StartStep, EndStep, CliRetryStep, OtherStep, UnchangedJobs

LEMMA MarkersStep == TypeOK /\ [Next]_vars => MarkersKept
<1> SUFFICES ASSUME TypeOK, [Next]_vars PROVE MarkersKept
  OBVIOUS
<1>1. ASSUME NEW events \in SUBSET Event, markers' = Append(markers, events) PROVE MarkersKept
  <2>1. /\ markers' \in Seq(SUBSET Event) /\ Len(markers') = Len(markers) + 1
        /\ \A m \in 1 .. Len(markers) : markers'[m] = markers[m]
    BY <1>1, AppendProperties DEF TypeOK
  <2>2. DOMAIN markers = 1 .. Len(markers) /\ DOMAIN markers' = 1 .. Len(markers')
        /\ Len(markers) \in Nat
    BY <2>1, LenProperties DEF TypeOK
  <2> QED
    BY <2>1, <2>2 DEF MarkersKept
<1>2. ASSUME NEW e \in Event, AppendMarker(e) PROVE MarkersKept
  <2>1. {e} \in SUBSET Event /\ markers' = Append(markers, {e})
    BY <1>2 DEF AppendMarker
  <2> QED
    BY <1>1, <2>1
<1>3. CASE Repair
  BY <1>1, <1>3 DEF Repair, TypeOK
<1>4. ASSUME markers' = markers PROVE MarkersKept
  BY <1>4 DEF MarkersKept
<1>5. \/ \E e \in Event : AppendMarker(e)
      \/ Repair
      \/ markers' = markers
  BY DEF Next, Worker, Ingest, AppendArchive, LoseMarker, BeginIteration, Retry, Decide,
         ReadArchive, ReadMarkers, TakeBatch, Enqueue, TakeQueue, StartJob, EndJob, Checkpoint,
         EndIteration, Crash, Restart, Age, Ripen, CliRetry, vars
<1> QED
  BY <1>2, <1>3, <1>4, <1>5

-----------------------------------------------------------------------------
(* The invariants                                                          *)

LEMMA QueueStep ==
    ASSUME TypeOK, QueueInv, [Next]_vars PROVE QueueInv'
<1>0. retries \cup queue \cup processed \subseteq DOMAIN jobs /\ DOMAIN jobs \subseteq Nat
  <2>1. DOMAIN jobs = 1 .. Len(jobs)
    BY TypeOfJobs, LenProperties DEF JobsTyped
  <2> QED
    BY <2>1 DEF TypeOK
<1>1. CASE Retry
  <2>1. \A i \in queue \cup retries' : i \in DOMAIN jobs /\ jobs'[i] = jobs[i]
    BY <1>0, <1>1, RetryStep DEF Retry
  <2>2. \A i \in processed : jobs'[i].status \in Ended
    BY <1>0, <1>1, RetryStep DEF JobsStep, Moves, QueueInv, Ended
  <2> QED
    BY <1>1, <2>1, <2>2 DEF Retry, QueueInv, IsFirst
<1>2. CASE Enqueue
  BY <1>0, <1>2, EnqueueStep DEF Enqueue, QueueInv, IsFirst
<1>3. CASE StartJob
  <2>1. PICK j \in queue :
          /\ IsFirst(j, queue) /\ jobs[j].status = "pending" /\ jobs'[j].status = "running"
          /\ \A i \in DOMAIN jobs : i # j => jobs'[i] = jobs[i]
    BY <1>3, StartStep
  <2>2. \A i \in queue : IsFirst(i, queue) => i = j
    BY <1>0, <2>1 DEF IsFirst
  <2>3. j \notin retries /\ j \notin processed
    BY <2>1 DEF QueueInv, Ended
  <2>4. /\ pc = "run" /\ pc' = "running" /\ retries' = retries /\ queue' = queue
        /\ processed' = processed
    BY <1>3 DEF StartJob
  <2>5. \A i \in queue :
          jobs'[i].status = IF IsFirst(i, queue) THEN "running" ELSE "pending"
    BY <1>0, <2>1, <2>2, <2>4 DEF QueueInv
  <2> QED
    BY <1>0, <2>1, <2>3, <2>4, <2>5 DEF QueueInv, IsFirst
<1>4. CASE EndJob
  <2>1. PICK j \in queue :
          /\ IsFirst(j, queue) /\ jobs[j].status = "running" /\ jobs'[j].status \in Ended
          /\ queue' = queue \ {j} /\ processed' = processed \cup {j}
          /\ \A i \in DOMAIN jobs : i # j => jobs'[i] = jobs[i]
    BY <1>4, EndStep
  <2>2. \A i \in queue : IsFirst(i, queue) => i = j
    BY <1>0, <2>1 DEF IsFirst
  <2>3. j \notin retries
    BY <2>1 DEF QueueInv
  <2>4. pc = "running" /\ pc' = "run" /\ retries' = retries
    BY <1>4 DEF EndJob
  <2>5. \A i \in queue' : jobs'[i].status = "pending"
    BY <1>0, <2>1, <2>2, <2>4 DEF QueueInv
  <2> QED
    BY <1>0, <2>1, <2>3, <2>4, <2>5 DEF QueueInv, IsFirst
<1>5. ASSUME NEW j \in DOMAIN jobs, CliRetry(j) PROVE QueueInv'
  BY <1>0, <1>5, CliRetryStep DEF CliRetry, QueueInv, IsFirst
<1>6. CASE OtherAction \/ UNCHANGED vars
  <2>1. jobs' = jobs
    BY <1>6, OtherStep
  <2>2. CASE BeginIteration
    BY <2>1, <2>2 DEF BeginIteration, Retryable, QueueInv, IsFirst
  <2>3. CASE TakeQueue
    BY <2>1, <2>3 DEF TakeQueue, Pending, QueueInv, IsFirst
  <2>4. CASE EndIteration
    BY <2>1, <2>4 DEF EndIteration, QueueInv, IsFirst
  <2>5. CASE Crash
    BY <2>1, <2>5 DEF Crash, QueueInv, IsFirst
  <2>6. CASE UNCHANGED <<pc, retries, queue, processed>>
    BY <2>1, <2>6 DEF QueueInv, IsFirst
  <2>7. CASE Decide \/ ReadArchive \/ ReadMarkers \/ TakeBatch \/ Restart
    <3>1. pc # "running" /\ pc' # "running" /\ UNCHANGED <<retries, queue, processed>>
      BY <2>7 DEF Decide, ReadArchive, ReadMarkers, TakeBatch, Restart
    <3> QED
      BY <2>1, <3>1 DEF QueueInv, IsFirst
  <2>8. \/ BeginIteration \/ TakeQueue \/ EndIteration \/ Crash
        \/ UNCHANGED <<pc, retries, queue, processed>>
        \/ Decide \/ ReadArchive \/ ReadMarkers \/ TakeBatch \/ Restart
    BY <1>6 DEF OtherAction, Ingest, AppendArchive, AppendMarker, LoseMarker, Repair,
                Checkpoint, Age, Ripen, vars
  <2> QED
    BY <2>2, <2>3, <2>4, <2>5, <2>6, <2>7, <2>8
<1> QED
  BY <1>1, <1>2, <1>3, <1>4, <1>5, <1>6, NextCases

LEMMA ConsumedStep ==
    ASSUME TypeOK, QueueInv, ConsumedWasRun, [Next]_vars PROVE ConsumedWasRun'
<1>1. JobsStep /\ MarkersKept
  BY JobsStepLemma, MarkersStep
<1>2. \A j \in DOMAIN jobs :
         /\ j \in DOMAIN jobs' /\ jobs'[j].type = jobs[j].type
         /\ markers'[jobs'[j].marker] = markers[jobs[j].marker]
         /\ jobs[j].status \in Ended => jobs'[j].status \in Ended
  BY <1>1 DEF JobsStep, SameJob, Moves, Ended, MarkersKept, TypeOK
<1>3. ASSUME NEW m \in consumed, NEW t \in Type
      PROVE  \E j \in DOMAIN jobs' :
               /\ markers'[jobs'[j].marker] = markers'[m] /\ jobs'[j].type = t
               /\ jobs'[j].status \in Ended
  <2>1. PICK j \in DOMAIN jobs :
          markers[jobs[j].marker] = markers[m] /\ jobs[j].type = t /\ jobs[j].status \in Ended
    BY DEF ConsumedWasRun
  <2>2. markers'[m] = markers[m]
    BY <1>1 DEF MarkersKept, TypeOK
  <2> QED
    BY <1>2, <2>1, <2>2
<1>4. CASE consumed' = consumed
  BY <1>3, <1>4 DEF ConsumedWasRun
<1>5. CASE Checkpoint
  <2>1. PICK m \in batch :
          consumed' = IF RanForMarker(m) THEN consumed \cup {m} ELSE consumed
    BY <1>5 DEF Checkpoint
  <2>2. CASE RanForMarker(m)
    <3>1. markers' = markers /\ jobs' = jobs
      BY <1>5 DEF Checkpoint
    <3>2. ASSUME NEW t \in Type
          PROVE  \E j \in DOMAIN jobs :
                   /\ markers[jobs[j].marker] = markers[m] /\ jobs[j].type = t
                   /\ jobs[j].status \in Ended
      BY <2>2 DEF RanForMarker, IsOwn, QueueInv, TypeOK
    <3> QED
      BY <1>3, <2>1, <2>2, <3>1, <3>2 DEF ConsumedWasRun
  <2> QED
    BY <1>4, <2>1, <2>2
<1>6. consumed' = consumed \/ Checkpoint
  BY DEF Next, Worker, Ingest, AppendArchive, AppendMarker, LoseMarker, BeginIteration, Retry,
         Decide, ReadArchive, ReadMarkers, Repair, TakeBatch, Enqueue, TakeQueue, StartJob,
         EndJob, EndIteration, Crash, Restart, Age, Ripen, CliRetry, vars
<1> QED
  BY <1>4, <1>5, <1>6

LEMMA KeyStep ==
    ASSUME TypeOK, QueueInv, OneJobPerKey, [Next]_vars PROVE OneJobPerKey'
<1>1. JobsStep /\ MarkersKept
  BY JobsStepLemma, MarkersStep
<1>2. \A j \in DOMAIN jobs :
         /\ j \in DOMAIN jobs' /\ jobs'[j].type = jobs[j].type
         /\ jobs'[j].parent = jobs[j].parent
         /\ markers'[jobs'[j].marker] = markers[jobs[j].marker]
  BY <1>1 DEF JobsStep, SameJob, MarkersKept, TypeOK
<1>3. CASE OnlyRetriesNew
  BY <1>2, <1>3 DEF OnlyRetriesNew, OneJobPerKey
<1>4. CASE Enqueue
  <2>1. CASE jobs' = jobs
    BY <1>3, <2>1, UnchangedJobs
  <2>2. CASE \E m \in DOMAIN markers, t \in Type :
               ~KeyExists(m, t) /\ JobAdded(Job(m, t, 0, 0))
    <3>1. PICK m \in DOMAIN markers, t \in Type :
            ~KeyExists(m, t) /\ JobAdded(Job(m, t, 0, 0))
      BY <2>2
    <3>2. markers' = markers
      BY <1>4, EnqueueStep
    <3> DEFINE n == Len(jobs) + 1
    <3>3. jobs'[n].marker = m /\ jobs'[n].type = t /\ DOMAIN jobs' = DOMAIN jobs \cup {n}
      BY <3>1 DEF JobAdded, Job
    <3>4. \A j \in DOMAIN jobs : ~(jobs[j].type = t /\ markers[jobs[j].marker] = markers[m])
      BY <3>1 DEF KeyExists
    <3>5. \A j \in DOMAIN jobs :
            ~(jobs'[j].type = jobs'[n].type
                /\ markers'[jobs'[j].marker] = markers'[jobs'[n].marker])
      BY <1>2, <3>2, <3>3, <3>4
    <3> HIDE DEF n
    <3> QED
      BY <1>2, <3>3, <3>5 DEF OneJobPerKey
  <2> QED
    BY <1>4, <2>1, <2>2, EnqueueStep
<1> QED
  BY <1>3, <1>4, NextCases, RetryStep, StartStep, EndStep, CliRetryStep, OtherStep,
     UnchangedJobs

IInv == TypeOK /\ QueueInv /\ ConsumedWasRun /\ OneJobPerKey

LEMMA InvInit == Init => IInv
<1>1. Init => DOMAIN jobs = {}
  BY EmptySeq DEF Init
<1> QED
  BY <1>1, TypeInit DEF IInv, Init, QueueInv, ConsumedWasRun, OneJobPerKey

LEMMA InvStep == IInv /\ [Next]_vars => IInv'
BY TypeStep, QueueStep, ConsumedStep, KeyStep DEF IInv

THEOREM Invariant == Spec => []IInv
BY InvInit, InvStep, PTL DEF Spec

\* A checkpoint never hides work that a killed worker left unfinished.
THEOREM CheckpointIsSafe == Spec => []ConsumedWasRun
<1>1. IInv => ConsumedWasRun
  BY DEF IInv
<1> QED
  BY Invariant, <1>1, PTL

\* However the reconciliation and a session race, and wherever runs stopped, a
\* key gets one first job.
THEOREM KeysAreUnique == Spec => []OneJobPerKey
<1>1. IInv => OneJobPerKey
  BY DEF IInv
<1> QED
  BY Invariant, <1>1, PTL

\* A job runs at most once, with retries from the worker and the command line.
THEOREM NoJobRunsTwice == Spec => RunsOnce
<1>1. IInv /\ [Next]_vars
        => [/\ pc # "running" /\ pc' = "running"
                 => \E j \in queue : IsFirst(j, queue) /\ jobs[j].status = "pending"
            /\ \A j \in DOMAIN jobs :
                 /\ j \in DOMAIN jobs'
                 /\ \/ jobs'[j].status = jobs[j].status
                    \/ jobs[j].status = "pending" /\ jobs'[j].status = "running"
                    \/ jobs[j].status = "running" /\ jobs'[j].status \in Ended
                    \/ jobs[j].status = "failed" /\ jobs'[j].status = "skipped"]_vars
  <2> SUFFICES ASSUME IInv, [Next]_vars, vars' # vars
      PROVE  /\ pc # "running" /\ pc' = "running"
                  => \E j \in queue : IsFirst(j, queue) /\ jobs[j].status = "pending"
             /\ \A j \in DOMAIN jobs : j \in DOMAIN jobs' /\ Moves(j)
    BY DEF Moves
  <2>1. \A j \in DOMAIN jobs : j \in DOMAIN jobs' /\ Moves(j)
    BY JobsStepLemma DEF IInv, JobsStep, SameJob
  <2>2. ASSUME pc # "running", pc' = "running" PROVE StartJob
    BY <2>2 DEF Next, Worker, Ingest, AppendArchive, AppendMarker, LoseMarker, BeginIteration,
                Retry, Decide, ReadArchive, ReadMarkers, Repair, TakeBatch, Enqueue, TakeQueue,
                EndJob, Checkpoint, EndIteration, Crash, Restart, Age, Ripen, CliRetry, vars
  <2>3. StartJob => \E j \in queue : IsFirst(j, queue) /\ jobs[j].status = "pending"
    BY StartStep DEF IInv
  <2> QED
    BY <2>1, <2>2, <2>3
<1> QED
  BY Invariant, <1>1, PTL DEF Spec, RunsOnce
=============================================================================
