---------------------------- MODULE EventUploader ----------------------------
(***************************************************************************)
(* The serial event uploader (cli/transports/SerialBatchEventUploader.ts): *)
(* a buffer of pending events, a drain loop that posts one batch at a time *)
(* and retries it, callers blocked by backpressure, callers that wait for  *)
(* the buffer to be empty, and close().                                    *)
(*                                                                         *)
(* The code runs on one thread.  A step is a stretch of code between two   *)
(* awaits; `micro' is the queue of promise continuations that run before   *)
(* the next event of the event loop.  A caller is a call of write(),       *)
(* writeBatch() or flush() of the transport: it awaits enqueue(), then     *)
(* flush().                                                                *)
(***************************************************************************)
EXTENDS Naturals, Sequences, Functions

CONSTANTS
    MaxBatchSize, MaxQueueSize,   \* the configuration's, by these names
    FailureLimits,   \* values of maxConsecutiveFailures, 0 when undefined
    MaxThrows        \* bound: POSTs that fail and are retried

ASSUME UploaderConstants ==
    /\ MaxBatchSize \in Nat \ {0} /\ MaxQueueSize \in Nat \ {0}
    /\ FailureLimits \subseteq Nat /\ MaxThrows \in Nat

VARIABLES
    pending,      \* the buffer
    batch,        \* the batch in flight, <<>> if there is none
    drain,        \* where the drain loop is
    failures,     \* its consecutive failures
    maxConsecutiveFailures,
    closed,
    calls,        \* the calls made so far, in the order of their start
    backpressureResolvers,   \* callers blocked in enqueue()
    flushResolvers,          \* callers blocked in flush()
    micro,        \* continuations to run, oldest first
    server,       \* events the server has received, in the order of arrival
    answered,     \* events of POSTs answered with 2xx
    discarded,    \* events of batches that send() returned for without that
    dropped,      \* events of batches that failed too often
    droppedBatches,
    throws

queueVars == <<pending, batch, drain, failures>>
callVars == <<calls, backpressureResolvers, flushResolvers, micro>>
history == <<server, answered, discarded, dropped, droppedBatches, throws>>
uploaderVars == <<queueVars, maxConsecutiveFailures, closed, callVars, history>>

Closer == 0   \* stands for the transport's close(), which awaits flush() too

\* `seen' is the droppedBatchCount a caller may compare with afterwards.
Call == [events: Seq(Nat), flushes: BOOLEAN, waited: BOOLEAN, seen: Nat,
         phase: {"blocked", "woken", "entered", "flushing", "done"}]

UploaderInit ==
    /\ pending = <<>> /\ batch = <<>> /\ drain = "idle" /\ failures = 0
    /\ maxConsecutiveFailures \in FailureLimits
    /\ closed = FALSE
    /\ calls = <<>> /\ backpressureResolvers = <<>> /\ flushResolvers = {}
    /\ micro = <<>>
    /\ server = <<>> /\ answered = {} /\ discarded = {} /\ dropped = {}
    /\ droppedBatches = 0 /\ throws = 0

\* Events of the event loop wait until every continuation has run.
Quiet == micro = <<>> /\ drain # "waking"

-----------------------------------------------------------------------------
(* The drain loop.                                                         *)

BatchLength(p) == IF MaxBatchSize < Len(p) THEN MaxBatchSize ELSE Len(p)

\* A mutant: splice() starts one event too early.
takeBatch_Overlaps(p) ==
    /\ batch' = SubSeq(p, 1, BatchLength(p))
    /\ pending' = SubSeq(p, BatchLength(p), Len(p))

takeBatch(p) ==
    /\ batch' = SubSeq(p, 1, BatchLength(p))
    /\ pending' = SubSeq(p, BatchLength(p) + 1, Len(p))

\* The head of the loop, when p is pending: another POST, or the end.
Iterate(p) ==
    \/ /\ p # <<>> /\ ~closed
       /\ takeBatch(p)
       /\ drain' = "sending"
    \/ /\ p = <<>> \/ closed
       /\ pending' = p /\ batch' = <<>>
       /\ drain' = "idle"

\* drain() does nothing while another drain() runs or after close().
Kick(p) ==
    \/ /\ drain = "idle" /\ ~closed
       /\ Iterate(p) /\ failures' = 0
    \/ /\ drain # "idle" \/ closed
       /\ pending' = p
       /\ UNCHANGED <<batch, drain, failures>>

\* The end of the loop resolves the flushes if nothing is left.
Flushed(p) == IF p = <<>> THEN flushResolvers ELSE {}

\* Moves calls on: those of `woken' resume, those of `done' return.
Move(woken, done) ==
    calls' = [c \in DOMAIN calls |-> [calls[c] EXCEPT !.phase =
                IF c \in woken THEN "woken"
                ELSE IF c \in done THEN "done" ELSE @]]

\* A mutant: the resolvers stay in the list after they were called.
Release_KeepsResolvers(bs, done) ==
    /\ Move(Range(bs), done)
    /\ flushResolvers' = flushResolvers \ done
    /\ micro' = micro \o bs
                      \o (IF Closer \in done THEN <<Closer>> ELSE <<>>)
    /\ UNCHANGED backpressureResolvers

\* Resolves the flushes of `done' and, before them, the blocked callers of bs.
Release(bs, done) ==
    /\ Move(Range(bs), done)
    /\ backpressureResolvers' =
         IF bs = <<>> THEN backpressureResolvers ELSE <<>>
    /\ flushResolvers' = flushResolvers \ done
    /\ micro' = micro \o bs
                      \o (IF Closer \in done THEN <<Closer>> ELSE <<>>)

\* A batch leaves for good: release the blocked callers, next iteration.
Advance ==
    /\ Release(backpressureResolvers, Flushed(pending))
    /\ Iterate(pending)
    /\ failures' = 0

\* Whether the server gets a POST is independent of what the client sees.
Arrives == server' = server \o batch

\* The POST is answered with 2xx.
SendSucceeds ==
    /\ drain = "sending" /\ Quiet
    /\ Arrives
    /\ Advance
    /\ answered' = answered \cup Range(batch)
    /\ UNCHANGED <<maxConsecutiveFailures, closed, discarded, dropped,
                   droppedBatches, throws>>

\* The batch is refused for good (a 4xx other than 429), or nothing is posted
\* at all: the session has no token.  The loop then goes on between two
\* continuations.  To the uploader this is a success; nothing is counted.
SendDiscards ==
    /\ drain = "sending"
    /\ Advance
    /\ discarded' = discarded \cup Range(batch)
    /\ UNCHANGED <<maxConsecutiveFailures, closed, server, answered, dropped,
                   droppedBatches, throws>>

LimitReached ==
    maxConsecutiveFailures # 0 /\ failures + 1 >= maxConsecutiveFailures

\* A mutant: the failed batch is put back behind the others.
SendThrows_Behind ==
    /\ drain = "sending" /\ Quiet
    /\ throws < MaxThrows /\ throws' = throws + 1
    /\ Arrives \/ UNCHANGED server
    /\ pending' = pending \o batch /\ batch' = <<>>
    /\ drain' = "sleeping"
    /\ failures' = failures + 1
    /\ UNCHANGED <<callVars, maxConsecutiveFailures, closed,
                   answered, discarded, dropped, droppedBatches>>

\* A mutant: dropping a batch does not release the blocked callers.
SendThrows_NoRelease ==
    /\ drain = "sending" /\ Quiet
    /\ throws < MaxThrows /\ throws' = throws + 1
    /\ Arrives \/ UNCHANGED server
    /\ \/ /\ LimitReached
          /\ Release(<<>>, Flushed(pending))
          /\ Iterate(pending) /\ failures' = 0
          /\ dropped' = dropped \cup Range(batch)
          /\ droppedBatches' = droppedBatches + 1
       \/ /\ ~LimitReached
          /\ pending' = batch \o pending /\ batch' = <<>>
          /\ drain' = "sleeping"
          /\ failures' = failures + 1
          /\ UNCHANGED <<dropped, droppedBatches, callVars>>
    /\ UNCHANGED <<maxConsecutiveFailures, closed, answered, discarded>>

\* The POST fails: 429, 5xx, a network error or a timeout.
SendThrows ==
    /\ drain = "sending" /\ Quiet
    /\ throws < MaxThrows /\ throws' = throws + 1
    /\ Arrives \/ UNCHANGED server
    /\ \/ /\ LimitReached
          /\ Advance
          /\ dropped' = dropped \cup Range(batch)
          /\ droppedBatches' = droppedBatches + 1
       \/ /\ ~LimitReached
          /\ pending' = batch \o pending /\ batch' = <<>>
          /\ drain' = "sleeping"
          /\ failures' = failures + 1
          /\ UNCHANGED <<dropped, droppedBatches, callVars>>
    /\ UNCHANGED <<maxConsecutiveFailures, closed, answered, discarded>>

\* The sleep ends by its timer, or close() has resolved it.
SleepEnds ==
    /\ drain = "waking" \/ (drain = "sleeping" /\ Quiet)
    /\ Release(<<>>, Flushed(pending))
    /\ Iterate(pending)
    /\ UNCHANGED <<failures, maxConsecutiveFailures, closed, history>>

-----------------------------------------------------------------------------
(* The callers.                                                            *)

\* A mutant: the size of the addition is not counted.
Blocks_Full(es) == ~closed /\ es # <<>> /\ Len(pending) > MaxQueueSize

Blocks(es) ==
    ~closed /\ es # <<>> /\ Len(pending) + Len(es) > MaxQueueSize

\* What enqueue() does to the queue.
Add(es) ==
    \/ /\ closed \/ es = <<>> \/ Blocks(es)
       /\ UNCHANGED queueVars
    \/ /\ ~closed /\ es # <<>> /\ ~Blocks(es)
       /\ Kick(pending \o es)

\* The caller itself, and its place among those that are blocked.
NewCall(es, flushes) ==
    [events |-> es, flushes |-> flushes, waited |-> Blocks(es),
     seen |-> droppedBatches,
     phase |-> IF Blocks(es) THEN "blocked"
               ELSE IF flushes THEN "entered" ELSE "done"]

Queued(c, es) ==
    backpressureResolvers' =
        IF Blocks(es) THEN Append(backpressureResolvers, c)
                      ELSE backpressureResolvers

\* `await enqueue(es); return flush()', up to its first await.
enqueue(es) ==
    LET c == Len(calls) + 1 IN
    /\ Add(es)
    /\ calls' = Append(calls, NewCall(es, TRUE))
    /\ Queued(c, es)
    /\ micro' = IF Blocks(es) THEN micro ELSE Append(micro, c)
    /\ UNCHANGED <<flushResolvers, maxConsecutiveFailures, closed, history>>

\* `void enqueue(es)': the call is remembered only if it is blocked.
enqueueUnawaited(es) ==
    /\ Add(es)
    /\ calls' = IF Blocks(es) THEN Append(calls, NewCall(es, FALSE)) ELSE calls
    /\ Queued(Len(calls) + 1, es)
    /\ UNCHANGED <<micro, flushResolvers, maxConsecutiveFailures, closed, history>>

\* A released caller looks again whether its events fit.
Resume(c) ==
    LET es == calls[c].events IN
    /\ calls[c].phase = "woken"
    /\ Add(es)
    /\ calls' = [calls EXCEPT ![c].phase = NewCall(es, calls[c].flushes).phase]
    /\ Queued(c, es)
    /\ micro' = IF calls'[c].phase = "entered" THEN Append(Tail(micro), c)
                                               ELSE Tail(micro)
    /\ UNCHANGED <<flushResolvers, maxConsecutiveFailures, closed, history>>

\* A mutant: only the buffer is looked at.
IsDrained_Buffer == pending = <<>>

\* flush() returns at once if nothing is pending and no drain() runs.
IsDrained == pending = <<>> /\ drain = "idle"

\* The caller's enqueue() has returned: it calls flush().
flush(c) ==
    /\ calls[c].phase = "entered"
    /\ calls' = [calls EXCEPT ![c].phase =
                   IF IsDrained THEN "done" ELSE "flushing"]
    /\ flushResolvers' =
         IF IsDrained THEN flushResolvers ELSE flushResolvers \cup {c}
    /\ Kick(pending)
    /\ micro' = Tail(micro)
    /\ UNCHANGED <<backpressureResolvers, maxConsecutiveFailures, closed, history>>

\* close() of the uploader: everything that is pending is dropped.
close ==
    /\ closed' = TRUE
    /\ pending' = <<>>
    /\ drain' = IF drain = "sleeping" THEN "waking" ELSE drain
    /\ Move(Range(backpressureResolvers), flushResolvers)
    /\ micro' = Tail(micro) \o backpressureResolvers
    /\ backpressureResolvers' = <<>> /\ flushResolvers' = {}
    /\ UNCHANGED <<batch, failures, maxConsecutiveFailures, history>>

\* The oldest continuation runs.
RunMicro ==
    /\ micro # <<>>
    /\ \/ Head(micro) = Closer /\ close
       \/ /\ Head(micro) # Closer
          /\ Resume(Head(micro)) \/ flush(Head(micro))
=============================================================================
