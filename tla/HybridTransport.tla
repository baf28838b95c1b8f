--------------------------- MODULE HybridTransport ---------------------------
(***************************************************************************)
(* The write half of the hybrid transport (cli/transports/                 *)
(* HybridTransport.ts): stream events wait up to 100 ms in a buffer, every *)
(* other write takes the buffer along, and all of it goes to the uploader. *)
(* close() gives the uploader a grace period and then closes it.           *)
(*                                                                         *)
(* Messages are the numbers 1, 2, ... in the order of their writes.        *)
(***************************************************************************)
EXTENDS EventUploader

CONSTANTS
    MaxMessages,   \* bound: messages written
    MaxCalls       \* bound: calls of write(), writeBatch() and flush()

ASSUME TransportConstants == MaxMessages \in Nat /\ MaxCalls \in Nat

VARIABLES
    streamEventBuffer,
    streamEventTimer,   \* is it armed
    closing,            \* close() has been called
    written             \* number of messages written so far

transportVars ==
    <<streamEventBuffer, streamEventTimer, closing, written>>
vars == <<uploaderVars, transportVars>>

Init ==
    /\ UploaderInit
    /\ streamEventBuffer = <<>> /\ streamEventTimer = FALSE
    /\ closing = FALSE /\ written = 0

\* The buffered stream events, which the caller of this takes over.
takeStreamEvents ==
    /\ streamEventTimer' = FALSE
    /\ streamEventBuffer' = <<>>

NewMessages(n) == [i \in 1..n |-> written + i]

\* write() of a stream event.
WriteStreamEvent ==
    /\ written < MaxMessages /\ written' = written + 1
    /\ streamEventBuffer' = streamEventBuffer \o NewMessages(1)
    /\ streamEventTimer' = TRUE
    /\ UNCHANGED <<uploaderVars, closing>>

\* A mutant: the buffered stream events are left to their timer.
Write_Alone(n) ==
    /\ Len(calls) < MaxCalls
    /\ written + n =< MaxMessages /\ written' = written + n
    /\ enqueue(NewMessages(n))
    /\ UNCHANGED <<streamEventBuffer, streamEventTimer, closing>>

\* write() of another message, or writeBatch() of n of them.
Write(n) ==
    /\ Len(calls) < MaxCalls
    /\ written + n =< MaxMessages /\ written' = written + n
    /\ takeStreamEvents
    /\ enqueue(streamEventBuffer \o NewMessages(n))
    /\ UNCHANGED closing

\* flush(): enqueue() is not awaited, the uploader's flush() follows at once.
\* The call's events are those it waits for.
Flush ==
    LET es == streamEventBuffer
        done == pending' = <<>> /\ drain' = "idle" IN
    /\ Len(calls) < MaxCalls
    /\ takeStreamEvents
    /\ Add(es)
    /\ LET cs == IF Blocks(es) THEN Append(calls, NewCall(es, FALSE)) ELSE calls
           c == Len(cs) + 1 IN
       /\ calls' = Append(cs, [NewCall(<<>>, TRUE) EXCEPT
                                 !.events = batch' \o pending',
                                 !.phase = IF done THEN "done" ELSE "flushing"])
       /\ Queued(c - 1, es)
       /\ flushResolvers' =
            IF done THEN flushResolvers ELSE flushResolvers \cup {c}
    /\ UNCHANGED <<micro, maxConsecutiveFailures, closed, history,
                   closing, written>>

\* flushStreamEvents(): the delay timer fires.
FlushStreamEvents ==
    /\ streamEventTimer /\ Quiet
    /\ takeStreamEvents
    /\ enqueueUnawaited(streamEventBuffer)
    /\ UNCHANGED <<closing, written>>

\* close(): what is still buffered is dropped; the uploader's flush() races
\* with the grace timer, and the uploader is closed after the winner.
Close ==
    /\ ~closing /\ closing' = TRUE
    /\ takeStreamEvents
    /\ flushResolvers' =
         IF IsDrained THEN flushResolvers ELSE flushResolvers \cup {Closer}
    /\ micro' = IF IsDrained THEN Append(micro, Closer) ELSE micro
    /\ UNCHANGED <<queueVars, calls, backpressureResolvers,
                   maxConsecutiveFailures, closed, history, written>>

\* The grace timer fires while close() waits: its flush() no longer matters.
GraceExpires ==
    /\ Closer \in flushResolvers /\ Quiet
    /\ flushResolvers' = flushResolvers \ {Closer}
    /\ micro' = Append(micro, Closer)
    /\ UNCHANGED <<queueVars, calls, backpressureResolvers, closed,
                   maxConsecutiveFailures, history, transportVars>>

Application ==
    WriteStreamEvent \/ (\E n \in 0..MaxMessages : Write(n)) \/ Flush \/ Close

Send == SendSucceeds \/ SendDiscards \/ SendThrows

Uploader ==
    /\ Send \/ SleepEnds \/ RunMicro
    /\ UNCHANGED transportVars

Next == Application \/ FlushStreamEvents \/ GraceExpires \/ Uploader
Spec == Init /\ [][Next]_vars

\* Timers fire, POSTs have a timeout (POST_TIMEOUT_MS), continuations run.
Fairness ==
    /\ WF_vars(FlushStreamEvents) /\ WF_vars(GraceExpires)
    /\ WF_vars(Uploader)
FairSpec == Spec /\ Fairness

-----------------------------------------------------------------------------
Events(s) == UNION {Range(c.events) : c \in s}
Waiting == {c \in Range(calls) : c.phase \in {"blocked", "woken"}}
Overtaken == Events({c \in Range(calls) : c.waited})

\* Each blocked caller is in the list that will wake it.
TypeOK ==
    /\ pending \in Seq(Nat) /\ batch \in Seq(Nat)
    /\ drain \in {"idle", "sending", "sleeping", "waking"}
    /\ failures \in Nat /\ maxConsecutiveFailures \in Nat /\ closed \in BOOLEAN
    /\ calls \in Seq(Call) /\ backpressureResolvers \in Seq(DOMAIN calls)
    /\ flushResolvers \subseteq DOMAIN calls \cup {Closer}
    /\ micro \in Seq(DOMAIN calls \cup {Closer})
    /\ server \in Seq(Nat)
    /\ answered \subseteq Nat /\ discarded \subseteq Nat /\ dropped \subseteq Nat
    /\ droppedBatches \in Nat /\ throws \in Nat
    /\ streamEventBuffer \in Seq(Nat) /\ streamEventTimer \in BOOLEAN
    /\ closing \in BOOLEAN /\ written \in Nat
    /\ Range(backpressureResolvers) =
         {c \in DOMAIN calls : calls[c].phase = "blocked"}
    /\ flushResolvers \ {Closer} =
         {c \in DOMAIN calls : calls[c].phase = "flushing"}

-----------------------------------------------------------------------------
(* Properties.                                                             *)

\* The events the uploader holds, in the order in which they will be posted.
Queue == batch \o pending

\* The uploader keeps its promise: what it holds is posted in order, batch
\* after batch, a batch that failed from the same position again.
Delivery == INSTANCE OrderedDelivery WITH queue <- Queue
DeliversInOrder == Delivery!Spec

\* Messages are queued in the order of their writes, except for those whose
\* enqueue() was blocked by backpressure: those may be overtaken.
InWriteOrder ==
    /\ \A i, j \in DOMAIN Queue : i < j =>
         Queue[i] < Queue[j] \/ Queue[j] \in Overtaken
    /\ \A e \in Range(Queue), d \in answered \cup discarded \cup dropped :
         d < e \/ e \in Overtaken

\* Until the transport is closed a message is in one place: buffered, held by
\* a blocked caller, queued, answered, discarded or dropped; none is in two.
Places ==
    <<Range(streamEventBuffer), Events(Waiting), Range(batch), Range(pending),
      answered, discarded, dropped>>
EveryMessageIsSomewhere ==
    /\ ~closing => UNION Range(Places) = 1..written
    /\ \A i, j \in DOMAIN Places : i # j => Places[i] \cap Places[j] = {}
    /\ \A i, j \in DOMAIN Queue : i # j => Queue[i] # Queue[j]

\* Messages are kept, once each, and in the order of their writes.
MessagesInPlace == InWriteOrder /\ EveryMessageIsSomewhere

\* The events of a write() or flush() that has returned before the uploader is
\* closed are on the server, or droppedBatchCount tells its caller about the
\* loss.  The exception: a batch that postOnce() has discarded, which nothing
\* tells the caller.
WriteIsSettled ==
    ~closed => \A c \in Range(calls) : c.phase = "done" /\ c.flushes =>
        \A e \in Range(c.events) :
            \/ e \in Range(server)
            \/ e \in dropped /\ droppedBatches > c.seen
            \/ e \in discarded

\* A batch that is put back may push the buffer over its limit, but by no
\* more than itself.
BufferIsBounded ==
    /\ Len(pending) =< MaxQueueSize + MaxBatchSize
    /\ drain = "sending" => Len(pending) =< MaxQueueSize

\* A caller whose events fit the buffer returns.  The exception: a POST that
\* fails after close() is put back, and flush() waits for it for ever.
Stuck == closed /\ pending # <<>>
InCall ==
    {c \in Range(calls) :
        c.phase # "done" /\ (c.waited => Len(c.events) =< MaxQueueSize)}
CallersReturn == InCall # {} ~> (InCall = {} \/ Stuck)
=============================================================================
