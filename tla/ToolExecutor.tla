---------------------------- MODULE ToolExecutor ----------------------------
(***************************************************************************)
(* The streaming tool executor of one turn                                 *)
(* (services/tools/StreamingToolExecutor.ts), the registry through which   *)
(* an SDK client cancels one tool (services/tools/toolCancelRegistry.ts),  *)
(* the chain of abort controllers turn -> siblings -> tool, and the part   *)
(* of the query loop (query.ts) that feeds the executor while the model's  *)
(* answer streams in and drains it afterwards.                             *)
(*                                                                         *)
(* JavaScript runs one callback to completion, then every promise          *)
(* continuation that is ready (a micro step here), and only then the next  *)
(* event: network data, a finished subprocess, a key press, a control      *)
(* request (a macro step).  Quiet holds when no micro step can run.        *)
(*                                                                         *)
(* Tools are numbered in the order their tool_use blocks stream in.  A     *)
(* fallback discards the executor and makes a new one, so the current      *)
(* executor holds the tools first .. next-1; what was below first belongs  *)
(* to discarded executors whose tool bodies may still run.                 *)
(***************************************************************************)
EXTENDS Integers, Sequences, FiniteSets

CONSTANTS
    N,              \* tool_use blocks the model may send in one turn
    Kinds,          \* the kinds of tool the model may call
    MaxBlocks,      \* tool_use blocks in one assistant message
    MaxProgress,    \* buffered progress messages of one tool
    MaxWake,        \* tool bodies that one event may resume
    MaxFallbacks,   \* streaming fallbacks of one turn
    MaxFaults,      \* model fallbacks and model errors of one turn
    CancelReasons   \* reasons an SDK client may put in a tool_cancel request

Tool == 1..N

\* known: the name is one of toolDefinitions; safe: isConcurrencySafe of the
\* parsed input; bash: an error cancels the siblings; cancels:
\* interruptBehavior() is 'cancel'.
Kind == [known : BOOLEAN, safe : BOOLEAN, bash : BOOLEAN, cancels : BOOLEAN]

\* Why an AbortController fired.  "user" stands for the reason of an ESC, of an
\* SDK interrupt and of a permission dialog that was rejected.
TurnReasons == {"interrupt", "user"}
Reasons == TurnReasons \cup CancelReasons
             \cup {"tool_cancel", "sibling_error", "streaming_fallback"}

\* What runToolUse yields: a progress message, a tool_result, one flagged
\* is_error, or a message that hooks add behind the tool_result.
Update == {"progress", "ok", "error", "hook"}
Message == (Update \ {"progress"}) \cup {"synthetic"}
ToolResult == {"ok", "error", "synthetic"}

ASSUME ExecutorConstants ==
    /\ N \in Nat \ {0}
    /\ {MaxBlocks, MaxProgress, MaxWake, MaxFallbacks, MaxFaults} \subseteq Nat
    /\ Kinds \subseteq Kind
    /\ \A k \in Kinds : ~k.known => k.safe
    /\ "none" \notin CancelReasons

VARIABLES
    kind,        \* kind[t]: the tool the model calls with block t
    next, first, \* tools first .. next-1 belong to the current executor
    status,      \* TrackedTool.status, "absent" before addTool
    results,     \* TrackedTool.results, while executing the local `messages`
    progress,    \* length of TrackedTool.pendingProgress
    errored,     \* thisToolErrored of the collecting loop
    body,        \* the promise behind runToolUse: "none", "running", "settled"
    pending,     \* updates in the tool's Stream, not yet read by the loop
    ctl,         \* why the tool's own controller aborted, or "none"
    inFlight,    \* inFlightToolControllers: tools whose loop has not ended
    sib,         \* why siblingAbortController aborted, or "none"
    turn,        \* why the turn's controller aborted, or "none"
    hasErrored,  \* a Bash tool of the current executor failed
    scans,       \* positions of the processQueue() calls nobody awaits
    pc, pos,     \* where the query loop is, and its index in this.tools
    draining,    \* the query loop is in getRemainingResults()
    toAdd,       \* blocks of the current message still to hand to addTool
    awaited,     \* tools whose promise the consumer races on
    woken,       \* progressAvailableResolve was called during the race
    inProgress,  \* setInProgressToolUseIDs
    applied,     \* tools emitted, and whose deferred side effects were applied
    answers,     \* tool_result messages emitted for each tool_use
    fellBack,    \* streamingFallbackOccured
    fallbacks, faults

consumer == <<pc, pos, draining, toAdd, awaited, woken>>
attempt == <<fellBack, fallbacks, faults>>
vars == <<kind, next, first, status, results, progress, errored, body, pending,
          ctl, inFlight, sib, turn, hasErrored, scans, consumer, inProgress,
          applied, answers, attempt>>

Current == first..(next - 1)
Executing == {t \in Tool : status[t] = "executing"}

Init ==
    /\ kind \in [Tool -> Kinds]
    /\ next = 1 /\ first = 1
    /\ status = [t \in Tool |-> "absent"]
    /\ results = [t \in Tool |-> <<>>]
    /\ progress = [t \in Tool |-> 0]
    /\ errored = [t \in Tool |-> FALSE]
    /\ body = [t \in Tool |-> "none"]
    /\ pending = [t \in Tool |-> <<>>]
    /\ ctl = [t \in Tool |-> "none"]
    /\ inFlight = {} /\ sib = "none" /\ turn = "none" /\ hasErrored = FALSE
    /\ scans = {}
    /\ pc = "stream" /\ pos = 1 /\ draining = FALSE /\ toAdd = 0
    /\ awaited = {} /\ woken = FALSE
    /\ inProgress = {} /\ applied = {}
    /\ answers = [t \in Tool |-> 0]
    /\ fellBack = FALSE /\ fallbacks = 0 /\ faults = 0

\* No promise continuation is ready: the event loop may take the next event.
\* At a yield of getCompletedResults() the query loop is suspended, and whoever
\* consumes the query may take its time there.
Quiet ==
    /\ scans = {}
    /\ \A t \in Tool : pending[t] = <<>>
    /\ \A t \in inFlight : body[t] = "running"
    /\ \/ pc \in {"stream", "yield", "done", "failed", "left"}
       \/ pc = "wait" /\ awaited \subseteq Executing /\ ~woken

Live == pc \notin {"done", "failed", "left"}

-----------------------------------------------------------------------------
(* Abort controllers.                                                      *)

\* getAbortReason(tool, controller) # null.
Cancelled(t) ==
    \/ t < first
    \/ hasErrored
    \/ ctl[t] = "tool_cancel"
    \/ turn = "interrupt" /\ kind[t].cancels
    \/ turn \notin {"none", "interrupt"}

\* The controllers of the current executor's tools follow the sibling one.
Cascade(reason) ==
    [t \in Tool |-> IF t \in inFlight \cap Current /\ ctl[t] = "none"
                    THEN reason ELSE ctl[t]]

\* siblingAbortController.abort(reason): the first reason stays.
AbortSiblings(reason) ==
    IF sib = "none" THEN /\ sib' = reason
                         /\ ctl' = Cascade(reason)
                    ELSE UNCHANGED <<sib, ctl>>

\* Mutant: only sibling errors are kept from the turn.
Bubbles_ToolCancel(t, reason) ==
    reason # "sibling_error" /\ turn = "none" /\ t \in Current

\* The listener of a tool's controller passes this abort on to the turn.
Bubbles(t, reason) ==
    /\ reason \notin {"sibling_error", "tool_cancel"}
    /\ turn = "none"
    /\ t \in Current

\* Mutant: the tool runs under the sibling controller instead of its own child.
AbortTool_Shared(t, reason) ==
    /\ ctl' = [Cascade(reason) EXCEPT ![t] = reason]
    /\ IF Bubbles(t, reason)
       THEN turn' = reason /\ sib' = IF sib = "none" THEN reason ELSE sib
       ELSE UNCHANGED <<turn, sib>>

AbortTool(t, reason) ==
    IF Bubbles(t, reason)
    THEN /\ turn' = reason
         /\ sib' = IF sib = "none" THEN reason ELSE sib
         /\ ctl' = [Cascade(reason) EXCEPT ![t] = reason]
    ELSE /\ ctl' = [ctl EXCEPT ![t] = reason]
         /\ UNCHANGED <<turn, sib>>

-----------------------------------------------------------------------------
(* The queue of the executor.                                              *)

\* Mutant: canExecuteTool forgets to look at the executing tools' own safety.
CanExecute_SafeJoins(t) == Executing = {} \/ kind[t].safe

CanExecute(t) ==
    \/ Executing = {}
    \/ kind[t].safe /\ \A u \in Executing : kind[u].safe

\* Mutant: processQueue() has no break at a blocked exclusive tool.
Startable_NoBreak(p) ==
    {t \in p..(next - 1) : status[t] = "queued" /\ CanExecute(t)}

\* The tool a processQueue() standing at position p starts next: the loop
\* goes past a blocked concurrency-safe tool and stops at any other.
Startable(p) ==
    {t \in p..(next - 1) :
        /\ status[t] = "queued"
        /\ CanExecute(t)
        /\ \A u \in p..(t - 1) : status[u] = "queued" => kind[u].safe}

IsNextToStart(p, t) == t \in Startable(p) /\ \A u \in Startable(p) : t <= u

\* Mutant: the tool's controller does not look at a parent that has aborted.
ExecuteTool_FreshController(t) ==
    /\ inProgress' = inProgress \cup {t}
    /\ IF Cancelled(t)
       THEN /\ status' = [status EXCEPT ![t] = "completed"]
            /\ results' = [results EXCEPT ![t] = <<"synthetic">>]
            /\ UNCHANGED <<ctl, inFlight, body, pending>>
       ELSE /\ status' = [status EXCEPT ![t] = "executing"]
            /\ inFlight' = inFlight \cup {t}
            /\ body' = [body EXCEPT ![t] = "running"]
            /\ UNCHANGED <<results, ctl, pending>>

\* executeTool(t) up to its first await.  The answer of a tool that is already
\* cancelled is synthetic, and its promise.finally re-scans the queue.  A
\* controller made under an aborted one starts out aborted, and runToolUse then
\* answers with an error at once.
ExecuteTool(t) ==
    /\ inProgress' = inProgress \cup {t}
    /\ IF Cancelled(t)
       THEN /\ status' = [status EXCEPT ![t] = "completed"]
            /\ results' = [results EXCEPT ![t] = <<"synthetic">>]
            /\ UNCHANGED <<ctl, inFlight, body, pending>>
       ELSE /\ status' = [status EXCEPT ![t] = "executing"]
            /\ ctl' = [ctl EXCEPT ![t] = sib]
            /\ inFlight' = inFlight \cup {t}
            /\ body' = [body EXCEPT ![t] = IF sib = "none" THEN "running"
                                                           ELSE "settled"]
            /\ pending' = IF sib = "none" THEN pending
                          ELSE [pending EXCEPT ![t] = <<"error">>]
            /\ UNCHANGED results

Rescan(t) == IF Cancelled(t) THEN {first} ELSE {}

NothingStarts == UNCHANGED <<status, results, ctl, inFlight, body, pending,
                             inProgress>>

\* addTool(block): pushes the tool and calls processQueue(), whose stretches
\* are ScanQueue steps.  A tool whose name is not defined is pushed already
\* completed, and the queue is not looked at.
AddTool ==
    /\ pc = "adding"
    /\ next' = next + 1
    /\ toAdd' = toAdd - 1
    /\ IF kind[next].known
       THEN /\ status' = [status EXCEPT ![next] = "queued"]
            /\ scans' = scans \cup {first}
            /\ UNCHANGED results
       ELSE /\ status' = [status EXCEPT ![next] = "completed"]
            /\ results' = [results EXCEPT ![next] = <<"error">>]
            /\ UNCHANGED scans
    /\ pc' = IF toAdd = 1 THEN "emit" ELSE "adding"
    /\ pos' = first
    /\ UNCHANGED <<kind, first, progress, errored, body, pending, ctl, inFlight,
                   sib, turn, hasErrored, draining, awaited, woken, inProgress,
                   applied, answers, attempt>>

\* One stretch, between two awaits, of a processQueue() nobody awaits.
ScanQueue(p) ==
    /\ p \in scans
    /\ \/ \E t \in Tool :
            /\ IsNextToStart(p, t)
            /\ ExecuteTool(t)
            /\ scans' = (scans \ {p}) \cup {t + 1} \cup Rescan(t)
       \/ /\ Startable(p) = {}
          /\ NothingStarts
          /\ scans' = scans \ {p}
    /\ UNCHANGED <<kind, next, first, progress, errored, sib, turn, hasErrored,
                   consumer, applied, answers, attempt>>

-----------------------------------------------------------------------------
(* The loop of collectResults() over what runToolUse yields.               *)

\* Mutant: the entry of a completed tool stays in the registry.
Leave_KeepsCompleted(t, messages) ==
    IF t < first
    THEN inFlight' = inFlight \ {t} /\ UNCHANGED <<status, results, scans>>
    ELSE /\ status' = [status EXCEPT ![t] = "completed"]
         /\ results' = [results EXCEPT ![t] = messages]
         /\ scans' = scans \cup {first}
         /\ UNCHANGED inFlight

\* Mutant: the entry of a discarded tool stays in the registry.
Leave_KeepsDiscarded(t, messages) ==
    IF t < first
    THEN UNCHANGED <<inFlight, status, results, scans>>
    ELSE /\ inFlight' = inFlight \ {t}
         /\ status' = [status EXCEPT ![t] = "completed"]
         /\ results' = [results EXCEPT ![t] = messages]
         /\ scans' = scans \cup {first}

\* The loop is over: the promise settles, and its finally unregisters the tool
\* and re-scans the queue.  A discarded executor keeps nothing.
Leave(t, messages) ==
    /\ inFlight' = inFlight \ {t}
    /\ IF t < first
       THEN UNCHANGED <<status, results, scans>>
       ELSE /\ status' = [status EXCEPT ![t] = "completed"]
            /\ results' = [results EXCEPT ![t] = messages]
            /\ scans' = scans \cup {first}

\* A loop that finds its executor discarded, or its tool cancelled before the
\* tool itself reported an error, is left, whatever the body still does.
Abandons(t) == t < first \/ (Cancelled(t) /\ ~errored[t])

\* The loop reads one update.
Collect(t) ==
    /\ t \in inFlight /\ pending[t] # <<>>
    /\ LET update == Head(pending[t]) IN
       IF Abandons(t)
       THEN /\ Leave(t, Append(results[t], "synthetic"))
            /\ pending' = [pending EXCEPT ![t] = <<>>]
            /\ UNCHANGED <<errored, hasErrored, sib, ctl, progress, woken>>
       ELSE /\ pending' = [pending EXCEPT ![t] = Tail(@)]
            /\ errored' = [errored EXCEPT ![t] = @ \/ update = "error"]
            /\ IF update = "error" /\ kind[t].bash
               THEN hasErrored' = TRUE /\ AbortSiblings("sibling_error")
               ELSE UNCHANGED <<hasErrored, sib, ctl>>
            /\ IF update = "progress"
               THEN /\ progress' = [progress EXCEPT ![t] = @ + 1]
                    /\ woken' = (woken \/ pc = "wait")
                    /\ UNCHANGED results
               ELSE /\ results' = [results EXCEPT ![t] = Append(@, update)]
                    /\ UNCHANGED <<progress, woken>>
            /\ UNCHANGED <<inFlight, status, scans>>
    /\ UNCHANGED <<kind, next, first, body, turn, pc, pos, draining, toAdd,
                   awaited, inProgress, applied, answers, attempt>>

HasToolResult(messages) ==
    \E i \in DOMAIN messages : messages[i] \in ToolResult

\* Mutant: the closing tool_result is missing.
SafetyNet_Missing(t) == results[t]

\* The closing tool_result of a tool that an SDK client cancelled.
SafetyNet(t) ==
    IF ctl[t] = "tool_cancel" /\ ~errored[t] /\ ~HasToolResult(results[t])
    THEN Append(results[t], "synthetic") ELSE results[t]

\* The generator is exhausted.
EndCollect(t) ==
    /\ t \in inFlight /\ pending[t] = <<>> /\ body[t] = "settled"
    /\ Leave(t, SafetyNet(t))
    /\ UNCHANGED <<kind, next, first, progress, errored, body, pending, ctl,
                   sib, turn, hasErrored, consumer, inProgress, applied,
                   answers, attempt>>

-----------------------------------------------------------------------------
(* Tool bodies: what runToolUse and the tool behind it do.                 *)

\* A tool answers with a result or an error, and hooks may add a message.  A
\* body cancelled by an SDK client may also end without an answer.
Outcomes(t) ==
    {<<"ok">>, <<"ok", "hook">>, <<"error">>}
      \cup (IF ctl[t] = "tool_cancel" THEN {<<>>} ELSE {})

\* One event resumes the bodies S and they end.  All the results of a body
\* enter its stream together; nobody reads the stream of a loop that was left.
Settle(S) ==
    /\ Quiet
    /\ S # {} /\ Cardinality(S) <= MaxWake
    /\ \A t \in S : body[t] = "running"
    /\ body' = [t \in Tool |-> IF t \in S THEN "settled" ELSE body[t]]
    /\ \E outcome \in [S -> UNION {Outcomes(t) : t \in S}] :
          /\ \A t \in S : outcome[t] \in Outcomes(t)
          /\ pending' = [t \in Tool |-> IF t \in S \cap inFlight THEN outcome[t]
                                                              ELSE pending[t]]
    /\ UNCHANGED <<kind, next, first, status, results, progress, errored, ctl,
                   inFlight, sib, turn, hasErrored, scans, consumer, inProgress,
                   applied, answers, attempt>>

\* A running body reports progress.
ReportProgress(t) ==
    /\ Quiet
    /\ body[t] = "running" /\ t \in inFlight /\ progress[t] < MaxProgress
    /\ pending' = [pending EXCEPT ![t] = <<"progress">>]
    /\ UNCHANGED <<kind, next, first, status, results, progress, errored, body,
                   ctl, inFlight, sib, turn, hasErrored, scans, consumer,
                   inProgress, applied, answers, attempt>>

-----------------------------------------------------------------------------
(* The query loop, the consumer of the executor.                           *)

Unyielded == {t \in Current : status[t] # "yielded"}
ResultCount(t) == Cardinality({i \in DOMAIN results[t] : results[t][i] \in ToolResult})

\* Mutant: any executing tool stops the pass.
Stops_StrictOrder ==
    {t \in pos..(next - 1) :
        progress[t] > 0 \/ status[t] \in {"completed", "executing"}}

\* Where getCompletedResults() does not just go on: at buffered progress, at a
\* completed tool, and at an exclusive tool that executes.
Stops ==
    {t \in pos..(next - 1) :
        \/ progress[t] > 0
        \/ status[t] = "completed"
        \/ status[t] = "executing" /\ ~kind[t].safe}

StopsAt(t) == t \in Stops /\ \A u \in Stops : t <= u

\* A buffered progress message is yielded, whatever the tool's status.
EmitProgress(t) ==
    /\ pc = "emit" /\ StopsAt(t) /\ progress[t] > 0
    /\ progress' = [progress EXCEPT ![t] = @ - 1]
    /\ pc' = "yield" /\ pos' = t
    /\ UNCHANGED <<kind, next, first, status, results, errored, body, pending,
                   ctl, inFlight, sib, turn, hasErrored, scans, draining, toAdd,
                   awaited, woken, inProgress, applied, answers, attempt>>

\* The results of a tool are accepted: its side effects are applied, and its
\* messages are yielded.  It is still in progress.
EmitTool(t) ==
    /\ pc = "emit" /\ StopsAt(t) /\ progress[t] = 0 /\ status[t] = "completed"
    /\ status' = [status EXCEPT ![t] = "yielded"]
    /\ answers' = [answers EXCEPT ![t] = @ + ResultCount(t)]
    /\ applied' = applied \cup {t}
    /\ pc' = "yield" /\ pos' = t
    /\ UNCHANGED <<kind, next, first, results, progress, errored, body, pending,
                   ctl, inFlight, sib, turn, hasErrored, scans, draining, toAdd,
                   awaited, woken, inProgress, attempt>>

\* Mutant: markToolUseAsComplete() is left out.
Resume_KeepsInProgress ==
    /\ pc = "yield"
    /\ pc' = "emit"
    /\ pos' = IF status[pos] = "yielded" THEN pos + 1 ELSE pos
    /\ UNCHANGED <<kind, next, first, status, results, progress, errored, body,
                   pending, ctl, inFlight, sib, turn, hasErrored, scans,
                   draining, toAdd, awaited, woken, inProgress, applied,
                   answers, attempt>>

\* The consumer asks for more.  Only now is a tool whose messages were yielded
\* no longer in progress; after a progress message the same tool is looked at again.
Resume ==
    /\ pc = "yield"
    /\ pc' = "emit"
    /\ IF status[pos] = "yielded"
       THEN inProgress' = inProgress \ {pos} /\ pos' = pos + 1
       ELSE UNCHANGED <<inProgress, pos>>
    /\ UNCHANGED <<kind, next, first, status, results, progress, errored, body,
                   pending, ctl, inFlight, sib, turn, hasErrored, scans,
                   draining, toAdd, awaited, woken, applied, answers, attempt>>

\* The consumer returns at a message it was given (the budget is spent, say) and
\* with it both generators.
ConsumerLeaves ==
    /\ Quiet /\ pc = "yield"
    /\ pc' = "left"
    /\ UNCHANGED <<kind, next, first, status, results, progress, errored, body,
                   pending, ctl, inFlight, sib, turn, hasErrored, scans, pos,
                   draining, toAdd, awaited, woken, inProgress, applied,
                   answers, attempt>>

\* The pass is over.  While streaming, the query loop goes back to the model's
\* stream.  In getRemainingResults() it waits if tools execute and nothing is
\* ready to be emitted, and otherwise begins another round, as long as some
\* tool has not been emitted.
EndPass ==
    /\ pc = "emit"
    /\ \A t \in Tool : StopsAt(t) => progress[t] = 0 /\ status[t] = "executing"
    /\ LET mustWait == /\ Executing # {}
                       /\ \A t \in Tool : status[t] # "completed"
                       /\ \A t \in Current : progress[t] = 0
       IN /\ pc' = IF ~draining THEN "stream"
                   ELSE IF mustWait THEN "wait"
                   ELSE IF Unyielded = {} THEN "done" ELSE "scan"
          /\ awaited' = IF draining /\ mustWait THEN Executing ELSE {}
    /\ pos' = first
    /\ woken' = FALSE
    /\ UNCHANGED <<kind, next, first, status, results, progress, errored, body,
                   pending, ctl, inFlight, sib, turn, hasErrored, scans,
                   draining, toAdd, inProgress, applied, answers, attempt>>

\* One stretch of the processQueue() that getRemainingResults() awaits.
DrainScan ==
    /\ pc = "scan"
    /\ \/ \E t \in Tool :
            /\ IsNextToStart(pos, t)
            /\ ExecuteTool(t)
            /\ scans' = scans \cup Rescan(t)
            /\ pos' = t + 1
            /\ pc' = pc
       \/ /\ Startable(pos) = {}
          /\ NothingStarts
          /\ pc' = "emit" /\ pos' = first
          /\ UNCHANGED scans
    /\ UNCHANGED <<kind, next, first, progress, errored, sib, turn, hasErrored,
                   draining, toAdd, awaited, woken, applied, answers, attempt>>

\* Promise.race: a tool it waited for has ended, or there is progress.
Wake ==
    /\ pc = "wait"
    /\ ~(awaited \subseteq Executing) \/ woken
    /\ pc' = "scan" /\ pos' = first /\ awaited' = {} /\ woken' = FALSE
    /\ UNCHANGED <<kind, next, first, status, results, progress, errored, body,
                   pending, ctl, inFlight, sib, turn, hasErrored, scans,
                   draining, toAdd, inProgress, applied, answers, attempt>>

-----------------------------------------------------------------------------
(* Events that reach the query loop from outside.                          *)

\* Mutant: discard() forgets the tools that have completed.
Discard_OnlyUnfinished ==
    /\ first' = next
    /\ status' = [t \in Tool |-> IF status[t] \in {"queued", "executing"}
                                 THEN "yielded" ELSE status[t]]
    /\ results' = [t \in Tool |-> IF t \in Unyielded THEN <<>> ELSE results[t]]
    /\ progress' = [t \in Tool |-> 0]
    /\ inProgress' = inProgress \ Unyielded
    /\ ctl' = IF sib = "none" THEN Cascade("streaming_fallback") ELSE ctl
    /\ sib' = turn
    /\ hasErrored' = FALSE
    /\ scans' = {}

\* Mutant: discard() leaves the UI's set of tools in progress as it is.
Discard_KeepsInProgress ==
    /\ first' = next
    /\ status' = [t \in Tool |-> IF t \in Current THEN "yielded" ELSE status[t]]
    /\ results' = [t \in Tool |-> IF t \in Unyielded THEN <<>> ELSE results[t]]
    /\ progress' = [t \in Tool |-> 0]
    /\ ctl' = IF sib = "none" THEN Cascade("streaming_fallback") ELSE ctl
    /\ sib' = turn
    /\ hasErrored' = FALSE
    /\ scans' = {}
    /\ UNCHANGED inProgress

\* discard(), and the new executor, whose sibling controller is again a child of
\* the turn's.  Marked discarded before it aborts, so nothing bubbles.
Discard ==
    /\ first' = next
    /\ status' = [t \in Tool |-> IF t \in Current THEN "yielded" ELSE status[t]]
    /\ results' = [t \in Tool |-> IF t \in Unyielded THEN <<>> ELSE results[t]]
    /\ progress' = [t \in Tool |-> 0]
    /\ inProgress' = inProgress \ Unyielded
    /\ ctl' = IF sib = "none" THEN Cascade("streaming_fallback") ELSE ctl
    /\ sib' = turn
    /\ hasErrored' = FALSE
    /\ scans' = {}

\* An assistant message with n tool_use blocks.  After a streaming fallback the
\* attempt so far is discarded first.
MessageArrives(n) ==
    /\ Quiet /\ pc = "stream" /\ turn = "none"
    /\ next + n - 1 <= N
    /\ IF fellBack THEN Discard
       ELSE UNCHANGED <<first, status, results, progress, inProgress, ctl, sib,
                        hasErrored, scans>>
    /\ toAdd' = n
    /\ pc' = IF n = 0 THEN "emit" ELSE "adding"
    /\ pos' = first'
    /\ UNCHANGED <<kind, next, errored, body, pending, inFlight, turn, draining,
                   awaited, woken, applied, answers, attempt>>

\* The API client falls back to a request that does not stream.
StreamingFallback ==
    /\ Quiet /\ pc = "stream" /\ ~fellBack /\ fallbacks < MaxFallbacks
    /\ fellBack' = TRUE /\ fallbacks' = fallbacks + 1
    /\ UNCHANGED <<kind, next, first, status, results, progress, errored, body,
                   pending, ctl, inFlight, sib, turn, hasErrored, scans,
                   consumer, inProgress, applied, answers, faults>>

\* yieldMissingToolResultBlocks(assistantMessages): every tool_use of the
\* attempt gets a tool_result.
AnswerAttempt == [t \in Tool |-> IF t \in Current THEN answers[t] + 1 ELSE answers[t]]

\* FallbackTriggeredError: the attempt is abandoned for another model.
ModelFallback ==
    /\ Quiet /\ pc = "stream" /\ faults < MaxFaults
    /\ faults' = faults + 1
    /\ answers' = AnswerAttempt
    /\ Discard
    /\ fellBack' = FALSE
    /\ UNCHANGED <<kind, next, errored, body, pending, inFlight, turn, consumer,
                   applied, fallbacks>>

\* Any other error of the request ends the turn, without a discard().
ModelError ==
    /\ Quiet /\ pc = "stream" /\ faults < MaxFaults
    /\ faults' = faults + 1
    /\ answers' = AnswerAttempt
    /\ pc' = "failed"
    /\ UNCHANGED <<kind, next, first, status, results, progress, errored, body,
                   pending, ctl, inFlight, sib, turn, hasErrored, scans, pos,
                   draining, toAdd, awaited, woken, inProgress, applied,
                   fellBack, fallbacks>>

\* The model's stream ends, and getRemainingResults() begins.
StreamEnds ==
    /\ Quiet /\ pc = "stream"
    /\ draining' = TRUE
    /\ pc' = IF Unyielded = {} THEN "done" ELSE "scan"
    /\ pos' = first
    /\ UNCHANGED <<kind, next, first, status, results, progress, errored, body,
                   pending, ctl, inFlight, sib, turn, hasErrored, scans, toAdd,
                   awaited, woken, inProgress, applied, answers, attempt>>

\* The user presses ESC, or submits a prompt while only interruptible tools run.
AbortTurn(reason) ==
    /\ Quiet /\ Live /\ turn = "none"
    /\ turn' = reason
    /\ AbortSiblings(reason)
    /\ UNCHANGED <<kind, next, first, status, results, progress, errored, body,
                   pending, inFlight, hasErrored, scans, consumer, inProgress,
                   applied, answers, attempt>>

\* A control request cancels one tool (cancelInFlightTool), or the user rejects
\* the permission dialog of a tool, which aborts that tool's controller.
AbortOne(t, reason) ==
    /\ Quiet /\ Live
    /\ t \in inFlight /\ body[t] = "running" /\ ctl[t] = "none"
    /\ AbortTool(t, reason)
    /\ UNCHANGED <<kind, next, first, status, results, progress, errored, body,
                   pending, inFlight, hasErrored, scans, consumer, inProgress,
                   applied, answers, attempt>>

CancelInFlightTool(t) == \E reason \in CancelReasons : AbortOne(t, reason)
RejectPermission(t) == AbortOne(t, "user")

\* The turn is over and no body runs: nothing is left to happen.
Terminated ==
    /\ ~Live /\ Quiet /\ \A t \in Tool : body[t] # "running"
    /\ UNCHANGED vars

-----------------------------------------------------------------------------
Next ==
    \/ AddTool \/ EndPass \/ DrainScan \/ Wake
    \/ \E p \in 1..(N + 1) : ScanQueue(p)
    \/ \E t \in Tool : Collect(t) \/ EndCollect(t)
    \/ \E t \in Tool : EmitProgress(t) \/ EmitTool(t)
    \/ Resume \/ ConsumerLeaves
    \/ \E S \in SUBSET Tool : Settle(S)
    \/ \E t \in Tool : ReportProgress(t)
    \/ \E n \in 0..MaxBlocks : MessageArrives(n)
    \/ StreamingFallback \/ ModelFallback \/ ModelError \/ StreamEnds
    \/ \E reason \in TurnReasons : AbortTurn(reason)
    \/ \E t \in Tool : CancelInFlightTool(t) \/ RejectPermission(t)
    \/ Terminated

Spec == Init /\ [][Next]_vars

\* Promise continuations run in the order they became ready, so none is left
\* behind; a tool body that can end does end when the event loop is entered often
\* enough, which may be between other events (strong fairness).  A consumer that
\* does not leave asks for the next message at some time.
Fairness ==
    /\ WF_vars(AddTool) /\ WF_vars(EndPass) /\ WF_vars(DrainScan) /\ WF_vars(Wake)
    /\ WF_vars(Resume)
    /\ \A p \in 1..(N + 1) : WF_vars(ScanQueue(p))
    /\ \A t \in Tool : /\ WF_vars(Collect(t)) /\ WF_vars(EndCollect(t))
                      /\ WF_vars(EmitProgress(t)) /\ WF_vars(EmitTool(t))
                      /\ SF_vars(Settle({t}))

FairSpec == Spec /\ Fairness

-----------------------------------------------------------------------------
(* Properties.                                                             *)

Status == {"absent", "queued", "executing", "completed", "yielded"}

QueueType ==
    /\ kind \in [Tool -> Kinds]
    /\ next \in 1..(N + 1) /\ first \in 1..next
    /\ status \in [Tool -> Status]
    /\ \A t \in Tool : t < first => status[t] = "yielded"
    /\ \A t \in Tool : (t >= next) <=> (status[t] = "absent")
    /\ scans \subseteq 1..next

LoopType ==
    /\ results \in [Tool -> Seq(Message)]
    /\ pending \in [Tool -> Seq(Update)]
    /\ progress \in [Tool -> Nat]
    /\ errored \in [Tool -> BOOLEAN]
    /\ body \in [Tool -> {"none", "running", "settled"}]

ControllerType ==
    /\ ctl \in [Tool -> Reasons \cup {"none"}]
    /\ sib \in Reasons \cup {"none"} /\ turn \in Reasons \cup {"none"}
    /\ hasErrored \in BOOLEAN
    /\ inFlight \subseteq Tool

ConsumerType ==
    /\ pc \in {"stream", "adding", "emit", "yield", "scan", "wait", "done",
               "failed", "left"}
    /\ pos \in 1..next /\ (pc = "yield" => pos < next)
    /\ draining \in BOOLEAN /\ woken \in BOOLEAN
    /\ toAdd \in Nat /\ (pc = "adding" => toAdd \in 1..(N - next + 1))
    /\ awaited \subseteq Tool

RecordType ==
    /\ inProgress \subseteq Tool /\ applied \subseteq Tool
    /\ answers \in [Tool -> Nat]
    /\ fellBack \in BOOLEAN /\ fallbacks \in Nat /\ faults \in Nat

\* Every variable keeps its shape.  In particular a tool below first has been
\* emitted or discarded, only tools from next on are absent, and no loop of the
\* executor or of its consumer points past the tools that have arrived.
TypeOK == QueueType /\ LoopType /\ ControllerType /\ ConsumerType /\ RecordType

\* "Non-concurrent tools must execute alone": whatever the interleaving of the
\* processQueue() calls that addTool, ending tools and the query loop start, a
\* tool that is not concurrency-safe never has status 'executing' beside another.
ExclusiveExecution ==
    \A t \in Executing : ~kind[t].safe => Executing = {t}

\* processQueue() keeps the order of the blocks: no tool has been started while
\* an earlier one of the same executor is still queued, even though the loop
\* walks past blocked tools and several loops are suspended at a time.
QueueIsFifo ==
    \A t, u \in Current :
        t < u /\ status[t] = "queued" /\ kind[u].known => status[u] = "queued"

\* One tool_use, one tool_result: no interleaving of cancellations, sibling
\* errors, discards and late updates answers a tool twice, and when
\* getRemainingResults() has returned every tool of the executor is answered.
AnsweredOnce ==
    /\ \A t \in Tool : answers[t] <= 1
    /\ pc = "done" => \A t \in Current : answers[t] = 1

\* The UI's set of tools in progress forgets none that executes, and keeps none
\* that was emitted or discarded, but for one: the tool whose messages the
\* consumer is at, for good if it leaves there.
InProgressIsLive ==
    /\ \A t \in inProgress :
          \/ status[t] \in {"executing", "completed"}
          \/ status[t] = "yielded" /\ t = pos /\ pc \in {"yield", "left"}
    /\ Executing \subseteq inProgress

\* The registry that control requests look into holds, of the current executor,
\* exactly tools whose status is 'executing': an entry never outlives its tool.
InFlightExecutes == \A t \in inFlight : t >= first => status[t] = "executing"

\* What the user sees in progress and what a control request can cancel are the
\* tools that have work or an answer to deliver: whatever is discarded, cancelled
\* or late, neither list keeps one whose answer has been delivered.
ListsAreLive == InProgressIsLive /\ InFlightExecutes

\* A body starts only for a tool of the current executor, and not once a sibling
\* Bash call has failed or the user has aborted the turn.
NoStartAfterCancel ==
    [][\A t \in Tool :
          body[t] = "none" /\ body'[t] = "running"
             => t >= first' /\ ~hasErrored /\ turn = "none"]_vars

\* The reasons that end a turn: those of the user, and whatever reason of a
\* client's own a tool_cancel request carries.
EndsTurn == TurnReasons \cup (CancelReasons \ {"tool_cancel", "sibling_error"})

\* How far an abort goes.  A failing Bash call, a discard and a tool_cancel request
\* without a reason of its own end some tools, never the turn, whose controller
\* fires only with a reason from outside, the same for the siblings it takes
\* along; and with the default reason "sibling tools keep running": the request
\* fires the controller of one tool alone.  With any other reason the request
\* ends the turn, which the schema of the request denies.
CancelIsContained ==
    [][/\ turn' # turn =>
            /\ turn = "none" /\ turn' \in EndsTurn
            /\ first' = first /\ hasErrored' = hasErrored
            /\ \A t \in Tool : ctl'[t] # ctl[t] => ctl'[t] = turn'
       /\ (\E t \in Tool : AbortOne(t, "tool_cancel")) =>
            /\ turn' = turn /\ sib' = sib
            /\ Cardinality({t \in Tool : ctl'[t] # ctl[t]}) = 1]_vars

\* getRemainingResults() comes to its end once the tool bodies do, whatever they
\* answer and whenever they are cancelled, unless its consumer leaves before.
DrainEnds == draining ~> pc \in {"done", "left"}

\* Every tool leaves the in-flight registry, discarded ones included.
RegistryIsReleased == \A t \in Tool : t \in inFlight ~> t \notin inFlight

=============================================================================
