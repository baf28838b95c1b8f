---------------------- MODULE ToolExecutorAnswersProofs ----------------------
(***************************************************************************)
(* What the executor promises of each tool_use, for every number and kind  *)
(* of tools: that it gets its tool_result, and only one; how far a         *)
(* cancellation goes; that a tool which could start does; and that the     *)
(* lists of running tools are live.                                        *)
(***************************************************************************)
EXTENDS ToolExecutorProofs, SequenceTheorems

-----------------------------------------------------------------------------
(* What one loop of collectResults() has read and what is left to read.      *)

\* Nothing has happened to a tool that was not started.
Untouched(t) ==
    results[t] = <<>> /\ pending[t] = <<>> /\ ~errored[t] /\ body[t] = "none"

\* The loop has read no answer, and the body has one to come or was cancelled.
Unread(t) ==
    /\ results[t] = <<>> /\ ~errored[t]
    /\ \/ body[t] = "running" /\ pending[t] \in {<<>>, <<"progress">>}
       \/ body[t] = "settled" /\ pending[t] \in {<<"ok">>, <<"ok", "hook">>, <<"error">>}
       \/ body[t] = "settled" /\ pending[t] = <<>> /\ ctl[t] = "tool_cancel"

\* The loop has read the one answer of the body.
Answered(t) ==
    /\ body[t] = "settled"
    /\ \/ results[t] = <<"ok">> /\ pending[t] \in {<<>>, <<"hook">>} /\ ~errored[t]
       \/ results[t] = <<"ok", "hook">> /\ pending[t] = <<>> /\ ~errored[t]
       \/ results[t] = <<"error">> /\ pending[t] = <<>> /\ errored[t]

LoopOf(t) ==
    /\ status[t] \in {"absent", "queued"} => Untouched(t)
    /\ status[t] = "executing" => t \in inFlight /\ (Unread(t) \/ Answered(t))
    /\ status[t] = "completed" => HasToolResult(results[t])
    /\ pending[t] # <<>> => t \in inFlight

LoopInv == \A t \in Tool : LoopOf(t)

\* The sequences that a loop meets.
LEMMA Reads ==
    /\ Head(<<"ok">>) = "ok" /\ Tail(<<"ok">>) = <<>>
    /\ Head(<<"hook">>) = "hook" /\ Tail(<<"hook">>) = <<>>
    /\ Head(<<"error">>) = "error" /\ Tail(<<"error">>) = <<>>
    /\ Head(<<"progress">>) = "progress" /\ Tail(<<"progress">>) = <<>>
    /\ Head(<<"ok", "hook">>) = "ok" /\ Tail(<<"ok", "hook">>) = <<"hook">>
    /\ Append(<<>>, "ok") = <<"ok">> /\ Append(<<>>, "error") = <<"error">>
    /\ Append(<<"ok">>, "hook") = <<"ok", "hook">>
<1>1. \A x : Head(<<x>>) = x /\ Tail(<<x>>) = <<>>
  OBVIOUS
<1>2. Head(<<"ok", "hook">>) = "ok"
  OBVIOUS
<1>3. Tail(<<"ok", "hook">>) = <<"hook">>
  OBVIOUS
<1>4. Append(<<>>, "ok") = <<"ok">> /\ Append(<<>>, "error") = <<"error">>
  OBVIOUS
<1>5. Append(<<"ok">>, "hook") = <<"ok", "hook">>
  <2>1. <<"ok">> \in Seq({"ok", "hook"}) /\ <<"ok", "hook">> \in Seq({"ok", "hook"})
        /\ Len(<<"ok", "hook">>) = 2 /\ Len(<<"ok">>) = 1
    OBVIOUS
  <2> DEFINE s == Append(<<"ok">>, "hook")
  <2>2. s \in Seq({"ok", "hook"}) /\ Len(s) = 2 /\ s[1] = "ok" /\ s[2] = "hook"
    BY <2>1, AppendProperties
  <2>3. \A i \in 1..2 : s[i] = <<"ok", "hook">>[i]
    BY <2>2
  <2> HIDE DEF s
  <2>4. s = <<"ok", "hook">>
    BY <2>1, <2>2, <2>3, SeqEqual
  <2> QED
    BY <2>4 DEF s
<1> QED
  BY <1>1, <1>2, <1>3, <1>4, <1>5

LEMMA Apart ==
    /\ <<"ok">> # <<>> /\ <<"hook">> # <<>> /\ <<"error">> # <<>> /\ <<"progress">> # <<>>
    /\ <<"ok", "hook">> # <<>> /\ <<"ok">> # <<"hook">> /\ <<"ok">> # <<"error">>
    /\ <<"ok">> # <<"progress">> /\ <<"ok">> # <<"ok", "hook">> /\ <<"hook">> # <<"error">>
    /\ <<"hook">> # <<"progress">> /\ <<"hook">> # <<"ok", "hook">>
    /\ <<"error">> # <<"progress">> /\ <<"error">> # <<"ok", "hook">>
    /\ <<"progress">> # <<"ok", "hook">>
OBVIOUS

\* An answer among the messages is found, wherever it stands.
LEMMA ResultFound ==
    /\ HasToolResult(<<"ok">>) /\ HasToolResult(<<"ok", "hook">>)
    /\ HasToolResult(<<"error">>) /\ HasToolResult(<<"synthetic">>)
    /\ ~HasToolResult(<<>>)
BY DEF HasToolResult, ToolResult

LEMMA ResultAppended ==
    ASSUME NEW s \in Seq(Message) PROVE HasToolResult(Append(s, "synthetic"))
<1>1. Len(s) + 1 \in DOMAIN Append(s, "synthetic")
      /\ Append(s, "synthetic")[Len(s) + 1] = "synthetic"
  OBVIOUS
<1> QED
  BY <1>1 DEF HasToolResult, ToolResult

\* A tool that a step does not touch.
LEMMA LoopKept ==
    ASSUME NEW t \in Tool, LoopOf(t), status'[t] = status[t], results'[t] = results[t],
           pending'[t] = pending[t], errored'[t] = errored[t], body'[t] = body[t],
           t \in inFlight => t \in inFlight',
           ctl[t] = "tool_cancel" => ctl'[t] = "tool_cancel"
    PROVE  LoopOf(t)'
BY DEF LoopOf, Untouched, Unread, Answered

\* A controller that has fired keeps its reason.
LEMMA CascadeKeeps ==
    ASSUME TypeOK, NEW reason, NEW t \in Tool, ctl[t] # "none"
    PROVE  Cascade(reason)[t] = ctl[t]
BY DEF Cascade

LEMMA AbortSiblingsKeeps ==
    ASSUME TypeOK, NEW reason, AbortSiblings(reason), NEW t \in Tool, ctl[t] # "none"
    PROVE  ctl'[t] = ctl[t]
BY CascadeKeeps DEF AbortSiblings

LEMMA AbortToolKeeps ==
    ASSUME TypeOK, NEW u \in Tool, ctl[u] = "none", NEW reason, AbortTool(u, reason),
           NEW t \in Tool, ctl[t] # "none"
    PROVE  ctl'[t] = ctl[t]
<1>1. CASE Bubbles(u, reason)
  <2>1. ctl' = [Cascade(reason) EXCEPT ![u] = reason]
    BY <1>1 DEF AbortTool
  <2>2. Cascade(reason)[t] = ctl[t] /\ t \in DOMAIN Cascade(reason) /\ t # u
    BY CascadeKeeps DEF Cascade
  <2> QED
    BY <2>1, <2>2
<1>2. CASE ~Bubbles(u, reason)
  BY <1>2 DEF AbortTool, TypeOK, ControllerType
<1> QED
  BY <1>1, <1>2

LEMMA LoopInit == Init => LoopInv
BY DEF Init, LoopInv, LoopOf, Untouched

LEMMA LoopAddTool == ASSUME IInv, LoopInv, AddTool PROVE LoopInv'
<1> USE DEF IInv
<1>0. next \in Tool /\ status[next] = "absent"
  BY ExecutorConstants DEF AddTool, TypeOK, QueueType, ConsumerType, Tool
<1> SUFFICES ASSUME NEW t \in Tool PROVE LoopOf(t)'
  BY DEF LoopInv
<1>1. LoopOf(t) /\ pending' = pending /\ errored' = errored /\ body' = body
      /\ ctl' = ctl /\ inFlight' = inFlight
  BY DEF LoopInv, AddTool
<1>2. CASE t # next
  <2>1. status'[t] = status[t] /\ results'[t] = results[t]
    BY <1>2 DEF AddTool, TypeOK, QueueType, LoopType
  <2> QED
    BY <1>1, <2>1, LoopKept
<1>3. CASE t = next
  <2>1. Untouched(t)
    BY <1>0, <1>1, <1>3 DEF LoopOf
  <2>2. \/ status'[t] = "queued" /\ results'[t] = results[t]
        \/ status'[t] = "completed" /\ results'[t] = <<"error">>
    BY <1>0, <1>3 DEF AddTool, TypeOK, QueueType, LoopType
  <2> QED
    BY <1>1, <2>1, <2>2, ResultFound DEF LoopOf, Untouched
<1> QED
  BY <1>2, <1>3

\* executeTool(t): either a synthetic answer, or a loop that waits for its body.
LEMMA LoopExecuteTool ==
    ASSUME IInv, LoopInv, NEW t \in Tool, status[t] = "queued", ExecuteTool(t),
           errored' = errored
    PROVE  LoopInv'
<1> USE DEF IInv
<1> SUFFICES ASSUME NEW u \in Tool PROVE LoopOf(u)'
  BY DEF LoopInv
<1>1. LoopOf(u) /\ LoopOf(t) /\ Untouched(t)
  BY DEF LoopInv, LoopOf
<1>2. CASE u # t
  <2>1. /\ status'[u] = status[u] /\ results'[u] = results[u] /\ pending'[u] = pending[u]
        /\ body'[u] = body[u] /\ ctl'[u] = ctl[u] /\ (u \in inFlight => u \in inFlight')
    BY <1>2 DEF ExecuteTool, TypeOK, QueueType, LoopType, ControllerType
  <2> QED
    BY <1>1, <2>1, LoopKept
<1>3. CASE u = t /\ Cancelled(t)
  <2>1. /\ status'[t] = "completed" /\ results'[t] = <<"synthetic">>
        /\ pending' = pending /\ inFlight' = inFlight
    BY <1>3 DEF ExecuteTool, TypeOK, QueueType, LoopType
  <2> QED
    BY <1>1, <1>3, <2>1, ResultFound DEF LoopOf
<1>4. CASE u = t /\ ~Cancelled(t)
  <2>1. /\ status'[t] = "executing" /\ results' = results /\ t \in inFlight'
        /\ \/ body'[t] = "running" /\ pending' = pending
           \/ body'[t] = "settled" /\ pending'[t] = <<"error">>
    BY <1>4 DEF ExecuteTool, TypeOK, QueueType, LoopType
  <2> QED
    BY <1>1, <1>4, <2>1 DEF LoopOf, Untouched, Unread
<1> QED
  BY <1>2, <1>3, <1>4

LEMMA LoopNothingStarts ==
    ASSUME LoopInv, NothingStarts, errored' = errored PROVE LoopInv'
BY LoopKept DEF LoopInv, NothingStarts

LEMMA LoopCollect == ASSUME IInv, LoopInv, NEW t \in Tool, Collect(t) PROVE LoopInv'
<1> USE DEF IInv
<1>0. LoopOf(t) /\ t \in inFlight /\ pending[t] # <<>> /\ results[t] \in Seq(Message)
      /\ body' = body
  BY DEF LoopInv, Collect, TypeOK, LoopType
<1>1. t >= first => status[t] = "executing" /\ (Unread(t) \/ Answered(t))
  BY <1>0 DEF InFlightExecutes, LoopOf
<1>2. first \in Int /\ t \in Int
  BY ExecutorConstants DEF TypeOK, QueueType, Tool
<1>3. t < first => status[t] = "yielded"
  BY DEF TypeOK, QueueType
<1>4. CASE Abandons(t)
  <2>1. /\ pending' = [pending EXCEPT ![t] = <<>>]
        /\ UNCHANGED <<errored, ctl>> /\ inFlight' = inFlight \ {t}
        /\ Leave(t, Append(results[t], "synthetic"))
    BY <1>4 DEF Collect, Leave
  <2> SUFFICES ASSUME NEW u \in Tool PROVE LoopOf(u)'
    BY DEF LoopInv
  <2>2. CASE u # t
    <3>1. status'[u] = status[u] /\ results'[u] = results[u] /\ pending'[u] = pending[u]
          /\ LoopOf(u) /\ (u \in inFlight => u \in inFlight')
      BY <2>1, <2>2 DEF Leave, TypeOK, QueueType, LoopType, LoopInv
    <3> QED
      BY <1>0, <2>1, <3>1, LoopKept
  <2>3. CASE u = t /\ t < first
    <3>1. status'[t] = "yielded" /\ pending'[t] = <<>>
      BY <1>3, <2>1, <2>3 DEF Leave, TypeOK, LoopType
    <3> QED
      BY <2>3, <3>1 DEF LoopOf
  <2>4. CASE u = t /\ ~(t < first)
    <3>1. /\ status'[t] = "completed" /\ pending'[t] = <<>>
          /\ results'[t] = Append(results[t], "synthetic")
      BY <2>1, <2>4 DEF Leave, TypeOK, QueueType, LoopType
    <3> QED
      BY <1>0, <2>4, <3>1, ResultAppended DEF LoopOf
  <2> QED
    BY <2>2, <2>3, <2>4
<1>5. CASE ~Abandons(t)
  <2> DEFINE update == Head(pending[t])
  <2>1. /\ pending' = [pending EXCEPT ![t] = Tail(@)]
        /\ errored' = [errored EXCEPT ![t] = @ \/ update = "error"]
        /\ UNCHANGED <<inFlight, status>>
        /\ results' = IF update = "progress" THEN results
                      ELSE [results EXCEPT ![t] = Append(@, update)]
    BY <1>5 DEF Collect
  <2>2. \A u \in Tool : ctl[u] = "tool_cancel" => ctl'[u] = "tool_cancel"
    BY <1>5, AbortSiblingsKeeps DEF Collect
  <2>3. Unread(t) \/ Answered(t)
    BY <1>1, <1>2, <1>5 DEF Abandons
  <2>4. ASSUME NEW u \in Tool, u # t PROVE LoopOf(u)'
    <3>1. results'[u] = results[u] /\ pending'[u] = pending[u] /\ errored'[u] = errored[u]
          /\ LoopOf(u)
      BY <2>1, <2>4 DEF TypeOK, LoopType, LoopInv
    <3> QED
      BY <1>0, <2>1, <2>2, <3>1, LoopKept
  <2>5. /\ pending'[t] = Tail(pending[t]) /\ errored'[t] = (errored[t] \/ update = "error")
        /\ results'[t] = IF update = "progress" THEN results[t] ELSE Append(results[t], update)
    BY <2>1 DEF TypeOK, LoopType
  <2>6. Unread(t)' \/ Answered(t)'
    <3>1. CASE Unread(t) /\ pending[t] = <<"progress">>
      BY <1>0, <2>5, <3>1, Reads, Apart DEF Unread
    <3>2. CASE Unread(t) /\ pending[t] = <<"ok">>
      BY <1>0, <2>5, <3>2, Reads, Apart DEF Unread, Answered
    <3>3. CASE Unread(t) /\ pending[t] = <<"ok", "hook">>
      BY <1>0, <2>5, <3>3, Reads, Apart DEF Unread, Answered
    <3>4. CASE Unread(t) /\ pending[t] = <<"error">>
      BY <1>0, <2>5, <3>4, Reads, Apart DEF Unread, Answered
    <3>5. CASE Answered(t)
      <4>1. pending[t] = <<"hook">> /\ results[t] = <<"ok">> /\ ~errored[t]
        BY <1>0, <3>5 DEF Answered
      <4> QED
        BY <1>0, <2>5, <3>5, <4>1, Reads DEF Answered
    <3> QED
      BY <1>0, <2>3, <3>1, <3>2, <3>3, <3>4, <3>5 DEF Unread
  <2>7. status[t] = "executing"
    BY <1>1, <1>2, <1>5 DEF Abandons
  <2>8. LoopOf(t)'
    BY <1>0, <2>1, <2>6, <2>7 DEF LoopOf
  <2> QED
    BY <2>4, <2>8 DEF LoopInv
<1> QED
  BY <1>4, <1>5

LEMMA LoopEndCollect == ASSUME IInv, LoopInv, NEW t \in Tool, EndCollect(t) PROVE LoopInv'
<1> USE DEF IInv
<1>0. LoopOf(t) /\ t \in inFlight /\ pending[t] = <<>> /\ results[t] \in Seq(Message)
      /\ body[t] = "settled" /\ UNCHANGED <<pending, errored, body, ctl>>
  BY DEF LoopInv, EndCollect, TypeOK, LoopType
<1>1. /\ t < first => status[t] = "yielded"
      /\ t >= first => status[t] = "executing"
      /\ first \in Int /\ t \in Int
  BY <1>0, ExecutorConstants DEF InFlightExecutes, TypeOK, QueueType, Tool
<1>2. inFlight' = inFlight \ {t} /\ Leave(t, SafetyNet(t))
  BY DEF EndCollect, Leave
<1>3. ASSUME NEW u \in Tool, u # t PROVE LoopOf(u)'
  <2>1. status'[u] = status[u] /\ results'[u] = results[u]
        /\ LoopOf(u) /\ (u \in inFlight => u \in inFlight')
    BY <1>2, <1>3 DEF Leave, TypeOK, QueueType, LoopType, LoopInv
  <2> QED
    BY <1>0, <2>1, LoopKept
<1>4. CASE t < first
  <2>1. status'[t] = "yielded"
    BY <1>1, <1>2, <1>4 DEF Leave
  <2>2. LoopOf(t)'
    BY <1>0, <2>1 DEF LoopOf
  <2> QED
    BY <1>3, <2>2 DEF LoopInv
<1>5. CASE ~(t < first)
  <2>1. status'[t] = "completed" /\ results'[t] = SafetyNet(t)
    BY <1>2, <1>5 DEF Leave, TypeOK, QueueType, LoopType
  <2>2. Unread(t) \/ Answered(t)
    BY <1>0, <1>1, <1>5 DEF LoopOf
  <2>3. HasToolResult(SafetyNet(t))
    <3>1. CASE Unread(t)
      BY <1>0, <3>1, Apart, ResultFound, ResultAppended DEF Unread, SafetyNet
    <3>2. CASE Answered(t)
      <4>1. HasToolResult(results[t])
        BY <3>2, ResultFound DEF Answered
      <4> QED
        BY <4>1 DEF SafetyNet
    <3> QED
      BY <2>2, <3>1, <3>2
  <2>4. LoopOf(t)'
    BY <1>0, <2>1, <2>3 DEF LoopOf
  <2> QED
    BY <1>3, <2>4 DEF LoopInv
<1> QED
  BY <1>4, <1>5

LEMMA LoopEmitTool == ASSUME IInv, LoopInv, NEW t \in Tool, EmitTool(t) PROVE LoopInv'
<1> USE DEF IInv
<1> SUFFICES ASSUME NEW u \in Tool PROVE LoopOf(u)'
  BY DEF LoopInv
<1>1. LoopOf(u) /\ UNCHANGED <<results, pending, errored, body, ctl, inFlight>>
  BY DEF EmitTool, LoopInv
<1>2. CASE u # t
  <2>1. status'[u] = status[u]
    BY <1>2 DEF EmitTool, TypeOK, QueueType
  <2> QED
    BY <1>1, <2>1, LoopKept
<1>3. CASE u = t
  <2>1. status'[t] = "yielded"
    BY DEF EmitTool, TypeOK, QueueType
  <2> QED
    BY <1>1, <1>3, <2>1 DEF LoopOf
<1> QED
  BY <1>2, <1>3

\* Bodies end only when every loop has read what there was.
LEMMA LoopSettle ==
    ASSUME IInv, LoopInv, NEW S \in SUBSET Tool, Settle(S) PROVE LoopInv'
<1> SUFFICES ASSUME NEW t \in Tool PROVE LoopOf(t)'
  BY DEF LoopInv
<1>1. LoopOf(t) /\ pending[t] = <<>>
      /\ UNCHANGED <<status, results, errored, ctl, inFlight>>
  BY DEF Settle, LoopInv, Quiet
<1>2. CASE t \in S /\ t \in inFlight
  <2>1. body[t] = "running" /\ body'[t] = "settled" /\ pending'[t] \in Outcomes(t)
    BY <1>2 DEF Settle
  <2>2. pending'[t] \in {<<"ok">>, <<"ok", "hook">>, <<"error">>}
        \/ (pending'[t] = <<>> /\ ctl[t] = "tool_cancel")
    BY <2>1 DEF Outcomes
  <2>3. status[t] \notin {"absent", "queued"}
    BY <1>1, <2>1 DEF LoopOf, Untouched
  <2>4. status[t] = "executing" => Unread(t)'
    BY <1>1, <2>1, <2>2 DEF LoopOf, Unread, Answered
  <2> QED
    BY <1>1, <1>2, <2>3, <2>4 DEF LoopOf
<1>3. CASE t \in S /\ t \notin inFlight
  <2>1. body[t] = "running" /\ pending'[t] = pending[t]
    BY <1>3 DEF Settle
  <2>2. status[t] \notin {"absent", "queued", "executing"}
    BY <1>1, <1>3, <2>1 DEF LoopOf, Untouched
  <2> QED
    BY <1>1, <2>1, <2>2 DEF LoopOf
<1>4. CASE t \notin S
  <2>1. body'[t] = body[t] /\ pending'[t] = pending[t]
    BY <1>4 DEF Settle
  <2> QED
    BY <1>1, <2>1, LoopKept
<1> QED
  BY <1>2, <1>3, <1>4

LEMMA LoopReportProgress ==
    ASSUME IInv, LoopInv, NEW t \in Tool, ReportProgress(t) PROVE LoopInv'
<1> SUFFICES ASSUME NEW u \in Tool PROVE LoopOf(u)'
  BY DEF LoopInv
<1>1. LoopOf(u) /\ UNCHANGED <<status, results, errored, body, ctl, inFlight>>
  BY DEF ReportProgress, LoopInv
<1>2. pending \in [Tool -> Seq(Update)] /\ pending' = [pending EXCEPT ![t] = <<"progress">>]
      /\ t \in inFlight /\ body[t] = "running"
  BY DEF ReportProgress, IInv, TypeOK, LoopType
<1>3. CASE u # t
  BY <1>1, <1>2, <1>3, LoopKept
<1>4. CASE u = t
  BY <1>1, <1>2, <1>4 DEF LoopOf, Untouched, Unread, Answered
<1> QED
  BY <1>3, <1>4

LEMMA LoopDiscard ==
    ASSUME IInv, LoopInv, Discard, UNCHANGED <<errored, body, pending, inFlight>>
    PROVE  LoopInv'
<1> SUFFICES ASSUME NEW t \in Tool PROVE LoopOf(t)'
  BY DEF LoopInv
<1>1. LoopOf(t)
  BY DEF LoopInv
<1>2. t \in Current \/ status[t] \in {"yielded", "absent"}
  BY ExecutorConstants DEF IInv, TypeOK, QueueType, Tool, Current
<1>3. status'[t] = IF t \in Current THEN "yielded" ELSE status[t]
  BY DEF Discard
<1>4. results'[t] = results[t] \/ t \in Current
  BY DEF Discard, Unyielded
<1> QED
  BY <1>1, <1>2, <1>3, <1>4 DEF LoopOf, Untouched

\* The steps that touch no loop.
LEMMA LoopElsewhere ==
    ASSUME LoopInv, UNCHANGED <<status, results, pending, errored, body, inFlight>>,
           \A t \in Tool : ctl[t] = "tool_cancel" => ctl'[t] = "tool_cancel"
    PROVE  LoopInv'
<1> SUFFICES ASSUME NEW t \in Tool PROVE LoopOf(t)'
  BY DEF LoopInv
<1>1. LoopOf(t)
  BY DEF LoopInv
<1> QED
  BY <1>1, LoopKept

LEMMA LoopNext == ASSUME IInv, LoopInv, [Next]_vars PROVE LoopInv'
<1> USE DEF IInv
<1>1. CASE AddTool
  BY <1>1, LoopAddTool
<1>2. CASE EndPass
  BY <1>2, LoopElsewhere DEF EndPass
<1>3. CASE DrainScan
  BY <1>3, LoopExecuteTool, LoopNothingStarts DEF DrainScan, IsNextToStart, Startable
<1>4. CASE Wake
  BY <1>4, LoopElsewhere DEF Wake
<1>5. ASSUME NEW p \in 1..(N + 1), ScanQueue(p) PROVE LoopInv'
  BY <1>5, LoopExecuteTool, LoopNothingStarts DEF ScanQueue, IsNextToStart, Startable
<1>6. ASSUME NEW t \in Tool, Collect(t) PROVE LoopInv'
  BY <1>6, LoopCollect
<1>7. ASSUME NEW t \in Tool, EndCollect(t) PROVE LoopInv'
  BY <1>7, LoopEndCollect
<1>8. ASSUME NEW t \in Tool, EmitTool(t) PROVE LoopInv'
  BY <1>8, LoopEmitTool
<1>19. ASSUME NEW t \in Tool, EmitProgress(t) PROVE LoopInv'
  BY <1>19, LoopElsewhere DEF EmitProgress
<1>20. CASE Resume \/ ConsumerLeaves
  BY <1>20, LoopElsewhere DEF Resume, ConsumerLeaves
<1>9. ASSUME NEW S \in SUBSET Tool, Settle(S) PROVE LoopInv'
  BY <1>9, LoopSettle
<1>10. ASSUME NEW t \in Tool, ReportProgress(t) PROVE LoopInv'
  BY <1>10, LoopReportProgress
<1>11. ASSUME NEW n \in 0..MaxBlocks, MessageArrives(n) PROVE LoopInv'
  <2>1. CASE fellBack
    BY <1>11, <2>1, LoopDiscard DEF MessageArrives
  <2>2. CASE ~fellBack
    BY <1>11, <2>2, LoopElsewhere DEF MessageArrives
  <2> QED
    BY <2>1, <2>2
<1>12. CASE StreamingFallback
  BY <1>12, LoopElsewhere DEF StreamingFallback
<1>13. CASE ModelFallback
  BY <1>13, LoopDiscard DEF ModelFallback
<1>14. CASE ModelError
  BY <1>14, LoopElsewhere DEF ModelError
<1>15. CASE StreamEnds
  BY <1>15, LoopElsewhere DEF StreamEnds
<1>16. ASSUME NEW reason \in TurnReasons, AbortTurn(reason) PROVE LoopInv'
  BY <1>16, LoopElsewhere, AbortSiblingsKeeps DEF AbortTurn
<1>17. ASSUME NEW t \in Tool, CancelInFlightTool(t) \/ RejectPermission(t) PROVE LoopInv'
  <2>1. PICK reason \in Reasons : AbortOne(t, reason)
    BY <1>17 DEF CancelInFlightTool, RejectPermission, Reasons, TurnReasons
  <2> QED
    BY <2>1, LoopElsewhere, AbortToolKeeps DEF AbortOne
<1>18. CASE UNCHANGED vars
  BY <1>18, LoopElsewhere DEF vars
<1> QED
  BY <1>1, <1>2, <1>3, <1>4, <1>5, <1>6, <1>7, <1>8, <1>9, <1>10, <1>11, <1>12, <1>13,
     <1>14, <1>15, <1>16, <1>17, <1>18, <1>19, <1>20 DEF Next, Terminated

-----------------------------------------------------------------------------
(* How often a tool_use is answered.                                        *)

LEMMA CountOfResults ==
    ASSUME TypeOK, NEW t \in Tool, HasToolResult(results[t])
    PROVE  ResultCount(t) \in Nat /\ ResultCount(t) >= 1
<1> DEFINE I == {i \in DOMAIN results[t] : results[t][i] \in ToolResult}
<1>1. results[t] \in Seq(Message)
  BY DEF TypeOK, LoopType
<1>2. Len(results[t]) \in Nat /\ I \subseteq 1..Len(results[t])
  BY <1>1
<1>3. IsFiniteSet(I)
  BY <1>2, FS_Interval, FS_Subset
<1>4. I # {}
  BY DEF HasToolResult
<1>5. Cardinality(I) \in Nat /\ Cardinality(I) # 0
  BY <1>3, <1>4, FS_CardinalityType, FS_EmptySet
<1> QED
  BY <1>5 DEF ResultCount

\* A tool that was emitted or discarded stays so; the other steps emit nothing.
LEMMA OthersEmitNothing ==
    ASSUME IInv, [Next]_vars, \A t \in Tool : ~EmitTool(t), ~ModelFallback, ~ModelError
    PROVE  /\ answers' = answers /\ faults' = faults /\ first' \in Int /\ first' >= first
           /\ \A u \in Tool : /\ status[u] = "yielded" => status'[u] = "yielded"
                              /\ status'[u] = "yielded" => status[u] = "yielded" \/ u < first'
<1> DEFINE Emitless ==
             /\ answers' = answers /\ faults' = faults /\ first' \in Int /\ first' >= first
             /\ \A u \in Tool : /\ status[u] = "yielded" => status'[u] = "yielded"
                                /\ status'[u] = "yielded" => status[u] = "yielded" \/ u < first'
<1>0. first \in Int /\ next \in Int /\ first <= next /\ status \in [Tool -> Status]
  BY DEF IInv, TypeOK, QueueType
<1>1. ASSUME UNCHANGED <<answers, faults, first, status>> PROVE Emitless
  BY <1>0, <1>1
<1>2. ASSUME NEW t \in Tool, status[t] # "yielded", UNCHANGED <<answers, faults, first>>,
             status' = [status EXCEPT ![t] = status'[t]], status'[t] # "yielded"
      PROVE  Emitless
  BY <1>0, <1>2
<1>3. CASE AddTool
  <2>1. next \in Tool /\ status[next] = "absent"
    BY <1>3, ExecutorConstants DEF AddTool, IInv, TypeOK, QueueType, ConsumerType, Tool
  <2>2. status' = [status EXCEPT ![next] = status'[next]] /\ status'[next] # "yielded"
    BY <1>0, <1>3, <2>1 DEF AddTool
  <2> QED
    BY <1>2, <1>3, <2>1, <2>2 DEF AddTool, attempt
<1>4. ASSUME NEW t \in Tool, status[t] = "queued", ExecuteTool(t),
             UNCHANGED <<answers, faults, first>>
      PROVE  Emitless
  BY <1>2, <1>4, ExecuteToolType DEF IInv
<1>5. CASE DrainScan
  BY <1>1, <1>4, <1>5 DEF DrainScan, IsNextToStart, Startable, NothingStarts, attempt
<1>6. ASSUME NEW p \in 1..(N + 1), ScanQueue(p) PROVE Emitless
  BY <1>1, <1>4, <1>6 DEF ScanQueue, IsNextToStart, Startable, NothingStarts, attempt
<1>7. ASSUME NEW t \in Tool, t \in inFlight, NEW messages, Leave(t, messages),
             UNCHANGED <<answers, faults, first>>
      PROVE  Emitless
  <2>1. CASE t < first
    BY <1>1, <1>7, <2>1 DEF Leave
  <2>2. CASE ~(t < first)
    <3>1. status[t] = "executing"
      BY <1>0, <1>7, <2>2, ExecutorConstants DEF IInv, InFlightExecutes, Tool
    <3>2. status' = [status EXCEPT ![t] = "completed"]
      BY <1>7, <2>2 DEF Leave
    <3> QED
      BY <1>0, <1>2, <1>7, <3>1, <3>2
  <2> QED
    BY <2>1, <2>2
<1>8. ASSUME NEW t \in Tool, Collect(t) PROVE Emitless
  <2>1. t \in inFlight /\ UNCHANGED <<answers, faults, first>>
    BY <1>8 DEF Collect, attempt
  <2>2. CASE Abandons(t)
    BY <1>7, <1>8, <2>1, <2>2 DEF Collect
  <2>3. CASE ~Abandons(t)
    BY <1>1, <1>8, <2>1, <2>3 DEF Collect
  <2> QED
    BY <2>2, <2>3
<1>9. ASSUME NEW t \in Tool, EndCollect(t) PROVE Emitless
  BY <1>7, <1>9 DEF EndCollect, attempt
<1>10. ASSUME NEW n \in 0..MaxBlocks, MessageArrives(n) PROVE Emitless
  <2>1. CASE fellBack
    <3>1. /\ first' = next /\ UNCHANGED <<answers, faults>>
          /\ status' = [t \in Tool |-> IF t \in Current THEN "yielded" ELSE status[t]]
      BY <1>10, <2>1 DEF MessageArrives, Discard, attempt
    <3>2. \A u \in Tool : u \in Current => u < next
      BY <1>0, ExecutorConstants DEF Current, Tool
    <3> QED
      BY <1>0, <3>1, <3>2
  <2>2. CASE ~fellBack
    BY <1>1, <1>10, <2>2 DEF MessageArrives, attempt
  <2> QED
    BY <2>1, <2>2
<1>11. ASSUME NEW S \in SUBSET Tool, Settle(S) PROVE Emitless
  BY <1>1, <1>11 DEF Settle, attempt
<1>12. ASSUME NEW t \in Tool, ReportProgress(t) PROVE Emitless
  BY <1>1, <1>12 DEF ReportProgress, attempt
<1>13. ASSUME NEW reason \in TurnReasons, AbortTurn(reason) PROVE Emitless
  BY <1>1, <1>13 DEF AbortTurn, attempt
<1>14. ASSUME NEW t \in Tool, CancelInFlightTool(t) \/ RejectPermission(t) PROVE Emitless
  BY <1>1, <1>14 DEF CancelInFlightTool, RejectPermission, AbortOne, attempt
<1>15. CASE EndPass \/ Wake \/ StreamingFallback \/ StreamEnds \/ UNCHANGED vars
  BY <1>1, <1>15 DEF EndPass, Wake, StreamingFallback, StreamEnds, vars, attempt
<1>16. ASSUME NEW t \in Tool, EmitProgress(t) PROVE Emitless
  BY <1>1, <1>16 DEF EmitProgress, attempt
<1>17. CASE Resume \/ ConsumerLeaves
  BY <1>1, <1>17 DEF Resume, ConsumerLeaves, attempt
<1> QED
  BY <1>3, <1>5, <1>6, <1>8, <1>9, <1>10, <1>11, <1>12, <1>13, <1>14, <1>15, <1>16, <1>17
     DEF Next, Terminated

\* What discard() leaves: nothing is current.
LEMMA DiscardEmpties ==
    ASSUME TypeOK, Discard, next' = next PROVE Current' = {}
BY DEF Discard, Current, TypeOK, QueueType

\* Every tool that the current executor has emitted was answered, and the drain
\* ends when it has emitted all of them.
EmittedInv ==
    /\ \A t \in Tool : t >= first /\ status[t] = "yielded" => answers[t] >= 1
    /\ pc = "done" => Unyielded = {}

LEMMA EmittedNext == ASSUME IInv, LoopInv, EmittedInv, [Next]_vars PROVE EmittedInv'
<1>0. /\ first \in Int /\ next \in Int /\ status \in [Tool -> Status]
      /\ answers \in [Tool -> Nat] /\ Current \subseteq Tool /\ Tool \subseteq Int
  BY ExecutorConstants DEF IInv, TypeOK, QueueType, RecordType, Current, Tool
<1>1. CASE \E t \in Tool : EmitTool(t)
  <2>1. PICK t \in Tool : EmitTool(t)
    BY <1>1
  <2>2. status[t] = "completed"
    BY <2>1 DEF EmitTool
  <2>3. ResultCount(t) \in Nat /\ ResultCount(t) >= 1
    BY <2>2, CountOfResults DEF IInv, LoopInv, LoopOf
  <2>4. /\ answers' = [answers EXCEPT ![t] = @ + ResultCount(t)]
        /\ status' = [status EXCEPT ![t] = "yielded"]
        /\ pc' = "yield" /\ first' = first
    BY <2>1 DEF EmitTool
  <2>5. \A u \in Tool : u # t => status'[u] = status[u] /\ answers'[u] = answers[u]
    BY <1>0, <2>4
  <2>6. answers'[t] >= 1
    BY <1>0, <2>3, <2>4
  <2> QED
    BY <2>4, <2>5, <2>6 DEF EmittedInv
<1>2. CASE ModelFallback
  <2>1. first' = next /\ pc' = "stream" /\ \A t \in Tool : t >= next => status'[t] = "absent"
    BY <1>0, <1>2 DEF ModelFallback, Discard, consumer, IInv, TypeOK, QueueType, Current
  <2> QED
    BY <2>1 DEF EmittedInv
<1>3. CASE ModelError
  <2>1. \A t \in Tool : t >= first /\ status[t] = "yielded" => answers'[t] >= 1
    BY <1>0, <1>3 DEF ModelError, AnswerAttempt, Current, IInv, TypeOK, QueueType
  <2> QED
    BY <1>3, <2>1 DEF ModelError, EmittedInv
<1>4. CASE (\A t \in Tool : ~EmitTool(t)) /\ ~ModelFallback /\ ~ModelError
  <2>1. /\ answers' = answers /\ first' \in Int /\ first' >= first
        /\ \A u \in Tool : /\ status[u] = "yielded" => status'[u] = "yielded"
                           /\ status'[u] = "yielded" => status[u] = "yielded" \/ u < first'
    BY <1>4, OthersEmitNothing
  <2>2. \A t \in Tool : t >= first' /\ status'[t] = "yielded" => answers'[t] >= 1
    BY <1>0, <2>1 DEF EmittedInv
  <2>4. pc' = "done" => Unyielded' = {}
    <3>1. CASE pc = "done"
      <4>1. Current' = Current
        BY <1>2, <1>3, <1>4, <3>1
           DEF Next, Current, vars, AddTool, EmitProgress, Resume, ConsumerLeaves, EndPass,
               DrainScan, Wake, ScanQueue, Collect, EndCollect,
               Settle, ReportProgress, MessageArrives, StreamingFallback, StreamEnds, AbortTurn,
               CancelInFlightTool, RejectPermission, AbortOne, Terminated, Quiet
      <4> QED
        BY <1>0, <2>1, <3>1, <4>1 DEF EmittedInv, Unyielded
    <3>2. CASE pc # "done" /\ pc' = "done"
      <4>1. EndPass \/ StreamEnds
        BY <1>4, <3>2
           DEF Next, vars, consumer, AddTool, EmitProgress, Resume, ConsumerLeaves, DrainScan,
               Wake, ScanQueue, Collect, EndCollect,
               Settle, ReportProgress, MessageArrives, StreamingFallback, AbortTurn,
               CancelInFlightTool, RejectPermission, AbortOne, Terminated
      <4>2. Unyielded = {} /\ UNCHANGED <<first, next, status>>
        BY <3>2, <4>1 DEF EndPass, StreamEnds
      <4> QED
        BY <4>2 DEF Unyielded, Current
    <3> QED
      BY <3>1, <3>2
  <2> QED
    BY <2>2, <2>4 DEF EmittedInv
<1> QED
  BY <1>1, <1>2, <1>3, <1>4

-----------------------------------------------------------------------------
(* No queued tool that could execute is left without a processQueue().      *)

\* When no processQueue() is suspended, there is nothing it could start.
WorkInv == scans = {} => Startable(first) = {}

\* What a loop that has left nothing queued behind it can start, a new one can.
LEMMA SameStartable ==
    ASSUME TypeOK, NEW p \in 1..next, \A u \in Current : status[u] = "queued" => p <= u
    PROVE  Startable(p) = Startable(first)
<1>0. first \in 1..next /\ next \in 1..(N + 1) /\ N \in Nat
  BY ExecutorConstants DEF TypeOK, QueueType
<1>1. \A u \in Int : u >= 1 /\ u < next /\ status[u] = "queued" => first <= u /\ p <= u
  <2>1. \A u \in Tool : u < first => status[u] = "yielded"
    BY DEF TypeOK, QueueType
  <2> QED
    BY <1>0, <2>1 DEF Tool, Current
<1> QED
  BY <1>0, <1>1 DEF Startable

LEMMA StartableKept ==
    ASSUME TypeOK, UNCHANGED <<kind, next, first>>, Executing' = Executing,
           \A u \in Tool : status'[u] = "queued" <=> status[u] = "queued"
    PROVE  Startable(first)' = Startable(first)
<1>0. first \in 1..next /\ next \in 1..(N + 1) /\ N \in Nat
  BY ExecutorConstants DEF TypeOK, QueueType
<1>1. \A t \in first..(next - 1) : t \in Tool /\ first..(t - 1) \subseteq Tool
  BY <1>0 DEF Tool
<1>2. \A t \in Tool : CanExecute(t)' <=> CanExecute(t)
  BY DEF CanExecute
<1> QED
  BY <1>1, <1>2 DEF Startable

LEMMA WorkNext == ASSUME IInv, WorkInv, [Next]_vars PROVE WorkInv'
<1> USE DEF IInv
<1>0. /\ first \in 1..next /\ next \in 1..(N + 1) /\ N \in Nat /\ status \in [Tool -> Status]
      /\ Tool \subseteq Int
  BY ExecutorConstants DEF TypeOK, QueueType, Tool
<1>1. ASSUME UNCHANGED <<kind, next, first, status, scans>> PROVE WorkInv'
  <2>1. Startable(first)' = Startable(first)
    BY <1>1, StartableKept DEF Executing
  <2> QED
    BY <1>1, <2>1 DEF WorkInv
<1>2. CASE AddTool
  <2>1. next \in Tool /\ status[next] = "absent"
    BY <1>2, ExecutorConstants DEF AddTool, TypeOK, QueueType, ConsumerType, Tool
  <2>2. CASE kind[next].known
    BY <1>2, <2>2 DEF AddTool, WorkInv
  <2>3. CASE ~kind[next].known
    <3>1. /\ status' = [status EXCEPT ![next] = "completed"] /\ next' = next + 1
          /\ UNCHANGED <<first, scans, kind>>
      BY <1>2, <2>3 DEF AddTool
    <3>2. /\ \A u \in Tool : u # next => status'[u] = status[u]
          /\ status'[next] = "completed"
      BY <1>0, <2>1, <3>1
    <3>3. Executing' = Executing
      BY <2>1, <3>2 DEF Executing
    <3>4. \A t \in Tool : CanExecute(t)' <=> CanExecute(t)
      BY <3>1, <3>3 DEF CanExecute
    <3>5. Startable(first)' \subseteq Startable(first)
      <4> SUFFICES ASSUME NEW t \in Startable(first)' PROVE t \in Startable(first)
        OBVIOUS
      <4>1. /\ t \in first..next /\ status'[t] = "queued" /\ CanExecute(t)'
            /\ \A u \in first..(t - 1) : status'[u] = "queued" => kind[u].safe
        BY <1>0, <3>1 DEF Startable
      <4>2. t \in first..(next - 1) /\ t \in Tool /\ first..(t - 1) \subseteq Tool
        BY <1>0, <3>2, <4>1 DEF Tool
      <4>3. \A u \in first..(t - 1) : u # next
        BY <1>0, <4>2
      <4> QED
        BY <2>1, <3>2, <3>4, <4>1, <4>2, <4>3 DEF Startable
    <3> QED
      BY <3>1, <3>5 DEF WorkInv
  <2> QED
    BY <2>2, <2>3
<1>3. ASSUME NEW p \in 1..(N + 1), ScanQueue(p) PROVE WorkInv'
  <2>1. p \in 1..next /\ p \in scans
    BY <1>3 DEF ScanQueue, TypeOK, QueueType
  <2>2. Startable(p) = Startable(first)
    BY <2>1, SameStartable DEF QueueInv, ScansInOrder
  <2>3. CASE Startable(p) = {} /\ NothingStarts
    <3>1. Startable(first)' = Startable(first)
      BY <1>3, <2>3, StartableKept DEF ScanQueue, NothingStarts, Executing
    <3> QED
      BY <2>2, <2>3, <3>1 DEF WorkInv
  <2> QED
    BY <1>3, <2>3 DEF ScanQueue, WorkInv
<1>4. CASE DrainScan
  <2>1. pos \in 1..next /\ pc = "scan"
    BY <1>4 DEF DrainScan, TypeOK, ConsumerType
  <2>2. Startable(pos) = Startable(first)
    BY <2>1, SameStartable DEF QueueInv, ScansInOrder
  <2>3. CASE Startable(pos) = {} /\ NothingStarts
    <3>1. Startable(first)' = Startable(first)
      BY <1>4, <2>3, StartableKept DEF DrainScan, NothingStarts, Executing
    <3> QED
      BY <2>2, <2>3, <3>1 DEF WorkInv
  <2>4. ASSUME NEW t \in Startable(pos), scans' = scans \cup Rescan(t) PROVE WorkInv'
    BY <2>2, <2>4 DEF WorkInv
  <2> QED
    BY <1>4, <2>3, <2>4 DEF DrainScan, IsNextToStart
<1>5. ASSUME NEW t \in Tool, NEW messages, Leave(t, messages), UNCHANGED <<kind, next, first>>
      PROVE  WorkInv'
  <2>1. CASE t < first
    BY <1>1, <1>5, <2>1 DEF Leave
  <2>2. CASE ~(t < first)
    BY <1>5, <2>2 DEF Leave, WorkInv
  <2> QED
    BY <2>1, <2>2
<1>6. ASSUME NEW t \in Tool, Collect(t) PROVE WorkInv'
  <2>1. CASE Abandons(t)
    BY <1>5, <1>6, <2>1 DEF Collect
  <2>2. CASE ~Abandons(t)
    BY <1>1, <1>6, <2>2 DEF Collect
  <2> QED
    BY <2>1, <2>2
<1>7. ASSUME NEW t \in Tool, EndCollect(t) PROVE WorkInv'
  BY <1>5, <1>7 DEF EndCollect
<1>8. ASSUME NEW t \in Tool, EmitTool(t) PROVE WorkInv'
  <2>1. /\ status[t] = "completed" /\ status' = [status EXCEPT ![t] = "yielded"]
        /\ UNCHANGED <<kind, next, first, scans>>
    BY <1>8 DEF EmitTool
  <2>2. \A u \in Tool : u # t => status'[u] = status[u]
    BY <1>0, <2>1
  <2>3. status'[t] = "yielded"
    BY <1>0, <2>1
  <2>4. Executing' = Executing
    BY <2>1, <2>2, <2>3 DEF Executing
  <2>5. \A u \in Tool : status'[u] = "queued" <=> status[u] = "queued"
    BY <2>1, <2>2, <2>3
  <2>6. Startable(first)' = Startable(first)
    BY <2>1, <2>4, <2>5, StartableKept
  <2> QED
    BY <2>1, <2>6 DEF WorkInv
<1>9. ASSUME Discard, next' = next PROVE WorkInv'
  <2>1. Current' = {}
    BY <1>9, DiscardEmpties
  <2> QED
    BY <2>1 DEF WorkInv, Startable, Current
<1>10. ASSUME NEW n \in 0..MaxBlocks, MessageArrives(n) PROVE WorkInv'
  <2>1. CASE fellBack
    BY <1>9, <1>10, <2>1 DEF MessageArrives
  <2>2. CASE ~fellBack
    BY <1>1, <1>10, <2>2 DEF MessageArrives
  <2> QED
    BY <2>1, <2>2
<1>11. CASE ModelFallback
  BY <1>9, <1>11 DEF ModelFallback
<1>12. ASSUME NEW S \in SUBSET Tool, Settle(S) PROVE WorkInv'
  BY <1>1, <1>12 DEF Settle
<1>13. ASSUME NEW t \in Tool, ReportProgress(t) PROVE WorkInv'
  BY <1>1, <1>13 DEF ReportProgress
<1>14. ASSUME NEW reason \in TurnReasons, AbortTurn(reason) PROVE WorkInv'
  BY <1>1, <1>14 DEF AbortTurn
<1>15. ASSUME NEW t \in Tool, CancelInFlightTool(t) \/ RejectPermission(t) PROVE WorkInv'
  BY <1>1, <1>15 DEF CancelInFlightTool, RejectPermission, AbortOne
<1>16. CASE EndPass \/ Wake \/ StreamingFallback \/ ModelError \/ StreamEnds \/ UNCHANGED vars
  BY <1>1, <1>16 DEF EndPass, Wake, StreamingFallback, ModelError, StreamEnds, vars
<1>17. ASSUME NEW t \in Tool, EmitProgress(t) PROVE WorkInv'
  BY <1>1, <1>17 DEF EmitProgress
<1>18. CASE Resume \/ ConsumerLeaves
  BY <1>1, <1>18 DEF Resume, ConsumerLeaves
<1> QED
  BY <1>2, <1>3, <1>4, <1>6, <1>7, <1>8, <1>10, <1>11, <1>12, <1>13, <1>14, <1>15, <1>16,
     <1>17, <1>18
     DEF Next, Terminated

-----------------------------------------------------------------------------
(* One answer at most, when an event resumes one tool body.                 *)

SingleResult(s) ==
    \A i, j \in DOMAIN s : s[i] \in ToolResult /\ s[j] \in ToolResult => i = j

HookComes(t) == pending[t] \in {<<"ok", "hook">>, <<"hook">>}

\* While a loop has a message of a hook left to read, nothing else is about to
\* happen: no processQueue() is under way, and every other loop waits for its
\* body.  So no other tool can fail between an answer and the hook behind it.
HookInv ==
    \A t \in Tool : HookComes(t) =>
        /\ scans = {} /\ pc # "adding"
        /\ \A u \in inFlight : u # t => body[u] = "running"
        /\ \A u \in Tool : u # t => pending[u] = <<>>
        /\ pending[t] = <<"hook">> /\ t >= first => ~Cancelled(t)

SingleInv == \A t \in Tool : status[t] = "completed" => SingleResult(results[t])

LEMMA ToolsFinite == ASSUME NEW S \in SUBSET Tool PROVE IsFiniteSet(S)
<1>1. 1 \in Int /\ N \in Int
  BY ExecutorConstants
<1>2. IsFiniteSet(Tool)
  BY <1>1, FS_Interval DEF Tool
<1> QED
  BY <1>2, FS_Subset

LEMMA OneOfOne ==
    ASSUME NEW S \in SUBSET Tool, Cardinality(S) <= 1, NEW t \in S, NEW u \in S
    PROVE  u = t
<1> SUFFICES ASSUME u # t PROVE FALSE
  OBVIOUS
<1>1. IsFiniteSet(S)
  BY ToolsFinite
<1>2. Cardinality({t}) = 1 /\ IsFiniteSet({t})
  BY FS_Singleton
<1>3. Cardinality({t} \cup {u}) = 2
  BY <1>2, FS_AddElement
<1>4. {t} \cup {u} \subseteq S
  OBVIOUS
<1>5. 2 <= Cardinality(S) /\ Cardinality(S) \in Nat
  BY <1>1, <1>3, <1>4, FS_Subset, FS_CardinalityType
<1> QED
  BY <1>5

LEMMA SingleResults ==
    /\ SingleResult(<<"ok">>) /\ SingleResult(<<"ok", "hook">>) /\ SingleResult(<<"error">>)
    /\ SingleResult(<<"synthetic">>) /\ SingleResult(Append(<<>>, "synthetic"))
<1>1. \A x : SingleResult(<<x>>)
  BY DEF SingleResult
<1>2. SingleResult(<<"ok", "hook">>)
  BY DEF SingleResult, ToolResult
<1>3. Append(<<>>, "synthetic") = <<"synthetic">>
  OBVIOUS
<1> QED
  BY <1>1, <1>2, <1>3

LEMMA CountOfOne ==
    ASSUME TypeOK, NEW t \in Tool, HasToolResult(results[t]), SingleResult(results[t])
    PROVE  ResultCount(t) = 1
<1> DEFINE I == {i \in DOMAIN results[t] : results[t][i] \in ToolResult}
<1>1. PICK i \in DOMAIN results[t] : results[t][i] \in ToolResult
  BY DEF HasToolResult
<1>2. I = {i}
  BY <1>1 DEF SingleResult
<1> QED
  BY <1>2, FS_Singleton DEF ResultCount

\* A step that neither reads, nor ends, nor starts anything.
LEMMA HookKept ==
    ASSUME HookInv, pc' # "adding" \/ pc' = pc,
           UNCHANGED <<kind, first, pending, scans, body, inFlight, ctl, turn, hasErrored>>
    PROVE  HookInv'
BY DEF HookInv, HookComes, Cancelled

LEMMA HookQuiet == ASSUME Quiet, pending' = pending PROVE HookInv'
BY Apart DEF Quiet, HookInv, HookComes

LEMMA HookCollect ==
    ASSUME IInv, LoopInv, HookInv, NEW u \in Tool, Collect(u) PROVE HookInv'
<1> USE DEF IInv
<1>0. /\ pending \in [Tool -> Seq(Update)] /\ pending[u] # <<>> /\ u \in inFlight /\ LoopOf(u)
      /\ first \in Int /\ u \in Int
  BY ExecutorConstants DEF Collect, TypeOK, LoopType, LoopInv, QueueType, Tool
<1> SUFFICES ASSUME NEW t \in Tool, HookComes(t)'
             PROVE  /\ scans' = {} /\ pc' # "adding"
                    /\ \A v \in inFlight' : v # t => body'[v] = "running"
                    /\ \A v \in Tool : v # t => pending'[v] = <<>>
                    /\ pending'[t] = <<"hook">> /\ t >= first' => ~Cancelled(t)'
  BY DEF HookInv
<1>1. t = u
  <2> SUFFICES ASSUME t # u PROVE FALSE
    OBVIOUS
  <2>1. pending'[t] = pending[t]
    BY <1>0 DEF Collect
  <2> QED
    BY <1>0, <2>1 DEF HookInv, HookComes
<1>2. ~Abandons(t)
  <2> SUFFICES ASSUME Abandons(t) PROVE FALSE
    OBVIOUS
  <2>1. pending'[t] = <<>>
    BY <1>0, <1>1 DEF Collect
  <2> QED
    BY <2>1, Apart DEF HookComes
<1>3. /\ pending' = [pending EXCEPT ![t] = Tail(@)]
      /\ UNCHANGED <<inFlight, scans, pc, body, first, turn, kind>>
  BY <1>1, <1>2 DEF Collect
<1>4. pending'[t] = Tail(pending[t]) /\ \A v \in Tool : v # t => pending'[v] = pending[v]
  BY <1>0, <1>3
<1>5. Unread(t) \/ Answered(t)
  BY <1>0, <1>1, <1>2 DEF InFlightExecutes, LoopOf, Abandons
<1>6. pending[t] = <<"ok", "hook">> /\ ~errored[t] /\ pending'[t] = <<"hook">>
  <2>1. Tail(pending[t]) # <<>>
    BY <1>4, Apart DEF HookComes
  <2>2. pending[t] \notin {<<"ok">>, <<"error">>, <<"progress">>, <<"hook">>, <<>>}
    BY <1>0, <1>1, <2>1, Reads
  <2>3. pending[t] = <<"ok", "hook">> /\ ~errored[t]
    BY <1>5, <2>2 DEF Unread, Answered
  <2> QED
    BY <1>4, <2>3, Reads
<1>7. ~Cancelled(t)
  BY <1>2, <1>6 DEF Abandons
<1>8. UNCHANGED <<hasErrored, ctl>>
  <2>1. Head(pending[t]) = "ok"
    BY <1>6, Reads
  <2> QED
    BY <1>1, <1>2, <2>1 DEF Collect
<1>9. ~Cancelled(t)'
  BY <1>3, <1>7, <1>8 DEF Cancelled
<1>10. HookComes(t)
  BY <1>6 DEF HookComes
<1> QED
  BY <1>3, <1>4, <1>9, <1>10 DEF HookInv

LEMMA HookSettle ==
    ASSUME IInv, MaxWake <= 1, NEW S \in SUBSET Tool, Settle(S) PROVE HookInv'
<1> SUFFICES ASSUME NEW t \in Tool, HookComes(t)'
             PROVE  /\ scans' = {} /\ pc' # "adding"
                    /\ \A v \in inFlight' : v # t => body'[v] = "running"
                    /\ \A v \in Tool : v # t => pending'[v] = <<>>
                    /\ pending'[t] = <<"hook">> /\ t >= first' => ~Cancelled(t)'
  BY DEF HookInv
<1>1. /\ scans = {} /\ pc # "adding" /\ scans' = scans /\ pc' = pc /\ inFlight' = inFlight
      /\ \A v \in Tool : pending[v] = <<>>
      /\ \A v \in inFlight : body[v] = "running"
      /\ inFlight \subseteq Tool
  BY DEF Settle, Quiet, consumer, IInv, TypeOK, ControllerType
<1>2. Cardinality(S) <= 1
  <2>1. IsFiniteSet(S)
    BY ToolsFinite
  <2>2. Cardinality(S) \in Nat /\ Cardinality(S) <= MaxWake /\ MaxWake \in Nat
    BY <2>1, FS_CardinalityType, ExecutorConstants DEF Settle
  <2> QED
    BY <2>2
<1>3. /\ \A v \in Tool : v \notin S => pending'[v] = pending[v] /\ body'[v] = body[v]
      /\ \A v \in S \cap inFlight : pending'[v] \in Outcomes(v)
      /\ \A v \in S : v \notin inFlight => pending'[v] = pending[v]
  BY DEF Settle
<1>4. t \in S /\ t \in inFlight
  BY <1>1, <1>3, Apart DEF HookComes
<1>5. \A v \in S : v = t
  BY <1>2, <1>4, OneOfOne
<1>6. pending'[t] # <<"hook">>
  <2>1. pending'[t] \in {<<"ok">>, <<"ok", "hook">>, <<"error">>, <<>>}
    BY <1>3, <1>4 DEF Outcomes
  <2> QED
    BY <2>1, Apart
<1> QED
  BY <1>1, <1>3, <1>5, <1>6

LEMMA HookNext ==
    ASSUME MaxWake <= 1, IInv, LoopInv, WorkInv, HookInv, [Next]_vars PROVE HookInv'
<1> USE DEF IInv
<1>1. CASE AddTool
  BY <1>1 DEF AddTool, HookInv, HookComes
<1>2. CASE EndPass
  BY <1>2, HookKept DEF EndPass
<1>3. ASSUME NEW t \in Tool, ExecuteTool(t), scans # {} PROVE HookInv'
  <2>1. \A u \in Tool : HookComes(u)' => HookComes(u)
    <3>1. pending' = pending \/ pending' = [pending EXCEPT ![t] = <<"error">>]
      BY <1>3 DEF ExecuteTool
    <3> QED
      BY <3>1, Apart DEF HookComes, TypeOK, LoopType
  <2> QED
    BY <1>3, <2>1 DEF HookInv
<1>4. CASE DrainScan
  <2>1. pos \in 1..next /\ pc = "scan"
    BY <1>4 DEF DrainScan, TypeOK, ConsumerType
  <2>2. Startable(pos) = Startable(first)
    BY <2>1, SameStartable DEF QueueInv, ScansInOrder
  <2>3. ASSUME NEW t \in Tool, IsNextToStart(pos, t), ExecuteTool(t) PROVE HookInv'
    BY <1>3, <2>2, <2>3 DEF IsNextToStart, WorkInv
  <2>4. CASE NothingStarts /\ pc' = "emit" /\ scans' = scans
    BY <1>4, <2>4, HookKept DEF DrainScan, NothingStarts
  <2> QED
    BY <1>4, <2>3, <2>4 DEF DrainScan
<1>5. CASE Wake
  BY <1>5, HookKept DEF Wake
<1>6. ASSUME NEW p \in 1..(N + 1), ScanQueue(p) PROVE HookInv'
  <2>1. CASE NothingStarts
    BY <1>6, <2>1 DEF ScanQueue, NothingStarts, HookInv, HookComes
  <2> QED
    BY <1>3, <1>6, <2>1 DEF ScanQueue
<1>7. ASSUME NEW t \in Tool, Collect(t) PROVE HookInv'
  BY <1>7, HookCollect
<1>8. ASSUME NEW t \in Tool, EndCollect(t) PROVE HookInv'
  BY <1>8, Apart DEF EndCollect, HookInv, HookComes
<1>9. ASSUME NEW t \in Tool, EmitTool(t) PROVE HookInv'
  BY <1>9, HookKept DEF EmitTool
<1>17. ASSUME NEW t \in Tool, EmitProgress(t) PROVE HookInv'
  BY <1>17, HookKept DEF EmitProgress
<1>18. CASE Resume \/ ConsumerLeaves
  BY <1>18, HookKept DEF Resume, ConsumerLeaves
<1>10. ASSUME NEW S \in SUBSET Tool, Settle(S) PROVE HookInv'
  BY <1>10, HookSettle
<1>11. ASSUME NEW t \in Tool, ReportProgress(t) PROVE HookInv'
  BY <1>11, Apart DEF ReportProgress, Quiet, HookInv, HookComes, TypeOK, LoopType
<1>12. ASSUME NEW n \in 0..MaxBlocks, MessageArrives(n) PROVE HookInv'
  BY <1>12, HookQuiet DEF MessageArrives
<1>13. CASE StreamingFallback \/ ModelFallback \/ ModelError \/ StreamEnds
  BY <1>13, HookQuiet DEF StreamingFallback, ModelFallback, ModelError, StreamEnds
<1>14. ASSUME NEW reason \in TurnReasons, AbortTurn(reason) PROVE HookInv'
  BY <1>14, HookQuiet DEF AbortTurn
<1>15. ASSUME NEW t \in Tool, CancelInFlightTool(t) \/ RejectPermission(t) PROVE HookInv'
  BY <1>15, HookQuiet DEF CancelInFlightTool, RejectPermission, AbortOne
<1>16. CASE UNCHANGED vars
  BY <1>16, HookKept DEF vars, consumer
<1> QED
  BY <1>1, <1>2, <1>4, <1>5, <1>6, <1>7, <1>8, <1>9, <1>10, <1>11, <1>12, <1>13, <1>14,
     <1>15, <1>16, <1>17, <1>18 DEF Next, Terminated

LEMMA SingleNext ==
    ASSUME IInv, LoopInv, HookInv, SingleInv, [Next]_vars PROVE SingleInv'
<1> USE DEF IInv
<1>0. /\ status \in [Tool -> Status] /\ results \in [Tool -> Seq(Message)]
      /\ first \in Int /\ Tool \subseteq Int
  BY ExecutorConstants DEF TypeOK, QueueType, LoopType, Tool
<1>1. ASSUME UNCHANGED <<status, results>> PROVE SingleInv'
  BY <1>1 DEF SingleInv
<1>2. ASSUME NEW t \in Tool,
             \A u \in Tool : u # t => status'[u] = status[u] /\ results'[u] = results[u],
             status'[t] = "completed" => SingleResult(results'[t])
      PROVE  SingleInv'
  BY <1>2 DEF SingleInv
<1>3. CASE AddTool
  <2>1. next \in Tool
    BY <1>3, ExecutorConstants DEF AddTool, TypeOK, QueueType, ConsumerType, Tool
  <2>2. /\ \A u \in Tool : u # next => status'[u] = status[u] /\ results'[u] = results[u]
        /\ status'[next] = "completed" => results'[next] = <<"error">>
    BY <1>0, <1>3, <2>1 DEF AddTool
  <2> QED
    BY <1>2, <2>1, <2>2, SingleResults
<1>4. ASSUME NEW t \in Tool, ExecuteTool(t) PROVE SingleInv'
  <2>1. /\ \A u \in Tool : u # t => status'[u] = status[u] /\ results'[u] = results[u]
        /\ status'[t] = "completed" => results'[t] = <<"synthetic">>
    BY <1>0, <1>4 DEF ExecuteTool
  <2> QED
    BY <1>2, <2>1, SingleResults
<1>5. CASE DrainScan
  BY <1>1, <1>4, <1>5 DEF DrainScan, NothingStarts
<1>6. ASSUME NEW p \in 1..(N + 1), ScanQueue(p) PROVE SingleInv'
  BY <1>1, <1>4, <1>6 DEF ScanQueue, NothingStarts
<1>7. ASSUME NEW t \in Tool, NEW messages, Leave(t, messages),
             ~(t < first) => SingleResult(messages)
      PROVE  SingleInv'
  <2>1. CASE t < first
    BY <1>1, <1>7, <2>1 DEF Leave
  <2>2. CASE ~(t < first)
    <3>1. /\ \A u \in Tool : u # t => status'[u] = status[u] /\ results'[u] = results[u]
          /\ results'[t] = messages
      BY <1>0, <1>7, <2>2 DEF Leave
    <3> QED
      BY <1>2, <1>7, <2>2, <3>1
  <2> QED
    BY <2>1, <2>2
<1>8. ASSUME NEW t \in Tool, t \in inFlight, ~(t < first) PROVE Unread(t) \/ Answered(t)
  BY <1>0, <1>8 DEF InFlightExecutes, LoopInv, LoopOf
<1>9. ASSUME NEW t \in Tool, Collect(t) PROVE SingleInv'
  <2>1. CASE Abandons(t)
    <3>1. ASSUME ~(t < first) PROVE SingleResult(Append(results[t], "synthetic"))
      <4>1. Unread(t) \/ Answered(t)
        BY <1>8, <1>9, <3>1 DEF Collect
      <4>2. CASE Answered(t)
        <5>1. pending[t] = <<"hook">> /\ ~errored[t]
          BY <1>9, <4>2 DEF Answered, Collect
        <5>2. HookComes(t) /\ t >= first
          BY <1>0, <3>1, <5>1 DEF HookComes
        <5>3. ~Cancelled(t)
          BY <5>1, <5>2 DEF HookInv
        <5> QED
          BY <2>1, <3>1, <5>1, <5>3 DEF Abandons
      <4>3. CASE Unread(t)
        BY <4>3, SingleResults DEF Unread
      <4> QED
        BY <4>1, <4>2, <4>3
    <3> QED
      BY <1>7, <1>9, <2>1, <3>1 DEF Collect
  <2>2. CASE ~Abandons(t)
    <3>1. /\ status' = status
          /\ results' = results \/ \E m : results' = [results EXCEPT ![t] = Append(@, m)]
      BY <1>9, <2>2 DEF Collect
    <3>2. status[t] = "executing"
      BY <1>0, <1>9, <2>2 DEF Collect, Abandons, InFlightExecutes
    <3> QED
      BY <1>0, <1>2, <3>1, <3>2
  <2> QED
    BY <2>1, <2>2
<1>10. ASSUME NEW t \in Tool, EndCollect(t) PROVE SingleInv'
  <2>1. ASSUME ~(t < first) PROVE SingleResult(SafetyNet(t))
    <3>1. Unread(t) \/ Answered(t)
      BY <1>8, <1>10, <2>1 DEF EndCollect
    <3>2. CASE Unread(t)
      BY <3>2, SingleResults, ResultFound, <1>10, Apart DEF Unread, SafetyNet, EndCollect
    <3>3. CASE Answered(t)
      <4>1. HasToolResult(results[t]) /\ SingleResult(results[t])
        BY <3>3, ResultFound, SingleResults DEF Answered
      <4> QED
        BY <4>1 DEF SafetyNet
    <3> QED
      BY <3>1, <3>2, <3>3
  <2> QED
    BY <1>7, <1>10, <2>1 DEF EndCollect
<1>11. ASSUME NEW t \in Tool, EmitTool(t) PROVE SingleInv'
  <2>1. results' = results /\ status' = [status EXCEPT ![t] = "yielded"]
    BY <1>11 DEF EmitTool
  <2> QED
    BY <1>0, <1>2, <2>1
<1>12. ASSUME Discard PROVE SingleInv'
  <2> SUFFICES ASSUME NEW t \in Tool, status'[t] = "completed" PROVE FALSE
    BY DEF SingleInv
  <2>1. t \notin Current /\ status[t] = "completed"
    BY <1>12 DEF Discard
  <2> QED
    BY <1>0, <2>1, ExecutorConstants DEF TypeOK, QueueType, Current, Tool
<1>13. ASSUME NEW n \in 0..MaxBlocks, MessageArrives(n) PROVE SingleInv'
  BY <1>1, <1>12, <1>13 DEF MessageArrives
<1>14. CASE ModelFallback
  BY <1>12, <1>14 DEF ModelFallback
<1>15. ASSUME NEW S \in SUBSET Tool, Settle(S) PROVE SingleInv'
  BY <1>1, <1>15 DEF Settle
<1>16. ASSUME NEW t \in Tool, ReportProgress(t) PROVE SingleInv'
  BY <1>1, <1>16 DEF ReportProgress
<1>17. ASSUME NEW reason \in TurnReasons, AbortTurn(reason) PROVE SingleInv'
  BY <1>1, <1>17 DEF AbortTurn
<1>18. ASSUME NEW t \in Tool, CancelInFlightTool(t) \/ RejectPermission(t) PROVE SingleInv'
  BY <1>1, <1>18 DEF CancelInFlightTool, RejectPermission, AbortOne
<1>19. CASE EndPass \/ Wake \/ StreamingFallback \/ ModelError \/ StreamEnds \/ UNCHANGED vars
  BY <1>1, <1>19 DEF EndPass, Wake, StreamingFallback, ModelError, StreamEnds, vars
<1>20. ASSUME NEW t \in Tool, EmitProgress(t) PROVE SingleInv'
  BY <1>1, <1>20 DEF EmitProgress
<1>21. CASE Resume \/ ConsumerLeaves
  BY <1>1, <1>21 DEF Resume, ConsumerLeaves
<1> QED
  BY <1>3, <1>5, <1>6, <1>9, <1>10, <1>11, <1>13, <1>14, <1>15, <1>16, <1>17, <1>18, <1>19,
     <1>20, <1>21
     DEF Next, Terminated

\* As long as the model's request has not failed, a tool is answered when it is
\* emitted, once.
ExactInv ==
    faults = 0 =>
        \A t \in Tool : /\ status[t] # "yielded" => answers[t] = 0
                        /\ t >= first /\ status[t] = "yielded" => answers[t] = 1
                        /\ answers[t] <= 1

LEMMA ExactNext ==
    ASSUME IInv, LoopInv, SingleInv, ExactInv, [Next]_vars PROVE ExactInv'
<1>0. /\ status \in [Tool -> Status] /\ answers \in [Tool -> Nat]
      /\ first \in Int /\ faults \in Nat /\ Tool \subseteq Int
  BY ExecutorConstants DEF IInv, TypeOK, QueueType, RecordType, Tool
<1>1. CASE \E t \in Tool : EmitTool(t)
  <2>1. PICK t \in Tool : EmitTool(t)
    BY <1>1
  <2>2. status[t] = "completed"
    BY <2>1 DEF EmitTool
  <2>3. ResultCount(t) = 1
    BY <2>2, CountOfOne DEF IInv, LoopInv, LoopOf, SingleInv
  <2>4. /\ answers' = [answers EXCEPT ![t] = @ + 1]
        /\ status' = [status EXCEPT ![t] = "yielded"]
        /\ faults' = faults /\ first' = first
    BY <2>1, <2>3 DEF EmitTool, attempt
  <2>5. \A u \in Tool : u # t => status'[u] = status[u] /\ answers'[u] = answers[u]
    BY <1>0, <2>4
  <2>6. status'[t] = "yielded" /\ (faults = 0 => answers'[t] = 1)
    BY <1>0, <2>2, <2>4 DEF ExactInv
  <2> QED
    BY <2>4, <2>5, <2>6 DEF ExactInv
<1>2. CASE ModelFallback \/ ModelError
  <2>1. faults' = faults + 1
    BY <1>2 DEF ModelFallback, ModelError
  <2> QED
    BY <1>0, <2>1 DEF ExactInv
<1>3. CASE (\A t \in Tool : ~EmitTool(t)) /\ ~ModelFallback /\ ~ModelError
  <2>1. /\ answers' = answers /\ faults' = faults /\ first' \in Int /\ first' >= first
        /\ \A u \in Tool : /\ status[u] = "yielded" => status'[u] = "yielded"
                           /\ status'[u] = "yielded" => status[u] = "yielded" \/ u < first'
    BY <1>3, OthersEmitNothing
  <2> QED
    BY <1>0, <2>1 DEF ExactInv
<1> QED
  BY <1>1, <1>2, <1>3

-----------------------------------------------------------------------------
(* The lists of what is in progress.                                        *)

LEMMA ProgressNext == ASSUME IInv, InProgressIsLive, [Next]_vars PROVE InProgressIsLive'
<1> USE DEF IInv
<1>0. status \in [Tool -> Status] /\ inProgress \subseteq Tool /\ Executing \subseteq Tool
  BY DEF TypeOK, QueueType, RecordType, Executing
<1> DEFINE AtYield == pc \in {"yield", "left"}
           Stays == UNCHANGED <<pc, pos>> \/ ~AtYield
<1>1. ASSUME UNCHANGED <<status, inProgress>>, Stays PROVE InProgressIsLive'
  BY <1>1 DEF InProgressIsLive, Executing
<1>2. ASSUME NEW t \in Tool, \A u \in Tool : u # t => status'[u] = status[u], Stays,
             \/ /\ inProgress' = inProgress
                /\ status'[t] # "executing"
                /\ t \in inProgress => status'[t] \in {"executing", "completed"}
             \/ inProgress' = inProgress \cup {t} /\ status'[t] \in {"executing", "completed"}
      PROVE  InProgressIsLive'
  BY <1>0, <1>2 DEF InProgressIsLive, Executing
<1>3. CASE AddTool
  <2>1. next \in Tool /\ status[next] = "absent"
    BY <1>3, ExecutorConstants DEF AddTool, TypeOK, QueueType, ConsumerType, Tool
  <2>2. /\ \A u \in Tool : u # next => status'[u] = status[u]
        /\ status'[next] \in {"queued", "completed"} /\ inProgress' = inProgress
        /\ ~AtYield
    BY <1>0, <1>3, <2>1 DEF AddTool
  <2>3. next \notin inProgress
    BY <2>1 DEF InProgressIsLive
  <2> QED
    BY <1>2, <2>1, <2>2, <2>3
<1>4. ASSUME NEW t \in Tool, ExecuteTool(t), Stays PROVE InProgressIsLive'
  <2>1. inProgress' = inProgress \cup {t}
    BY <1>4 DEF ExecuteTool
  <2> QED
    BY <1>0, <1>2, <1>4, <2>1, ExecuteToolType
<1>5. CASE DrainScan
  BY <1>1, <1>4, <1>5 DEF DrainScan, NothingStarts
<1>6. ASSUME NEW p \in 1..(N + 1), ScanQueue(p) PROVE InProgressIsLive'
  BY <1>1, <1>4, <1>6 DEF ScanQueue, NothingStarts, consumer
<1>7. ASSUME NEW t \in Tool, NEW messages, Leave(t, messages), inProgress' = inProgress,
             UNCHANGED <<pc, pos>>
      PROVE  InProgressIsLive'
  <2>1. CASE t < first
    BY <1>1, <1>7, <2>1 DEF Leave
  <2>2. CASE ~(t < first)
    <3>1. /\ \A u \in Tool : u # t => status'[u] = status[u]
          /\ status'[t] = "completed"
      BY <1>0, <1>7, <2>2 DEF Leave
    <3> QED
      BY <1>2, <1>7, <3>1
  <2> QED
    BY <2>1, <2>2
<1>8. ASSUME NEW t \in Tool, Collect(t) PROVE InProgressIsLive'
  BY <1>1, <1>7, <1>8 DEF Collect
<1>9. ASSUME NEW t \in Tool, EndCollect(t) PROVE InProgressIsLive'
  BY <1>7, <1>9 DEF EndCollect, consumer
<1>10. ASSUME NEW t \in Tool, EmitTool(t) PROVE InProgressIsLive'
  <2>1. /\ \A u \in Tool : u # t => status'[u] = status[u]
        /\ status'[t] = "yielded" /\ inProgress' = inProgress
        /\ pc = "emit" /\ pc' = "yield" /\ pos' = t
    BY <1>0, <1>10 DEF EmitTool
  <2> QED
    BY <1>0, <2>1 DEF InProgressIsLive, Executing
<1>19. ASSUME NEW t \in Tool, EmitProgress(t) PROVE InProgressIsLive'
  BY <1>1, <1>19 DEF EmitProgress
<1>20. CASE Resume
  <2>1. \A t \in inProgress' : status[t] \in {"executing", "completed"}
    BY <1>20 DEF Resume, InProgressIsLive
  <2>2. Executing' \subseteq inProgress' /\ status' = status
    BY <1>20 DEF Resume, InProgressIsLive, Executing
  <2> QED
    BY <2>1, <2>2 DEF InProgressIsLive
<1>21. CASE ConsumerLeaves
  BY <1>21 DEF ConsumerLeaves, InProgressIsLive, Executing
<1>11. ASSUME Discard, ~AtYield PROVE InProgressIsLive'
  <2>1. ASSUME NEW t \in Tool PROVE status'[t] \in {"yielded", "absent"}
    <3>1. t < first \/ t \in Current \/ t >= next
      BY ExecutorConstants DEF Current, TypeOK, QueueType, Tool
    <3> QED
      BY <1>11, <3>1 DEF Discard, TypeOK, QueueType
  <2>2. inProgress \subseteq Unyielded
    <3> SUFFICES ASSUME NEW t \in inProgress PROVE t \in Unyielded
      OBVIOUS
    <3>1. status[t] \in {"executing", "completed"} /\ t \in Tool
      BY <1>0, <1>11 DEF InProgressIsLive
    <3>2. t < first \/ t \in Current \/ t >= next
      BY <3>1, ExecutorConstants DEF Current, TypeOK, QueueType, Tool
    <3> QED
      BY <3>1, <3>2 DEF TypeOK, QueueType, Unyielded
  <2>3. inProgress' = {}
    BY <1>11, <2>2 DEF Discard
  <2> QED
    BY <2>1, <2>3 DEF InProgressIsLive, Executing
<1>12. ASSUME NEW n \in 0..MaxBlocks, MessageArrives(n) PROVE InProgressIsLive'
  BY <1>1, <1>11, <1>12 DEF MessageArrives
<1>13. CASE ModelFallback
  BY <1>11, <1>13 DEF ModelFallback
<1>14. ASSUME NEW S \in SUBSET Tool, Settle(S) PROVE InProgressIsLive'
  BY <1>1, <1>14 DEF Settle, consumer
<1>15. ASSUME NEW t \in Tool, ReportProgress(t) PROVE InProgressIsLive'
  BY <1>1, <1>15 DEF ReportProgress, consumer
<1>16. ASSUME NEW reason \in TurnReasons, AbortTurn(reason) PROVE InProgressIsLive'
  BY <1>1, <1>16 DEF AbortTurn, consumer
<1>17. ASSUME NEW t \in Tool, CancelInFlightTool(t) \/ RejectPermission(t)
       PROVE  InProgressIsLive'
  BY <1>1, <1>17 DEF CancelInFlightTool, RejectPermission, AbortOne, consumer
<1>18. CASE EndPass \/ Wake \/ StreamingFallback \/ ModelError \/ StreamEnds \/ UNCHANGED vars
  BY <1>1, <1>18 DEF EndPass, Wake, StreamingFallback, ModelError, StreamEnds, vars, consumer
<1> QED
  BY <1>3, <1>5, <1>6, <1>8, <1>9, <1>10, <1>12, <1>13, <1>14, <1>15, <1>16, <1>17, <1>18,
     <1>19, <1>20, <1>21
     DEF Next, Terminated

-----------------------------------------------------------------------------
(* What a cancellation stops, and what it leaves running.                   *)

\* The siblings' controller is a child of the turn's.
TurnInv == turn # "none" => sib # "none"

LEMMA AbortSiblingsFires ==
    ASSUME NEW reason, reason # "none", AbortSiblings(reason) PROVE sib' # "none"
BY DEF AbortSiblings

LEMMA TurnNext == ASSUME TurnInv, [Next]_vars PROVE TurnInv'
<1>1. ASSUME UNCHANGED <<sib, turn>> PROVE TurnInv'
  BY <1>1 DEF TurnInv
<1>2. ASSUME NEW t \in Tool, Collect(t) PROVE TurnInv'
  <2>1. turn' = turn /\ (sib' = sib \/ AbortSiblings("sibling_error"))
    BY <1>2 DEF Collect
  <2> QED
    BY <1>1, <2>1, AbortSiblingsFires DEF TurnInv
<1>3. ASSUME Discard, turn' = turn PROVE TurnInv'
  BY <1>3 DEF Discard, TurnInv
<1>4. ASSUME NEW n \in 0..MaxBlocks, MessageArrives(n) PROVE TurnInv'
  BY <1>1, <1>3, <1>4 DEF MessageArrives
<1>5. CASE ModelFallback
  BY <1>3, <1>5 DEF ModelFallback
<1>6. ASSUME NEW reason \in TurnReasons, AbortTurn(reason) PROVE TurnInv'
  BY <1>6, AbortSiblingsFires DEF AbortTurn, TurnReasons, TurnInv
<1>7. ASSUME NEW t \in Tool, CancelInFlightTool(t) \/ RejectPermission(t) PROVE TurnInv'
  <2>1. PICK reason \in CancelReasons \cup {"user"} : AbortOne(t, reason)
    BY <1>7 DEF CancelInFlightTool, RejectPermission
  <2>2. reason # "none"
    BY <2>1, ExecutorConstants
  <2> QED
    BY <1>1, <2>1, <2>2 DEF AbortOne, AbortTool, TurnInv
<1>8. ASSUME NEW p \in 1..(N + 1), ScanQueue(p) PROVE TurnInv'
  BY <1>1, <1>8 DEF ScanQueue
<1>9. ASSUME NEW t \in Tool, EndCollect(t) \/ EmitTool(t) \/ ReportProgress(t) PROVE TurnInv'
  BY <1>1, <1>9 DEF EndCollect, EmitTool, ReportProgress
<1>12. ASSUME NEW t \in Tool, EmitProgress(t) PROVE TurnInv'
  BY <1>1, <1>12 DEF EmitProgress
<1>13. CASE Resume \/ ConsumerLeaves
  BY <1>1, <1>13 DEF Resume, ConsumerLeaves
<1>10. ASSUME NEW S \in SUBSET Tool, Settle(S) PROVE TurnInv'
  BY <1>1, <1>10 DEF Settle
<1>11. CASE AddTool \/ EndPass \/ DrainScan \/ Wake \/ StreamingFallback \/ ModelError
            \/ StreamEnds \/ UNCHANGED vars
  BY <1>1, <1>11 DEF AddTool, EndPass, DrainScan, Wake, StreamingFallback, ModelError,
                     StreamEnds, vars
<1> QED
  BY <1>2, <1>4, <1>5, <1>6, <1>7, <1>8, <1>9, <1>10, <1>11, <1>12, <1>13
     DEF Next, Terminated

\* Only executeTool() starts a body, and not under a controller that has fired.
LEMMA StartStep ==
    ASSUME IInv, TurnInv, [Next]_vars, NEW t \in Tool,
           body[t] = "none", body'[t] = "running"
    PROVE  t >= first' /\ ~hasErrored /\ turn = "none"
<1>0. body \in [Tool -> {"none", "running", "settled"}] /\ first \in Int /\ t \in Int
  BY ExecutorConstants DEF IInv, TypeOK, QueueType, LoopType, Tool
<1>1. body' # body
  OBVIOUS
<1>2. ASSUME NEW u \in Tool, ExecuteTool(u), first' = first
      PROVE  t >= first' /\ ~hasErrored /\ turn = "none"
  <2>1. t = u /\ ~Cancelled(u) /\ sib = "none"
    BY <1>0, <1>1, <1>2 DEF ExecuteTool
  <2> QED
    BY <1>0, <1>2, <2>1 DEF Cancelled, TurnInv
<1>3. ASSUME NEW S \in SUBSET Tool, Settle(S) PROVE FALSE
  BY <1>3 DEF Settle
<1>4. CASE \E p \in 1..(N + 1) : ScanQueue(p)
  BY <1>1, <1>2, <1>4 DEF ScanQueue, NothingStarts
<1>5. CASE DrainScan
  BY <1>1, <1>2, <1>5 DEF DrainScan, NothingStarts
<1> QED
  BY <1>1, <1>3, <1>4, <1>5
     DEF Next, vars, AddTool, EmitProgress, Resume, ConsumerLeaves, EndPass, Wake, Collect,
         EndCollect, EmitTool, ReportProgress,
         MessageArrives, StreamingFallback, ModelFallback, ModelError, StreamEnds, AbortTurn,
         CancelInFlightTool, RejectPermission, AbortOne, Terminated

\* The turn's controller fires by an ESC, an interrupt, a rejected permission, or
\* a client's request with a reason of its own, and the siblings' follow it.
LEMMA TurnStep ==
    ASSUME IInv, [Next]_vars, turn' # turn
    PROVE  /\ turn = "none" /\ turn' \in EndsTurn
           /\ first' = first /\ hasErrored' = hasErrored
           /\ \A t \in Tool : ctl'[t] # ctl[t] => ctl'[t] = turn'
<1>1. \/ \E reason \in TurnReasons : AbortTurn(reason)
      \/ \E t \in Tool : CancelInFlightTool(t) \/ RejectPermission(t)
  BY DEF Next, vars, AddTool, EmitProgress, Resume, ConsumerLeaves, EndPass, DrainScan, Wake,
         ScanQueue, Collect, EndCollect, EmitTool, Settle, ReportProgress, MessageArrives,
         StreamingFallback, ModelFallback, ModelError, StreamEnds, Terminated
<1>2. ASSUME NEW reason PROVE \A t \in Tool : Cascade(reason)[t] \in {reason, ctl[t]}
  BY DEF Cascade
<1>3. CASE \E reason \in TurnReasons : AbortTurn(reason)
  <2>1. PICK reason \in TurnReasons : AbortTurn(reason)
    BY <1>3
  <2>2. ctl' = ctl \/ ctl' = Cascade(reason)
    BY <2>1 DEF AbortTurn, AbortSiblings
  <2> QED
    BY <1>2, <2>1, <2>2 DEF AbortTurn, EndsTurn
<1>4. CASE \E t \in Tool : CancelInFlightTool(t) \/ RejectPermission(t)
  <2>1. PICK t \in Tool, reason \in CancelReasons \cup {"user"} : AbortOne(t, reason)
    BY <1>4 DEF CancelInFlightTool, RejectPermission
  <2>2. Bubbles(t, reason)
    BY <2>1 DEF AbortOne, AbortTool
  <2>3. turn = "none" /\ reason \in EndsTurn
    BY <2>1, <2>2 DEF Bubbles, EndsTurn, TurnReasons
  <2>4. /\ turn' = reason /\ ctl' = [Cascade(reason) EXCEPT ![t] = reason]
        /\ UNCHANGED <<first, hasErrored>>
    BY <2>1, <2>2 DEF AbortOne, AbortTool
  <2>5. \A u \in Tool : ctl'[u] \in {reason, ctl[u]}
    BY <1>2, <2>4 DEF Cascade
  <2> QED
    BY <2>3, <2>4, <2>5
<1> QED
  BY <1>1, <1>3, <1>4

\* "Sibling tools keep running": with the executor's own reason.
LEMMA CancelStep ==
    ASSUME IInv, NEW t \in Tool, AbortOne(t, "tool_cancel")
    PROVE  /\ turn' = turn /\ sib' = sib
           /\ Cardinality({u \in Tool : ctl'[u] # ctl[u]}) = 1
<1>1. /\ ctl[t] = "none" /\ UNCHANGED <<turn, sib>>
      /\ ctl' = [ctl EXCEPT ![t] = "tool_cancel"]
  BY DEF AbortOne, AbortTool, Bubbles
<1>2. {u \in Tool : ctl'[u] # ctl[u]} = {t}
  BY <1>1 DEF IInv, TypeOK, ControllerType
<1> QED
  BY <1>1, <1>2, FS_Singleton

-----------------------------------------------------------------------------
(* The theorems.                                                            *)

LEMMA LoopsHold == Spec => []LoopInv
<1>1. Init => LoopInv
  BY LoopInit
<1>2. IInv /\ LoopInv /\ [Next]_vars => LoopInv'
  BY LoopNext
<1> QED
  BY <1>1, <1>2, Invariant, PTL DEF Spec

\* When getRemainingResults() has returned, every tool of the executor has got a
\* tool_result, whatever was cancelled, failed or resumed together before.
NoneUnanswered == pc = "done" => \A t \in Current : answers[t] >= 1

THEOREM EveryToolIsAnswered == Spec => []NoneUnanswered
<1>1. Init => EmittedInv
  BY DEF Init, EmittedInv
<1>2. IInv /\ LoopInv /\ EmittedInv /\ [Next]_vars => EmittedInv'
  BY EmittedNext
<1>3. IInv /\ EmittedInv => NoneUnanswered
  BY ExecutorConstants DEF EmittedInv, NoneUnanswered, Unyielded, Current, IInv, TypeOK, QueueType, Tool
<1> QED
  BY <1>1, <1>2, <1>3, Invariant, LoopsHold, PTL DEF Spec

\* No queued tool that could execute waits without a processQueue() on its way.
THEOREM WorkConserving == Spec => []WorkInv
<1>1. Init => WorkInv
  BY DEF Init, WorkInv, Startable
<1>2. IInv /\ WorkInv /\ [Next]_vars => WorkInv'
  BY WorkNext
<1> QED
  BY <1>1, <1>2, Invariant, PTL DEF Spec

LEMMA OneAtATime ==
    ASSUME MaxWake <= 1 PROVE Spec => [](HookInv /\ SingleInv /\ ExactInv)
<1>1. Init => HookInv /\ SingleInv /\ ExactInv
  BY Apart, ExecutorConstants DEF Init, HookInv, HookComes, SingleInv, ExactInv, Tool
<1>2. IInv /\ LoopInv /\ WorkInv /\ HookInv /\ [Next]_vars => HookInv'
  BY HookNext
<1>3. IInv /\ LoopInv /\ HookInv /\ SingleInv /\ [Next]_vars => SingleInv'
  BY SingleNext
<1>4. IInv /\ LoopInv /\ SingleInv /\ ExactInv /\ [Next]_vars => ExactInv'
  BY ExactNext
<1> QED
  BY <1>1, <1>2, <1>3, <1>4, Invariant, LoopsHold, WorkConserving, PTL DEF Spec

\* One tool_use, one tool_result, for any number of tools, cancellations, sibling
\* errors and discarded attempts, as long as an event resumes one tool body at a
\* time and the model's request has not failed.
THEOREM AnsweredUntilFault ==
    ASSUME MaxWake <= 1 PROVE Spec => [](faults = 0 => AnsweredOnce)
<1>1. Init => EmittedInv
  BY DEF Init, EmittedInv
<1>2. IInv /\ LoopInv /\ EmittedInv /\ [Next]_vars => EmittedInv'
  BY EmittedNext
<1>3. IInv /\ ExactInv /\ EmittedInv => (faults = 0 => AnsweredOnce)
  BY ExecutorConstants
     DEF ExactInv, EmittedInv, AnsweredOnce, Unyielded, Current, IInv, TypeOK, QueueType, Tool
<1> QED
  BY <1>1, <1>2, <1>3, Invariant, LoopsHold, OneAtATime, PTL DEF Spec

\* What the UI shows in progress and what a control request can cancel are tools
\* that execute, or that completed and wait to be emitted, and at most the one
\* whose messages the consumer is at.
THEOREM ListsLive == Spec => []ListsAreLive
<1>1. Init => InProgressIsLive
  BY DEF Init, InProgressIsLive, Executing
<1>2. IInv /\ InProgressIsLive /\ [Next]_vars => InProgressIsLive'
  BY ProgressNext
<1>3. IInv /\ InProgressIsLive => ListsAreLive
  BY DEF IInv, ListsAreLive
<1> QED
  BY <1>1, <1>2, <1>3, Invariant, PTL DEF Spec

LEMMA TurnHolds == Spec => []TurnInv
<1>1. Init => TurnInv
  BY DEF Init, TurnInv
<1>2. TurnInv /\ [Next]_vars => TurnInv'
  BY TurnNext
<1> QED
  BY <1>1, <1>2, PTL DEF Spec

\* No body starts for a discarded executor, after a sibling's Bash error or after
\* the turn's controller has fired, although the loops that start tools are
\* suspended and resumed around all of these.
THEOREM StartsAreTimely == Spec => NoStartAfterCancel
<1>1. IInv /\ TurnInv /\ [Next]_vars
        => [\A t \in Tool : body[t] = "none" /\ body'[t] = "running"
                               => t >= first' /\ ~hasErrored /\ turn = "none"]_vars
  BY StartStep
<1> QED
  BY <1>1, Invariant, TurnHolds, PTL DEF Spec, NoStartAfterCancel

\* A cancellation with the executor's own reason cancels one tool alone, and the
\* turn's controller fires with a reason from outside only: whatever reasons the
\* clients put in their requests.
THEOREM CancelStaysContained == Spec => CancelIsContained
<1>1. IInv /\ [Next]_vars
        => [/\ turn' # turn =>
                  /\ turn = "none" /\ turn' \in EndsTurn
                  /\ first' = first /\ hasErrored' = hasErrored
                  /\ \A t \in Tool : ctl'[t] # ctl[t] => ctl'[t] = turn'
            /\ (\E t \in Tool : AbortOne(t, "tool_cancel")) =>
                  /\ turn' = turn /\ sib' = sib
                  /\ Cardinality({t \in Tool : ctl'[t] # ctl[t]}) = 1]_vars
  BY TurnStep, CancelStep
<1> QED
  BY <1>1, Invariant, PTL DEF Spec, CancelIsContained

==============================================================================
