------------------------- MODULE ToolExecutorProofs -------------------------
(* The safety of the executor's queue, for every number and kind of tools. *)
EXTENDS ToolExecutor, FiniteSetTheorems, TLAPS

LEMMA InitType == Init => TypeOK
<1> SUFFICES ASSUME Init PROVE TypeOK
  OBVIOUS
<1>1. QueueType
  BY ExecutorConstants DEF Init, QueueType, Tool, Status
<1>2. LoopType
  BY DEF Init, LoopType, Tool, Message, Update
<1>3. ControllerType
  BY DEF Init, ControllerType
<1>4. ConsumerType
  <2>1. pos \in 1..next /\ toAdd \in Nat
    BY DEF Init
  <2> QED
    BY <2>1 DEF Init, ConsumerType
<1>5. RecordType
  BY DEF Init, RecordType
<1> QED
  BY <1>1, <1>2, <1>3, <1>4, <1>5 DEF TypeOK

\* The one-element sequences the actions write.
LEMMA Singletons ==
    /\ <<"error">> \in Seq(Message) /\ <<"synthetic">> \in Seq(Message)
    /\ <<"error">> \in Seq(Update) /\ <<"progress">> \in Seq(Update)
    /\ <<>> \in Seq(Message) /\ <<>> \in Seq(Update)
BY DEF Message, Update

LEMMA TypeAddTool == ASSUME TypeOK, AddTool PROVE TypeOK'
<1> USE DEF AddTool, TypeOK
<1>0. next \in Tool /\ next + 1 \in 1..(N + 1)
  BY ExecutorConstants DEF QueueType, ConsumerType, Tool
<1>1. QueueType'
  <2>1. /\ status' = [status EXCEPT ![next] = status'[next]]
        /\ status'[next] \in {"queued", "completed"}
        /\ scans' \subseteq scans \cup {first}
    BY <1>0 DEF QueueType
  <2>2. \A t \in Tool : t < first' => status'[t] = "yielded"
    BY <1>0, <2>1, ExecutorConstants DEF QueueType, Tool
  <2>3. \A t \in Tool : (t >= next') <=> (status'[t] = "absent")
    BY <1>0, <2>1, ExecutorConstants DEF QueueType, Tool
  <2>4. scans' \subseteq 1..next'
    BY <1>0, <2>1, ExecutorConstants DEF QueueType
  <2>5. status' \in [Tool -> Status]
    BY <1>0, <2>1 DEF QueueType, Status
  <2> QED
    BY <1>0, <2>2, <2>3, <2>4, <2>5, ExecutorConstants DEF QueueType
<1>2. LoopType'
  BY <1>0, Singletons DEF LoopType
<1>3. ControllerType'
  BY DEF ControllerType
<1>4. ConsumerType'
  BY ExecutorConstants DEF ConsumerType, QueueType
<1>5. RecordType'
  BY DEF RecordType, attempt
<1> QED
  BY <1>1, <1>2, <1>3, <1>4, <1>5

\* What executeTool(t) writes, whichever branch it takes.
LEMMA ExecuteToolType ==
    ASSUME TypeOK, NEW t \in Tool, ExecuteTool(t)
    PROVE  /\ status' = [status EXCEPT ![t] = status'[t]]
           /\ status'[t] \in {"completed", "executing"}
           /\ results' \in [Tool -> Seq(Message)] /\ pending' \in [Tool -> Seq(Update)]
           /\ body' \in [Tool -> {"none", "running", "settled"}]
           /\ ctl' \in [Tool -> Reasons \cup {"none"}]
           /\ inFlight' \subseteq Tool /\ inProgress' \subseteq Tool
<1> USE DEF TypeOK
<1>1. CASE Cancelled(t)
  BY <1>1, Singletons DEF ExecuteTool, QueueType, LoopType, ControllerType, RecordType, Status
<1>2. CASE ~Cancelled(t)
  <2> USE <1>2 DEF ExecuteTool
  <2>1. /\ status' = [status EXCEPT ![t] = status'[t]]
        /\ status'[t] \in {"completed", "executing"}
    BY DEF QueueType
  <2>2. results' \in [Tool -> Seq(Message)] /\ pending' \in [Tool -> Seq(Update)]
    BY Singletons DEF LoopType
  <2>3. body' \in [Tool -> {"none", "running", "settled"}]
    BY DEF LoopType
  <2>4. ctl' \in [Tool -> Reasons \cup {"none"}] /\ inFlight' \subseteq Tool
    BY DEF ControllerType
  <2>5. inProgress' \subseteq Tool
    BY DEF RecordType
  <2> QED
    BY <2>1, <2>2, <2>3, <2>4, <2>5
<1> QED
  BY <1>1, <1>2

\* A stretch of processQueue() keeps the shape of everything but the positions of
\* the loops: it only starts a tool that has arrived and is queued.
LEMMA StretchType ==
    ASSUME TypeOK, NEW p \in 1..next, UNCHANGED <<kind, next, first, progress,
              errored, sib, turn, hasErrored, applied, answers, attempt>>,
           \/ \E t \in Tool : IsNextToStart(p, t) /\ ExecuteTool(t)
           \/ NothingStarts
    PROVE  /\ (scans' \subseteq 1..next) => QueueType'
           /\ LoopType' /\ ControllerType' /\ RecordType'
<1> USE DEF TypeOK
<1>1. CASE NothingStarts
  BY <1>1 DEF NothingStarts, QueueType, LoopType, ControllerType, RecordType, attempt
<1>2. ASSUME NEW t \in Tool, IsNextToStart(p, t), ExecuteTool(t)
      PROVE  /\ (scans' \subseteq 1..next) => QueueType'
             /\ LoopType' /\ ControllerType' /\ RecordType'
  <2>1. t < next /\ status[t] = "queued"
    BY <1>2, ExecutorConstants DEF IsNextToStart, Startable, QueueType
  <2>2. \A u \in Tool : u # t => status'[u] = status[u]
    BY <1>2, ExecuteToolType DEF QueueType
  <2>3. status' \in [Tool -> Status]
    BY <1>2, ExecuteToolType DEF QueueType, Status
  <2>4. ~(t < first)
    BY <2>1 DEF QueueType
  <2>5. \A u \in Tool : u < first => status'[u] = "yielded"
    BY <2>2, <2>4 DEF QueueType
  <2>6. \A u \in Tool : (u >= next) <=> (status'[u] = "absent")
    BY <1>2, <2>1, <2>2, ExecuteToolType, ExecutorConstants DEF QueueType, Tool
  <2>7. (scans' \subseteq 1..next) => QueueType'
    BY <2>3, <2>5, <2>6 DEF QueueType
  <2>8. LoopType' /\ ControllerType' /\ RecordType'
    BY <1>2, ExecuteToolType DEF LoopType, ControllerType, RecordType, attempt
  <2> QED
    BY <2>7, <2>8
<1> QED
  BY <1>1, <1>2

LEMMA TypeScan == ASSUME TypeOK, NEW p \in 1..(N + 1), ScanQueue(p) PROVE TypeOK'
<1>0. p \in 1..next /\ scans \subseteq 1..next /\ first \in 1..next /\ next \in 1..(N + 1)
  BY DEF ScanQueue, TypeOK, QueueType
<1>1. scans' \subseteq 1..next
  <2>1. ASSUME NEW t \in Tool, IsNextToStart(p, t),
               scans' = (scans \ {p}) \cup {t + 1} \cup Rescan(t)
        PROVE  scans' \subseteq 1..next
    <3>1. t + 1 \in 1..next
      BY <1>0, <2>1, ExecutorConstants DEF IsNextToStart, Startable, Tool
    <3> QED
      BY <1>0, <2>1, <3>1 DEF Rescan
  <2> QED
    BY <1>0, <2>1 DEF ScanQueue
<1>2. QueueType' /\ LoopType' /\ ControllerType' /\ RecordType'
  BY <1>0, <1>1, StretchType DEF ScanQueue
<1>3. ConsumerType'
  BY DEF ScanQueue, TypeOK, ConsumerType, consumer
<1> QED
  BY <1>2, <1>3 DEF TypeOK

LEMMA TypeDrainScan == ASSUME TypeOK, DrainScan PROVE TypeOK'
<1>0. /\ pos \in 1..next /\ scans \subseteq 1..next /\ first \in 1..next
      /\ next \in 1..(N + 1) /\ next' = next
  BY DEF DrainScan, TypeOK, QueueType, ConsumerType
<1>1. scans' \subseteq 1..next
  BY <1>0 DEF DrainScan, Rescan
<1>2. QueueType' /\ LoopType' /\ ControllerType' /\ RecordType'
  BY <1>0, <1>1, StretchType DEF DrainScan
<1>3. pos' \in 1..next
  <2>1. ASSUME NEW t \in Tool, IsNextToStart(pos, t), pos' = t + 1
        PROVE  pos' \in 1..next
    BY <1>0, <2>1, ExecutorConstants DEF IsNextToStart, Startable, Tool
  <2> QED
    BY <1>0, <2>1 DEF DrainScan
<1>4. ConsumerType'
  BY <1>0, <1>3 DEF DrainScan, TypeOK, ConsumerType
<1> QED
  BY <1>2, <1>4 DEF TypeOK

\* The sibling controller and those of the tools under it keep a known reason.
LEMMA CascadeType ==
    ASSUME ControllerType, NEW reason \in Reasons
    PROVE  Cascade(reason) \in [Tool -> Reasons \cup {"none"}]
BY DEF Cascade, ControllerType

LEMMA AbortSiblingsType ==
    ASSUME ControllerType, NEW reason \in Reasons, AbortSiblings(reason)
    PROVE  ctl' \in [Tool -> Reasons \cup {"none"}] /\ sib' \in Reasons \cup {"none"}
BY CascadeType DEF AbortSiblings, ControllerType

\* The end of a collecting loop completes a tool that has arrived.
LEMMA LeaveType ==
    ASSUME TypeOK, NEW t \in Tool, t < next, NEW messages \in Seq(Message),
           Leave(t, messages), UNCHANGED <<kind, next, first>>
    PROVE  QueueType' /\ results' \in [Tool -> Seq(Message)] /\ inFlight' \subseteq Tool
<1> USE DEF TypeOK, QueueType, LoopType, ControllerType, Leave
<1>1. CASE t < first
  BY <1>1
<1>2. CASE ~(t < first)
  <2>1. status' = [status EXCEPT ![t] = "completed"] /\ scans' = scans \cup {first}
    BY <1>2
  <2>2. status' \in [Tool -> Status]
    BY <2>1 DEF Status
  <2>3. \A u \in Tool : u < first => status'[u] = "yielded"
    BY <1>2, <2>1
  <2>4. \A u \in Tool : (u >= next) <=> (status'[u] = "absent")
    <3>1. \A u \in Tool : u # t => status'[u] = status[u]
      BY <2>1
    <3>2. status'[t] = "completed" /\ ~(t >= next)
      BY <2>1, ExecutorConstants DEF Tool
    <3> QED
      BY <3>1, <3>2
  <2>5. scans' \subseteq 1..next
    BY <2>1
  <2>6. QueueType'
    BY <2>2, <2>3, <2>4, <2>5
  <2>7. results' \in [Tool -> Seq(Message)] /\ inFlight' \subseteq Tool
    BY <1>2
  <2> QED
    BY <2>6, <2>7
<1> QED
  BY <1>1, <1>2

\* Only tools that have arrived are in flight.
LEMMA InFlightArrived ==
    ASSUME TypeOK, InFlightExecutes, NEW t \in inFlight
    PROVE  t \in Tool /\ t < next
<1>0. t \in Tool
  BY DEF TypeOK, ControllerType
<1>1. /\ t \in Nat /\ next \in Nat /\ first \in Nat
      /\ t >= next => status[t] = "absent"
      /\ t < first => status[t] = "yielded"
  <2>1. t \in Nat /\ next \in Nat /\ first \in Nat
    BY <1>0, ExecutorConstants DEF TypeOK, QueueType, Tool
  <2>2. (t >= next => status[t] = "absent") /\ (t < first => status[t] = "yielded")
    BY <1>0 DEF TypeOK, QueueType
  <2> QED
    BY <2>1, <2>2
<1>2. status[t] = "executing" \/ status[t] = "yielded"
  BY <1>1 DEF InFlightExecutes
<1> QED
  BY <1>0, <1>1, <1>2

LEMMA TypeCollect ==
    ASSUME TypeOK, InFlightExecutes, NEW t \in Tool, Collect(t)
    PROVE  TypeOK'
<1> DEFINE update == Head(pending[t])
<1>0. /\ t < next /\ results[t] \in Seq(Message) /\ pending[t] \in Seq(Update)
      /\ pending[t] # <<>> /\ update \in Update /\ Tail(pending[t]) \in Seq(Update)
  BY InFlightArrived DEF Collect, TypeOK, LoopType
<1>1. CASE Abandons(t)
  <2>1. Leave(t, Append(results[t], "synthetic")) /\ pending' = [pending EXCEPT ![t] = <<>>]
        /\ UNCHANGED <<errored, hasErrored, sib, ctl, progress, woken>>
    BY <1>1 DEF Collect
  <2>2. Append(results[t], "synthetic") \in Seq(Message)
    BY <1>0 DEF Message
  <2>3. QueueType' /\ results' \in [Tool -> Seq(Message)] /\ inFlight' \subseteq Tool
    BY <1>0, <2>1, <2>2, LeaveType DEF Collect
  <2>4. LoopType'
    BY <2>1, <2>3, Singletons DEF Collect, TypeOK, LoopType
  <2>5. ControllerType' /\ ConsumerType' /\ RecordType'
    BY <2>1, <2>3 DEF Collect, TypeOK, ControllerType, ConsumerType, RecordType, attempt
  <2> QED
    BY <2>3, <2>4, <2>5 DEF TypeOK
<1>2. CASE ~Abandons(t)
  <2>1. /\ pending' = [pending EXCEPT ![t] = Tail(@)]
        /\ errored' = [errored EXCEPT ![t] = @ \/ update = "error"]
        /\ UNCHANGED <<inFlight, status, scans>>
    BY <1>2 DEF Collect
  <2>2. QueueType' /\ RecordType'
    BY <2>1 DEF Collect, TypeOK, QueueType, RecordType, attempt
  <2>3. ControllerType'
    <3>1. /\ hasErrored' \in BOOLEAN /\ sib' \in Reasons \cup {"none"}
          /\ ctl' \in [Tool -> Reasons \cup {"none"}]
      BY <1>2, AbortSiblingsType DEF Collect, TypeOK, ControllerType, Reasons
    <3> QED
      BY <2>1, <3>1 DEF Collect, TypeOK, ControllerType
  <2>4. ConsumerType'
    BY <1>2 DEF Collect, TypeOK, ConsumerType
  <2>5. pending' \in [Tool -> Seq(Update)] /\ body' \in [Tool -> {"none", "running", "settled"}]
    BY <1>0, <2>1 DEF Collect, TypeOK, LoopType
  <2>6. errored' \in [Tool -> BOOLEAN]
    BY <2>1 DEF TypeOK, LoopType
  <2>7. progress' \in [Tool -> Nat] /\ results' \in [Tool -> Seq(Message)]
    <3>1. CASE update = "progress"
      <4>1. progress' = [progress EXCEPT ![t] = @ + 1] /\ results' = results
        BY <1>2, <3>1 DEF Collect
      <4> QED
        BY <4>1 DEF TypeOK, LoopType
    <3>2. CASE update # "progress"
      <4>1. results' = [results EXCEPT ![t] = Append(@, update)] /\ progress' = progress
        BY <1>2, <3>2 DEF Collect
      <4>2. Append(results[t], update) \in Seq(Message)
        BY <1>0, <3>2 DEF Message
      <4> QED
        BY <4>1, <4>2 DEF TypeOK, LoopType
    <3> QED
      BY <3>1, <3>2
  <2> QED
    BY <2>2, <2>3, <2>4, <2>5, <2>6, <2>7 DEF TypeOK, LoopType
<1> QED
  BY <1>1, <1>2

LEMMA TypeEndCollect ==
    ASSUME TypeOK, InFlightExecutes, NEW t \in Tool, EndCollect(t)
    PROVE  TypeOK'
<1>1. t < next /\ SafetyNet(t) \in Seq(Message)
  BY InFlightArrived DEF EndCollect, SafetyNet, TypeOK, LoopType, Message
<1>2. QueueType' /\ results' \in [Tool -> Seq(Message)] /\ inFlight' \subseteq Tool
  BY <1>1, LeaveType DEF EndCollect
<1>3. LoopType' /\ ControllerType' /\ ConsumerType' /\ RecordType'
  BY <1>2 DEF EndCollect, TypeOK, LoopType, ControllerType, ConsumerType, RecordType,
              QueueType, consumer, attempt
<1> QED
  BY <1>2, <1>3 DEF TypeOK

LEMMA TypeEmitTool == ASSUME TypeOK, NEW t \in Tool, EmitTool(t) PROVE TypeOK'
<1>0. /\ t < next /\ t \in 1..next /\ next \in 1..(N + 1) /\ status[t] # "absent"
      /\ status' = [status EXCEPT ![t] = "yielded"] /\ next' = next
  BY ExecutorConstants DEF EmitTool, StopsAt, Stops, TypeOK, QueueType, ConsumerType, Tool
<1>1. QueueType'
  <2>1. \A u \in Tool : u # t => status'[u] = status[u]
    BY <1>0 DEF TypeOK, QueueType
  <2>2. status'[t] = "yielded" /\ ~(t >= next)
    BY <1>0, ExecutorConstants DEF TypeOK, QueueType, Tool
  <2>3. status' \in [Tool -> Status]
    BY <1>0 DEF TypeOK, QueueType, Status
  <2>4. \A u \in Tool : (u >= next) <=> (status'[u] = "absent")
    BY <2>1, <2>2 DEF TypeOK, QueueType
  <2> QED
    BY <2>1, <2>2, <2>3, <2>4 DEF EmitTool, TypeOK, QueueType
<1>2. LoopType'
  BY DEF EmitTool, TypeOK, LoopType
<1>3. ControllerType'
  BY DEF EmitTool, TypeOK, ControllerType
<1>4. ConsumerType'
  BY <1>0 DEF EmitTool, TypeOK, ConsumerType
<1>5. RecordType'
  <2>1. results[t] \in Seq(Message)
    BY DEF TypeOK, LoopType
  <2>2. ResultCount(t) \in Nat
    <3> DEFINE I == {i \in DOMAIN results[t] : results[t][i] \in ToolResult}
    <3>1. Len(results[t]) \in Nat /\ I \subseteq 1..Len(results[t])
      BY <2>1
    <3>2. IsFiniteSet(I)
      BY <3>1, FS_Interval, FS_Subset
    <3> QED
      BY <3>2, FS_CardinalityType DEF ResultCount
  <2> QED
    BY <2>2 DEF EmitTool, TypeOK, RecordType, attempt
<1> QED
  BY <1>1, <1>2, <1>3, <1>4, <1>5 DEF TypeOK

LEMMA TypeEmitProgress ==
    ASSUME TypeOK, NEW t \in Tool, EmitProgress(t) PROVE TypeOK'
<1>1. t < next /\ t \in 1..next /\ progress[t] \in Nat /\ progress[t] > 0
  BY ExecutorConstants DEF EmitProgress, StopsAt, Stops, TypeOK, QueueType, LoopType,
                           ConsumerType, Tool
<1>2. LoopType'
  BY <1>1 DEF EmitProgress, TypeOK, LoopType
<1>3. ConsumerType'
  BY <1>1 DEF EmitProgress, TypeOK, ConsumerType
<1>4. QueueType' /\ ControllerType' /\ RecordType'
  BY DEF EmitProgress, TypeOK, QueueType, ControllerType, RecordType, attempt
<1> QED
  BY <1>2, <1>3, <1>4 DEF TypeOK

LEMMA TypeResume == ASSUME TypeOK, Resume PROVE TypeOK'
<1>1. ConsumerType'
  BY ExecutorConstants DEF Resume, TypeOK, QueueType, ConsumerType
<1>2. QueueType' /\ LoopType' /\ ControllerType' /\ RecordType'
  BY DEF Resume, TypeOK, QueueType, LoopType, ControllerType, RecordType, attempt
<1> QED
  BY <1>1, <1>2 DEF TypeOK

LEMMA TypeConsumerLeaves == ASSUME TypeOK, ConsumerLeaves PROVE TypeOK'
BY DEF ConsumerLeaves, TypeOK, QueueType, LoopType, ControllerType, ConsumerType,
       RecordType, attempt

LEMMA TypeEndPass == ASSUME TypeOK, EndPass PROVE TypeOK'
<1>1. QueueType' /\ ControllerType' /\ RecordType'
  BY DEF EndPass, TypeOK, QueueType, ControllerType, RecordType, attempt
<1>2. LoopType'
  BY DEF EndPass, TypeOK, LoopType
<1>3. ConsumerType'
  <2>1. first \in 1..next /\ Executing \subseteq Tool
    BY DEF TypeOK, QueueType, Executing
  <2>2. pos' = first /\ woken' = FALSE /\ awaited' \in {Executing, {}}
    BY DEF EndPass
  <2>3. pc' \in {"stream", "wait", "done", "scan"}
    BY DEF EndPass
  <2> QED
    BY <2>1, <2>2, <2>3 DEF EndPass, TypeOK, ConsumerType
<1> QED
  BY <1>1, <1>2, <1>3 DEF TypeOK

LEMMA TypeWake == ASSUME TypeOK, Wake PROVE TypeOK'
BY DEF Wake, TypeOK, QueueType, LoopType, ControllerType, ConsumerType, RecordType, attempt

LEMMA TypeSettle == ASSUME TypeOK, NEW S \in SUBSET Tool, Settle(S) PROVE TypeOK'
<1>1. PICK outcome \in [S -> UNION {Outcomes(t) : t \in S}] :
        /\ \A t \in S : outcome[t] \in Outcomes(t)
        /\ pending' = [t \in Tool |-> IF t \in S \cap inFlight THEN outcome[t]
                                                           ELSE pending[t]]
  BY DEF Settle
<1>2. \A t \in S : Outcomes(t) \subseteq Seq(Update)
  <2>1. <<"ok">> \in Seq(Update) /\ <<"ok", "hook">> \in Seq(Update)
    BY DEF Update
  <2> QED
    BY <2>1, Singletons DEF Outcomes
<1>3. LoopType'
  BY <1>1, <1>2 DEF Settle, TypeOK, LoopType
<1>4. QueueType' /\ ControllerType' /\ ConsumerType' /\ RecordType'
  BY DEF Settle, TypeOK, QueueType, ControllerType, ConsumerType, RecordType, consumer, attempt
<1> QED
  BY <1>3, <1>4 DEF TypeOK

LEMMA TypeReportProgress ==
    ASSUME TypeOK, NEW t \in Tool, ReportProgress(t) PROVE TypeOK'
BY Singletons DEF ReportProgress, TypeOK, QueueType, LoopType, ControllerType, ConsumerType,
                  RecordType, consumer, attempt

\* discard() leaves only emitted tools behind, and the new executor is empty.
LEMMA DiscardType ==
    ASSUME TypeOK, Discard, UNCHANGED <<kind, next>>
    PROVE  /\ QueueType' /\ first' = next
           /\ results' \in [Tool -> Seq(Message)] /\ progress' \in [Tool -> Nat]
           /\ ctl' \in [Tool -> Reasons \cup {"none"}] /\ sib' \in Reasons \cup {"none"}
           /\ hasErrored' \in BOOLEAN /\ inProgress' \subseteq Tool
<1> USE DEF Discard, TypeOK
<1>1. QueueType'
  <2>1. \A t \in Tool : t < next => status'[t] = "yielded"
    BY ExecutorConstants DEF QueueType, Current, Tool
  <2>2. \A t \in Tool : t >= next => status'[t] = status[t]
    BY ExecutorConstants DEF QueueType, Current, Tool
  <2>3. status' \in [Tool -> Status]
    BY DEF QueueType, Status
  <2>4. \A t \in Tool : (t >= next) <=> (status'[t] = "absent")
    BY <2>1, <2>2, ExecutorConstants DEF QueueType, Tool
  <2> QED
    BY <2>1, <2>3, <2>4, ExecutorConstants DEF QueueType
<1>2. results' \in [Tool -> Seq(Message)] /\ progress' \in [Tool -> Nat]
  BY Singletons DEF LoopType
<1>3. ctl' \in [Tool -> Reasons \cup {"none"}] /\ sib' \in Reasons \cup {"none"}
  BY CascadeType DEF ControllerType, Reasons
<1>4. inProgress' \subseteq Tool
  BY DEF RecordType
<1> QED
  BY <1>1, <1>2, <1>3, <1>4

LEMMA TypeMessageArrives ==
    ASSUME TypeOK, NEW n \in 0..MaxBlocks, MessageArrives(n) PROVE TypeOK'
<1>1. next \in 1..(N + 1) /\ n \in Nat /\ next + n - 1 <= N /\ UNCHANGED <<kind, next>>
  BY ExecutorConstants DEF MessageArrives, TypeOK, QueueType
<1>2. QueueType' /\ first' \in 1..next
  <2>1. CASE fellBack
    BY <2>1, <1>1, DiscardType DEF MessageArrives
  <2>2. CASE ~fellBack
    BY <2>2 DEF MessageArrives, TypeOK, QueueType
  <2> QED
    BY <2>1, <2>2
<1>3. /\ results' \in [Tool -> Seq(Message)] /\ progress' \in [Tool -> Nat]
      /\ ctl' \in [Tool -> Reasons \cup {"none"}] /\ sib' \in Reasons \cup {"none"}
      /\ hasErrored' \in BOOLEAN /\ inProgress' \subseteq Tool
  <2>1. CASE fellBack
    BY <2>1, <1>1, DiscardType DEF MessageArrives
  <2>2. CASE ~fellBack
    BY <2>2 DEF MessageArrives, TypeOK, LoopType, ControllerType, RecordType
  <2> QED
    BY <2>1, <2>2
<1>4. LoopType' /\ ControllerType' /\ RecordType'
  BY <1>3 DEF MessageArrives, TypeOK, LoopType, ControllerType, RecordType, attempt
<1>5. ConsumerType'
  <2>1. toAdd' = n /\ pc' \in {"emit", "adding"} /\ (pc' = "adding" => n # 0)
    BY DEF MessageArrives
  <2>2. pos' \in 1..next' /\ (pc' = "adding" => toAdd' \in 1..(N - next' + 1))
    BY <1>1, <1>2, <2>1, ExecutorConstants DEF MessageArrives
  <2> QED
    BY <1>1, <2>1, <2>2 DEF MessageArrives, TypeOK, ConsumerType
<1> QED
  BY <1>2, <1>4, <1>5 DEF TypeOK

LEMMA AnswerAttemptType == ASSUME RecordType PROVE AnswerAttempt \in [Tool -> Nat]
BY DEF AnswerAttempt, RecordType

LEMMA TypeModelFallback == ASSUME TypeOK, ModelFallback PROVE TypeOK'
<1>1. UNCHANGED <<kind, next>>
  BY DEF ModelFallback
<1>2. QueueType' /\ LoopType' /\ ControllerType'
  BY <1>1, DiscardType DEF ModelFallback, TypeOK, LoopType, ControllerType
<1>3. ConsumerType'
  BY <1>1 DEF ModelFallback, TypeOK, ConsumerType, consumer
<1>4. RecordType'
  <2>1. inProgress' \subseteq Tool
    BY <1>1, DiscardType DEF ModelFallback
  <2>2. answers' \in [Tool -> Nat]
    BY AnswerAttemptType DEF ModelFallback, TypeOK
  <2>3. applied' \subseteq Tool /\ fallbacks' \in Nat /\ faults' \in Nat
    BY DEF ModelFallback, TypeOK, RecordType
  <2>4. fellBack' \in BOOLEAN
    BY DEF ModelFallback
  <2> QED
    BY <2>1, <2>2, <2>3, <2>4 DEF RecordType
<1> QED
  BY <1>2, <1>3, <1>4 DEF TypeOK

LEMMA TypeModelError == ASSUME TypeOK, ModelError PROVE TypeOK'
<1>1. RecordType'
  BY AnswerAttemptType DEF ModelError, TypeOK, RecordType
<1> QED
  BY <1>1 DEF ModelError, TypeOK, QueueType, LoopType, ControllerType, ConsumerType

LEMMA TypeStreamingFallback == ASSUME TypeOK, StreamingFallback PROVE TypeOK'
BY DEF StreamingFallback, TypeOK, QueueType, LoopType, ControllerType, ConsumerType,
       RecordType, consumer

LEMMA TypeStreamEnds == ASSUME TypeOK, StreamEnds PROVE TypeOK'
BY DEF StreamEnds, TypeOK, QueueType, LoopType, ControllerType, ConsumerType, RecordType,
       attempt

LEMMA TypeAbortTurn ==
    ASSUME TypeOK, NEW reason \in TurnReasons, AbortTurn(reason) PROVE TypeOK'
<1>1. ControllerType'
  BY AbortSiblingsType DEF AbortTurn, TypeOK, ControllerType, Reasons
<1> QED
  BY <1>1 DEF AbortTurn, TypeOK, QueueType, LoopType, ConsumerType, RecordType, consumer, attempt

LEMMA TypeAbortOne ==
    ASSUME TypeOK, NEW t \in Tool, NEW reason \in Reasons, AbortOne(t, reason)
    PROVE  TypeOK'
<1>1. ControllerType'
  <2>1. CASE Bubbles(t, reason)
    BY <2>1, CascadeType DEF AbortOne, AbortTool, TypeOK, ControllerType
  <2>2. CASE ~Bubbles(t, reason)
    BY <2>2 DEF AbortOne, AbortTool, TypeOK, ControllerType
  <2> QED
    BY <2>1, <2>2
<1> QED
  BY <1>1 DEF AbortOne, TypeOK, QueueType, LoopType, ConsumerType, RecordType, consumer, attempt

-----------------------------------------------------------------------------
(* The order and the exclusivity of the queue.                             *)

\* A suspended processQueue() has left nothing queued behind it, so it can go on
\* where it stands although other calls changed the queue meanwhile.
ScansInOrder ==
    \A u \in Current :
        status[u] = "queued" => /\ \A p \in scans : p <= u
                                /\ pc = "scan" => pos <= u

QueueInv == ExclusiveExecution /\ QueueIsFifo /\ ScansInOrder

IInv == TypeOK /\ InFlightExecutes /\ QueueInv

\* The consumer's own loop over the queue, when there is one, is where it was or
\* at the first tool.
ConsumerScanKept == pc' = "scan" => (pc = "scan" /\ pos' = pos) \/ pos' = first

\* A step that leaves the queue alone.
LEMMA QueueUntouched ==
    ASSUME IInv, UNCHANGED <<kind, next, first, status, scans>>, ConsumerScanKept
    PROVE  QueueInv'
<1>1. ExclusiveExecution' /\ QueueIsFifo'
  BY DEF IInv, QueueInv, ExclusiveExecution, QueueIsFifo, Executing, Current
<1>2. ScansInOrder'
  BY DEF IInv, QueueInv, ScansInOrder, ConsumerScanKept, Current, TypeOK, QueueType
<1> QED
  BY <1>1, <1>2 DEF QueueInv

\* A step that ends or emits a tool that had been started.
LEMMA ToolAdvances ==
    ASSUME IInv, NEW t \in Tool, status[t] \in {"executing", "completed"},
           NEW s \in {"completed", "yielded"}, status' = [status EXCEPT ![t] = s],
           UNCHANGED <<kind, next, first>>, scans' \subseteq scans \cup {first},
           ConsumerScanKept
    PROVE  QueueInv'
<1>1. \A u \in Tool : u # t => status'[u] = status[u]
  BY DEF IInv, TypeOK, QueueType
<1>2. status'[t] = s
  BY DEF IInv, TypeOK, QueueType
<1>3. Executing' \subseteq Executing
  BY <1>1, <1>2 DEF Executing
<1>4. ExclusiveExecution'
  BY <1>3 DEF IInv, QueueInv, ExclusiveExecution
<1>5. Current \subseteq Tool /\ Current' = Current
  BY ExecutorConstants DEF Current, Tool, IInv, TypeOK, QueueType
<1>6. QueueIsFifo'
  BY <1>1, <1>2, <1>5 DEF IInv, QueueInv, QueueIsFifo
<1>7. ScansInOrder'
  BY <1>1, <1>2, <1>5 DEF IInv, QueueInv, ScansInOrder, ConsumerScanKept, Current, TypeOK, QueueType
<1> QED
  BY <1>4, <1>6, <1>7 DEF QueueInv

\* The heart of processQueue(): when a loop that stands at p, with nothing queued
\* before it, starts tool t, then nothing is queued before t either.  A queued
\* tool u < t that the loop went past would be concurrency-safe and blocked, so
\* an exclusive tool would be executing, and t could not start.
LEMMA NothingQueuedBefore ==
    ASSUME TypeOK, NEW p \in 1..next, NEW t \in Tool, IsNextToStart(p, t),
           \A u \in Current : status[u] = "queued" => p <= u
    PROVE  \A u \in Current : status[u] = "queued" => t <= u
<1> SUFFICES ASSUME NEW u \in Current, status[u] = "queued", ~(t <= u)
             PROVE  FALSE
  OBVIOUS
<1> USE DEF TypeOK, QueueType
<1>1. /\ p <= u /\ u < t /\ t < next /\ u \in Tool
      /\ CanExecute(t) /\ kind[u].safe
  BY ExecutorConstants DEF IsNextToStart, Startable, Current, Tool
<1>2. u \notin Startable(p)
  BY <1>1, ExecutorConstants DEF IsNextToStart, Current, Tool
<1>3. \A v \in p..(u - 1) : status[v] = "queued" => kind[v].safe
  BY <1>1, ExecutorConstants DEF IsNextToStart, Startable, Current, Tool
<1>4. ~CanExecute(u)
  BY <1>1, <1>2, <1>3, ExecutorConstants DEF Startable, Current, Tool
<1> QED
  BY <1>1, <1>4 DEF CanExecute

\* Starting a tool the loop may start keeps tools exclusive and in order.
LEMMA StartKeepsQueue ==
    ASSUME IInv, NEW p \in 1..next, NEW t \in Tool, IsNextToStart(p, t), ExecuteTool(t),
           \A u \in Current : status[u] = "queued" => p <= u,
           UNCHANGED <<kind, next, first>>,
           scans' \subseteq scans \cup {first, t + 1},
           pc' = "scan" => pos' = t + 1 \/ (pc = "scan" /\ pos' = pos) \/ pos' = first
    PROVE  QueueInv'
<1> USE DEF IInv
<1>1. /\ status' = [status EXCEPT ![t] = status'[t]]
      /\ status'[t] \in {"completed", "executing"}
  BY ExecuteToolType
<1>2. \A u \in Tool : u # t => status'[u] = status[u]
  BY <1>1 DEF TypeOK, QueueType
<1>3. \A u \in Current : status[u] = "queued" => t <= u
  BY NothingQueuedBefore
<1>4. Current \subseteq Tool /\ Current' = Current /\ t \in Nat /\ first <= next
  BY ExecutorConstants DEF Current, Tool, TypeOK, QueueType
<1>5. CanExecute(t) /\ status[t] = "queued"
  BY DEF IsNextToStart, Startable
<1>6. ExclusiveExecution'
  <2>1. Executing' \subseteq Executing \cup {t}
    BY <1>2 DEF Executing
  <2>2. CASE Executing = {}
    BY <2>1, <2>2 DEF ExclusiveExecution
  <2>3. CASE kind[t].safe /\ \A u \in Executing : kind[u].safe
    BY <2>1, <2>3 DEF ExclusiveExecution
  <2> QED
    BY <1>5, <2>2, <2>3 DEF CanExecute
<1>7. QueueIsFifo'
  BY <1>1, <1>2, <1>3, <1>4 DEF QueueInv, QueueIsFifo, Current
<1>8. ScansInOrder'
  <2>1. \A u \in Current : status'[u] = "queued" => status[u] = "queued" /\ t + 1 <= u
    BY <1>1, <1>2, <1>3, <1>4 DEF Current, TypeOK, QueueType
  <2> QED
    BY <1>4, <2>1 DEF QueueInv, ScansInOrder, Current, TypeOK, QueueType
<1> QED
  BY <1>6, <1>7, <1>8 DEF QueueInv

-----------------------------------------------------------------------------
(* The invariant of the specification.                                     *)

LEMMA InitInv == Init => IInv
<1> SUFFICES ASSUME Init PROVE IInv
  OBVIOUS
<1>1. TypeOK
  BY InitType
<1>2. InFlightExecutes
  BY DEF Init, InFlightExecutes
<1>3. QueueInv
  BY DEF Init, QueueInv, ExclusiveExecution, QueueIsFifo, ScansInOrder, Executing, Current
<1> QED
  BY <1>1, <1>2, <1>3 DEF IInv

\* Nobody enters the registry, and no tool in it changes its status.
LEMMA RegistryKept ==
    ASSUME IInv, inFlight' \subseteq inFlight, first' >= first, first' \in Nat,
           \A t \in inFlight' : t >= first' => status'[t] = status[t]
    PROVE  InFlightExecutes'
BY DEF IInv, InFlightExecutes, TypeOK, QueueType, ControllerType, Tool

LEMMA InvAddTool == ASSUME IInv, AddTool PROVE IInv'
<1> USE DEF IInv
<1>1. TypeOK'
  BY TypeAddTool
<1>2. /\ next \in Tool /\ first' = first /\ next' = next + 1 /\ kind' = kind
      /\ status' = [status EXCEPT ![next] = IF kind[next].known THEN "queued" ELSE "completed"]
      /\ scans' \subseteq scans \cup {first} /\ pc' # "scan" /\ inFlight' = inFlight
  BY ExecutorConstants DEF AddTool, TypeOK, QueueType, ConsumerType, Tool
<1>3. \A u \in Tool : u # next => status'[u] = status[u]
  BY <1>2 DEF TypeOK, QueueType
<1>4. status[next] = "absent"
  BY <1>2, ExecutorConstants DEF TypeOK, QueueType, Tool
<1>5. Current \subseteq Tool /\ Current' = Current \cup {next}
  BY <1>2, ExecutorConstants DEF Current, Tool, TypeOK, QueueType
<1>6. InFlightExecutes'
  <2>1. \A t \in inFlight : t # next
    BY InFlightArrived, ExecutorConstants DEF TypeOK, QueueType
  <2> QED
    BY <1>2, <1>3, <2>1 DEF InFlightExecutes, TypeOK, ControllerType
<1>7. ExclusiveExecution'
  <2>1. Executing' = Executing
    BY <1>2, <1>3, <1>4 DEF Executing, TypeOK, QueueType
  <2> QED
    BY <1>2, <2>1 DEF QueueInv, ExclusiveExecution
<1>8. QueueIsFifo'
  <2> SUFFICES ASSUME NEW t \in Current', NEW u \in Current', t < u,
                      status'[t] = "queued", kind[u].known
               PROVE  status'[u] = "queued"
    BY <1>2 DEF QueueIsFifo
  <2>1. CASE u = next
    BY <1>2, <2>1 DEF TypeOK, QueueType
  <2>2. CASE u # next
    <3>1. t # next
      BY <1>2, <1>5, <2>2, ExecutorConstants DEF Current, TypeOK, QueueType
    <3> QED
      BY <1>3, <1>5, <2>2, <3>1 DEF QueueInv, QueueIsFifo
  <2> QED
    BY <2>1, <2>2
<1>9. ScansInOrder'
  BY <1>2, <1>3, <1>5 DEF QueueInv, ScansInOrder, Current, TypeOK, QueueType
<1> QED
  BY <1>1, <1>6, <1>7, <1>8, <1>9 DEF QueueInv

\* executeTool(t) enters only t in the registry, and only as executing.
LEMMA ExecuteKeepsRegistry ==
    ASSUME IInv, NEW t \in Tool, ExecuteTool(t), status[t] = "queued", first' = first
    PROVE  InFlightExecutes'
<1>1. \A u \in Tool : u # t => status'[u] = status[u]
  BY ExecuteToolType DEF IInv, TypeOK, QueueType
<1>2. t \in inFlight' => t \in inFlight \/ status'[t] = "executing"
  BY DEF ExecuteTool, IInv, TypeOK, QueueType
<1>3. inFlight' \subseteq inFlight \cup {t}
  BY DEF ExecuteTool
<1>4. t \in inFlight => t < first
  BY ExecutorConstants DEF IInv, InFlightExecutes, TypeOK, QueueType, Tool
<1> QED
  BY <1>1, <1>2, <1>3, <1>4 DEF IInv, InFlightExecutes, TypeOK, ControllerType

LEMMA InvScanQueue == ASSUME IInv, NEW p \in 1..(N + 1), ScanQueue(p) PROVE IInv'
<1> USE DEF IInv
<1>1. TypeOK'
  BY TypeScan
<1>2. p \in 1..next /\ p \in scans
  BY DEF ScanQueue, TypeOK, QueueType
<1>3. \A u \in Current : status[u] = "queued" => p <= u
  BY <1>2 DEF QueueInv, ScansInOrder
<1>4. CASE NothingStarts /\ scans' = scans \ {p}
  <2>1. InFlightExecutes'
    BY <1>4 DEF ScanQueue, NothingStarts, InFlightExecutes
  <2>2. ExclusiveExecution' /\ QueueIsFifo'
    BY <1>4 DEF ScanQueue, NothingStarts, QueueInv, ExclusiveExecution, QueueIsFifo,
                Executing, Current
  <2>3. ScansInOrder'
    BY <1>4 DEF ScanQueue, NothingStarts, QueueInv, ScansInOrder, Current, consumer
  <2> QED
    BY <1>1, <2>1, <2>2, <2>3 DEF QueueInv
<1>5. ASSUME NEW t \in Tool, IsNextToStart(p, t), ExecuteTool(t),
             scans' = (scans \ {p}) \cup {t + 1} \cup Rescan(t)
      PROVE  IInv'
  <2>1. InFlightExecutes'
    BY <1>5, ExecuteKeepsRegistry DEF ScanQueue, IsNextToStart, Startable
  <2>2. scans' \subseteq scans \cup {first, t + 1}
    BY <1>5 DEF Rescan
  <2>3. QueueInv'
    BY <1>2, <1>3, <1>5, <2>2, StartKeepsQueue DEF ScanQueue, consumer
  <2> QED
    BY <1>1, <2>1, <2>3
<1> QED
  BY <1>4, <1>5 DEF ScanQueue

LEMMA InvDrainScan == ASSUME IInv, DrainScan PROVE IInv'
<1> USE DEF IInv
<1>1. TypeOK'
  BY TypeDrainScan
<1>2. pos \in 1..next
  BY DEF TypeOK, ConsumerType
<1>3. \A u \in Current : status[u] = "queued" => pos <= u
  BY DEF DrainScan, QueueInv, ScansInOrder
<1>4. CASE NothingStarts /\ pc' = "emit" /\ scans' = scans
  <2>1. InFlightExecutes'
    BY <1>4 DEF DrainScan, NothingStarts, InFlightExecutes
  <2>2. QueueInv'
    BY <1>4, QueueUntouched DEF DrainScan, NothingStarts, ConsumerScanKept
  <2> QED
    BY <1>1, <2>1, <2>2
<1>5. ASSUME NEW t \in Tool, IsNextToStart(pos, t), ExecuteTool(t),
             scans' = scans \cup Rescan(t), pos' = t + 1
      PROVE  IInv'
  <2>1. InFlightExecutes'
    BY <1>5, ExecuteKeepsRegistry DEF DrainScan, IsNextToStart, Startable
  <2>2. scans' \subseteq scans \cup {first, t + 1}
    BY <1>5 DEF Rescan
  <2>3. QueueInv'
    BY <1>2, <1>3, <1>5, <2>2, StartKeepsQueue DEF DrainScan
  <2> QED
    BY <1>1, <2>1, <2>3
<1> QED
  BY <1>4, <1>5 DEF DrainScan

LEMMA InvCollect == ASSUME IInv, NEW t \in Tool, Collect(t) PROVE IInv'
<1> USE DEF IInv
<1>1. TypeOK'
  BY TypeCollect
<1>2. /\ UNCHANGED <<kind, next, first, pc, pos>>
      /\ t \in inFlight /\ first \in Nat
  BY DEF Collect, TypeOK, QueueType
<1>3. CASE Abandons(t) /\ ~(t < first)
  <2>1. /\ status[t] = "executing" /\ status' = [status EXCEPT ![t] = "completed"]
        /\ scans' = scans \cup {first} /\ inFlight' = inFlight \ {t}
    BY <1>2, <1>3, ExecutorConstants DEF Collect, Leave, InFlightExecutes, Tool
  <2>2. QueueInv'
    BY <1>2, <2>1, ToolAdvances DEF ConsumerScanKept
  <2>3. InFlightExecutes'
    BY <1>2, <2>1 DEF InFlightExecutes, TypeOK, QueueType, ControllerType
  <2> QED
    BY <1>1, <2>2, <2>3
<1>4. CASE ~Abandons(t) \/ t < first
  <2>1. UNCHANGED <<status, scans>> /\ inFlight' \subseteq inFlight
    BY <1>4 DEF Collect, Leave
  <2>2. QueueInv'
    BY <1>2, <2>1, QueueUntouched DEF ConsumerScanKept
  <2>3. InFlightExecutes'
    BY <1>2, <2>1 DEF InFlightExecutes
  <2> QED
    BY <1>1, <2>2, <2>3
<1> QED
  BY <1>3, <1>4

LEMMA InvEndCollect == ASSUME IInv, NEW t \in Tool, EndCollect(t) PROVE IInv'
<1> USE DEF IInv
<1>1. TypeOK'
  BY TypeEndCollect
<1>2. /\ UNCHANGED <<kind, next, first, pc, pos>>
      /\ t \in inFlight /\ first \in Nat
  BY DEF EndCollect, consumer, TypeOK, QueueType
<1>3. CASE ~(t < first)
  <2>1. /\ status[t] = "executing" /\ status' = [status EXCEPT ![t] = "completed"]
        /\ scans' = scans \cup {first} /\ inFlight' = inFlight \ {t}
    BY <1>2, <1>3, ExecutorConstants DEF EndCollect, Leave, InFlightExecutes, Tool
  <2>2. QueueInv'
    BY <1>2, <2>1, ToolAdvances DEF ConsumerScanKept
  <2>3. InFlightExecutes'
    BY <1>2, <2>1 DEF InFlightExecutes, TypeOK, QueueType, ControllerType
  <2> QED
    BY <1>1, <2>2, <2>3
<1>4. CASE t < first
  <2>1. UNCHANGED <<status, scans>> /\ inFlight' \subseteq inFlight
    BY <1>4 DEF EndCollect, Leave
  <2>2. QueueInv'
    BY <1>2, <2>1, QueueUntouched DEF ConsumerScanKept
  <2>3. InFlightExecutes'
    BY <1>2, <2>1 DEF InFlightExecutes
  <2> QED
    BY <1>1, <2>2, <2>3
<1> QED
  BY <1>3, <1>4

LEMMA InvEmitTool == ASSUME IInv, NEW t \in Tool, EmitTool(t) PROVE IInv'
<1> USE DEF IInv
<1>1. TypeOK'
  BY TypeEmitTool
<1>2. /\ status[t] = "completed" /\ status' = [status EXCEPT ![t] = "yielded"]
      /\ UNCHANGED <<kind, next, first, scans, inFlight>> /\ pc' # "scan"
  BY DEF EmitTool
<1>3. QueueInv'
  BY <1>2, ToolAdvances DEF ConsumerScanKept
<1>4. InFlightExecutes'
  BY <1>2 DEF InFlightExecutes, TypeOK, QueueType, ControllerType
<1> QED
  BY <1>1, <1>3, <1>4

\* Two executors meet: the old one's queue is dropped, the new one's is empty.
LEMMA DiscardKeepsInv ==
    ASSUME IInv, Discard, UNCHANGED <<kind, next, inFlight>>, pc' # "scan"
    PROVE  InFlightExecutes' /\ QueueInv'
<1> USE DEF IInv
<1>1. /\ first' = next /\ Current' = {} /\ scans' = {}
      /\ status' = [t \in Tool |-> IF t \in Current THEN "yielded" ELSE status[t]]
  BY DEF Discard, Current, TypeOK, QueueType
<1>2. InFlightExecutes'
  BY <1>1, InFlightArrived, ExecutorConstants DEF InFlightExecutes, TypeOK, QueueType, ControllerType, Tool
<1>3. Executing' = {}
  <2>1. ASSUME NEW t \in Tool PROVE status'[t] # "executing"
    <3>1. t < first \/ t \in Current \/ t >= next
      BY ExecutorConstants DEF Current, TypeOK, QueueType, Tool
    <3> QED
      BY <1>1, <3>1 DEF TypeOK, QueueType
  <2> QED
    BY <2>1 DEF Executing
<1>4. QueueInv'
  BY <1>1, <1>3 DEF QueueInv, ExclusiveExecution, QueueIsFifo, ScansInOrder
<1> QED
  BY <1>2, <1>4

LEMMA InvMessageArrives ==
    ASSUME IInv, NEW n \in 0..MaxBlocks, MessageArrives(n) PROVE IInv'
<1> USE DEF IInv
<1>1. TypeOK'
  BY TypeMessageArrives
<1>2. UNCHANGED <<kind, next, inFlight>> /\ pc' # "scan"
  BY DEF MessageArrives
<1>3. CASE fellBack
  BY <1>1, <1>2, <1>3, DiscardKeepsInv DEF MessageArrives
<1>4. CASE ~fellBack
  <2>1. UNCHANGED <<first, status, scans>>
    BY <1>4 DEF MessageArrives
  <2>2. QueueInv'
    BY <1>2, <2>1, QueueUntouched DEF ConsumerScanKept
  <2>3. InFlightExecutes'
    BY <1>2, <2>1 DEF InFlightExecutes
  <2> QED
    BY <1>1, <2>2, <2>3
<1> QED
  BY <1>3, <1>4

LEMMA InvModelFallback == ASSUME IInv, ModelFallback PROVE IInv'
<1> USE DEF IInv
<1>1. TypeOK'
  BY TypeModelFallback
<1>2. UNCHANGED <<kind, next, inFlight>> /\ pc' # "scan" /\ Discard
  BY DEF ModelFallback, consumer
<1> QED
  BY <1>1, <1>2, DiscardKeepsInv

\* The actions that touch neither the queue nor the registry.
LEMMA ElsewhereKeepsInv ==
    ASSUME IInv, TypeOK', UNCHANGED <<kind, next, first, status, scans, inFlight>>,
           ConsumerScanKept
    PROVE  IInv'
<1>1. QueueInv'
  BY QueueUntouched
<1>2. InFlightExecutes'
  BY DEF IInv, InFlightExecutes
<1> QED
  BY <1>1, <1>2 DEF IInv

LEMMA NextInv == ASSUME IInv, [Next]_vars PROVE IInv'
<1> USE DEF IInv
<1>1. CASE AddTool
  BY <1>1, InvAddTool
<1>2. CASE EndPass
  BY <1>2, TypeEndPass, ElsewhereKeepsInv DEF EndPass, ConsumerScanKept
<1>3. CASE DrainScan
  BY <1>3, InvDrainScan
<1>4. CASE Wake
  BY <1>4, TypeWake, ElsewhereKeepsInv DEF Wake, ConsumerScanKept
<1>5. ASSUME NEW p \in 1..(N + 1), ScanQueue(p) PROVE IInv'
  BY <1>5, InvScanQueue
<1>6. ASSUME NEW t \in Tool, Collect(t) PROVE IInv'
  BY <1>6, InvCollect
<1>7. ASSUME NEW t \in Tool, EndCollect(t) PROVE IInv'
  BY <1>7, InvEndCollect
<1>8. ASSUME NEW t \in Tool, EmitTool(t) PROVE IInv'
  BY <1>8, InvEmitTool
<1>19. ASSUME NEW t \in Tool, EmitProgress(t) PROVE IInv'
  BY <1>19, TypeEmitProgress, ElsewhereKeepsInv DEF EmitProgress, ConsumerScanKept
<1>20. CASE Resume
  BY <1>20, TypeResume, ElsewhereKeepsInv DEF Resume, ConsumerScanKept
<1>21. CASE ConsumerLeaves
  BY <1>21, TypeConsumerLeaves, ElsewhereKeepsInv DEF ConsumerLeaves, ConsumerScanKept
<1>9. ASSUME NEW S \in SUBSET Tool, Settle(S) PROVE IInv'
  BY <1>9, TypeSettle, ElsewhereKeepsInv DEF Settle, ConsumerScanKept, consumer
<1>10. ASSUME NEW t \in Tool, ReportProgress(t) PROVE IInv'
  BY <1>10, TypeReportProgress, ElsewhereKeepsInv DEF ReportProgress, ConsumerScanKept, consumer
<1>11. ASSUME NEW n \in 0..MaxBlocks, MessageArrives(n) PROVE IInv'
  BY <1>11, InvMessageArrives
<1>12. CASE StreamingFallback
  BY <1>12, TypeStreamingFallback, ElsewhereKeepsInv
     DEF StreamingFallback, ConsumerScanKept, consumer
<1>13. CASE ModelFallback
  BY <1>13, InvModelFallback
<1>14. CASE ModelError
  BY <1>14, TypeModelError, ElsewhereKeepsInv DEF ModelError, ConsumerScanKept
<1>15. CASE StreamEnds
  BY <1>15, TypeStreamEnds, ElsewhereKeepsInv DEF StreamEnds, ConsumerScanKept
<1>16. ASSUME NEW reason \in TurnReasons, AbortTurn(reason) PROVE IInv'
  BY <1>16, TypeAbortTurn, ElsewhereKeepsInv DEF AbortTurn, ConsumerScanKept, consumer
<1>17. ASSUME NEW t \in Tool, CancelInFlightTool(t) \/ RejectPermission(t) PROVE IInv'
  <2>1. PICK reason \in Reasons : AbortOne(t, reason)
    BY <1>17 DEF CancelInFlightTool, RejectPermission, Reasons, TurnReasons
  <2> QED
    BY <2>1, TypeAbortOne, ElsewhereKeepsInv DEF AbortOne, ConsumerScanKept, consumer
<1>18. CASE UNCHANGED vars
  BY <1>18, ElsewhereKeepsInv
     DEF vars, consumer, attempt, ConsumerScanKept, TypeOK, QueueType, LoopType,
         ControllerType, ConsumerType, RecordType
<1> QED
  BY <1>1, <1>2, <1>3, <1>4, <1>5, <1>6, <1>7, <1>8, <1>9, <1>10, <1>11, <1>12, <1>13,
     <1>14, <1>15, <1>16, <1>17, <1>18, <1>19, <1>20, <1>21 DEF Next, Terminated

\* Every reachable state satisfies the inductive invariant.
THEOREM Invariant == Spec => []IInv
<1>1. Init => IInv
  BY InitInv
<1>2. IInv /\ [Next]_vars => IInv'
  BY NextInv
<1> QED
  BY <1>1, <1>2, PTL DEF Spec

\* The variables of the executor, its registry and its consumer keep their types,
\* whatever is aborted, discarded or late: no loop ever stands past the queue.
THEOREM TypeCorrect == Spec => []TypeOK
<1>1. IInv => TypeOK
  BY DEF IInv
<1> QED
  BY <1>1, Invariant, PTL

\* A tool that is not concurrency-safe has status 'executing' alone, for any
\* number of tools and any interleaving of the calls of processQueue().
THEOREM Exclusive == Spec => []ExclusiveExecution
<1>1. IInv => ExclusiveExecution
  BY DEF IInv, QueueInv
<1> QED
  BY <1>1, Invariant, PTL

\* Tools start in the order of their blocks, for any number of tools.
THEOREM Fifo == Spec => []QueueIsFifo
<1>1. IInv => QueueIsFifo
  BY DEF IInv, QueueInv
<1> QED
  BY <1>1, Invariant, PTL

\* The in-flight registry names, of the current executor, only executing tools.
THEOREM RegistryExact == Spec => []InFlightExecutes
<1>1. IInv => InFlightExecutes
  BY DEF IInv
<1> QED
  BY <1>1, Invariant, PTL
=============================================================================
