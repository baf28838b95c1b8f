---------------------------- MODULE PublishedRuns ----------------------------
(***************************************************************************)
(* Runs of published workflows: commands/workflows/publishedRunProtocol.ts.*)
(*                                                                         *)
(* Every operation is served by a process of its own (one command of the   *)
(* CLI).  A process takes the lock of the runtime registry, loads the      *)
(* registry, checks the request against it, changes its copy, writes the   *)
(* copy back with an atomic rename and releases the lock.  A decision that *)
(* allows an agent to run writes twice: an attempt of unknown outcome      *)
(* before the agent is started, the outcome after it ended.  A process may *)
(* die, or fail to write, at any point; a client may send any request any  *)
(* number of times.                                                        *)
(*                                                                         *)
(* A workflow is a sequence of node kinds: "auto" nodes and "condition"    *)
(* nodes are run at once, an "approval" node waits for a person, an        *)
(* "agent" node waits for the permission to start the agent and, each time *)
(* the agent asks for one, for the permission to use a tool.  What nodes   *)
(* compute, evidence, artifacts and digests of unchanged data are left     *)
(* out.  History variables: births, dispatched and told.                   *)
(***************************************************************************)
EXTENDS Naturals, Sequences, FiniteSets

CONSTANTS
    Procs,         \* processes that serve requests
    Keys,          \* idempotency keys
    RunIds,        \* run ids, a hash of the request that starts the run
    Requests,      \* the requests clients send
    Flow,          \* the nodes of each published version of the workflow
    MaxReceipts,   \* receipts the registry retains (500)
    MaxRuns,       \* runs the registry retains (500)
    MaxRev,        \* bound: no agent asks for a tool from this revision on
    MaxFaults,     \* bound: crashes, failed writes, locks a live process loses
    MaxAnswers,    \* bound: different answers after which no client asks
    Free, Stale    \* nobody has the lock; its lock is there but not its owner

Kinds == {"auto", "condition", "approval", "agent"}

Scopes == {"human_approval", "step_execution", "runtime_tool"}

Versions == DOMAIN Flow

\* The requests, as the parsers of the protocol accept them.  The field new
\* is the id the hash gives to the run that the request starts.
RequestShapes ==
    [op: {"enable"}, key: Keys, version: Versions]
    \cup [op: {"invoke"}, key: Keys, version: Versions, r12: BOOLEAN, new: RunIds]
    \cup [op: {"retry"}, key: Keys, version: Versions, run: RunIds, new: RunIds]
    \cup [op: {"cancel"}, key: Keys, version: Versions, run: RunIds, rev: Nat]
    \cup [op: {"decide"}, key: Keys, version: Versions, run: RunIds, rev: Nat,
          node: Nat, scope: Scopes, grant: BOOLEAN]

Starting == {r \in Requests : r.op \in {"invoke", "retry"}}

ASSUME RequestAssumption ==
    /\ Requests \subseteq RequestShapes
    /\ \A r, s \in Starting : r.new = s.new => r.op = s.op /\ r.key = s.key

ASSUME FlowAssumption ==
    /\ Versions \subseteq Nat \ {0}
    /\ \A v \in Versions : Flow[v] \in Seq(Kinds)

ASSUME BoundAssumption ==
    /\ MaxReceipts \in Nat \ {0}
    /\ MaxRuns \in Nat \ {0}
    /\ {MaxRev, MaxFaults, MaxAnswers} \subseteq Nat

ASSUME LockAssumption ==
    /\ Free \notin Procs
    /\ Stale \notin Procs \cup {Free}

VARIABLES
    published,   \* the version the publication registry holds, 0 before the first
    disk,        \* the runtime registry as the last rename left it
    lock,        \* who has the lock of the runtime registry
    pc,          \* where a process is
    req,         \* the request it serves
    mem,         \* the registry it loaded, with its changes
    reply,       \* the receipt it is about to print
    faults,      \* crashes and failed writes so far
    lapses,      \* locks lost by live processes so far
    births,      \* history: how many runs of this id were started
    dispatched,  \* history: the executions handed to an agent
    told         \* history: the receipts clients have received

vars == <<published, disk, lock, pc, req, mem, reply,
          faults, lapses, births, dispatched, told>>

-----------------------------------------------------------------------------
(* The registry.                                                           *)

States == {"waiting", "running", "completed", "failed", "cancelled"}

Terminal == {"completed", "failed", "cancelled"}

StepStates == {"pending", "waiting", "completed", "failed", "cancelled", "skipped"}

\* The id of a wait hashes the node, the scope and the revision it was
\* created under.
WaitShape == [node: Nat, scope: Scopes, rev: Nat]

NoWait == [node |-> 0, scope |-> "human_approval", rev |-> 0]

AttemptShape == [wait: WaitShape, status: {"unknown", "waiting", "completed", "failed"}]

RunShape ==
    [id: RunIds, birth: Nat, version: Versions, r12: BOOLEAN, rev: Nat,
     state: States, steps: Seq(StepStates), wait: WaitShape,
     decided: SUBSET Requests, attempts: Seq(AttemptShape)]

\* What a resumed run starts from: the frozen workflow, and the tool its
\* agent has asked for (0: none; otherwise the revision it asked under).
CheckpointShape == [version: Versions, tool: Nat]

NoCheckpoint == [version |-> 0, tool |-> 0]

Answers == [run: RunIds \cup {Free}, birth: Nat, state: States \cup {"enabled"}, rev: Nat]

\* A receipt and its idempotency record, which retention keeps together.
ReceiptShape == [req: Requests, answer: Answers]

NoReply == [req |-> Free, answer |-> Free]

Registry ==
    [enabled: Versions \cup {0}, runs: Seq(RunShape), receipts: Seq(ReceiptShape),
     checkpoints: [RunIds -> CheckpointShape \cup {NoCheckpoint}]]

EmptyRegistry ==
    [enabled |-> 0, runs |-> << >>, receipts |-> << >>,
     checkpoints |-> [i \in RunIds |-> NoCheckpoint]]

\* unshift, then retain the newest n.  What is sorted is the time at which the
\* request arrived; the model takes it to be the order in which it was served.
Newest(x, s, n) ==
    [k \in 1..(IF Len(s) < n THEN Len(s) + 1 ELSE n) |-> IF k = 1 THEN x ELSE s[k - 1]]

Found(g, i) == {k \in DOMAIN g.runs : g.runs[k].id = i}

\* The newest run of an id.
RunOf(g, i) ==
    g.runs[CHOOSE k \in Found(g, i) : \A l \in Found(g, i) : k <= l]

\* The newest run of the id is changed where it stands.
InPlace(g, run) ==
    [k \in DOMAIN g.runs |->
       IF g.runs[k].id = run.id /\ \A l \in Found(g, run.id) : k <= l
       THEN run ELSE g.runs[k]]

\* Every run of the id becomes this one.
Replaced(runs, run) == [k \in DOMAIN runs |-> IF runs[k].id = run.id THEN run ELSE runs[k]]

\* The receipts under the idempotency key of a request.
Prior(g, r) ==
    {k \in DOMAIN g.receipts : g.receipts[k].req.op = r.op /\ g.receipts[k].req.key = r.key}

AnswerOf(run) ==
    [run |-> run.id, birth |-> run.birth, state |-> run.state, rev |-> run.rev]

-----------------------------------------------------------------------------
(* Running nodes.                                                          *)

Marked(steps, lo, hi, s) == [k \in DOMAIN steps |-> IF k \in lo..hi THEN s ELSE steps[k]]

Waits(kind) == kind \in {"approval", "agent"}

\* The first node from here on that waits, or the end.
StopFrom(flow, from) ==
    CHOOSE j \in from..(Len(flow) + 1) :
        /\ j <= Len(flow) => Waits(flow[j])
        /\ \A k \in from..(j - 1) : ~Waits(flow[k])

FailedAt(run, n) ==
    [run EXCEPT !.state = "failed", !.steps = Marked(@, n, n, "failed"), !.wait = NoWait]

Parked(run, n, scope) ==
    [run EXCEPT !.state = "waiting",
                !.steps = Marked(@, n, n, "waiting"),
                !.wait = IF run.r12 THEN [node |-> n, scope |-> scope, rev |-> run.rev]
                                    ELSE NoWait]

\* The nodes from here on are run: to the next node that waits or to the end;
\* a node may fail, and a condition that does not hold skips the rest.
Advanced(run, from) ==
    LET flow == Flow[run.version]
        stop == StopFrom(flow, from)
        upTo(n) == [run EXCEPT !.steps = Marked(@, from, n, "completed"), !.wait = NoWait]
    IN  {IF stop > Len(flow)
         THEN [upTo(stop - 1) EXCEPT !.state = "completed"]
         ELSE Parked(upTo(stop - 1), stop,
                     IF flow[stop] = "agent" THEN "step_execution" ELSE "human_approval")}
        \cup {FailedAt(upTo(n - 1), n) : n \in from..(stop - 1)}
        \cup {[upTo(n) EXCEPT !.state = "completed",
                              !.steps = Marked(@, n + 1, Len(flow), "skipped")] :
                n \in {k \in from..(stop - 1) : flow[k] = "condition"}}

\* A run is started: revision 1 under the protocol with decisions, 0 before.
Started(id, version, r12) ==
    Advanced([id |-> id, birth |-> births[id] + 1, version |-> version, r12 |-> r12,
              rev |-> IF r12 THEN 1 ELSE 0, state |-> "running",
              steps |-> [k \in DOMAIN Flow[version] |-> "pending"],
              wait |-> NoWait, decided |-> {}, attempts |-> << >>], 1)

-----------------------------------------------------------------------------
(* The lock, faults and the publication registry.                          *)

Inside == {"loaded", "granted", "executing", "done"}

\* publishWorkflowDraft: the next version replaces the current one.  All of it
\* is one synchronous piece of code under a lock of its own.
Publish ==
    /\ published + 1 \in Versions
    /\ published' = published + 1
    /\ UNCHANGED <<disk, lock, pc, req, mem, reply, faults, lapses, births, dispatched, told>>

\* Clients name runs they have been told of, and decide about waits they have
\* seen: no revision of a run is known before the run has reached it.
HasSeen(r) ==
    /\ r.op \in {"retry", "cancel", "decide"} => births[r.run] > 0
    /\ r.op \in {"cancel", "decide"} =>
        \/ births[r.run] > 1
        \/ \A k \in Found(disk, r.run) : r.rev <= disk.runs[k].rev

\* A request arrives.  Enable, invoke and retry read the publication registry
\* first, and refuse a version that is not the current one.
Submit(p, r) ==
    /\ pc[p] = "idle"
    /\ Cardinality(told) < MaxAnswers
    /\ HasSeen(r)
    /\ r.op \in {"enable", "invoke", "retry"} => r.version = published
    /\ pc' = [pc EXCEPT ![p] = "locking"]
    /\ req' = [req EXCEPT ![p] = r]
    /\ UNCHANGED <<published, disk, lock, mem, reply, faults, lapses, births, dispatched, told>>

\* Mutant: a lock is taken whoever has it.
Acquire_Steals(p) ==
    /\ pc[p] = "locking"
    /\ lock' = p
    /\ mem' = [mem EXCEPT ![p] = disk]
    /\ pc' = [pc EXCEPT ![p] = "loaded"]
    /\ UNCHANGED <<published, disk, req, reply, faults, lapses, births, dispatched, told>>

\* The lock is free, or has not been refreshed for ten seconds; the registry
\* is loaded at once.
Acquire(p) ==
    /\ pc[p] = "locking"
    /\ lock \in {Free, Stale}
    /\ lock' = p
    /\ mem' = [mem EXCEPT ![p] = disk]
    /\ pc' = [pc EXCEPT ![p] = "loaded"]
    /\ UNCHANGED <<published, disk, req, reply, faults, lapses, births, dispatched, told>>

\* The process ends; nothing it had in memory is left.
Ends(p) ==
    /\ pc' = [pc EXCEPT ![p] = "idle"]
    /\ req' = [req EXCEPT ![p] = Free]
    /\ mem' = [mem EXCEPT ![p] = EmptyRegistry]
    /\ reply' = [reply EXCEPT ![p] = NoReply]

\* The lock is taken at each of the nine tries: runtime_unavailable.
GiveUp(p) ==
    /\ pc[p] = "locking"
    /\ lock # Free
    /\ Ends(p)
    /\ UNCHANGED <<published, disk, lock, faults, lapses, births, dispatched, told>>

\* The work is over: the lock is released, the receipt printed.
Release(p) ==
    /\ pc[p] = "done"
    /\ lock' = IF lock = p THEN Free ELSE lock
    /\ told' = IF reply[p] = NoReply THEN told ELSE told \cup {reply[p]}
    /\ Ends(p)
    /\ UNCHANGED <<published, disk, faults, lapses, births, dispatched>>

\* The work under the lock is over, with what there is to print; its copy of
\* the registry is not used again.
Done(p, receipt) ==
    /\ pc' = [pc EXCEPT ![p] = "done"]
    /\ mem' = [mem EXCEPT ![p] = EmptyRegistry]
    /\ reply' = [reply EXCEPT ![p] = receipt]

\* The process dies; its lock stays and grows stale.
Crash(p) ==
    /\ pc[p] # "idle"
    /\ faults + lapses < MaxFaults
    /\ faults' = faults + 1
    /\ lock' = IF lock = p THEN Stale ELSE lock
    /\ Ends(p)
    /\ UNCHANGED <<published, disk, lapses, births, dispatched, told>>

\* The registry cannot be written (or the work throws): nothing is renamed,
\* the lock is released, the client is told runtime_unavailable.
WriteFails(p) ==
    /\ pc[p] \in {"loaded", "granted", "executing"}
    /\ faults + lapses < MaxFaults
    /\ faults' = faults + 1
    /\ Done(p, NoReply)
    /\ UNCHANGED <<published, disk, lock, req, lapses, births, dispatched, told>>

\* A live process does not refresh its lock in time (its machine slept): the
\* lock is stale, and the process is not stopped, because an uncaught
\* exception is only logged.
Lapse(p) ==
    /\ pc[p] \in Inside
    /\ lock = p
    /\ faults + lapses < MaxFaults
    /\ lapses' = lapses + 1
    /\ lock' = Stale
    /\ UNCHANGED <<published, disk, pc, req, mem, reply, faults, births, dispatched, told>>

-----------------------------------------------------------------------------
(* The operations, under the lock.                                         *)

\* The key was used by this very request: its receipt is printed again.
Replay(p) ==
    /\ pc[p] = "loaded"
    /\ \E k \in Prior(mem[p], req[p]) :
        /\ mem[p].receipts[k].req = req[p]
        /\ Done(p, mem[p].receipts[k])
    /\ UNCHANGED <<published, disk, lock, req, faults, lapses, births, dispatched, told>>

\* The run the request names is there, with the identity it names.
Names(g, r) == Found(g, r.run) # {} /\ RunOf(g, r.run).version = r.version

MayInvoke(g, r) == r.op = "invoke" /\ g.enabled = r.version

MayRetry(g, r) ==
    /\ r.op = "retry"
    /\ Names(g, r)
    /\ RunOf(g, r.run).state \in {"failed", "cancelled"}

\* Mutant: a run that failed can be cancelled.
MayCancel_Failed(g, r) ==
    /\ r.op = "cancel"
    /\ Names(g, r)
    /\ RunOf(g, r.run).r12 => RunOf(g, r.run).rev = r.rev
    /\ RunOf(g, r.run).state \in {"waiting", "failed"}

MayCancel(g, r) ==
    /\ r.op = "cancel"
    /\ Names(g, r)
    /\ RunOf(g, r.run).r12 => RunOf(g, r.run).rev = r.rev
    /\ RunOf(g, r.run).state = "waiting"

\* The decision is for the wait that is pending at the current revision, was
\* not recorded before, and the run can be resumed.
MayDecide(g, r) ==
    /\ r.op = "decide"
    /\ Names(g, r)
    /\ LET run == RunOf(g, r.run)
       IN  /\ run.r12
           /\ \A d \in run.decided : d.key # r.key
           /\ run.state = "waiting"
           /\ run.rev = r.rev
           /\ run.wait # NoWait
           /\ run.wait.node = r.node
           /\ run.wait.scope = r.scope
           /\ g.checkpoints[run.id].version = run.version

MayServe(g, r) ==
    \/ r.op = "enable"
    \/ MayInvoke(g, r)
    \/ MayRetry(g, r)
    \/ MayCancel(g, r)
    \/ MayDecide(g, r)

\* Any other request is refused and changes nothing; so is the start of a run
\* whose agents cannot be frozen.
Refuse(p) ==
    /\ pc[p] = "loaded"
    /\ IF Prior(mem[p], req[p]) = {}
       THEN ~MayServe(mem[p], req[p]) \/ req[p].op = "invoke"
       ELSE \A k \in Prior(mem[p], req[p]) : mem[p].receipts[k].req # req[p]
    /\ Done(p, NoReply)
    /\ UNCHANGED <<published, disk, lock, req, faults, lapses, births, dispatched, told>>

\* The copy becomes the registry, with the receipt of the request in front.
Save(p, g, answer) ==
    LET receipt == [req |-> req[p], answer |-> answer]
    IN  /\ disk' = [g EXCEPT !.receipts = Newest(receipt, @, MaxReceipts)]
        /\ Done(p, receipt)

Enable(p) ==
    /\ pc[p] = "loaded"
    /\ Prior(mem[p], req[p]) = {}
    /\ req[p].op = "enable"
    /\ Save(p, [mem[p] EXCEPT !.enabled = req[p].version],
            [run |-> Free, birth |-> 0, state |-> "enabled", rev |-> 0])
    /\ UNCHANGED <<published, lock, req, faults, lapses, births, dispatched, told>>

\* A new run is put in front of the others; its checkpoint is stored unless
\* it has ended already.
Opened(g, run) ==
    [g EXCEPT !.runs = Newest(run, @, MaxRuns),
              !.checkpoints = IF run.r12 /\ run.state \notin Terminal
                              THEN [@ EXCEPT ![run.id] = [version |-> run.version, tool |-> 0]]
                              ELSE @]

Invoke(p) ==
    /\ pc[p] = "loaded"
    /\ Prior(mem[p], req[p]) = {}
    /\ MayInvoke(mem[p], req[p])
    /\ \E run \in Started(req[p].new, req[p].version, req[p].r12) :
        Save(p, Opened(mem[p], run), AnswerOf(run))
    /\ births' = [births EXCEPT ![req[p].new] = @ + 1]
    /\ UNCHANGED <<published, lock, req, faults, lapses, dispatched, told>>

Retry(p) ==
    /\ pc[p] = "loaded"
    /\ Prior(mem[p], req[p]) = {}
    /\ MayRetry(mem[p], req[p])
    /\ \E run \in Started(req[p].new, req[p].version, RunOf(mem[p], req[p].run).r12) :
        Save(p, Opened(mem[p], run), AnswerOf(run))
    /\ births' = [births EXCEPT ![req[p].new] = @ + 1]
    /\ UNCHANGED <<published, lock, req, faults, lapses, dispatched, told>>

\* Mutant: the session an agent leaves is not kept.
Updated_ForgetsSession(g, run, tool) ==
    [g EXCEPT !.runs = Replaced(@, run),
              !.checkpoints[run.id] = IF run.state \in Terminal THEN NoCheckpoint ELSE @]

\* The run takes the place of its older self; the checkpoint of a run that
\* ended is deleted.
Updated(g, run, tool) ==
    [g EXCEPT !.runs = Replaced(@, run),
              !.checkpoints[run.id] = IF run.state \in Terminal THEN NoCheckpoint
                                      ELSE [version |-> run.version, tool |-> tool]]

\* Mutant: a cancellation does not take a revision.
Cancel_SameRevision(p) ==
    /\ pc[p] = "loaded"
    /\ Prior(mem[p], req[p]) = {}
    /\ MayCancel(mem[p], req[p])
    /\ LET old == RunOf(mem[p], req[p].run)
           run == [old EXCEPT !.state = "cancelled", !.wait = NoWait,
                              !.steps = [k \in DOMAIN @ |->
                                           IF @[k] \in {"pending", "waiting"}
                                           THEN "cancelled" ELSE @[k]]]
       IN  Save(p, Updated(mem[p], run, 0), AnswerOf(run))
    /\ UNCHANGED <<published, lock, req, faults, lapses, births, dispatched, told>>

Cancel(p) ==
    /\ pc[p] = "loaded"
    /\ Prior(mem[p], req[p]) = {}
    /\ MayCancel(mem[p], req[p])
    /\ LET old == RunOf(mem[p], req[p].run)
           run == [old EXCEPT
                     !.state = "cancelled", !.wait = NoWait,
                     !.rev = IF old.r12 THEN @ + 1 ELSE @,
                     !.steps = [k \in DOMAIN @ |-> IF @[k] \in {"pending", "waiting"}
                                                   THEN "cancelled" ELSE @[k]]]
       IN  Save(p, Updated(mem[p], run, 0), AnswerOf(run))
    /\ UNCHANGED <<published, lock, req, faults, lapses, births, dispatched, told>>

\* The run with the decision recorded: the next revision, no wait pending.
Decided(old, r) ==
    [old EXCEPT !.rev = @ + 1, !.wait = NoWait, !.decided = @ \cup {r}]

\* The tool that is waited for is the one the frozen session asked for.
ToolMatches(g, old) ==
    old.wait.scope = "runtime_tool" => g.checkpoints[old.id].tool = old.wait.rev

\* A decision that needs no agent: a refusal fails the run, an approval runs
\* the nodes that follow, a tool that does not match its session fails it.
Decide(p) ==
    /\ pc[p] = "loaded"
    /\ Prior(mem[p], req[p]) = {}
    /\ MayDecide(mem[p], req[p])
    /\ LET old == RunOf(mem[p], req[p].run)
           new == Decided(old, req[p])
       IN  \E run \in IF ~req[p].grant THEN {FailedAt(new, old.wait.node)}
                      ELSE IF old.wait.scope = "human_approval"
                           THEN Advanced([new EXCEPT !.steps =
                                            Marked(@, old.wait.node, old.wait.node, "completed")],
                                         old.wait.node + 1)
                      ELSE IF ToolMatches(mem[p], old) THEN {}
                      ELSE {FailedAt(new, old.wait.node)} :
               Save(p, Updated(mem[p], run, 0), AnswerOf(run))
    /\ UNCHANGED <<published, lock, req, faults, lapses, births, dispatched, told>>

\* Mutant: the attempt is not saved before the agent is started.
WriteAhead_InMemory(p) ==
    /\ pc[p] = "loaded"
    /\ Prior(mem[p], req[p]) = {}
    /\ MayDecide(mem[p], req[p])
    /\ req[p].grant
    /\ LET old == RunOf(mem[p], req[p].run)
           run == [Decided(old, req[p]) EXCEPT
                     !.state = "running",
                     !.attempts = Append(@, [wait |-> old.wait, status |-> "unknown"])]
           saved == [mem[p] EXCEPT !.runs = InPlace(mem[p], run)]
       IN  /\ old.wait.scope # "human_approval"
           /\ ToolMatches(mem[p], old)
           /\ disk' = disk
           /\ mem' = [mem EXCEPT ![p] = saved]
    /\ pc' = [pc EXCEPT ![p] = "granted"]
    /\ UNCHANGED <<published, lock, req, reply, faults, lapses, births, dispatched, told>>

\* Mutant: the attempt is saved before it is marked.
WriteAhead_Prepared(p) ==
    /\ pc[p] = "loaded"
    /\ Prior(mem[p], req[p]) = {}
    /\ MayDecide(mem[p], req[p])
    /\ req[p].grant
    /\ LET old == RunOf(mem[p], req[p].run)
           run == [Decided(old, req[p]) EXCEPT
                     !.state = "running",
                     !.attempts = Append(@, [wait |-> old.wait, status |-> "prepared"])]
           saved == [mem[p] EXCEPT !.runs = InPlace(mem[p], run)]
       IN  /\ old.wait.scope # "human_approval"
           /\ ToolMatches(mem[p], old)
           /\ disk' = saved
           /\ mem' = [mem EXCEPT ![p] = saved]
    /\ pc' = [pc EXCEPT ![p] = "granted"]
    /\ UNCHANGED <<published, lock, req, reply, faults, lapses, births, dispatched, told>>

\* A decision that allows the agent to run is first recorded with an attempt
\* of unknown outcome, without a receipt.
WriteAhead(p) ==
    /\ pc[p] = "loaded"
    /\ Prior(mem[p], req[p]) = {}
    /\ MayDecide(mem[p], req[p])
    /\ req[p].grant
    /\ LET old == RunOf(mem[p], req[p].run)
           run == [Decided(old, req[p]) EXCEPT
                     !.state = "running",
                     !.attempts = Append(@, [wait |-> old.wait, status |-> "unknown"])]
           saved == [mem[p] EXCEPT !.runs = InPlace(mem[p], run)]
       IN  /\ old.wait.scope # "human_approval"
           /\ ToolMatches(mem[p], old)
           /\ disk' = saved
           /\ mem' = [mem EXCEPT ![p] = saved]
    /\ pc' = [pc EXCEPT ![p] = "granted"]
    /\ UNCHANGED <<published, lock, req, reply, faults, lapses, births, dispatched, told>>

\* The last attempt of a run, which an executing process is about to settle.
LastAttempt(run) == run.attempts[Len(run.attempts)]

\* The agent is started: from here on its effects cannot be taken back.
Dispatch(p) ==
    /\ pc[p] = "granted"
    /\ LET run == RunOf(mem[p], req[p].run)
       IN  dispatched' = Append(dispatched, [run |-> run.id, birth |-> run.birth,
                                             wait |-> LastAttempt(run).wait])
    /\ pc' = [pc EXCEPT ![p] = "executing"]
    /\ UNCHANGED <<published, disk, lock, req, mem, reply, faults, lapses, births, told>>

Concluded(run, status) ==
    [run EXCEPT !.attempts = [@ EXCEPT ![Len(@)].status = status]]

\* The outcomes of the execution: the agent has failed or shows evidence that
\* exceeds its grant, nobody knows, it waits for the next tool (the attempt
\* that ran the tool it had asked for is complete), or it has completed its
\* step and the nodes that follow are run.  Only the first two can happen
\* without the agent having been started.
Outcomes(run, started) ==
    LET wait == LastAttempt(run).wait
        asked == IF wait.scope = "runtime_tool" THEN "completed" ELSE "waiting"
    IN  {FailedAt(Concluded(run, s), wait.node) : s \in {"failed", "unknown"}}
        \cup IF ~started THEN {}
             ELSE (IF run.rev < MaxRev
                   THEN {Parked(Concluded(run, asked), wait.node, "runtime_tool")}
                   ELSE {})
                  \cup Advanced([Concluded(run, "completed") EXCEPT
                                   !.steps = Marked(@, wait.node, wait.node, "completed")],
                                wait.node + 1)

Finish(p) ==
    /\ pc[p] \in {"granted", "executing"}
    /\ \E run \in Outcomes(RunOf(mem[p], req[p].run), pc[p] = "executing") :
        Save(p, Updated(mem[p], run, IF run.wait.scope = "runtime_tool" THEN run.rev ELSE 0),
             AnswerOf(run))
    /\ UNCHANGED <<published, lock, req, faults, lapses, births, dispatched, told>>

-----------------------------------------------------------------------------
Init ==
    /\ published = 0
    /\ disk = EmptyRegistry
    /\ lock = Free
    /\ pc = [p \in Procs |-> "idle"]
    /\ req = [p \in Procs |-> Free]
    /\ mem = [p \in Procs |-> EmptyRegistry]
    /\ reply = [p \in Procs |-> NoReply]
    /\ faults = 0
    /\ lapses = 0
    /\ births = [i \in RunIds |-> 0]
    /\ dispatched = << >>
    /\ told = {}

Serve(p) ==
    \/ Acquire(p) \/ GiveUp(p) \/ Release(p)
    \/ Replay(p) \/ Refuse(p)
    \/ Enable(p) \/ Invoke(p) \/ Retry(p) \/ Cancel(p)
    \/ Decide(p) \/ WriteAhead(p) \/ Dispatch(p) \/ Finish(p)

Next ==
    \/ Publish
    \/ \E p \in Procs :
        \/ \E r \in Requests : Submit(p, r)
        \/ Serve(p)
        \/ Crash(p)
        \/ WriteFails(p)
        \/ Lapse(p)

Spec == Init /\ [][Next]_vars

-----------------------------------------------------------------------------
(* Properties.                                                             *)

InFlight == {"granted", "executing"}

\* Types of the variables.
TypeOK ==
    /\ published \in Versions \cup {0}
    /\ disk \in Registry
    /\ lock \in Procs \cup {Free, Stale}
    /\ pc \in [Procs -> {"idle", "locking"} \cup Inside]
    /\ req \in [Procs -> Requests \cup {Free}]
    /\ mem \in [Procs -> Registry]
    /\ reply \in [Procs -> ReceiptShape \cup {NoReply}]
    /\ faults \in Nat
    /\ lapses \in Nat
    /\ faults + lapses <= MaxFaults
    /\ births \in [RunIds -> Nat]
    /\ dispatched \in Seq([run: RunIds, birth: Nat, wait: WaitShape])
    /\ told \subseteq ReceiptShape

\* A run that waits can be taken up again: one wait is pending, created under
\* the current revision at the node that waits; the nodes before it have
\* completed and none after it has begun; the checkpoint holds the same
\* version of the workflow and the very tool that is asked about.
CanBeResumed(run) ==
    /\ run.wait.rev = run.rev
    /\ run.wait.node \in DOMAIN run.steps
    /\ \A k \in DOMAIN run.steps :
        run.steps[k] = IF k < run.wait.node THEN "completed"
                       ELSE IF k = run.wait.node THEN "waiting" ELSE "pending"
    /\ disk.checkpoints[run.id].version = run.version
    /\ run.wait.scope = "runtime_tool" => disk.checkpoints[run.id].tool = run.rev

\* A run that runs has its outcome marked unknown, and the decision that let
\* it run is on record.
IsMarkedUnknown(run) ==
    /\ run.attempts # << >>
    /\ LastAttempt(run).status = "unknown"
    /\ \E d \in run.decided : d.grant /\ d.rev + 1 = run.rev

\* A run that is over has no node that waits, and one that succeeded has done
\* or skipped every node.
HasSettled(run) ==
    /\ run.wait = NoWait
    /\ \A k \in DOMAIN run.steps : run.steps[k] # "waiting"
    /\ run.state = "completed" =>
        \A k \in DOMAIN run.steps : run.steps[k] \in {"completed", "skipped"}

\* Whatever crashes, fails to be written or is written by two processes at
\* once, the registry that is on disk describes runs that can go on, runs
\* whose outcome is marked unknown, and runs that have settled.
RegistryIsCoherent ==
    \A i \in RunIds :
        Found(disk, i) # {} =>
            LET run == RunOf(disk, i)
            IN  /\ run.r12 /\ run.state = "waiting" => CanBeResumed(run)
                /\ run.state = "running" => IsMarkedUnknown(run)
                /\ run.state \in Terminal => HasSettled(run)

\* While no live process has lost its lock, no execution is handed to an agent
\* twice in one birth of its run: not when the process that started it died, not
\* when the decision is sent again, with the same or with another key, not when
\* two decisions race.  And none is handed over that the run on disk, if it is of
\* that birth, does not record.  (A start whose receipt was forgotten, sent again,
\* gives the run another birth, in which the agent may run again.)
DispatchedOnce ==
    lapses = 0 =>
        /\ \A i, j \in DOMAIN dispatched : dispatched[i] = dispatched[j] => i = j
        /\ \A i \in DOMAIN dispatched :
            Found(disk, dispatched[i].run) # {} =>
                LET run == RunOf(disk, dispatched[i].run)
                IN  run.birth = dispatched[i].birth =>
                        \E a \in DOMAIN run.attempts : run.attempts[a].wait = dispatched[i].wait

\* While no live process has lost its lock, a request that is accepted again
\* under its idempotency key is told what it was told before, unless its run was
\* started anew in between; and of all decisions and cancellations of one birth
\* of a run, one wins each revision.
OneAnswer ==
    lapses = 0 =>
        \A a, b \in told :
            a.answer.run = b.answer.run /\ a.answer.birth = b.answer.birth =>
                /\ a.req.op = b.req.op /\ a.req.key = b.req.key /\ a.req.op # "enable"
                    => a = b
                /\ /\ {a.req.op, b.req.op} \subseteq {"cancel", "decide"}
                   /\ a.answer.rev = b.answer.rev
                   /\ a.answer.rev > 0
                   => a = b

\* While no live process has lost its lock, a run that has ended, and a run whose
\* execution was interrupted, is not changed again: it is retained as it is or
\* dropped, until the request that started it is forgotten and starts it anew, in
\* another birth.
SettledStays ==
    [][\A i \in RunIds :
        /\ lapses' = 0
        /\ Found(disk, i) # {}
        /\ Found(disk', i) # {}
        /\ births'[i] = births[i]
        /\ RunOf(disk, i).state \in Terminal \cup {"running"}
        /\ \A p \in Procs : pc[p] \in InFlight => req[p].run # i
        => RunOf(disk', i) = RunOf(disk, i)]_vars

-----------------------------------------------------------------------------
(* The registry keeps the ledger of RunLedger.                             *)

Remembered(i) ==
    \E k \in DOMAIN disk.receipts :
        disk.receipts[k].req \in Starting /\ disk.receipts[k].req.new = i

\* Was the last attempt of the run handed to an agent?
WasDispatched(run) ==
    \E k \in DOMAIN dispatched :
        dispatched[k] = [run |-> run.id, birth |-> run.birth, wait |-> LastAttempt(run).wait]

PhaseOf(run) ==
    IF run.state = "waiting" THEN "waiting"
    ELSE IF run.state \in Terminal THEN "finished"
    ELSE IF WasDispatched(run) THEN "executing" ELSE "granted"

LedgerEntry(i) ==
    IF Found(disk, i) = {}
    THEN [known |-> Remembered(i), phase |-> "none", rev |-> 0, birth |-> births[i]]
    ELSE [known |-> Remembered(i), phase |-> PhaseOf(RunOf(disk, i)),
          rev |-> RunOf(disk, i).rev, birth |-> births[i]]

Ledger == INSTANCE RunLedger WITH entry <- [i \in RunIds |-> LedgerEntry(i)]

\* While no live process has lost its lock, locks, copies, crashes, failed writes
\* and repeated requests implement the ledger: every step is one of the ledger's,
\* in which any run and any request may be forgotten, or changes nothing in it.
KeepsTheLedger ==
    /\ Ledger!LedgerInit
    /\ [][lapses' = 0 => \/ UNCHANGED [i \in RunIds |-> LedgerEntry(i)]
                         \/ Ledger!LedgerNext]_vars
=============================================================================
