# TLA+ models of Mossen

Mossen is an interactive coding agent for the terminal (TypeScript, 2466
files). Most of it is presentation, text processing and glue. This directory
models the parts where the order of things matters: what runs beside what, what
survives a kill, what is sent twice, and who waits for whom. Paths below are
relative to the repository's root (`src/` in `PROJECT.json` is that root).

## 1. Inventory

### Parts that are modelled

| Part | State | Operations | What is hard |
|---|---|---|---|
| **Streaming tool executor** `services/tools/StreamingToolExecutor.ts`, `toolCancelRegistry.ts`, `utils/abortController.ts`, the streaming part of `query.ts` | tools with status, results, progress; the suspended `processQueue()` calls; abort controllers turn → siblings → tool; the in-flight registry | `addTool`, `processQueue`, `executeTool`/`collectResults`, `getCompletedResults`, `getRemainingResults`, `discard`, `cancelInFlightTool`, streaming and model fallback, model error, ESC | Several loops over one queue suspended at awaits; cancellation from five sources; bodies that outlive their executor |
| **Memory worker lock** `memory-sidecar/src/agent/workerLoop.ts`, `releaseLock.ts` | one lock file, its owner and age | acquire with stale reclaim, touch, release (twice), operator's repair | Processes on several hosts; every file operation can be overtaken; kills, failing writes, stalls |
| **Memory agent** `memory-sidecar/src/{ingest,agent}` | four append-only logs: archive, dirty markers, checkpoints, jobs | ingest, reconcile, schedule, enqueue, run, checkpoint, retry, `jobs retry` | Kills between two appends; a session and the reconciliation racing; a worker and a command line retrying the same job |
| **Serial event uploader** `cli/transports/SerialBatchEventUploader.ts` | buffer, drain loop, resolvers of blocked and of flushing callers, `closed` | `enqueue`, `flush`, `close`, `drain` with retries and drops | Backpressure, retries that put a batch back, callers resumed later than the state they waited for |
| **Hybrid transport** `cli/transports/HybridTransport.ts` | stream event buffer and its timer | `write`, `writeBatch`, `flush`, `close` with grace period | Two buffers in a row, a timer racing writes, a close that goes on in the background |
| **Query guard and command queue** `utils/QueryGuard.ts`, `messageQueueManager.ts`, `queueProcessor.ts`, `handlePromptSubmit.ts`, `hooks/useQueueProcessor.ts`, `useCancelRequest.ts`, the turn control of `screens/REPL.tsx`, the mid-turn drain of `query.ts` | status and generation; queued commands; the calls of `executeUserInput` in progress; the current abort controller | submit, notify, incoming prompt, process queue, start, requeue, end, cancel, pop, clear, attach | Escape frees the guard while the interrupted call goes on; six takers of one queue; a turn that removes what it saw before an await |
| **Published workflow runs** `commands/workflows/publishedRunProtocol.ts`, `publicationRegistry.ts`, `publishedAgentRuntime.ts` | the runtime registry on disk (enabled version, runs with steps, waits, decisions and attempts, receipts, checkpoints), its lock, the copy of each process | `publish`, `enable`, `invoke`, `retry`, `cancel`, `decide` | Processes that read, change and rewrite one file; an agent that runs between two writes; requests sent again; bounded retention |

What makes each correct:

- *executor*: a tool that is not concurrency-safe runs alone; tools start in order; each
  `tool_use` gets one result; a cancellation reaches what it is meant for and nothing else;
  the drain ends;
- *lock*: one worker at a time; only its owner changes a lock; the lock of an ended or killed
  worker does not block the next one for ever;
- *agent*: a checkpoint never hides an event that was not worked on; a job is created once and
  run once; every event is worked on in the end;
- *uploader and transport*: what was accepted is posted in order and at least once, counted
  as dropped, or discarded by `postOnce()`; callers return; the buffer is bounded;
- *published runs*: an agent execution is dispatched at most once; one request wins each
  revision of a run, and a repeated one gets the same answer; what is on disk can be taken up
  again; a run that ended stays as it is (the first two per birth of a run, and all but the
  third while no live process has lost its lock);
- *guard and queue*: the guard is taken exactly while a turn or its preparation is in progress;
  a command vanishes by a failure only and is not answered twice; the queue keeps its order
  within a kind and a priority, and is worked off.

### Interactions

- `query.ts` hands `tool_use` blocks to the executor while the model streams
  (`addTool`), polls it (`getCompletedResults`), and drains it afterwards
  (`getRemainingResults`). `cli/print.ts` answers `tool_cancel` requests of an SDK
  client from the registry, `utils/handlePromptSubmit.ts` interrupts a turn through
  its controller. `ToolExecutor` contains both sides.
- Sessions and the memory worker share files only. `worker.lock` keeps workers
  apart (`MemoryWorkerLock`); the logs are shared with sessions and with command
  lines that take no lock (`MemoryAgent`, which takes "one worker at a time" from
  the lock's model).
- Everything that wants a turn goes through the query guard: what finds it active
  is queued, and the effect of `useQueueProcessor` starts the next turn when guard
  and queue allow it; a running turn takes queued commands between two calls of
  the model (`PromptQueue`).
- Clients of published workflows send requests to commands of the CLI, one process
  each (`cli/handlers/workflows.ts`), which meet at the registry's lock; `decide` starts the agent
  in a child process and waits for it under the lock (`PublishedRuns`).
- The hybrid transport calls the uploader; `HybridTransport` EXTENDS
  `EventUploader`, and the pair implements `OrderedDelivery`.

### Parts that are not modelled

`PROJECT.json` lists every part with its reason. Those that carry a protocol of
their own and come next: the cron lock and scheduler (`utils/cronTasksLock.ts`, `utils/cronScheduler.ts`), the
workflow engine (`tools/WorkflowTool`), the protocols that draft and validate a
workflow (`commands/workflows`), the agent supervisor, the task list and the mailboxes,
`WorkerStateUploader` and `ccrClient`. Left out for good: the user interface, the
parsers and permission rules over text, settings, plugins, analytics, retrieval
and classification of memories (what a job computes), and the clients of MCP and
language servers, whose behaviour is mostly a library's.

## 2. Modules

| Module | What it is |
|---|---|
| `ToolExecutor` | the executor, the registry, the controllers and the query loop around them |
| `MemoryWorkerLock` | workers and repairs, one action per file operation |
| `MemoryAgent` | the logs, the sessions, the worker's loop and the command line |
| `OrderedDelivery` | abstract: at-least-once delivery in the order of acceptance |
| `EventUploader` | the uploader; no behaviour of its own, it is driven by its transport |
| `HybridTransport` | the transport, the application and the uploader composed |
| `PromptQueue` | the query guard, the command queue and everybody who uses them |
| `RunLedger` | abstract: what is promised of a published run |
| `PublishedRuns` | the processes that serve requests about published runs, their lock and registry |
| `MC*` | values of the constants for TLC |
| `*Proofs` | the theorems of a module and their proofs |

### ToolExecutor

JavaScript runs a callback, then all promise continuations, then the next event.
An action is either a *micro* step (a continuation) or a *macro* step (an event),
and macro steps need `Quiet`. `processQueue()` awaits between two tools, so
each call nobody awaits is a position in `scans`, and the one the query loop awaits
is `pc = "scan"`. A tool is in one of the states of `TrackedTool.status`; `body` is
the promise of `runToolUse`, `pending` what it has yielded and the loop has not
read. `first .. next-1` is the current executor: `discard()` moves `first` to `next`
and bodies below `first` may still run. `answers`, `applied` and `inProgress` record
what the query loop has emitted.

`getCompletedResults()` is a generator that walks over the tools (`pos`) and stops at each
message it yields (`pc = "yield"`; the messages of one tool are one stop). `EmitProgress` and `EmitTool` yield: a completed tool's
status becomes `yielded` at the first of its messages, and only `Resume`, when the consumer
asks for more, takes the tool off the in-progress set. In between everything else may
happen, and `ConsumerLeaves` is the consumer that returns there (`pc = "left"`).

Abstractions: inputs, outputs and permissions become the outcome of a body (`Update`);
context modifiers, notifications and `setAppState` become `applied`;
`updateInterruptibleState` is derived and left out; messages that arrive after the
turn was aborted are not handed to the executor (as in `query.ts`);
`streamingFallbackOccured` is never reset within an attempt. A body that ends
without an update occurs only after its own `tool_cancel`. The safety net of
`collectResults` and the listener that takes a tool's abort on to the turn compare with the
literal `'tool_cancel'`, while the client's reason is free text: a request with a reason of
its own ends the turn. `CancelReasons` is the set of reasons clients send; the safety run
has the default and one of a client's own.

### MemoryWorkerLock

A file is `present`, `owner`, `old`; `open` are the handles between the two halves of
a write, which is how a late write reaches a file that another process has
created or removed. `pc[w]` goes through acquire (`stat`, `readOwner`, `recheck`,
`reclaim`, `create`, `writeOwner`), the loop (touch, work, touch) and the two
releases. `Age` is time passing. A worker may be killed (`MayCrash`), stall for
the stale time (`MayStall`), and its writes may fail (`MaxFaults`). A repairer is one run
of `releaseStaleMemoryWorkerLock`. Pids are not reused. What an operator should know
and no property says: a touch that fails leaves an empty file although the comment
says the identity on disk is unchanged, and no worker reclaims an empty file.

### MemoryAgent

One step is one append, or one read on which a decision rests. `markers`, `jobs` are
the latest lines by identity, `consumed` the checkpoints. The worker's `local`
variables are what it has read and not yet acted on, and are lost when it is
killed. Job types are numbers in the order of enqueueing, `Llm` those that are
skipped without a provider. `Age` and `Ripen` are the scheduler's age limit and the
retry backoff. Appends are atomic (`O_APPEND`); keys read live equal keys read at
the start, since only the worker adds keys; a second ingest of an event whose
marker exists does nothing; an operator's repair of missing markers does the same as
`Repair`.

### EventUploader and HybridTransport

A step is the code between two awaits. `micro` is the queue of continuations;
`backpressureResolvers` and `flushResolvers` hold the callers to resolve; a caller
(`calls[c]`) is blocked, woken, past its `enqueue()`, in `flush()`, or done.
`drain = "waking"` is a sleep that `close()` has resolved. `Closer` is the flush that the
transport's `close()` awaits. Whether the server receives a POST (`Arrives`) does not
depend on what the client sees. What the uploader takes for a success is two steps:
`SendSucceeds` (2xx) and `SendDiscards`, where `postOnce()` returns without an exception although
nothing was stored: a permanent 4xx, or no session token and hence no request. `server`,
`answered`, `discarded`, `dropped` are history. Messages are numbered in the order of `write()`.

The abstract specification `OrderedDelivery` has two variables: what was accepted
and is not settled, and what the server has received. The refinement maps the first to
`batch \o pending`: `enqueue` is `Accept`, a POST is `Deliver(n)` or `GiveUp(n)` with
`n = Len(batch)`, a batch put back is `Deliver(n)` with the queue unchanged, or
nothing; `close` is `Drop(n)`.

Not modelled: batches limited by bytes (`ccrClient` uses them), `pendingAtClose`, the
length of delays, a copy of a timed-out POST that arrives after its repetition,
reading (the WebSocket half), several calls of `close()`.

### PromptQueue

`chain[ch]` is one call of `executeUserInput` (or of `onQuery`, for a teammate's
prompt): `processing` while it awaits `processUserInput`, `running` in its turn,
`attaching` while the turn reads attachments for the commands it has seen in the
queue. A step is what one chain, key or timer does between two awaits. `controller` is
the chain whose `AbortController` the screen would abort. A queued object carries
`at`, the number of the call of `enqueue` that made it: its place in the array and
its identity. `handled`, `returned`, `dropped`, `failed`, `lost` and `raced` are history: what
became of each command. `dropped` is on purpose; `failed` are those that an exception took
along: `FailProcessing` (`processUserInput` throws for a batch that is no longer queued) and
`AttachFails` (the attachment of the commands a turn collects fails, which `maybe()` hides,
and the turn removes them all the same).

Abstractions: the text of a command becomes its kind, which stands for mode, `isMeta` flag and
workload (prompts of timers are `cron`, those of the session's goal `goal`), and decides how it is
batched, who may take it and whether it is editable; `ContinueGoal` replaces the goal prompt that
still waits by a new one; the conversation is the set of
commands in it; the subagent's drain is one action of another loop; priority
`now`, which no code produces, is left out. Assumed: the effect of
`useQueueProcessor` reads guard and queue as they are (both are external stores of React);
`mrOnTurnComplete` is the stub of `moreright/useMoreRight.tsx` and does not yield,
so the end of a turn is one step; the `abortController` of the screen's state is the
one set last. The delay while a local JSX command is shown is in the scheduling of the effect.
Not modelled: immediate local commands and `exit` (they bypass guard and queue), the
forwarding of task notifications to a session that is put in the background
(REPL.tsx:2563), and the rewinding of the conversation after an interruption.

### RunLedger and PublishedRuns

`disk` is the registry as the last rename left it, `mem[p]` the copy a process works on,
`lock` the lock file. A process goes through `locking`, `loaded`, for a decision that starts
an agent `granted` (the attempt is saved) and `executing` (the agent runs), and `done` (to
release the lock and print `reply[p]`). One action is what a process does between two
points at which another process could act or a crash would show: `WriteAhead` is the first write
of a decision, `Finish` the second. `Crash`, `WriteFails` and `Lapse` (a live process loses
its lock because it did not refresh it for ten seconds; nothing stops it) are the faults.
A run has `rev` (its revision), `decided` (the decisions on record) and `birth`, which the
code does not have: it numbers the runs started under one id, since a start whose receipt
was dropped starts the run again. `births`, `dispatched` and `told` are history.

`RunLedger` has one entry for each run id: whether the request that started it is
remembered, a phase, the revision and the birth. `Starts`, `Decides`, `Dispatches`, `Settles` and
`Cancels` move one entry; retention lets any others `Fade`. `KeepsTheLedger` maps `disk`
to the ledger: a run that is `running` is `granted` until its last attempt is in
`dispatched`.

Abstractions: a workflow is its sequence of node kinds; a node that runs at once completes,
fails, or, for a condition, skips the rest; hashes of requests become the ids and fields the
requests carry; the id of a wait becomes node, scope and revision; the session an agent leaves in the checkpoint becomes the
revision under which it asked for its tool; the time of arrival by which retention sorts is
the order of service. A client knows revisions that have been reached (`HasSeen`).
Validation of projections, roles, evidence and sessions shows as an outcome: refusal, or a
failed run. Not modelled: `query` (read-only), artifacts, the extra tool attempts an agent
reports (publishedRunProtocol.ts:2461), and a registry file that cannot be parsed, which every
command refuses.

## 3. Runs

Each passing run checks deadlock except `hybrid_transport`, `prompt_queue`
and `published_runs`, where the application, the user or the clients may stop. Bounds are constants; every one is named in its module.

| Run | Instance | Shows |
|---|---|---|
| `tool_executor_safety` | 3 tools of 3 kinds, blocks of 2, one streaming fallback, `tool_cancel` with the default reason and with a client's own, a consumer that may leave | exclusive execution, FIFO start, one result per tool, live lists, nothing starts after a cancellation, how far each abort goes |
| `tool_executor_liveness` | 2 known tools, progress, one model fallback or error | the drain ends, the registry is released |
| `tool_executor_spin` | exclusive tool, then an unknown name | **violation**: the drain loop spins and starves the event loop |
| `tool_executor_missing` | a model error after a result was emitted | **violation**: a tool_use is answered twice |
| `worker_lock_safety` | 3 workers, one host, stalls, 2 failing writes, 2 iterations | mutual exclusion, nobody is refused by a lock without an owner, only owners remove |
| `worker_lock_theft` | 2 hosts, a kill, a stall, a repair | no lock of an ended worker, no empty file stays, a killed worker's lock is reclaimed |
| `worker_lock_reclaim` | 3 workers, one killed | **violation**: a reclaim deletes a fresh lock |
| `agent_jobs` | 1 event, 2 types, 2 failures, a kill, a CLI retry | checkpoints hide no work, keys are unique, jobs run once, every event is worked on, failures are settled |
| `agent_retry` | 1 failure, limit 3 | **violation**: retries have no limit |
| `hybrid_transport` | 3 messages, 2 calls, buffer of 1, batches of 2, 2 failing POSTs, limits 0 and 2 | refinement of `OrderedDelivery`, nothing lost or doubled, writes are settled, buffer bounded, callers return |
| `prompt_queue` | 3 commands of 9 kinds, 2 chains, 2 Escapes | the guard follows the turn, chains overlap after an Escape only, commands vanish by a failure only and are not answered twice, order is kept within a kind, the queue is worked off |
| `published_runs` | 1 workflow (condition, approval, agent), 9 requests, 2 processes, 1 fault, 2 receipts and 2 runs retained, 5 answers | the registry is coherent, executions are dispatched once, one request wins a revision, settled runs stay, refinement of `RunLedger` |

Why the bounds are enough: the executor's races are between two loops over the
queue and one tool behind them (three tools, one fallback gives two executors);
the lock's are between two workers and a third that has been refused or killed; the
agent's between one event's two writers and one kill; the uploader's buffer of
one event makes every second call block, and two failures reach the limit, a retry,
and a retry after a drop. `ScanWindow` holds all events of a run: the code
reconciles the last 200 only, and beyond them `EveryEventIsWorkedOn` does not hold.
In `PromptQueue` one command is interrupted, one overtakes it and one waits for both, and
the second Escape lets the refused turn of the first meet the turn of the second. Two calls
at a time are one that was interrupted and one that follows; that three overlap is covered by
the proofs, not by the run.
In `PublishedRuns` the races are between two processes, the second of which may take a lapsed
lock; the nine requests are a whole life (approval, agent, tool, with the two answers to
the tool and a cancellation that race) and two ways to start it under one key; two receipts make
each third answer forget the first, so that a start is accepted again and the second run of an
id stands beside the first (`MaxRuns = 2`). `MaxRev = 4` is one request for a tool, `MaxFaults =
1` one crash, failed write or lapse anywhere, `MaxAnswers = 5` the longest path with one answer
to spare. One version: the checks of the version are
exercised by the proofs only. Processes are interchangeable (symmetry).
`MaxWake = 1` (one event resumes one tool body): with two, a result and the hook
message behind it can be separated by a sibling's error, and the tool is answered
twice (a hazard, without a run).

### Exceptions that properties make

- `MessagesInPlace`, `CallersReturn`: a call blocked by backpressure may be overtaken; a call
  with more events than the whole buffer never returns before `close()`
  (HybridTransport.ts:81 says so); a POST that fails after `close()` is put back, and a
  later `flush()` never resolves.
- `ListsAreLive`: one tool may be `yielded` and still in the in-progress set: the one at whose
  message the consumer of `getCompletedResults()` is, or has left for good.
- `CancelIsContained`: a `tool_cancel` with the default reason ends one tool. With a reason of
  the client's own it ends the turn; the property then says only that this is one abort, with
  one reason, and that the query's executor stays.
- `WriteIsSettled`: not for `discarded` events: the write that carried them returns, no drop is
  counted, and the server has none of them.
- `NothingIsLeftBehind`: not after a kill or a failed write.
- `EveryEventIsWorkedOn` asks that a job is started: one whose worker is killed stays
  `running` (known to `management/workerReport.ts`).
- `DispatchedOnce`, `OneAnswer`, `SettledStays`, `KeepsTheLedger`: as long as no live process has lost its
  lock (`lapses = 0`); after that two processes write their copies, and one of two answers is
  lost. `RegistryIsCoherent` holds even then. All speak of one birth of a run: a start that
  is repeated after 500 other requests is a new run under the old id.
- `SettledStays` counts a run whose execution was interrupted as settled: it stays `running`
  for good, neither cancelled nor retried.
- `HandledOnce`: not for a command that somebody takes while a turn is attaching it
  (`raced`): `query.ts` attaches its snapshot and removes from the queue afterwards, without
  asking whether the commands are still there.
- `VanishByFailureOnly`: three ways to vanish. `processUserInput` throws for a batch
  (handlePromptSubmit.ts:528-652); a turn's attachment of queued commands fails
  (attachments.ts:1004, query.ts:1872); and an `isMeta` prompt whose turn was refused is not
  queued again (REPL.tsx:2949), which takes an Escape.
- `LeaveInOrder`: among commands of one mode, `isMeta` flag, workload and priority. A batch
  takes all that agree with its first and leaves the others: of cron, goal and cron, both
  prompts of timers go before the older one of the goal.
- `OneChainAtATime`: until the first Escape only. `forceEnd()` frees the guard at once, so
  the next `executeUserInput` runs beside the interrupted one.

### Findings

1. `StreamingToolExecutor.ts:637`: the drain loop spins when a completed tool stands
   behind an executing exclusive one (`tool_executor_spin`).
2. `query.ts:1142`: a model error answers tools a second time (`tool_executor_missing`).
3. `workerLoop.ts:567`: a reclaim may delete the lock of another worker
   (`worker_lock_reclaim`).
4. `jobQueue.ts:148`: a completed retry forgets whose retry it was, so the original is
   retried for ever (`agent_retry`).

Met while modelling, without a run of their own: results are not emitted in the order
of blocks (comment at StreamingToolExecutor.ts:48); two sessions that recover the
same stale cron lock may both get it (`utils/cronTasksLock.ts:165`, comment at 110);
the comment at `utils/handlePromptSubmit.ts:470` says that the guard admits no
concurrent call of `executeUserInput`, which an Escape makes untrue; and these, which the
properties above name as exceptions:

- `cli/print.ts:3137` passes on the client's reason and `StreamingToolExecutor.ts:392-400` ends
  the turn for each it does not know, while `entrypoints/sdk/controlSchemas.ts:165-175` says that
  siblings keep running and that the reason "does not affect cancellation semantics";
- `HybridTransport.ts:203-208` (no session token) and `:238-250` (permanent 4xx) return as a
  success does, while `:110-116` promises that a write resolves after its event is POSTed and
  `:140` offers `droppedBatchCount` "to detect silent drops";
- `utils/attachments.ts:990-1004` turns a failure into no attachments, after which
  `query.ts:1862-1872` removes the commands: the silent loss that `attachments.ts:745-748` warns of;
- nothing catches an exception of `processUserInput` in `executeUserInput`
  (`utils/handlePromptSubmit.ts:528-652` is a `try` with a `finally`), and all commands of the
  batch, which have left the queue, are forgotten;
- `utils/queueProcessor.ts:149` batches within a workload (its comment at 90-95 says so), while
  `utils/messageQueueManager.ts:57` says that commands of one priority are processed in order.

### Fairness

- `ToolExecutor`: weak for continuations, which the event loop runs before anything
  else; strong for the end of a tool body, which may be ready only between other
  events. Users, clients and the model are unfair.
- `MemoryWorkerLock`: weak for each process's own steps and for the restart of a
  refused worker (the worker command is started again). Kills, stalls and failures
  are unfair.
- `MemoryAgent`: weak for the worker, its restart, and time. Sessions are unfair: they may
  stop between their two writes.
- `HybridTransport`: weak for the stream event timer, the grace timer and the
  uploader (each POST has a timeout, each sleep a timer). `MaxThrows` bounds failing
  POSTs: the network eventually works. The application is unfair.
- `PublishedRuns`: none. Each command is a process that ends; what it left is what the
  safety properties are about.
- `PromptQueue`: weak for the effect of `useQueueProcessor`, for the end of
  `processUserInput` and of reading attachments; strong for the end of a turn, whose
  model may ask for more tools in between but not for ever. User, timers and
  subagents are unfair.

## 4. Proofs

All proofs are by an inductive invariant, for every value of the constants under the
`ASSUME` of their module. `tlapm` checks every leaf.

| Theorem | Says |
|---|---|
| `ToolExecutorProofs!TypeCorrect`, `Exclusive`, `Fifo`, `RegistryExact` | types; a tool that is not concurrency-safe executes alone; tools start in order; the registry holds executing tools only |
| `ToolExecutorAnswersProofs!EveryToolIsAnswered`, `WorkConserving`, `ListsLive`, `StartsAreTimely` | no tool is left without a result when the drain has ended; no tool that could start is forgotten; the lists shown to the user and to clients hold live tools, but for the one at whose message the consumer is; nothing starts after its cancellation |
| `ToolExecutorAnswersProofs!AnsweredUntilFault`, `CancelStaysContained` | one result for each tool, **assuming** `MaxWake <= 1` and as long as the model's request has not failed; how far each abort goes, whatever reasons clients send |
| `MemoryWorkerLockProofs!TypeCorrect`, `Exclusive`, `OwnerKeepsLock` | types; one worker runs and keeps its lock, **assuming** `NoTheft` |
| `MemoryWorkerLockProofs!LeavesNothing`, `RefusedByALiveOwner` | nothing of a worker that ended stays on disk, whatever is stolen or reclaimed; only a running worker refuses another, **assuming** nobody is killed |
| `MemoryAgentProofs!TypeCorrect`, `CheckpointIsSafe`, `KeysAreUnique`, `NoJobRunsTwice` | types; checkpoints hide no work; one first job per key; a job runs once |
| `HybridTransportProofs!TypeCorrect`, `Bounded`, `NoPost`, `Delivers`, `ReturnsSettled`, `NoMessageMisplaced`, `NoLostWakeup` | types; the buffer's bound; no POST after close; the refinement of `OrderedDelivery`; the events of a write that returns are on the server, counted as dropped, or discarded by `postOnce()`; every message is in one place and in order; whoever waits has someone to wake him |
| `PromptQueueProofs!TypeCorrect`, `GuardFollows`, `Reserved`, `GuardHeld`, `OneChain`, `VanishOnlyByFailure`, `LeavesInOrder`, `EntersOnce` | types; the guard runs while its turn does; no reservation is left behind; both together (`GuardIsHeld`); chains overlap after an Escape only; commands vanish by a failure only; the queue keeps its order within a kind and a priority; a command enters the conversation at most once |
| `PublishedRunsProofs!TypeCorrect`, `Coherent`, `Dispatched`, `Settled` | types; the registry is coherent whatever fails; while no live process has lost its lock, an execution of a birth is dispatched once and settled runs stay |
| `PublishedRunsLedgerProofs!LedgerKept`, `OneAnswerOnly` | while no live process has lost its lock: the refinement of `RunLedger`; one answer for each request and each revision of a birth |

- *Executor.* `IInv` joins the types with `InFlightExecutes`, `ExclusiveExecution`,
  `QueueIsFifo` and `ScansInOrder`. Exclusion alone is inductive; FIFO is not: a loop that
  stands behind a queued tool could start a later one, which `ScansInOrder` excludes, and that
  in turn needs FIFO when a loop walks past a blocked safe tool.
- *Answers.* `LoopInv` says for each tool what its loop has read and what its body has still to
  yield (`Untouched`, `Unread`, `Answered`): a completed tool has a result, and a yielded one
  was answered (`EmittedInv`), whence no tool is forgotten. That none is answered twice needs
  more: between a result and the hook message behind it no other body may end and no loop may be
  scanning (`HookInv`). This is why `MaxWake <= 1` is assumed: if two bodies resume together a
  sibling's error comes between the two and adds a second result. `faults = 0` excludes the
  second finding. `WorkInv` is about forgotten wake-ups: without a `processQueue()` on its way
  no queued tool could start.
- *Lock.* `NoTheft`: no worker is killed, and either none stalls or all share one host and no
  repair runs. It is as weak as the code allows: without it a lock is stolen by design, and TLC
  finds the race in `worker_lock_reclaim`. The invariant says whose name the file may carry at
  each point of a worker (`HolderInv`, `OwnerInv`, `RemoverInv`), that nobody has judged it
  stale (`NoVerdict`), and which files can be old (`AgeInv`). `LeavesNothing` does without
  `NoTheft`: only `w` writes the name of `w`, each end of `w` other than a kill looks at the
  file after the last such write (`NamedInv`), and a file without a name is about to get one,
  unless a write failed or a worker was killed.
- *Agent.* A worker acts on lists it read earlier (`retries`, `processed`, `queue`); `QueueInv`
  says that they are still right after the command line and other appends, because statuses only
  move forward. Checkpoints are safe because `processed` holds ended jobs of the marker's
  events, and stay so when logs grow.
- *Uploader.* `Inv` adds `QueueBounds`: how long batch and buffer may be in each state of the
  loop, that an idle open loop has an empty buffer, and that a closed one in flight has. Each
  action is one lemma that gives types, bounds and the step of `OrderedDelivery` it maps to
  (`QueueStep`); the callers' lists are a second, independent part. Two further invariants
  relate callers and queue. `AnswerInv`: the events of a call that is past its `enqueue()` are
  in the queue or settled since (`Kept` is what each step owes to it). `PlaceInv`: queue,
  buffer, settled events and the events of blocked calls are disjoint, in the order of their
  numbers but for calls that had to wait, and complete until `close()`; it is stated by
  operators of constant level (`Placed`), so that each move of a message is one lemma about sets
  and sequences.
- *Prompt queue.* Three invariants on top of the types. `GuardInv` joins the guard's three
  properties with `GenerationsArePast`: no turn has a generation to come, so that a new turn or
  an Escape makes every earlier turn a former owner. `VanishInv` needs it, because only a second
  chain can see its turn refused. `OrderInv` says that what a turn is attaching is closed under
  older objects of the same kind and priority (`BatchesClosed`), which later arrivals keep
  because their numbers are greater. `OnceInv`: what a turn is attaching is still queued unless
  somebody took it, and each command has met at most one of its ends.
- *Published runs.* `FlightInv` says that every registry (on disk and in memory) is well formed
  (`RegistryOK`: each run by itself, `RunOK`, and the checkpoint of the newest run of an id) and
  that a process between its two writes holds a running run; no statement about the lock is
  needed, which is why coherence survives a lost one. `OnceInv` adds, while no lock was lost:
  the process inside owns the lock and its copy is the registry (`Copies`), what was dispatched
  lies below the run's revision and is among its attempts (`Recorded`), and a granted attempt is
  newer than all that was dispatched (`Grants`). On top of both, `LedgerKept` maps a step to the
  ledger: one lemma each for the steps that open a run, rewrite it, dispatch or print, the other
  entries fade (`EntryFades`). `OneAnswer` is not inductive, for a receipt leaves the registry
  or a reply before it is told: `AnswerInv` speaks of all that was issued (told, on disk, about
  to be printed), says what the run on disk still shows of each answer (`Shows`), and that a
  decision in flight has none yet (`Unanswered`).

Every state invariant and every action property the runs check is stated by a theorem. Only
model-checked are the properties under fairness (`DrainEnds`, `RegistryIsReleased`,
`OrphanIsReclaimed`, `EveryEventIsWorkedOn`, `FailedIsSettled`, `CallersReturn`, `WorkIsDone`):
liveness under fairness is out of the prover's reach. What can be proved of them is their
safe part: `WorkConserving` for `DrainEnds`, `GuardHeld` for `WorkIsDone`, and `NoLostWakeup`
for `CallersReturn` (`WakeInv`: the continuations are exactly those of the calls that can go on, one
each; a blocked call or a flush has a POST or a retry under way; `close()` is on its way).
`NoLostWakeup` states `NobodyIsForgotten`, which no run lists.

## 5. Plan

1. `ToolExecutor` with its proofs: done.
2. `MemoryWorkerLock` with its proofs: done.
3. `MemoryAgent` with its proofs: done.
4. `OrderedDelivery`, `EventUploader`, `HybridTransport` with the refinement: done.
5. `PromptQueue` with its proofs: done.
6. `RunLedger`, `PublishedRuns` with their proofs: done.
7. Proofs of what the runs check of executor, lock, transport and prompt queue: done.
8. `CronLock` with the scheduler's tasks, then the workflow engine's limiter and journal,
   the task list with its mailboxes and the agent supervisor; each with an abstract
   specification where one promise can be named.
