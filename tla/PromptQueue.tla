----------------------------- MODULE PromptQueue -----------------------------
(***************************************************************************)
(* How the terminal program runs one turn at a time: the guard of          *)
(* utils/QueryGuard.ts, the command queue of utils/messageQueueManager.ts, *)
(* and those who use them: handlePromptSubmit and executeUserInput,        *)
(* processQueueIfReady with the effect that calls it, onQuery, onCancel    *)
(* and handleIncomingPrompt of screens/REPL.tsx, and the drain of the      *)
(* queue in the middle of a turn (query.ts).                               *)
(*                                                                         *)
(* A command that arrives while the guard is active waits in the queue.    *)
(* Otherwise it gets a chain, one call of executeUserInput, that reserves  *)
(* the guard, awaits processUserInput, and starts a turn.  A step is what  *)
(* one chain, or one key or timer, does between two awaits.  Escape frees  *)
(* the guard at once and leaves the chain it interrupts to come to its end *)
(* in its own time, next to the chains that follow it.                     *)
(***************************************************************************)
EXTENDS Integers, FiniteSets

CONSTANTS
    MaxCommands,    \* bound: commands that arrive
    MaxChains,      \* bound: calls of executeUserInput or onQuery at a time
    MaxCancels      \* bound: times the user interrupts

ASSUME QueueConstants == {MaxCommands, MaxChains, MaxCancels} \subseteq Nat

Command == 1 .. MaxCommands
Chain == 1 .. MaxChains
NoChain == 0

\* The user types prompts, slash and bash commands.  Prompts marked isMeta come
\* from MCP channels ("meta"), from timers and from the session's goal; those
\* two have workloads of their own.  Tasks send notifications, of which those of
\* a completed background shell are passive; "agent" is one with an agentId.
Typed == {"prompt", "slash", "bash"}
Meta == {"meta", "cron", "goal"}
Kind == Typed \cup Meta \cup {"task", "passive", "agent"}

\* A queued object: `at' counts the calls of enqueue, so it is both the place
\* in the queue and the identity of the object.  "next" is 1, "later" is 2.
Entry == [cmd : Command, kind : Kind, rank : 1 .. 2, at : Nat]

VARIABLES
    status, generation,     \* the guard
    queue, tickets,         \* the queued objects, and how many there ever were
    chain,                  \* what each call in progress is doing
    controller,             \* the chain whose AbortController is in the state
    arrived,                \* commands that have arrived
    handled,                \* how often each was put in the conversation
    returned,               \* commands put back in the input box
    dropped,                \* commands that were discarded on purpose
    failed,                 \* commands that an exception took along
    lost,                   \* isMeta prompts whose turn was refused
    raced,                  \* commands someone took while a turn attached them
    cancels

guard == <<status, generation>>
waiting == <<queue, tickets>>
ends == <<handled, returned, dropped, failed, lost>>
vars == <<guard, waiting, chain, controller, arrived, ends, raced, cancels>>

Free == [pc |-> "free", batch |-> {}, gen |-> 0, aborted |-> FALSE]

Init ==
    /\ status = "idle" /\ generation = 0
    /\ queue = {} /\ tickets = 0
    /\ chain = [ch \in Chain |-> Free]
    /\ controller = NoChain
    /\ arrived = 0
    /\ handled = [c \in Command |-> 0]
    /\ returned = {} /\ dropped = {} /\ failed = {} /\ lost = {} /\ raced = {}
    /\ cancels = 0

------------------------------------------------------------------------------
\* The guard.
\* Mutant: executeUserInput leaves the reservation to its caller.
Reserve_Missing == UNCHANGED status

Reserve == status' = IF status = "idle" THEN "dispatching" ELSE status

\* Mutant: a reservation is given back in the running state only.
CancelReservation_Wrong(s) == IF s = "running" THEN "idle" ELSE s

CancelReservation(s) == IF s = "dispatching" THEN "idle" ELSE s

TryStart == status' = "running" /\ generation' = generation + 1

\* Mutant: end() does not compare generations.
Ends_Any(gen) == status = "running"

Ends(gen) == status = "running" /\ generation = gen

\* Mutant: forceEnd() gives the number of the interrupted turn back.
ForceEnd_Reuses ==
    IF status = "idle" THEN UNCHANGED guard
    ELSE status' = "idle" /\ generation' = generation - 1

ForceEnd ==
    IF status = "idle" THEN UNCHANGED guard
    ELSE status' = "idle" /\ generation' = generation + 1

------------------------------------------------------------------------------
\* The queue.
MainThread == {e \in queue : e.kind # "agent"}

Editable == {e \in queue : e.kind \in Typed}

Object(c, kind, rank) == [cmd |-> c, kind |-> kind, rank |-> rank, at |-> tickets + 1]

Enqueue(e) == queue' = queue \cup {e} /\ tickets' = tickets + 1

\* Mutant: dequeue() takes the last of the objects with the smallest rank.
IsNext_Last(e, objects) ==
    /\ e \in objects
    /\ \A d \in objects : e.rank < d.rank \/ (e.rank = d.rank /\ e.at >= d.at)

\* Mutant: peek() is called without the filter for the main thread.
IsNext_Unfiltered(e, objects) ==
    /\ e \in objects
    /\ \A d \in queue : e.rank < d.rank \/ (e.rank = d.rank /\ e.at <= d.at)

\* The first of the objects with the smallest rank.
IsNext(e, objects) ==
    /\ e \in objects
    /\ \A d \in objects : e.rank < d.rank \/ (e.rank = d.rank /\ e.at <= d.at)

\* What processQueueIfReady takes with e: slash and bash commands go alone, the
\* others with all of their priority, mode, isMeta and workload (of their kind).
\* An older prompt of another workload stays behind.
BatchOf(e) ==
    IF e.kind \in {"slash", "bash"} THEN {e}
    ELSE {d \in queue : d.kind = e.kind /\ d.rank = e.rank}

Commands(objects) == {e.cmd : e \in objects}

Handle(objects) ==
    handled' = [c \in Command |->
                   IF c \in Commands(objects) THEN handled[c] + 1 ELSE handled[c]]

\* What the turns that are attaching queued commands, but for one, hold on to.
HeldBut(self) ==
    UNION {chain[ch].batch : ch \in {x \in Chain \ {self} : chain[x].pc = "attaching"}}

Take(objects, self) ==
    /\ queue' = queue \ objects
    /\ raced' = raced \cup Commands(objects \cap HeldBut(self))

------------------------------------------------------------------------------
\* The calls take the first number that is free.
FirstFree(ch) ==
    /\ chain[ch].pc = "free"
    /\ \A x \in Chain : chain[x].pc = "free" => ch <= x

Become(ch, pc, batch, gen) ==
    chain' = [chain EXCEPT ![ch] = [pc |-> pc, batch |-> batch, gen |-> gen,
                                    aborted |-> chain[ch].aborted]]

Release(ch) == chain' = [chain EXCEPT ![ch] = Free]

\* executeUserInput up to its first await.
Execute(objects) ==
    \E ch \in Chain :
        /\ FirstFree(ch)
        /\ Become(ch, "processing", objects, 0)
        /\ controller' = ch
        /\ Reserve
        /\ UNCHANGED generation

Arrive(c) == c = arrived + 1 /\ arrived' = c

\* handlePromptSubmit.  A submission may abort the turn in progress without
\* ending it, when all its tools may be interrupted.
Submit(c, kind) ==
    /\ Arrive(c)
    /\ status = "idle"
    /\ Execute({Object(c, kind, 1)})
    /\ UNCHANGED <<waiting, ends, raced, cancels>>

SubmitWhileActive(c, kind) ==
    /\ Arrive(c)
    /\ status # "idle"
    /\ Enqueue(Object(c, kind, 1))
    /\ \/ UNCHANGED chain
       \/ /\ controller # NoChain
          /\ chain[controller].pc # "free"
          /\ chain' = [chain EXCEPT ![controller].aborted = TRUE]
    /\ UNCHANGED <<guard, controller, ends, raced, cancels>>

\* enqueuePendingNotification, and enqueue by the timers, the MCP channels and
\* the commands that chain a next input.
Notify(c, kind, rank) ==
    /\ Arrive(c)
    /\ Enqueue(Object(c, kind, rank))
    /\ UNCHANGED <<guard, chain, controller, ends, raced, cancels>>

\* A turn at its end goes on with the session's goal: the new prompt replaces
\* the one that may still wait.
ContinueGoal(c) ==
    LET old == {e \in queue : e.kind = "goal"}
    IN  /\ Arrive(c)
        /\ \E ch \in Chain : chain[ch].pc = "running"
        /\ queue' = (queue \ old) \cup {Object(c, "goal", 2)}
        /\ tickets' = tickets + 1
        /\ raced' = raced \cup Commands(old \cap HeldBut(NoChain))
        /\ dropped' = dropped \cup Commands(old)
        /\ UNCHANGED <<guard, chain, controller, handled, returned, failed, lost,
                       cancels>>

\* handleIncomingPrompt: a teammate's message starts a turn of its own, and
\* waits for the guard and for what the user has queued.
Incoming(c) ==
    /\ Arrive(c)
    /\ status = "idle"
    /\ \A e \in queue : e.kind \notin Typed \cup Meta
    /\ \E ch \in Chain :
        /\ FirstFree(ch)
        /\ Become(ch, "running", {}, generation + 1)
        /\ controller' = ch
    /\ TryStart
    /\ handled' = [handled EXCEPT ![c] = @ + 1]
    /\ UNCHANGED <<waiting, returned, dropped, failed, lost, raced, cancels>>

\* The effect of useQueueProcessor: the guard is idle and the queue is not empty.
ProcessQueue ==
    /\ status = "idle"
    /\ \E e \in MainThread :
        /\ IsNext(e, MainThread)
        /\ e.kind # "passive"
        /\ Execute(BatchOf(e))
        /\ Take(BatchOf(e), NoChain)
    /\ UNCHANGED <<tickets, arrived, ends, cancels>>

DropPassive ==
    /\ status = "idle"
    /\ \E e \in MainThread :
        /\ IsNext(e, MainThread)
        /\ e.kind = "passive"
        /\ Take(BatchOf(e), NoChain)
        /\ dropped' = dropped \cup Commands(BatchOf(e))
    /\ UNCHANGED <<guard, tickets, chain, controller, arrived, handled, returned,
                   failed, lost, cancels>>

------------------------------------------------------------------------------
\* processUserInput has ended with messages and onQuery starts the turn ...
StartTurn(ch) ==
    /\ chain[ch].pc = "processing"
    /\ status # "running"
    /\ TryStart
    /\ Become(ch, "running", {}, generation + 1)
    /\ Handle(chain[ch].batch)
    /\ UNCHANGED <<waiting, controller, arrived, returned, dropped, failed, lost,
                   raced, cancels>>

\* Mutant: the messages of a refused turn are forgotten.
Again_Nothing(objects) == {}

\* ... or finds another one and queues its messages again, but for isMeta ones.
Again(objects) ==
    {[cmd |-> e.cmd, kind |-> "prompt", rank |-> 1,
      at |-> tickets + Cardinality({d \in objects : d.at <= e.at})] : e \in objects}

RequeueTurn(ch) ==
    LET kept == {e \in chain[ch].batch : e.kind \notin Meta}
    IN  /\ chain[ch].pc = "processing"
        /\ status = "running"
        /\ queue' = queue \cup Again(kept)
        /\ tickets' = tickets + Cardinality(kept)
        /\ lost' = lost \cup Commands(chain[ch].batch \ kept)
        /\ Release(ch)
        /\ UNCHANGED <<guard, controller, arrived, handled, returned, dropped,
                       failed, raced, cancels>>

\* A local command without messages gives the reservation back.
EndWithoutTurn(ch) ==
    /\ chain[ch].pc = "processing"
    /\ \A e \in chain[ch].batch : e.kind = "slash"
    /\ status' = CancelReservation(status)
    /\ controller' = NoChain
    /\ Handle(chain[ch].batch)
    /\ Release(ch)
    /\ UNCHANGED <<generation, waiting, arrived, returned, dropped, failed, lost,
                   raced, cancels>>

\* Mutant: executeUserInput has no finally.
FailProcessing_NoFinally(ch) ==
    /\ chain[ch].pc = "processing"
    /\ failed' = failed \cup Commands(chain[ch].batch)
    /\ Release(ch)
    /\ UNCHANGED <<guard, waiting, controller, arrived, handled, returned,
                   dropped, lost, raced, cancels>>

\* processUserInput throws for one of the commands: only the finally of
\* executeUserInput runs, and none of them is heard of again.
FailProcessing(ch) ==
    /\ chain[ch].pc = "processing"
    /\ status' = CancelReservation(status)
    /\ failed' = failed \cup Commands(chain[ch].batch)
    /\ Release(ch)
    /\ UNCHANGED <<generation, waiting, controller, arrived, handled, returned,
                   dropped, lost, raced, cancels>>

\* query.ts between two calls of the model: a snapshot of the queue, down to
\* "next" or, after Sleep, to "later" ...
Snapshot(ch, rank) ==
    LET seen == {e \in MainThread : e.rank <= rank /\ e.kind # "slash"}
    IN  /\ chain[ch].pc = "running" /\ ~chain[ch].aborted
        /\ seen # {}
        /\ Become(ch, "attaching", seen, chain[ch].gen)
        /\ UNCHANGED <<guard, waiting, controller, arrived, ends, raced, cancels>>

\* Mutant: what was attached stays in the queue.
Attach_Keeps(ch) ==
    /\ chain[ch].pc = "attaching"
    /\ Handle({e \in chain[ch].batch : e.kind # "bash"})
    /\ Become(ch, "running", {}, chain[ch].gen)
    /\ UNCHANGED <<guard, waiting, controller, arrived, returned, dropped, failed,
                   lost, raced, cancels>>

\* The snapshot without its bash commands, which the turn takes from the queue
\* once getAttachments() is over, whatever that has returned.
Consumed(ch) == {e \in chain[ch].batch : e.kind # "bash"}

Consume(ch) ==
    /\ chain[ch].pc = "attaching"
    /\ Take(Consumed(ch), ch)
    /\ Become(ch, "running", {}, chain[ch].gen)
    /\ UNCHANGED <<guard, tickets, controller, arrived, returned, dropped, lost, cancels>>

\* ... the commands of which are attached ...
Attach(ch) ==
    /\ Consume(ch)
    /\ Handle(Consumed(ch))
    /\ UNCHANGED failed

\* ... or not: when the attachment of one of them fails (an image that cannot be
\* resized), maybe() answers that there are none.
AttachFails(ch) ==
    /\ Consume(ch)
    /\ failed' = failed \cup Commands(Consumed(ch) \cap queue)
    /\ UNCHANGED handled

EndAttaching(ch) == Attach(ch) \/ AttachFails(ch)

\* The finally of onQuery, and then that of executeUserInput, that finds the
\* guard idle or somebody else's.
FinishTurn(ch) ==
    /\ chain[ch].pc = "running"
    /\ IF Ends(chain[ch].gen)
       THEN status' = "idle" /\ controller' = NoChain
       ELSE status' = CancelReservation(status) /\ UNCHANGED controller
    /\ Release(ch)
    /\ UNCHANGED <<generation, waiting, arrived, ends, raced, cancels>>

------------------------------------------------------------------------------
\* Escape aborts what can be aborted: onCancel.
CanCancel == controller # NoChain /\ ~chain[controller].aborted

Cancel ==
    /\ cancels < MaxCancels /\ cancels' = cancels + 1
    /\ CanCancel
    /\ ForceEnd
    /\ chain' = IF chain[controller].pc = "free" THEN chain
                ELSE [chain EXCEPT ![controller].aborted = TRUE]
    /\ controller' = NoChain
    /\ UNCHANGED <<waiting, arrived, ends, raced>>

\* Escape without, or the up arrow: popAllEditable.
PopAllEditable ==
    /\ Editable # {}
    /\ Take(Editable, NoChain)
    /\ returned' = returned \cup Commands(Editable)
    /\ UNCHANGED <<guard, tickets, chain, controller, arrived, handled, dropped,
                   failed, lost, cancels>>

\* The second press of chat:killAgents: clearCommandQueue.
ClearQueue ==
    /\ queue # {}
    /\ Take(queue, NoChain)
    /\ dropped' = dropped \cup Commands(queue)
    /\ UNCHANGED <<guard, tickets, chain, controller, arrived, handled, returned,
                   failed, lost, cancels>>

\* The subagent's own query.ts drains what is addressed to it, and nothing else.
SubagentDrain(rank) ==
    LET objects == {e \in queue : e.kind = "agent" /\ e.rank <= rank}
    IN  /\ objects # {}
        /\ queue' = queue \ objects
        /\ Handle(objects)
        /\ UNCHANGED <<guard, tickets, chain, controller, arrived, returned, dropped,
                       failed, lost, raced, cancels>>

------------------------------------------------------------------------------
Arrival(c) ==
    \/ \E kind \in Typed : Submit(c, kind) \/ SubmitWhileActive(c, kind)
    \/ Notify(c, "prompt", 1)
    \/ Notify(c, "meta", 1) \/ Notify(c, "cron", 2)
    \/ \E kind \in {"task", "passive", "agent"}, rank \in 1 .. 2 : Notify(c, kind, rank)
    \/ ContinueGoal(c) \/ Incoming(c)

EndProcessing(ch) ==
    StartTurn(ch) \/ RequeueTurn(ch) \/ EndWithoutTurn(ch) \/ FailProcessing(ch)

Turn(ch) ==
    EndProcessing(ch) \/ (\E rank \in 1 .. 2 : Snapshot(ch, rank)) \/ EndAttaching(ch)
    \/ FinishTurn(ch)

Next ==
    \/ \E c \in Command : Arrival(c)
    \/ ProcessQueue \/ DropPassive
    \/ \E ch \in Chain : Turn(ch)
    \/ Cancel \/ PopAllEditable \/ ClearQueue
    \/ \E rank \in 1 .. 2 : SubagentDrain(rank)

Spec == Init /\ [][Next]_vars

\* The effect runs after every change of the guard or the queue that leaves the
\* one idle and the other not empty; processUserInput and the reading of the
\* attachments come to an end; and the model stops asking for tools some time,
\* though it may ask for more of them in between.
Fairness ==
    /\ WF_vars(ProcessQueue) /\ WF_vars(DropPassive)
    /\ \A ch \in Chain :
        /\ WF_vars(EndProcessing(ch)) /\ WF_vars(EndAttaching(ch))
        /\ SF_vars(FinishTurn(ch))

FairSpec == Spec /\ Fairness

------------------------------------------------------------------------------
PC == {"free", "processing", "running", "attaching"}

TypeOK ==
    /\ status \in {"idle", "dispatching", "running"} /\ generation \in Nat
    /\ queue \subseteq Entry /\ IsFiniteSet(queue) /\ tickets \in Nat
    /\ chain \in [Chain -> [pc : PC, batch : SUBSET Entry, gen : Nat, aborted : BOOLEAN]]
    /\ \A ch \in Chain : IsFiniteSet(chain[ch].batch)
    /\ controller \in Chain \cup {NoChain}
    /\ arrived \in 0 .. MaxCommands
    /\ handled \in [Command -> Nat]
    /\ returned \cup dropped \cup failed \cup lost \cup raced \subseteq Command
    /\ cancels \in 0 .. MaxCancels

InTurn(ch) == chain[ch].pc \in {"running", "attaching"}

Owner(ch) == InTurn(ch) /\ chain[ch].gen = generation

\* The guard is running exactly while the turn of the current generation is: the
\* late end of an interrupted turn never frees the guard under a newer one, and
\* no order of interruptions, refusals and ends leaves it taken with nobody to
\* free it.
GuardFollowsTheTurn ==
    /\ status = "running" <=> \E ch \in Chain : Owner(ch)
    /\ \A ch, other \in Chain : Owner(ch) /\ Owner(other) => ch = other

\* A reservation is never left behind: somebody who will start a turn or give it
\* back is still at processUserInput, also when chains overlap after Escape.
ReservedByAChain ==
    status = "dispatching" => \E ch \in Chain : chain[ch].pc = "processing"

\* A guard that is taken has a holder that will free it.
GuardIsHeld == GuardFollowsTheTurn /\ ReservedByAChain

\* Until the user interrupts something there is one call of executeUserInput or
\* onQuery at a time, it holds the guard, and Escape reaches it unless its
\* processing has failed or it has been aborted.
OneChainAtATime ==
    cancels = 0 =>
        \A ch \in Chain : chain[ch].pc # "free" =>
            /\ controller = ch
            /\ status = IF InTurn(ch) THEN "running" ELSE "dispatching"
            /\ \A other \in Chain \ {ch} : chain[other].pc = "free"

\* A command is always somewhere: it waits in the queue, is being processed, is
\* in the conversation, or was given back or discarded on purpose.
Somewhere(c) ==
    \/ c \in Commands(queue) \/ handled[c] > 0 \/ c \in returned \cup dropped
    \/ \E ch \in Chain : chain[ch].pc = "processing" /\ c \in Commands(chain[ch].batch)

\* Commands vanish in three ways only.  processUserInput throws for one of those
\* that are processed together; or the attachment of one of those that a turn
\* collects fails; or the turn of an isMeta prompt is refused, which takes an
\* Escape.  Nothing else, in whatever order the callers take the queue, loses one.
VanishByFailureOnly ==
    /\ \A c \in 1 .. arrived : Somewhere(c) \/ c \in failed \cup lost
    /\ lost # {} => cancels > 0

\* A command enters the conversation once, and not when it went back to the
\* input box, unless somebody took it from the queue while a turn was attaching
\* it: query.ts removes what it attached without asking whether it is still there.
HandledOnce ==
    \A c \in Command \ raced :
        /\ handled[c] <= 1
        /\ handled[c] = 1 => c \notin returned \cup dropped \cup failed \cup lost \cup Commands(queue)

\* Of two waiting commands of one mode, isMeta flag, workload (which make up the
\* kind) and priority the older one never stays behind when the newer one leaves,
\* whoever takes it.  One of another workload may: of cron, goal and cron both
\* timers' prompts go first.
LeaveInOrder ==
    [][\A d, e \in queue :
          d.kind = e.kind /\ d.rank = e.rank /\ d.at < e.at /\ e \notin queue'
              => d \notin queue']_vars

\* What waits for the main thread leaves the queue some time, whatever is in it
\* for subagents.
QueueDrains ==
    \A c \in Command :
        c \in Commands(MainThread) ~> c \notin Commands(MainThread)

\* The guard becomes idle again, so that the program never shows a turn that is
\* not there.
GuardIsFreed == status # "idle" ~> status = "idle"

\* Whatever is typed, interrupted or fails, the work comes to an end.
WorkIsDone == QueueDrains /\ GuardIsFreed
==============================================================================
