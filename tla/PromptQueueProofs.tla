-------------------------- MODULE PromptQueueProofs --------------------------
(***************************************************************************)
(* What the guard and the command queue guarantee for every number of      *)
(* commands, chains and interruptions: types, that the guard follows the   *)
(* turn of the current generation, that no reservation is left behind,     *)
(* that chains overlap after an interruption only, that a command vanishes *)
(* by a failure only, that the queue keeps its order for commands of one   *)
(* kind, and that a command enters the conversation at most once.          *)
(***************************************************************************)
EXTENDS PromptQueue, FiniteSetTheorems, TLAPS

USE QueueConstants DEF guard, waiting, ends

ChainType == [pc : PC, batch : SUBSET Entry, gen : Nat, aborted : BOOLEAN]

\* What TypeOK says of the guard, the chains and the controller, of the queue,
\* and of the commands.
GuardTyped ==
    /\ status \in {"idle", "dispatching", "running"} /\ generation \in Nat
    /\ chain \in [Chain -> ChainType]
    /\ \A ch \in Chain : IsFiniteSet(chain[ch].batch)
    /\ controller \in Chain \cup {NoChain}
    /\ cancels \in 0 .. MaxCancels

QueueTyped == queue \subseteq Entry /\ IsFiniteSet(queue) /\ tickets \in Nat

EndsTyped ==
    /\ arrived \in 0 .. MaxCommands
    /\ handled \in [Command -> Nat]
    /\ returned \cup dropped \cup failed \cup lost \cup raced \subseteq Command

LEMMA TypeParts == TypeOK <=> GuardTyped /\ QueueTyped /\ EndsTyped
BY DEF TypeOK, GuardTyped, QueueTyped, EndsTyped, ChainType

LEMMA TypePartsNext == TypeOK' <=> GuardTyped' /\ QueueTyped' /\ EndsTyped'
BY DEF TypeOK, GuardTyped, QueueTyped, EndsTyped, ChainType

------------------------------------------------------------------------------
(* The operators on the queue.                                             *)

LEMMA CommandsTyped ==
    ASSUME NEW objects, objects \subseteq Entry
    PROVE  Commands(objects) \subseteq Command
BY DEF Commands, Entry

LEMMA ObjectTyped ==
    ASSUME NEW c \in Command, NEW kind \in Kind, NEW rank \in 1 .. 2, tickets \in Nat
    PROVE  Object(c, kind, rank) \in Entry
BY DEF Object, Entry

LEMMA AgainTyped ==
    ASSUME NEW objects, objects \subseteq Entry, IsFiniteSet(objects), tickets \in Nat
    PROVE  Again(objects) \subseteq Entry /\ IsFiniteSet(Again(objects))
<1> DEFINE new(e) == [cmd |-> e.cmd, kind |-> "prompt", rank |-> 1,
                      at |-> tickets + Cardinality({d \in objects : d.at <= e.at})]
           f == [e \in objects |-> new(e)]
<1>1. ASSUME NEW e \in objects PROVE new(e) \in Entry
  <2>1. {d \in objects : d.at <= e.at} \in SUBSET objects
    OBVIOUS
  <2>2. Cardinality({d \in objects : d.at <= e.at}) \in Nat
    BY <2>1, FS_Subset, FS_CardinalityType
  <2> QED
    BY <2>2 DEF Entry, Kind, Typed
<1>2. Again(objects) = {new(e) : e \in objects}
  BY DEF Again
<1>3. f \in Surjection(objects, {new(e) : e \in objects})
  BY DEF Surjection
<1> HIDE DEF new
<1>4. IsFiniteSet({new(e) : e \in objects})
  BY <1>3, FS_Surjection
<1> QED
  BY <1>1, <1>2, <1>4

LEMMA BatchTyped ==
    ASSUME QueueTyped, NEW e \in queue
    PROVE  /\ BatchOf(e) \subseteq queue /\ BatchOf(e) \subseteq Entry
           /\ IsFiniteSet(BatchOf(e))
<1>1. BatchOf(e) \in SUBSET queue
  BY DEF BatchOf
<1> QED
  BY <1>1, FS_Subset DEF QueueTyped

LEMMA HandleTyped ==
    ASSUME EndsTyped, NEW objects, Handle(objects)
    PROVE  handled' \in [Command -> Nat]
BY DEF Handle, EndsTyped

LEMMA EnqueueTyped ==
    ASSUME QueueTyped, NEW e \in Entry, Enqueue(e)
    PROVE  QueueTyped'
BY FS_AddElement DEF QueueTyped, Enqueue

LEMMA RemoveTyped ==
    ASSUME QueueTyped, NEW objects, queue' = queue \ objects, UNCHANGED tickets
    PROVE  QueueTyped'
<1>1. queue' \in SUBSET queue
  OBVIOUS
<1> QED
  BY <1>1, FS_Subset DEF QueueTyped

LEMMA TakeTyped ==
    ASSUME TypeOK, NEW objects, objects \subseteq Entry, NEW self, Take(objects, self)
    PROVE  raced' \subseteq Command
<1>1. objects \cap HeldBut(self) \subseteq Entry
  OBVIOUS
<1> QED
  BY <1>1, CommandsTyped DEF Take, TypeOK

LEMMA BecomeTyped ==
    ASSUME GuardTyped, NEW ch \in Chain, NEW pc \in PC, NEW batch, batch \subseteq Entry,
           IsFiniteSet(batch), NEW gen \in Nat, Become(ch, pc, batch, gen)
    PROVE  /\ chain' \in [Chain -> ChainType]
           /\ \A x \in Chain : IsFiniteSet(chain'[x].batch)
BY DEF Become, GuardTyped, ChainType

LEMMA ReleaseTyped ==
    ASSUME GuardTyped, NEW ch \in Chain, Release(ch)
    PROVE  /\ chain' \in [Chain -> ChainType]
           /\ \A x \in Chain : IsFiniteSet(chain'[x].batch)
BY FS_EmptySet DEF Release, Free, GuardTyped, ChainType, PC

------------------------------------------------------------------------------
(* The steps keep the types.                                               *)

LEMMA ExecuteTyped ==
    ASSUME GuardTyped, NEW objects, objects \subseteq Entry, IsFiniteSet(objects),
           Execute(objects), UNCHANGED cancels
    PROVE  GuardTyped'
<1>1. PICK ch \in Chain : /\ Become(ch, "processing", objects, 0)
                          /\ controller' = ch /\ Reserve /\ UNCHANGED generation
  BY DEF Execute
<1>2. status' \in {"idle", "dispatching", "running"}
  BY <1>1 DEF Reserve, GuardTyped
<1>3. /\ chain' \in [Chain -> ChainType]
      /\ \A x \in Chain : IsFiniteSet(chain'[x].batch)
  BY <1>1, BecomeTyped DEF PC
<1> QED
  BY <1>1, <1>2, <1>3 DEF GuardTyped

LEMMA AbortTyped ==
    ASSUME GuardTyped, controller \in Chain,
           chain' = [chain EXCEPT ![controller].aborted = TRUE]
    PROVE  /\ chain' \in [Chain -> ChainType]
           /\ \A x \in Chain : IsFiniteSet(chain'[x].batch)
BY DEF GuardTyped, ChainType

LEMMA ArrivalTyped ==
    ASSUME TypeOK, NEW c \in Command, Arrival(c)
    PROVE  TypeOK'
<1> USE TypeParts
<1>1. ASSUME NEW kind \in Typed, Submit(c, kind) PROVE TypeOK'
  <2>1. {Object(c, kind, 1)} \subseteq Entry /\ IsFiniteSet({Object(c, kind, 1)})
    <3>1. kind \in Kind /\ 1 \in 1 .. 2 /\ tickets \in Nat
      BY DEF QueueTyped, Kind
    <3>2. Object(c, kind, 1) \in Entry
      BY <3>1, ObjectTyped
    <3> QED
      BY <3>2, FS_Singleton
  <2>2. GuardTyped'
    BY <1>1, <2>1, ExecuteTyped DEF Submit
  <2> QED
    BY <1>1, <2>2, TypePartsNext DEF Submit, Arrive, Command, QueueTyped, EndsTyped
<1>2. ASSUME NEW kind \in Typed, SubmitWhileActive(c, kind) PROVE TypeOK'
  <2>1. QueueTyped'
    BY <1>2, ObjectTyped, EnqueueTyped DEF SubmitWhileActive, QueueTyped, Kind
  <2>2. GuardTyped'
    <3>1. CASE UNCHANGED chain
      BY <1>2, <3>1 DEF SubmitWhileActive, GuardTyped
    <3>2. CASE controller # NoChain /\ chain' = [chain EXCEPT ![controller].aborted = TRUE]
      <4>1. controller \in Chain
        BY <3>2 DEF GuardTyped
      <4> QED
        BY <1>2, <3>2, <4>1, AbortTyped DEF SubmitWhileActive, GuardTyped
    <3> QED
      BY <1>2, <3>1, <3>2 DEF SubmitWhileActive
  <2> QED
    BY <1>2, <2>1, <2>2, TypePartsNext DEF SubmitWhileActive, Arrive, Command, EndsTyped
<1>3. ASSUME NEW kind \in Kind, NEW rank \in 1 .. 2, Notify(c, kind, rank) PROVE TypeOK'
  <2>1. QueueTyped'
    BY <1>3, ObjectTyped, EnqueueTyped DEF Notify, QueueTyped
  <2> QED
    BY <1>3, <2>1, TypePartsNext DEF Notify, Arrive, Command, GuardTyped, EndsTyped
<1>4. CASE Incoming(c)
  <2>1. generation + 1 \in Nat
    BY DEF GuardTyped
  <2>2. PICK ch \in Chain : Become(ch, "running", {}, generation + 1) /\ controller' = ch
    BY <1>4 DEF Incoming
  <2>3. /\ chain' \in [Chain -> ChainType]
        /\ \A x \in Chain : IsFiniteSet(chain'[x].batch)
    BY <2>1, <2>2, BecomeTyped, FS_EmptySet DEF PC
  <2>4. GuardTyped'
    BY <1>4, <2>1, <2>2, <2>3 DEF Incoming, TryStart, GuardTyped
  <2> QED
    BY <1>4, <2>4, TypePartsNext DEF Incoming, Arrive, Command, QueueTyped, EndsTyped
<1>5. CASE ContinueGoal(c)
  <2> DEFINE old == {e \in queue : e.kind = "goal"}
  <2>1. old \in SUBSET queue /\ queue \ old \in SUBSET queue /\ old \subseteq Entry
    BY DEF QueueTyped
  <2>2. /\ queue' = (queue \ old) \cup {Object(c, "goal", 2)} /\ tickets' = tickets + 1
        /\ raced' = raced \cup Commands(old \cap HeldBut(NoChain))
        /\ dropped' = dropped \cup Commands(old)
        /\ UNCHANGED <<guard, chain, controller, handled, returned, failed, lost, cancels>>
    BY <1>5 DEF ContinueGoal
  <2> HIDE DEF old
  <2>3. Commands(old) \subseteq Command /\ Commands(old \cap HeldBut(NoChain)) \subseteq Command
    BY <2>1, CommandsTyped
  <2>4. "goal" \in Kind /\ 2 \in 1 .. 2 /\ tickets \in Nat /\ queue \subseteq Entry
    BY DEF Kind, Meta, QueueTyped
  <2>5. Object(c, "goal", 2) \in Entry
    BY <2>4, ObjectTyped
  <2>6. IsFiniteSet(queue \ old)
    BY <2>1, FS_Subset DEF QueueTyped
  <2>7. QueueTyped'
    BY <2>2, <2>4, <2>5, <2>6, FS_AddElement DEF QueueTyped
  <2> QED
    <3>1. GuardTyped'
      BY <2>2 DEF GuardTyped
    <3>2. c = arrived + 1 /\ arrived' = c
      BY <1>5 DEF ContinueGoal, Arrive
    <3>3. arrived' \in 0 .. MaxCommands
      BY <3>2 DEF Command
    <3>4. returned' \cup dropped' \cup failed' \cup lost' \cup raced' \subseteq Command
      BY <2>2, <2>3 DEF EndsTyped
    <3>5. EndsTyped'
      BY <2>2, <3>3, <3>4 DEF EndsTyped
    <3> QED
      BY <2>7, <3>1, <3>5, TypePartsNext
<1> QED
  <2>1. "prompt" \in Kind /\ "meta" \in Kind /\ "cron" \in Kind /\ 1 \in 1 .. 2 /\ 2 \in 1 .. 2
    BY DEF Kind, Typed, Meta
  <2>2. {"task", "passive", "agent"} \subseteq Kind
    BY DEF Kind
  <2> QED
    BY <1>1, <1>2, <1>3, <1>4, <1>5, <2>1, <2>2 DEF Arrival

LEMMA DrainTyped ==
    ASSUME TypeOK, ProcessQueue \/ DropPassive \/ PopAllEditable \/ ClearQueue
                     \/ \E rank \in 1 .. 2 : SubagentDrain(rank)
    PROVE  TypeOK'
<1> USE TypeParts
<1>1. CASE ProcessQueue
  <2>1. PICK e \in queue : /\ Execute(BatchOf(e))
                           /\ Take(BatchOf(e), NoChain)
    BY <1>1 DEF ProcessQueue, MainThread
  <2>2. BatchOf(e) \subseteq Entry /\ IsFiniteSet(BatchOf(e))
    BY BatchTyped
  <2>3. GuardTyped'
    BY <1>1, <2>1, <2>2, ExecuteTyped DEF ProcessQueue
  <2>4. QueueTyped'
    BY <1>1, <2>1, RemoveTyped DEF ProcessQueue, Take
  <2>5. raced' \subseteq Command
    BY <2>1, <2>2, TakeTyped
  <2> QED
    BY <1>1, <2>3, <2>4, <2>5, TypePartsNext DEF ProcessQueue, EndsTyped
<1>2. CASE DropPassive
  <2>1. PICK e \in queue : /\ Take(BatchOf(e), NoChain)
                           /\ dropped' = dropped \cup Commands(BatchOf(e))
    BY <1>2 DEF DropPassive, MainThread
  <2>2. BatchOf(e) \subseteq Entry
    BY BatchTyped
  <2>3. Commands(BatchOf(e)) \subseteq Command
    BY <2>2, CommandsTyped
  <2>4. QueueTyped'
    BY <1>2, <2>1, RemoveTyped DEF DropPassive, Take
  <2>5. raced' \subseteq Command
    BY <2>1, <2>2, TakeTyped
  <2> QED
    BY <1>2, <2>1, <2>3, <2>4, <2>5, TypePartsNext DEF DropPassive, GuardTyped, EndsTyped
<1>3. CASE PopAllEditable
  <2>1. Editable \subseteq Entry
    BY DEF Editable, QueueTyped
  <2>2. Commands(Editable) \subseteq Command
    BY <2>1, CommandsTyped
  <2>3. QueueTyped'
    BY <1>3, RemoveTyped DEF PopAllEditable, Take
  <2>4. raced' \subseteq Command
    BY <1>3, <2>1, TakeTyped DEF PopAllEditable
  <2> QED
    BY <1>3, <2>2, <2>3, <2>4, TypePartsNext DEF PopAllEditable, GuardTyped, EndsTyped
<1>4. CASE ClearQueue
  <2>1. queue \subseteq Entry
    BY DEF QueueTyped
  <2>2. Commands(queue) \subseteq Command
    BY <2>1, CommandsTyped
  <2>3. QueueTyped'
    BY <1>4, RemoveTyped DEF ClearQueue, Take
  <2>4. raced' \subseteq Command
    BY <1>4, <2>1, TakeTyped DEF ClearQueue
  <2> QED
    BY <1>4, <2>2, <2>3, <2>4, TypePartsNext DEF ClearQueue, GuardTyped, EndsTyped
<1>5. ASSUME NEW rank \in 1 .. 2, SubagentDrain(rank) PROVE TypeOK'
  <2>1. QueueTyped'
    BY <1>5, RemoveTyped DEF SubagentDrain
  <2>2. handled' \in [Command -> Nat]
    BY <1>5, HandleTyped DEF SubagentDrain
  <2> QED
    BY <1>5, <2>1, <2>2, TypePartsNext DEF SubagentDrain, GuardTyped, EndsTyped
<1> QED
  BY <1>1, <1>2, <1>3, <1>4, <1>5

LEMMA TurnTyped ==
    ASSUME TypeOK, NEW ch \in Chain, Turn(ch)
    PROVE  TypeOK'
<1> USE TypeParts
<1>0. /\ chain[ch].batch \subseteq Entry /\ IsFiniteSet(chain[ch].batch)
      /\ chain[ch].gen \in Nat
  BY DEF GuardTyped, ChainType
<1>1. CASE StartTurn(ch)
  <2>1. generation + 1 \in Nat
    BY DEF GuardTyped
  <2>2. /\ chain' \in [Chain -> ChainType]
        /\ \A x \in Chain : IsFiniteSet(chain'[x].batch)
    BY <1>1, <2>1, BecomeTyped, FS_EmptySet DEF StartTurn, PC
  <2>3. GuardTyped'
    BY <1>1, <2>1, <2>2 DEF StartTurn, TryStart, GuardTyped
  <2>4. handled' \in [Command -> Nat]
    BY <1>1, HandleTyped DEF StartTurn
  <2> QED
    BY <1>1, <2>3, <2>4, TypePartsNext DEF StartTurn, QueueTyped, EndsTyped
<1>2. CASE RequeueTurn(ch)
  <2> DEFINE kept == {e \in chain[ch].batch : e.kind \notin Meta}
  <2>1. kept \in SUBSET chain[ch].batch /\ kept \subseteq Entry
    BY <1>0
  <2>2. IsFiniteSet(kept) /\ Cardinality(kept) \in Nat
    BY <1>0, <2>1, FS_Subset, FS_CardinalityType
  <2>3. Again(kept) \subseteq Entry /\ IsFiniteSet(Again(kept))
    BY <2>1, <2>2, AgainTyped DEF QueueTyped
  <2>4. /\ queue' = queue \cup Again(kept) /\ tickets' = tickets + Cardinality(kept)
        /\ lost' = lost \cup Commands(chain[ch].batch \ kept)
    BY <1>2 DEF RequeueTurn
  <2> HIDE DEF kept
  <2>5. QueueTyped'
    <3>1. queue \subseteq Entry /\ IsFiniteSet(queue) /\ tickets \in Nat
      BY DEF QueueTyped
    <3>2. IsFiniteSet(queue \cup Again(kept))
      BY <2>3, <3>1, FS_Union
    <3>3. tickets' \in Nat
      BY <2>2, <2>4, <3>1
    <3> QED
      BY <2>3, <2>4, <3>1, <3>2, <3>3 DEF QueueTyped
  <2>6. Commands(chain[ch].batch \ kept) \subseteq Command
    BY <1>0, CommandsTyped
  <2>7. GuardTyped'
    BY <1>2, ReleaseTyped DEF RequeueTurn, GuardTyped
  <2>8. UNCHANGED <<arrived, handled, returned, dropped, failed, raced>>
    BY <1>2 DEF RequeueTurn
  <2> QED
    BY <2>4, <2>5, <2>6, <2>7, <2>8, TypePartsNext DEF EndsTyped
<1>3. CASE EndWithoutTurn(ch)
  <2>1. GuardTyped'
    BY <1>3, ReleaseTyped DEF EndWithoutTurn, CancelReservation, GuardTyped
  <2>2. handled' \in [Command -> Nat]
    BY <1>3, HandleTyped DEF EndWithoutTurn
  <2> QED
    BY <1>3, <2>1, <2>2, TypePartsNext DEF EndWithoutTurn, QueueTyped, EndsTyped
<1>4. CASE FailProcessing(ch)
  <2>1. GuardTyped'
    BY <1>4, ReleaseTyped DEF FailProcessing, CancelReservation, GuardTyped
  <2>2. Commands(chain[ch].batch) \subseteq Command
    BY <1>0, CommandsTyped
  <2> QED
    BY <1>4, <2>1, <2>2, TypePartsNext DEF FailProcessing, QueueTyped, EndsTyped
<1>5. ASSUME NEW rank \in 1 .. 2, Snapshot(ch, rank) PROVE TypeOK'
  <2> DEFINE seen == {e \in MainThread : e.rank <= rank /\ e.kind # "slash"}
  <2>1. seen \in SUBSET queue
    BY DEF MainThread
  <2>2. seen \subseteq Entry /\ IsFiniteSet(seen)
    BY <2>1, FS_Subset DEF QueueTyped
  <2>3. Become(ch, "attaching", seen, chain[ch].gen)
    BY <1>5 DEF Snapshot
  <2> HIDE DEF seen
  <2>4. /\ chain' \in [Chain -> ChainType]
        /\ \A x \in Chain : IsFiniteSet(chain'[x].batch)
    BY <1>0, <2>2, <2>3, BecomeTyped DEF PC
  <2> QED
    BY <1>5, <2>4, TypePartsNext DEF Snapshot, GuardTyped, QueueTyped, EndsTyped
<1>6. CASE EndAttaching(ch)
  <2> DEFINE consumed == Consumed(ch)
  <2>1. Take(consumed, ch) /\ Consume(ch) /\ UNCHANGED tickets
    BY <1>6 DEF EndAttaching, Attach, AttachFails, Consume
  <2>2. consumed \subseteq Entry /\ consumed \cap queue \subseteq Entry
    BY <1>0 DEF Consumed
  <2>3. \/ Handle(consumed) /\ UNCHANGED failed
        \/ failed' = failed \cup Commands(consumed \cap queue) /\ UNCHANGED handled
    BY <1>6 DEF EndAttaching, Attach, AttachFails
  <2> HIDE DEF consumed
  <2>4. raced' \subseteq Command /\ Commands(consumed \cap queue) \subseteq Command
    BY <2>1, <2>2, TakeTyped, CommandsTyped
  <2>5. handled' \in [Command -> Nat] /\ failed' \subseteq Command
    BY <2>3, <2>4, HandleTyped DEF EndsTyped
  <2>6. QueueTyped'
    BY <2>1, RemoveTyped DEF Take
  <2>7. /\ chain' \in [Chain -> ChainType]
        /\ \A x \in Chain : IsFiniteSet(chain'[x].batch)
    BY <1>0, <2>1, BecomeTyped, FS_EmptySet DEF Consume, PC
  <2> QED
    BY <2>1, <2>4, <2>5, <2>6, <2>7, TypePartsNext DEF Consume, GuardTyped, EndsTyped
<1>7. CASE FinishTurn(ch)
  <2>1. GuardTyped'
    BY <1>7, ReleaseTyped DEF FinishTurn, CancelReservation, GuardTyped
  <2> QED
    BY <1>7, <2>1, TypePartsNext DEF FinishTurn, QueueTyped, EndsTyped
<1> QED
  BY <1>1, <1>2, <1>3, <1>4, <1>5, <1>6, <1>7 DEF Turn, EndProcessing

LEMMA CancelTyped ==
    ASSUME TypeOK, Cancel
    PROVE  TypeOK'
<1> USE TypeParts
<1>1. cancels' \in 0 .. MaxCancels
  BY DEF Cancel, GuardTyped
<1>2. status' \in {"idle", "dispatching", "running"} /\ generation' \in Nat
  BY DEF Cancel, ForceEnd, GuardTyped
<1>3. controller \in Chain
  BY DEF Cancel, CanCancel, GuardTyped
<1>4. /\ chain' \in [Chain -> ChainType]
      /\ \A x \in Chain : IsFiniteSet(chain'[x].batch)
  <2>1. CASE chain' = chain
    BY <2>1 DEF GuardTyped
  <2>2. CASE chain' = [chain EXCEPT ![controller].aborted = TRUE]
    BY <1>3, <2>2, AbortTyped
  <2> QED
    BY <2>1, <2>2 DEF Cancel
<1>5. GuardTyped'
  BY <1>1, <1>2, <1>4 DEF Cancel, GuardTyped
<1> QED
  BY <1>5, TypePartsNext DEF Cancel, QueueTyped, EndsTyped

LEMMA TypeInit == Init => TypeOK
<1> SUFFICES ASSUME Init PROVE TypeOK
  OBVIOUS
<1>1. GuardTyped
  <2>1. Free \in ChainType
    BY DEF Free, ChainType, PC
  <2>2. chain = [ch \in Chain |-> Free] /\ IsFiniteSet(Free.batch)
    BY FS_EmptySet DEF Init, Free
  <2>3. chain \in [Chain -> ChainType] /\ \A ch \in Chain : IsFiniteSet(chain[ch].batch)
    BY <2>1, <2>2
  <2> QED
    BY <2>3 DEF Init, GuardTyped
<1>2. QueueTyped /\ EndsTyped
  BY FS_EmptySet DEF Init, QueueTyped, EndsTyped
<1> QED
  BY <1>1, <1>2, TypeParts

LEMMA TypeStep == TypeOK /\ [Next]_vars => TypeOK'
<1> SUFFICES ASSUME TypeOK, [Next]_vars PROVE TypeOK'
  OBVIOUS
<1>1. CASE UNCHANGED vars
  BY <1>1 DEF vars, TypeOK
<1>2. CASE Next
  BY <1>2, ArrivalTyped, DrainTyped, TurnTyped, CancelTyped DEF Next
<1> QED
  BY <1>1, <1>2

\* The guard, the chains, the queue and the commands keep their types, whatever
\* the number of commands, of chains and of interruptions.
THEOREM TypeCorrect == Spec => []TypeOK
<1> QED
  BY TypeInit, TypeStep, PTL DEF Spec
------------------------------------------------------------------------------
(* The guard and the chains.  The invariants of the guard are inductive      *)
(* together with a bound: no turn has a generation to come, so that the      *)
(* number a new turn takes makes every earlier turn a former owner.          *)

GenerationsArePast == \A ch \in Chain : InTurn(ch) => chain[ch].gen <= generation

GuardInv ==
    /\ TypeOK /\ GenerationsArePast
    /\ GuardFollowsTheTurn /\ ReservedByAChain /\ OneChainAtATime

GuardDone == GenerationsArePast' /\ GuardFollowsTheTurn' /\ ReservedByAChain' /\ OneChainAtATime'

LEMMA Became ==
    ASSUME GuardTyped, NEW ch \in Chain, NEW pc, NEW batch, NEW gen, Become(ch, pc, batch, gen)
    PROVE  /\ chain'[ch].pc = pc /\ chain'[ch].gen = gen
           /\ \A x \in Chain \ {ch} : chain'[x] = chain[x]
BY DEF Become, GuardTyped, ChainType

LEMMA Released ==
    ASSUME GuardTyped, NEW ch \in Chain, Release(ch)
    PROVE  /\ chain'[ch].pc = "free"
           /\ \A x \in Chain \ {ch} : chain'[x] = chain[x]
BY DEF Release, Free, GuardTyped

LEMMA Aborted ==
    ASSUME GuardTyped, controller \in Chain,
           chain' = [chain EXCEPT ![controller].aborted = TRUE]
    PROVE  \A x \in Chain : chain'[x].pc = chain[x].pc /\ chain'[x].gen = chain[x].gen
BY DEF GuardTyped, ChainType

\* A new call reserves an idle guard.
LEMMA ExecuteGuard ==
    ASSUME GuardInv, NEW objects, Execute(objects), status = "idle", UNCHANGED cancels
    PROVE  GuardDone
<1>1. PICK ch \in Chain : /\ chain[ch].pc = "free" /\ Become(ch, "processing", objects, 0)
                          /\ controller' = ch /\ Reserve /\ UNCHANGED generation
  BY DEF Execute, FirstFree
<1>2. GuardTyped
  BY TypeParts DEF GuardInv
<1>3. /\ chain'[ch].pc = "processing"
      /\ \A x \in Chain \ {ch} : chain'[x] = chain[x]
  BY <1>1, <1>2, Became
<1>4. status' = "dispatching"
  BY <1>1 DEF Reserve
<1>5. GenerationsArePast'
  BY <1>1, <1>3 DEF GuardInv, GenerationsArePast, InTurn
<1>6. GuardFollowsTheTurn'
  BY <1>1, <1>3, <1>4 DEF GuardInv, GuardFollowsTheTurn, Owner, InTurn
<1>7. ReservedByAChain'
  BY <1>3 DEF ReservedByAChain
<1>8. OneChainAtATime'
  <2>1. cancels = 0 => \A x \in Chain : chain[x].pc = "free"
    BY DEF GuardInv, OneChainAtATime
  <2> QED
    BY <1>1, <1>3, <1>4, <2>1 DEF OneChainAtATime, InTurn
<1> QED
  BY <1>5, <1>6, <1>7, <1>8 DEF GuardDone

\* A turn begins under a new generation, in its own chain.
LEMMA BeginGuard ==
    ASSUME GuardInv, NEW ch \in Chain, Become(ch, "running", {}, generation + 1), TryStart,
           UNCHANGED cancels,
           \/ chain[ch].pc = "free" /\ status = "idle" /\ controller' = ch
           \/ chain[ch].pc = "processing" /\ UNCHANGED controller
    PROVE  GuardDone
<1>1. GuardTyped
  BY TypeParts DEF GuardInv
<1>2. /\ chain'[ch].pc = "running" /\ chain'[ch].gen = generation + 1
      /\ \A x \in Chain \ {ch} : chain'[x] = chain[x]
  BY <1>1, Became
<1>3. status' = "running" /\ generation' = generation + 1 /\ generation \in Nat
  BY <1>1 DEF TryStart, GuardTyped
<1>4. \A x \in Chain : chain[x].gen \in Nat
  BY <1>1 DEF GuardTyped, ChainType
<1>5. GenerationsArePast'
  BY <1>2, <1>3, <1>4 DEF GuardInv, GenerationsArePast, InTurn
<1>6. GuardFollowsTheTurn'
  <2>1. \A x \in Chain \ {ch} : ~Owner(x)'
    BY <1>2, <1>3, <1>4 DEF GuardInv, GenerationsArePast, Owner, InTurn
  <2>2. Owner(ch)'
    BY <1>2, <1>3 DEF Owner, InTurn
  <2> QED
    BY <1>3, <2>1, <2>2 DEF GuardFollowsTheTurn
<1>7. ReservedByAChain'
  BY <1>3 DEF ReservedByAChain
<1>8. OneChainAtATime'
  <2>1. cancels = 0 => \A x \in Chain \ {ch} : chain[x].pc = "free"
    BY DEF GuardInv, OneChainAtATime
  <2>2. cancels = 0 => controller' = ch
    BY DEF GuardInv, OneChainAtATime
  <2> QED
    BY <1>2, <1>3, <2>1, <2>2 DEF OneChainAtATime, InTurn
<1> QED
  BY <1>5, <1>6, <1>7, <1>8 DEF GuardDone

\* A chain that is not in the turn of the guard goes, and gives a reservation back.
LEMMA LeaveGuard ==
    ASSUME GuardInv, NEW ch \in Chain, ~Owner(ch), chain[ch].pc # "free", Release(ch),
           \/ status' = CancelReservation(status)
           \/ status = "running" /\ UNCHANGED status,
           UNCHANGED <<generation, cancels>>
    PROVE  GuardDone
<1>1. GuardTyped
  BY TypeParts DEF GuardInv
<1>2. chain'[ch].pc = "free" /\ \A x \in Chain \ {ch} : chain'[x] = chain[x]
  BY <1>1, Released
<1>3. status' # "dispatching" /\ (status' = "running" <=> status = "running")
  BY DEF CancelReservation
<1>4. GenerationsArePast'
  BY <1>2 DEF GuardInv, GenerationsArePast, InTurn
<1>5. GuardFollowsTheTurn'
  <2>1. \A x \in Chain : Owner(x)' <=> Owner(x)
    BY <1>2 DEF Owner, InTurn
  <2> QED
    BY <1>3, <2>1 DEF GuardInv, GuardFollowsTheTurn
<1>6. ReservedByAChain'
  BY <1>3 DEF ReservedByAChain
<1>7. OneChainAtATime'
  BY <1>2 DEF GuardInv, OneChainAtATime
<1> QED
  BY <1>4, <1>5, <1>6, <1>7 DEF GuardDone

\* The turn of the guard ends.
LEMMA EndGuard ==
    ASSUME GuardInv, NEW ch \in Chain, chain[ch].pc = "running", Ends(chain[ch].gen),
           status' = "idle", Release(ch), UNCHANGED <<generation, cancels>>
    PROVE  GuardDone
<1>1. GuardTyped
  BY TypeParts DEF GuardInv
<1>2. chain'[ch].pc = "free" /\ \A x \in Chain \ {ch} : chain'[x] = chain[x]
  BY <1>1, Released
<1>3. Owner(ch)
  BY DEF Ends, Owner, InTurn
<1>4. GenerationsArePast'
  BY <1>2 DEF GuardInv, GenerationsArePast, InTurn
<1>5. GuardFollowsTheTurn'
  <2>1. \A x \in Chain : ~Owner(x)'
    BY <1>2, <1>3 DEF GuardInv, GuardFollowsTheTurn, Owner, InTurn
  <2> QED
    BY <2>1 DEF GuardFollowsTheTurn
<1>6. ReservedByAChain'
  BY DEF ReservedByAChain
<1>7. OneChainAtATime'
  BY <1>2 DEF GuardInv, OneChainAtATime
<1> QED
  BY <1>4, <1>5, <1>6, <1>7 DEF GuardDone

\* The calls go on with what they are doing, and no more is said of the guard.
LEMMA GoOnGuard ==
    ASSUME GuardInv, UNCHANGED <<status, generation, controller, cancels>>,
           \A x \in Chain : /\ InTurn(x)' <=> InTurn(x)
                            /\ chain'[x].gen = chain[x].gen
                            /\ chain'[x].pc = "processing" <=> chain[x].pc = "processing"
                            /\ chain'[x].pc = "free" <=> chain[x].pc = "free"
    PROVE  GuardDone
<1>1. GenerationsArePast'
  BY DEF GuardInv, GenerationsArePast
<1>2. GuardFollowsTheTurn'
  <2>1. \A x \in Chain : Owner(x)' <=> Owner(x)
    BY DEF Owner
  <2> QED
    BY <2>1 DEF GuardInv, GuardFollowsTheTurn
<1>3. ReservedByAChain'
  BY DEF GuardInv, ReservedByAChain
<1>4. OneChainAtATime'
  BY DEF GuardInv, OneChainAtATime
<1> QED
  BY <1>1, <1>2, <1>3, <1>4 DEF GuardDone

\* Escape frees the guard, and no generation it has had is current any more.
LEMMA CancelGuard ==
    ASSUME GuardInv, Cancel
    PROVE  GuardDone
<1>1. GuardTyped
  BY TypeParts DEF GuardInv
<1>2. \A x \in Chain : chain'[x].pc = chain[x].pc /\ chain'[x].gen = chain[x].gen
  <2>1. controller \in Chain
    BY <1>1 DEF Cancel, CanCancel, GuardTyped
  <2> QED
    BY <1>1, <2>1, Aborted DEF Cancel
<1>3. status' = "idle" /\ generation \in Nat
  BY <1>1 DEF Cancel, ForceEnd, GuardTyped
<1>4. generation' = (IF status = "idle" THEN generation ELSE generation + 1)
  BY DEF Cancel, ForceEnd
<1>5. \A x \in Chain : chain[x].gen \in Nat
  BY <1>1 DEF GuardTyped, ChainType
<1>6. GenerationsArePast'
  BY <1>2, <1>3, <1>4, <1>5 DEF GuardInv, GenerationsArePast, InTurn
<1>7. GuardFollowsTheTurn'
  <2>1. CASE status = "idle"
    BY <1>2, <1>3, <1>4, <2>1 DEF GuardInv, GuardFollowsTheTurn, Owner, InTurn
  <2>2. CASE status # "idle"
    <3>1. \A x \in Chain : ~Owner(x)'
      BY <1>2, <1>3, <1>4, <1>5, <2>2 DEF GuardInv, GenerationsArePast, Owner, InTurn
    <3> QED
      BY <1>3, <3>1 DEF GuardFollowsTheTurn
  <2> QED
    BY <2>1, <2>2
<1>8. ReservedByAChain'
  BY <1>3 DEF ReservedByAChain
<1>9. OneChainAtATime'
  <2>1. cancels' # 0
    BY <1>1 DEF Cancel, GuardTyped
  <2> QED
    BY <2>1 DEF OneChainAtATime
<1> QED
  BY <1>6, <1>7, <1>8, <1>9 DEF GuardDone

LEMMA ArrivalGuard ==
    ASSUME GuardInv, NEW c \in Command, Arrival(c)
    PROVE  GuardDone
<1>1. GuardTyped
  BY TypeParts DEF GuardInv
<1>2. ASSUME NEW kind, Submit(c, kind) PROVE GuardDone
  BY <1>2, ExecuteGuard DEF Submit
<1>3. ASSUME NEW kind, SubmitWhileActive(c, kind) PROVE GuardDone
  <2>1. CASE UNCHANGED chain
    BY <1>3, <2>1, GoOnGuard DEF SubmitWhileActive, InTurn
  <2>2. CASE controller # NoChain /\ chain' = [chain EXCEPT ![controller].aborted = TRUE]
    <3>1. \A x \in Chain : chain'[x].pc = chain[x].pc /\ chain'[x].gen = chain[x].gen
      BY <1>1, <2>2, Aborted DEF GuardTyped
    <3> QED
      BY <1>3, <3>1, GoOnGuard DEF SubmitWhileActive, InTurn
  <2> QED
    BY <1>3, <2>1, <2>2 DEF SubmitWhileActive
<1>4. ASSUME NEW kind, NEW rank, Notify(c, kind, rank) PROVE GuardDone
  BY <1>4, GoOnGuard DEF Notify, InTurn
<1>5. CASE Incoming(c)
  <2>1. PICK ch \in Chain : /\ chain[ch].pc = "free" /\ controller' = ch
                            /\ Become(ch, "running", {}, generation + 1)
    BY <1>5 DEF Incoming, FirstFree
  <2> QED
    BY <1>5, <2>1, BeginGuard DEF Incoming
<1>6. CASE ContinueGoal(c)
  BY <1>6, GoOnGuard DEF ContinueGoal, InTurn
<1> QED
  BY <1>2, <1>3, <1>4, <1>5, <1>6 DEF Arrival

LEMMA TurnGuard ==
    ASSUME GuardInv, NEW ch \in Chain, Turn(ch)
    PROVE  GuardDone
<1>0. GuardTyped
  BY TypeParts DEF GuardInv
<1>1. CASE StartTurn(ch)
  BY <1>1, BeginGuard DEF StartTurn
<1>2. CASE RequeueTurn(ch)
  BY <1>2, LeaveGuard DEF RequeueTurn, Owner, InTurn
<1>3. CASE EndWithoutTurn(ch)
  BY <1>3, LeaveGuard DEF EndWithoutTurn, Owner, InTurn
<1>4. CASE FailProcessing(ch)
  BY <1>4, LeaveGuard DEF FailProcessing, Owner, InTurn
<1>5. ASSUME NEW rank \in 1 .. 2, Snapshot(ch, rank) PROVE GuardDone
  <2>1. PICK seen : Become(ch, "attaching", seen, chain[ch].gen)
    BY <1>5 DEF Snapshot
  <2>2. /\ chain'[ch].pc = "attaching" /\ chain'[ch].gen = chain[ch].gen
        /\ \A x \in Chain \ {ch} : chain'[x] = chain[x]
    BY <1>0, <2>1, Became
  <2> QED
    BY <1>5, <2>2, GoOnGuard DEF Snapshot, InTurn
<1>6. CASE EndAttaching(ch)
  <2>1. Consume(ch)
    BY <1>6 DEF EndAttaching, Attach, AttachFails
  <2>2. /\ chain'[ch].pc = "running" /\ chain'[ch].gen = chain[ch].gen
        /\ \A x \in Chain \ {ch} : chain'[x] = chain[x]
    BY <1>0, <2>1, Became DEF Consume
  <2> QED
    BY <2>1, <2>2, GoOnGuard DEF Consume, InTurn
<1>7. CASE FinishTurn(ch)
  <2>1. CASE Ends(chain[ch].gen)
    BY <1>7, <2>1, EndGuard DEF FinishTurn
  <2>2. CASE ~Ends(chain[ch].gen)
    <3>1. ~Owner(ch)
      BY <2>2 DEF GuardInv, GuardFollowsTheTurn, Ends, Owner
    <3> QED
      BY <1>7, <2>2, <3>1, LeaveGuard DEF FinishTurn
  <2> QED
    BY <2>1, <2>2
<1> QED
  BY <1>1, <1>2, <1>3, <1>4, <1>5, <1>6, <1>7 DEF Turn, EndProcessing

LEMMA GuardInit == Init => GuardInv
<1> SUFFICES ASSUME Init PROVE GuardInv
  OBVIOUS
<1>1. \A ch \in Chain : chain[ch].pc = "free"
  BY DEF Init, Free
<1>2. status = "idle"
  BY DEF Init
<1> QED
  BY <1>1, <1>2, TypeInit DEF GuardInv, GenerationsArePast, GuardFollowsTheTurn,
     ReservedByAChain, OneChainAtATime, Owner, InTurn

LEMMA GuardStep == GuardInv /\ [Next]_vars => GuardInv'
<1> SUFFICES ASSUME GuardInv, [Next]_vars PROVE GuardInv'
  OBVIOUS
<1>1. GuardDone
  <2>1. CASE UNCHANGED vars
    BY <2>1, GoOnGuard DEF vars, InTurn
  <2>2. CASE ProcessQueue
    <3>1. PICK objects : Execute(objects)
      BY <2>2 DEF ProcessQueue
    <3> QED
      BY <2>2, <3>1, ExecuteGuard DEF ProcessQueue
  <2>3. CASE DropPassive
    BY <2>3, GoOnGuard DEF DropPassive, InTurn
  <2>4. CASE PopAllEditable
    BY <2>4, GoOnGuard DEF PopAllEditable, InTurn
  <2>5. CASE ClearQueue
    BY <2>5, GoOnGuard DEF ClearQueue, InTurn
  <2>6. ASSUME NEW rank \in 1 .. 2, SubagentDrain(rank) PROVE GuardDone
    BY <2>6, GoOnGuard DEF SubagentDrain, InTurn
  <2> QED
    BY <2>1, <2>2, <2>3, <2>4, <2>5, <2>6, ArrivalGuard, TurnGuard, CancelGuard DEF Next
<1>2. TypeOK'
  BY TypeStep DEF GuardInv
<1> QED
  BY <1>1, <1>2 DEF GuardInv, GuardDone

THEOREM GuardCorrect == Spec => []GuardInv
<1> QED
  BY GuardInit, GuardStep, PTL DEF Spec

\* The guard is running exactly while the turn of its generation is, and there
\* is one such turn: QueryGuard's end() with its number never frees it early,
\* forceEnd() never leaves a former turn its owner.
THEOREM GuardFollows == Spec => []GuardFollowsTheTurn
<1>1. GuardInv => GuardFollowsTheTurn
  BY DEF GuardInv
<1> QED
  BY GuardCorrect, <1>1, PTL

\* A reserved guard has a call at processUserInput that will start a turn or
\* give the reservation back, in every order of interruptions and refusals.
THEOREM Reserved == Spec => []ReservedByAChain
<1>1. GuardInv => ReservedByAChain
  BY DEF GuardInv
<1> QED
  BY GuardCorrect, <1>1, PTL

\* A guard that is taken has a holder that will free it.
THEOREM GuardHeld == Spec => []GuardIsHeld
BY GuardFollows, Reserved, PTL DEF GuardIsHeld

\* Without an interruption the calls of executeUserInput and onQuery never overlap.
THEOREM OneChain == Spec => []OneChainAtATime
<1>1. GuardInv => OneChainAtATime
  BY DEF GuardInv
<1> QED
  BY GuardCorrect, <1>1, PTL
------------------------------------------------------------------------------
(* No command vanishes but by a failure.  The invariants of the guard are    *)
(* needed for the isMeta prompts: while nothing was interrupted no turn is   *)
(* ever refused.                                                             *)

Ended(c) == handled[c] > 0 \/ c \in returned \cup dropped \cup failed \cup lost

Waits(c) == c \in Commands(queue)

Processed(c) == \E ch \in Chain : chain[ch].pc = "processing" /\ c \in Commands(chain[ch].batch)

Accounted(c) == Waits(c) \/ Ended(c) \/ Processed(c)

NoCommandVanishes == \A c \in 1 .. arrived : Accounted(c)

LostAfterCancel == lost # {} => cancels > 0

VanishInv == GuardInv /\ NoCommandVanishes /\ LostAfterCancel

LEMMA VanishParts == VanishByFailureOnly <=> NoCommandVanishes /\ LostAfterCancel
<1>1. ASSUME NEW c PROVE Accounted(c) <=> Somewhere(c) \/ c \in failed \cup lost
  BY DEF Accounted, Somewhere, Ended, Waits, Processed
<1> QED
  BY <1>1 DEF VanishByFailureOnly, NoCommandVanishes, LostAfterCancel

LEMMA Handled ==
    ASSUME EndsTyped, NEW objects, Handle(objects), NEW c \in Command
    PROVE  /\ handled[c] > 0 => handled'[c] > 0
           /\ c \in Commands(objects) => handled'[c] > 0
BY DEF Handle, EndsTyped

\* What leaves the queue is among the commands of the objects that were taken.
LEMMA Taken ==
    ASSUME NEW objects, queue' = queue \ objects, NEW c, Waits(c)
    PROVE  Waits(c)' \/ c \in Commands(objects)
BY DEF Waits, Commands

\* Processing goes on in the chains that a step leaves alone.
LEMMA StillProcessed ==
    ASSUME NEW ch \in Chain, \A x \in Chain \ {ch} : chain'[x] = chain[x], NEW c, Processed(c)
    PROVE  \/ Processed(c)'
           \/ chain[ch].pc = "processing" /\ c \in Commands(chain[ch].batch)
BY DEF Processed

LEMMA ExecuteKeeps ==
    ASSUME GuardTyped, NEW objects, Execute(objects), NEW c
    PROVE  /\ Processed(c) => Processed(c)'
           /\ c \in Commands(objects) => Processed(c)'
<1>1. PICK ch \in Chain : chain[ch].pc = "free" /\ Become(ch, "processing", objects, 0)
  BY DEF Execute, FirstFree
<1>2. \A x \in Chain \ {ch} : chain'[x] = chain[x]
  BY <1>1, Became
<1>3. chain'[ch].pc = "processing" /\ chain'[ch].batch = objects
  BY <1>1 DEF Become, GuardTyped, ChainType
<1> QED
  BY <1>1, <1>2, <1>3, StillProcessed DEF Processed

LEMMA ArrivalKeeps ==
    ASSUME VanishInv, NEW a \in Command, Arrival(a)
    PROVE  /\ a = arrived + 1 /\ arrived' = a
           /\ Accounted(a)'
           /\ \A c \in Command : Accounted(c) => Accounted(c)'
           /\ UNCHANGED <<lost, cancels>>
<1>0. GuardTyped /\ EndsTyped
  BY TypeParts DEF VanishInv, GuardInv
<1>1. ASSUME NEW kind, NEW rank PROVE a \in Commands({Object(a, kind, rank)})
  BY DEF Commands, Object
<1>2. ASSUME NEW kind, Submit(a, kind)
      PROVE  Accounted(a)' /\ \A c \in Command : Accounted(c) => Accounted(c)'
  BY <1>0, <1>1, <1>2, ExecuteKeeps DEF Submit, Accounted, Waits, Ended
<1>3. ASSUME NEW kind, NEW rank, Enqueue(Object(a, kind, rank)), UNCHANGED ends,
             \A c : Processed(c) => Processed(c)'
      PROVE  Accounted(a)' /\ \A c \in Command : Accounted(c) => Accounted(c)'
  <2>1. Waits(a)' /\ \A c : Waits(c) => Waits(c)'
    BY <1>1, <1>3 DEF Enqueue, Waits, Commands
  <2> QED
    BY <1>3, <2>1 DEF Accounted, Ended
<1>4. ASSUME NEW kind, SubmitWhileActive(a, kind)
      PROVE  Accounted(a)' /\ \A c \in Command : Accounted(c) => Accounted(c)'
  <2>1. \A c : Processed(c) => Processed(c)'
    <3>1. CASE UNCHANGED chain
      BY <3>1 DEF Processed
    <3>2. CASE controller # NoChain /\ chain' = [chain EXCEPT ![controller].aborted = TRUE]
      <4>1. \A x \in Chain : chain'[x].pc = chain[x].pc /\ chain'[x].batch = chain[x].batch
        BY <1>0, <3>2 DEF GuardTyped, ChainType
      <4> QED
        BY <4>1 DEF Processed
    <3> QED
      BY <1>4, <3>1, <3>2 DEF SubmitWhileActive
  <2> QED
    BY <1>3, <1>4, <2>1 DEF SubmitWhileActive
<1>5. ASSUME NEW kind, NEW rank, Notify(a, kind, rank)
      PROVE  Accounted(a)' /\ \A c \in Command : Accounted(c) => Accounted(c)'
  <2>1. \A c : Processed(c) => Processed(c)'
    BY <1>5 DEF Notify, Processed
  <2> QED
    BY <1>3, <1>5, <2>1 DEF Notify
<1>6. ASSUME Incoming(a)
      PROVE  Accounted(a)' /\ \A c \in Command : Accounted(c) => Accounted(c)'
  <2>1. PICK ch \in Chain : chain[ch].pc = "free" /\ Become(ch, "running", {}, generation + 1)
    BY <1>6 DEF Incoming, FirstFree
  <2>2. \A c : Processed(c) => Processed(c)'
    BY <1>0, <2>1, Became, StillProcessed
  <2>3. /\ handled'[a] > 0
        /\ \A c \in Command : handled[c] > 0 => handled'[c] > 0
    BY <1>0, <1>6 DEF Incoming, EndsTyped
  <2>4. UNCHANGED <<queue, returned, dropped, failed, lost>>
    BY <1>6 DEF Incoming
  <2>5. Ended(a)' /\ \A c \in Command : Ended(c) => Ended(c)'
    BY <2>3, <2>4 DEF Ended
  <2>6. \A c : Waits(c) => Waits(c)'
    BY <2>4 DEF Waits, Commands
  <2> QED
    BY <2>2, <2>5, <2>6 DEF Accounted
<1>7. ASSUME ContinueGoal(a)
      PROVE  Accounted(a)' /\ \A c \in Command : Accounted(c) => Accounted(c)'
  <2> DEFINE old == {e \in queue : e.kind = "goal"}
  <2>1. /\ queue' = (queue \ old) \cup {Object(a, "goal", 2)}
        /\ dropped' = dropped \cup Commands(old)
        /\ UNCHANGED <<chain, handled, returned, failed, lost>>
    BY <1>7 DEF ContinueGoal
  <2> HIDE DEF old
  <2>2. Waits(a)'
    BY <1>1, <2>1 DEF Waits, Commands
  <2>3. ASSUME NEW c, Waits(c) PROVE Waits(c)' \/ c \in dropped'
    BY <2>1, <2>3 DEF Waits, Commands
  <2> QED
    BY <2>1, <2>2, <2>3 DEF Accounted, Ended, Processed
<1>8. a = arrived + 1 /\ arrived' = a /\ UNCHANGED <<lost, cancels>>
  BY DEF Arrival, Submit, SubmitWhileActive, Notify, ContinueGoal, Incoming, Arrive
<1> QED
  BY <1>2, <1>4, <1>5, <1>6, <1>7, <1>8 DEF Arrival

LEMMA DrainKeeps ==
    ASSUME VanishInv, ProcessQueue \/ DropPassive \/ PopAllEditable \/ ClearQueue
                        \/ \E rank \in 1 .. 2 : SubagentDrain(rank)
    PROVE  /\ \A c \in Command : Accounted(c) => Accounted(c)'
           /\ UNCHANGED <<arrived, lost, cancels>>
<1>0. GuardTyped /\ EndsTyped
  BY TypeParts DEF VanishInv, GuardInv
<1>1. ASSUME NEW objects, queue' = queue \ objects, UNCHANGED <<chain, handled, failed, lost>>,
             returned \subseteq returned', dropped \subseteq dropped',
             Commands(objects) \subseteq returned' \cup dropped'
      PROVE  \A c \in Command : Accounted(c) => Accounted(c)'
  BY <1>1, Taken DEF Accounted, Ended, Processed
<1>2. CASE ProcessQueue
  <2>1. PICK objects : Execute(objects) /\ queue' = queue \ objects
    BY <1>2 DEF ProcessQueue, Take
  <2> QED
    BY <1>0, <1>2, <2>1, Taken, ExecuteKeeps DEF ProcessQueue, Accounted, Ended
<1>3. CASE DropPassive
  <2>1. PICK objects : queue' = queue \ objects /\ dropped' = dropped \cup Commands(objects)
    BY <1>3 DEF DropPassive, Take
  <2> QED
    BY <1>1, <1>3, <2>1 DEF DropPassive
<1>4. CASE PopAllEditable
  BY <1>1, <1>4 DEF PopAllEditable, Take
<1>5. CASE ClearQueue
  BY <1>1, <1>5 DEF ClearQueue, Take
<1>6. ASSUME NEW rank \in 1 .. 2, SubagentDrain(rank)
      PROVE  /\ \A c \in Command : Accounted(c) => Accounted(c)'
             /\ UNCHANGED <<arrived, lost, cancels>>
  <2>1. PICK objects : queue' = queue \ objects /\ Handle(objects)
    BY <1>6 DEF SubagentDrain
  <2> QED
    BY <1>0, <1>6, <2>1, Taken, Handled DEF SubagentDrain, Accounted, Ended, Processed
<1> QED
  BY <1>2, <1>3, <1>4, <1>5, <1>6

LEMMA TurnKeeps ==
    ASSUME VanishInv, NEW ch \in Chain, Turn(ch)
    PROVE  /\ \A c \in Command : Accounted(c) => Accounted(c)'
           /\ UNCHANGED <<arrived, cancels>> /\ LostAfterCancel'
<1>0. GuardTyped /\ QueueTyped /\ EndsTyped /\ LostAfterCancel
  BY TypeParts DEF VanishInv, GuardInv
<1>1. \A x \in Chain \ {ch} : chain'[x] = chain[x]
  BY <1>0, Became, Released
     DEF Turn, EndProcessing, StartTurn, RequeueTurn, EndWithoutTurn, FailProcessing,
         Snapshot, EndAttaching, Attach, AttachFails, Consume, FinishTurn
<1>2. CASE StartTurn(ch)
  BY <1>0, <1>1, <1>2, Handled, StillProcessed
     DEF StartTurn, Accounted, Waits, Ended, LostAfterCancel
<1>3. CASE RequeueTurn(ch)
  <2> DEFINE kept == {e \in chain[ch].batch : e.kind \notin Meta}
  <2>1. /\ queue' = queue \cup Again(kept)
        /\ lost' = lost \cup Commands(chain[ch].batch \ kept)
    BY <1>3 DEF RequeueTurn
  <2>2. Commands(kept) \subseteq Commands(Again(kept))
    <3>1. ASSUME NEW e \in kept PROVE \E d \in Again(kept) : d.cmd = e.cmd
      <4> DEFINE d == [cmd |-> e.cmd, kind |-> "prompt", rank |-> 1,
                       at |-> tickets + Cardinality({x \in kept : x.at <= e.at})]
      <4>1. d \in Again(kept)
        BY DEF Again
      <4>2. d.cmd = e.cmd
        OBVIOUS
      <4> QED
        BY <4>1, <4>2
    <3> QED
      BY <3>1 DEF Commands
  <2>3. ASSUME NEW c, c \in Commands(chain[ch].batch)
        PROVE  c \in Commands(Again(kept)) \/ c \in Commands(chain[ch].batch \ kept)
    BY <2>2, <2>3 DEF Commands
  <2> HIDE DEF kept
  <2>4. ASSUME NEW c, c \in Commands(chain[ch].batch) PROVE Waits(c)' \/ Ended(c)'
    <3>1. CASE c \in Commands(Again(kept))
      BY <2>1, <3>1 DEF Waits, Commands
    <3>2. CASE c \in Commands(chain[ch].batch \ kept)
      BY <2>1, <3>2 DEF Ended
    <3> QED
      BY <2>3, <2>4, <3>1, <3>2
  <2>5. \A c : Waits(c) => Waits(c)'
    BY <2>1 DEF Waits, Commands
  <2>6. cancels # 0
    BY <1>3 DEF RequeueTurn, VanishInv, GuardInv, OneChainAtATime, InTurn
  <2> QED
    BY <1>0, <1>1, <1>3, <2>1, <2>4, <2>5, <2>6, StillProcessed
       DEF RequeueTurn, Accounted, Ended, LostAfterCancel, GuardTyped
<1>4. CASE EndWithoutTurn(ch)
  BY <1>0, <1>1, <1>4, Handled, StillProcessed
     DEF EndWithoutTurn, Accounted, Waits, Ended, LostAfterCancel
<1>5. CASE FailProcessing(ch)
  BY <1>0, <1>1, <1>5, StillProcessed
     DEF FailProcessing, Accounted, Waits, Ended, LostAfterCancel
<1>6. ASSUME NEW rank \in 1 .. 2, Snapshot(ch, rank)
      PROVE  /\ \A c \in Command : Accounted(c) => Accounted(c)'
             /\ UNCHANGED <<arrived, cancels>> /\ LostAfterCancel'
  BY <1>0, <1>1, <1>6, StillProcessed
     DEF Snapshot, Accounted, Waits, Ended, LostAfterCancel
<1>7. CASE EndAttaching(ch)
  <2> DEFINE consumed == Consumed(ch) \cap queue
  <2>1. Consume(ch) /\ queue' = queue \ consumed
    BY <1>7 DEF EndAttaching, Attach, AttachFails, Consume, Take
  <2>2. UNCHANGED <<arrived, returned, dropped, lost, cancels>> /\ chain[ch].pc # "processing"
    BY <2>1 DEF Consume
  <2>3. \/ Handle(Consumed(ch)) /\ UNCHANGED failed
        \/ failed' = failed \cup Commands(consumed) /\ UNCHANGED handled
    BY <1>7 DEF EndAttaching, Attach, AttachFails
  <2>4. Commands(consumed) \subseteq Commands(Consumed(ch))
    BY DEF Commands
  <2> HIDE DEF consumed
  <2>5. ASSUME NEW c \in Command, Ended(c) \/ c \in Commands(consumed) PROVE Ended(c)'
    BY <1>0, <2>2, <2>3, <2>4, <2>5, Handled DEF Ended
  <2>6. ASSUME NEW c \in Command, Accounted(c) PROVE Accounted(c)'
    BY <1>1, <2>1, <2>2, <2>5, <2>6, Taken, StillProcessed DEF Accounted
  <2> QED
    BY <1>0, <2>2, <2>6 DEF LostAfterCancel
<1>8. CASE FinishTurn(ch)
  BY <1>0, <1>1, <1>8, StillProcessed
     DEF FinishTurn, Accounted, Waits, Ended, LostAfterCancel
<1> QED
  BY <1>2, <1>3, <1>4, <1>5, <1>6, <1>7, <1>8 DEF Turn, EndProcessing

LEMMA CancelKeeps ==
    ASSUME VanishInv, Cancel
    PROVE  /\ \A c \in Command : Accounted(c) => Accounted(c)'
           /\ UNCHANGED arrived /\ LostAfterCancel'
<1>0. GuardTyped
  BY TypeParts DEF VanishInv, GuardInv
<1>1. controller \in Chain
  BY <1>0 DEF Cancel, CanCancel, GuardTyped
<1>2. \A x \in Chain : chain'[x].pc = chain[x].pc /\ chain'[x].batch = chain[x].batch
  BY <1>0, <1>1 DEF Cancel, GuardTyped, ChainType
<1>3. cancels' > 0
  BY <1>0 DEF Cancel, GuardTyped
<1> QED
  BY <1>2, <1>3 DEF Cancel, Accounted, Waits, Ended, Processed, LostAfterCancel

LEMMA VanishStep == VanishInv /\ [Next]_vars => VanishInv'
<1> SUFFICES ASSUME VanishInv, [Next]_vars PROVE NoCommandVanishes' /\ LostAfterCancel'
  BY GuardStep DEF VanishInv
<1>0. EndsTyped /\ arrived \in Nat /\ 1 .. arrived \subseteq Command
  BY TypeParts DEF VanishInv, GuardInv, EndsTyped, Command
<1>1. ASSUME NEW a \in Command, Arrival(a) PROVE NoCommandVanishes' /\ LostAfterCancel'
  BY <1>0, <1>1, ArrivalKeeps DEF VanishInv, NoCommandVanishes, LostAfterCancel
<1>2. ASSUME \A c \in Command : Accounted(c) => Accounted(c)', UNCHANGED arrived
      PROVE  NoCommandVanishes'
  BY <1>0, <1>2 DEF VanishInv, NoCommandVanishes
<1>3. CASE UNCHANGED vars
  BY <1>3 DEF vars, VanishInv, NoCommandVanishes, LostAfterCancel, Accounted, Waits, Ended,
              Processed
<1>4. CASE ProcessQueue \/ DropPassive \/ PopAllEditable \/ ClearQueue
             \/ \E rank \in 1 .. 2 : SubagentDrain(rank)
  BY <1>2, <1>4, DrainKeeps DEF VanishInv, LostAfterCancel
<1>5. ASSUME NEW ch \in Chain, Turn(ch) PROVE NoCommandVanishes' /\ LostAfterCancel'
  BY <1>2, <1>5, TurnKeeps
<1>6. CASE Cancel
  BY <1>2, <1>6, CancelKeeps
<1> QED
  BY <1>1, <1>3, <1>4, <1>5, <1>6 DEF Next

LEMMA VanishInit == Init => VanishInv
BY GuardInit DEF Init, VanishInv, NoCommandVanishes, LostAfterCancel

\* A command is always in the queue, at processUserInput, in the conversation,
\* given back or discarded on purpose, unless an exception took it along: one of
\* processUserInput, or of the attachments, whose failure maybe() swallows.  And
\* an isMeta prompt vanishes when its turn is refused, which takes an Escape.
THEOREM VanishOnlyByFailure == Spec => []VanishByFailureOnly
<1>1. VanishInv => VanishByFailureOnly
  BY VanishParts DEF VanishInv
<1> QED
  BY VanishInit, VanishStep, <1>1, PTL DEF Spec
------------------------------------------------------------------------------
(* Commands of one kind and priority leave in order.  What a turn is         *)
(* attaching is closed: a waiting object that is older than one it holds on  *)
(* to is held too, because what is queued later gets a greater number.       *)

Older(d, e) == d.kind = e.kind /\ d.rank = e.rank /\ d.at < e.at

Closed(objects) == \A e \in objects, d \in queue : Older(d, e) => d \in objects

Numbered == \A e \in queue : e.at <= tickets

BatchesNumbered ==
    \A ch \in Chain : chain[ch].pc = "attaching" =>
        \A e \in chain[ch].batch : e.at <= tickets

BatchesClosed == \A ch \in Chain : chain[ch].pc = "attaching" => Closed(chain[ch].batch)

OrderInv == TypeOK /\ Numbered /\ BatchesNumbered /\ BatchesClosed

InOrder == \A d, e \in queue : Older(d, e) /\ e \notin queue' => d \notin queue'

\* What the queue gets has new numbers.
Grows == \A e \in queue' \ queue : e.at > tickets /\ e.at <= tickets'

LEMMA ClosedRemoval ==
    ASSUME NEW objects, Closed(objects), queue' = queue \ objects
    PROVE  InOrder
BY DEF Closed, InOrder

LEMMA BatchClosed ==
    ASSUME QueueTyped, NEW e, IsNext(e, MainThread)
    PROVE  Closed(BatchOf(e))
<1>1. e \in queue /\ e.kind # "agent"
  BY DEF IsNext, MainThread
<1>2. CASE e.kind \in {"slash", "bash"}
  <2>1. BatchOf(e) = {e}
    BY <1>2 DEF BatchOf
  <2>2. ASSUME NEW d \in queue, Older(d, e) PROVE FALSE
    <3>1. d \in MainThread
      BY <1>1, <2>2 DEF Older, MainThread
    <3> QED
      BY <1>1, <2>2, <3>1 DEF IsNext, Older, QueueTyped, Entry
  <2> QED
    BY <2>1, <2>2 DEF Closed
<1>3. CASE e.kind \notin {"slash", "bash"}
  BY <1>3 DEF BatchOf, Closed, Older
<1> QED
  BY <1>2, <1>3

LEMMA AgainNumbered ==
    ASSUME NEW objects, objects \subseteq Entry, IsFiniteSet(objects), tickets \in Nat,
           NEW d \in Again(objects)
    PROVE  d.at > tickets /\ d.at <= tickets + Cardinality(objects)
<1>1. PICK e \in objects : d.at = tickets + Cardinality({x \in objects : x.at <= e.at})
  BY DEF Again
<1> DEFINE S == {x \in objects : x.at <= e.at}
<1>2. S \in SUBSET objects /\ e \in S
  BY DEF Entry
<1>3. IsFiniteSet(S) /\ Cardinality(S) \in Nat /\ Cardinality(S) <= Cardinality(objects)
  BY <1>2, FS_Subset, FS_CardinalityType
<1>4. Cardinality(S) # 0
  BY <1>2, <1>3, FS_EmptySet
<1>5. d.at = tickets + Cardinality(S)
  BY <1>1
<1>6. Cardinality(objects) \in Nat
  BY FS_CardinalityType
<1> HIDE DEF S
<1> QED
  BY <1>3, <1>4, <1>5, <1>6

\* Steps that take objects from the queue or leave it alone.
LEMMA LosesOrder ==
    ASSUME OrderInv, queue' \subseteq queue, UNCHANGED tickets,
           \A x \in Chain : chain'[x].pc = "attaching" =>
               /\ chain[x].pc = "attaching"
               /\ chain'[x].batch = chain[x].batch
    PROVE  Numbered' /\ BatchesNumbered' /\ BatchesClosed'
BY DEF OrderInv, Numbered, BatchesNumbered, BatchesClosed, Closed, Older

\* Steps that add objects.
LEMMA GrowsOrder ==
    ASSUME OrderInv, Grows, tickets' \in Nat, tickets <= tickets',
           \A x \in Chain : chain'[x].pc = "attaching" =>
               /\ chain[x].pc = "attaching"
               /\ chain'[x].batch = chain[x].batch,
           TypeOK'
    PROVE  Numbered' /\ BatchesNumbered' /\ BatchesClosed'
<1>1. tickets \in Nat /\ queue \subseteq Entry /\ queue' \subseteq Entry
  BY DEF OrderInv, TypeOK
<1>2. \A x \in Chain : \A e \in chain[x].batch : e.at \in Nat
  BY DEF OrderInv, TypeOK, Entry
<1>3. Numbered'
  BY <1>1 DEF OrderInv, Numbered, Grows, Entry
<1>4. BatchesNumbered'
  BY <1>1, <1>2 DEF OrderInv, BatchesNumbered
<1>5. ASSUME NEW x \in Chain, chain'[x].pc = "attaching",
             NEW e \in chain[x].batch, NEW d \in queue', Older(d, e)
      PROVE  d \in queue
  BY <1>1, <1>2, <1>5 DEF OrderInv, BatchesNumbered, Grows, Older, Entry
<1>6. BatchesClosed'
  BY <1>5 DEF OrderInv, BatchesClosed, Closed, Older
<1> QED
  BY <1>3, <1>4, <1>6

LEMMA ArrivalOrder ==
    ASSUME OrderInv, NEW c \in Command, Arrival(c)
    PROVE  Numbered' /\ BatchesNumbered' /\ BatchesClosed' /\ InOrder
<1>0. TypeOK' /\ GuardTyped /\ tickets \in Nat
  BY ArrivalTyped, TypeParts DEF OrderInv, QueueTyped
<1> DEFINE Same(x) == chain'[x].pc = "attaching" =>
                          chain[x].pc = "attaching" /\ chain'[x].batch = chain[x].batch
<1>1. ASSUME NEW kind, Submit(c, kind)
      PROVE  Numbered' /\ BatchesNumbered' /\ BatchesClosed' /\ InOrder
  <2>1. PICK ch \in Chain : Become(ch, "processing", {Object(c, kind, 1)}, 0)
    BY <1>1 DEF Submit, Execute
  <2>2. \A x \in Chain : Same(x)
    BY <1>0, <2>1, Became
  <2>3. UNCHANGED <<queue, tickets>>
    BY <1>1 DEF Submit
  <2> QED
    BY <2>2, <2>3, LosesOrder DEF InOrder
<1>2. ASSUME NEW kind, NEW rank, Enqueue(Object(c, kind, rank)), \A x \in Chain : Same(x)
      PROVE  Numbered' /\ BatchesNumbered' /\ BatchesClosed' /\ InOrder
  <2>1. Grows /\ tickets' \in Nat /\ tickets <= tickets'
    BY <1>0, <1>2 DEF Grows, Enqueue, Object
  <2>2. InOrder
    BY <1>2 DEF InOrder, Enqueue
  <2> HIDE DEF Same
  <2>3. Numbered' /\ BatchesNumbered' /\ BatchesClosed'
    BY <1>0, <1>2, <2>1, GrowsOrder DEF Same
  <2> QED
    BY <2>2, <2>3
<1>3. ASSUME NEW kind, SubmitWhileActive(c, kind)
      PROVE  Numbered' /\ BatchesNumbered' /\ BatchesClosed' /\ InOrder
  <2>1. \A x \in Chain : Same(x)
    <3>1. CASE UNCHANGED chain
      BY <3>1
    <3>2. CASE controller # NoChain /\ chain' = [chain EXCEPT ![controller].aborted = TRUE]
      BY <1>0, <3>2 DEF GuardTyped, ChainType
    <3> QED
      BY <1>3, <3>1, <3>2 DEF SubmitWhileActive
  <2> QED
    BY <1>2, <1>3, <2>1 DEF SubmitWhileActive
<1>4. ASSUME NEW kind, NEW rank, Notify(c, kind, rank)
      PROVE  Numbered' /\ BatchesNumbered' /\ BatchesClosed' /\ InOrder
  BY <1>2, <1>4 DEF Notify
<1>5. CASE Incoming(c)
  <2>1. PICK ch \in Chain : Become(ch, "running", {}, generation + 1)
    BY <1>5 DEF Incoming
  <2>2. \A x \in Chain : Same(x)
    BY <1>0, <2>1, Became
  <2>3. UNCHANGED <<queue, tickets>>
    BY <1>5 DEF Incoming
  <2> QED
    BY <2>2, <2>3, LosesOrder DEF InOrder
<1>6. CASE ContinueGoal(c)
  <2> DEFINE old == {e \in queue : e.kind = "goal"}
             o == Object(c, "goal", 2)
  <2>1. queue' = (queue \ old) \cup {o} /\ tickets' = tickets + 1 /\ UNCHANGED chain
    BY <1>6 DEF ContinueGoal
  <2>2. o.at = tickets + 1
    BY DEF Object
  <2>3. Closed(old) /\ old \subseteq queue
    BY DEF Closed, Older
  <2> HIDE DEF old, o
  <2>4. Grows /\ tickets' \in Nat /\ tickets <= tickets'
    BY <1>0, <2>1, <2>2 DEF Grows
  <2>5. Numbered' /\ BatchesNumbered' /\ BatchesClosed'
    BY <1>0, <2>1, <2>4, GrowsOrder
  <2>6. o \notin queue
    <3>1. \A e \in queue : e.at <= tickets
      BY DEF OrderInv, Numbered
    <3> QED
      BY <1>0, <2>2, <3>1
  <2>7. InOrder
    BY <2>1, <2>3, <2>6 DEF InOrder, Closed
  <2> QED
    BY <2>5, <2>7
<1> QED
  BY <1>1, <1>3, <1>4, <1>5, <1>6 DEF Arrival

LEMMA DrainOrder ==
    ASSUME OrderInv, ProcessQueue \/ DropPassive \/ PopAllEditable \/ ClearQueue
                       \/ \E rank \in 1 .. 2 : SubagentDrain(rank)
    PROVE  Numbered' /\ BatchesNumbered' /\ BatchesClosed' /\ InOrder
<1>0. GuardTyped /\ QueueTyped
  BY TypeParts DEF OrderInv
<1>1. ASSUME NEW objects, queue' = queue \ objects, Closed(objects),
             UNCHANGED <<tickets, chain>>
      PROVE  Numbered' /\ BatchesNumbered' /\ BatchesClosed' /\ InOrder
  BY <1>1, LosesOrder, ClosedRemoval
<1>2. CASE ProcessQueue
  <2>1. PICK e : /\ IsNext(e, MainThread) /\ Execute(BatchOf(e))
                 /\ queue' = queue \ BatchOf(e) /\ UNCHANGED tickets
    BY <1>2 DEF ProcessQueue, Take
  <2>2. PICK ch \in Chain : Become(ch, "processing", BatchOf(e), 0)
    BY <2>1 DEF Execute
  <2>3. \A x \in Chain : chain'[x].pc = "attaching" =>
            chain[x].pc = "attaching" /\ chain'[x].batch = chain[x].batch
    BY <1>0, <2>2, Became
  <2>4. InOrder
    BY <1>0, <2>1, BatchClosed, ClosedRemoval
  <2>5. queue' \subseteq queue
    BY <2>1
  <2> QED
    BY <2>1, <2>3, <2>4, <2>5, LosesOrder
<1>3. CASE DropPassive
  <2>1. PICK e : /\ IsNext(e, MainThread)
                 /\ queue' = queue \ BatchOf(e) /\ UNCHANGED <<tickets, chain>>
    BY <1>3 DEF DropPassive, Take
  <2> QED
    BY <1>0, <1>1, <2>1, BatchClosed
<1>4. CASE PopAllEditable
  <2>1. Closed(Editable)
    BY DEF Closed, Older, Editable
  <2> QED
    BY <1>1, <1>4, <2>1 DEF PopAllEditable, Take
<1>5. CASE ClearQueue
  <2>1. Closed(queue)
    BY DEF Closed
  <2> QED
    BY <1>1, <1>5, <2>1 DEF ClearQueue, Take
<1>6. ASSUME NEW rank \in 1 .. 2, SubagentDrain(rank)
      PROVE  Numbered' /\ BatchesNumbered' /\ BatchesClosed' /\ InOrder
  <2> DEFINE objects == {e \in queue : e.kind = "agent" /\ e.rank <= rank}
  <2>1. Closed(objects)
    BY DEF Closed, Older
  <2>2. queue' = queue \ objects /\ UNCHANGED <<tickets, chain>>
    BY <1>6 DEF SubagentDrain
  <2> QED
    BY <1>1, <2>1, <2>2
<1> QED
  BY <1>2, <1>3, <1>4, <1>5, <1>6

LEMMA TurnOrder ==
    ASSUME OrderInv, NEW ch \in Chain, Turn(ch)
    PROVE  Numbered' /\ BatchesNumbered' /\ BatchesClosed' /\ InOrder
<1>0. GuardTyped /\ QueueTyped /\ TypeOK'
  BY TypeParts, TurnTyped DEF OrderInv
<1>1. \A x \in Chain \ {ch} : chain'[x] = chain[x]
  BY <1>0, Became, Released
     DEF Turn, EndProcessing, StartTurn, RequeueTurn, EndWithoutTurn, FailProcessing,
         Snapshot, EndAttaching, Attach, AttachFails, Consume, FinishTurn
<1>2. ASSUME chain'[ch].pc # "attaching"
      PROVE  \A x \in Chain : chain'[x].pc = "attaching" =>
                 chain[x].pc = "attaching" /\ chain'[x].batch = chain[x].batch
  BY <1>1, <1>2
<1>3. CASE StartTurn(ch) \/ EndWithoutTurn(ch) \/ FailProcessing(ch) \/ FinishTurn(ch)
  <2>1. chain'[ch].pc # "attaching" /\ UNCHANGED <<queue, tickets>>
    BY <1>0, <1>3, Became, Released
       DEF StartTurn, EndWithoutTurn, FailProcessing, FinishTurn
  <2> QED
    BY <1>2, <2>1, LosesOrder DEF InOrder
<1>4. CASE RequeueTurn(ch)
  <2> DEFINE kept == {e \in chain[ch].batch : e.kind \notin Meta}
  <2>1. queue' = queue \cup Again(kept) /\ tickets' = tickets + Cardinality(kept)
    BY <1>4 DEF RequeueTurn
  <2>2. chain'[ch].pc # "attaching"
    BY <1>0, <1>4, Released DEF RequeueTurn
  <2>3. kept \in SUBSET chain[ch].batch /\ kept \subseteq Entry
    BY <1>0 DEF GuardTyped, ChainType
  <2>4. IsFiniteSet(kept) /\ Cardinality(kept) \in Nat
    BY <1>0, <2>3, FS_Subset, FS_CardinalityType DEF GuardTyped
  <2> HIDE DEF kept
  <2>5. tickets \in Nat
    BY <1>0 DEF QueueTyped
  <2>6. Grows /\ tickets' \in Nat /\ tickets <= tickets'
    <3>1. \A e \in Again(kept) : e.at > tickets /\ e.at <= tickets + Cardinality(kept)
      BY <2>3, <2>4, <2>5, AgainNumbered
    <3> QED
      BY <2>1, <2>4, <2>5, <3>1 DEF Grows
  <2>7. InOrder
    BY <2>1 DEF InOrder
  <2> QED
    BY <1>0, <1>2, <2>2, <2>6, <2>7, GrowsOrder
<1>5. ASSUME NEW rank \in 1 .. 2, Snapshot(ch, rank)
      PROVE  Numbered' /\ BatchesNumbered' /\ BatchesClosed' /\ InOrder
  <2> DEFINE seen == {e \in MainThread : e.rank <= rank /\ e.kind # "slash"}
  <2>1. /\ Become(ch, "attaching", seen, chain[ch].gen)
        /\ UNCHANGED <<queue, tickets>>
    BY <1>5 DEF Snapshot
  <2>2. seen \subseteq queue /\ Closed(seen)
    BY DEF MainThread, Closed, Older
  <2>3. chain'[ch].batch = seen
    BY <1>0, <2>1 DEF Become, GuardTyped, ChainType
  <2> HIDE DEF seen
  <2>4. Numbered' /\ InOrder
    BY <2>1 DEF OrderInv, Numbered, InOrder
  <2>5. BatchesNumbered'
    BY <1>1, <2>1, <2>2, <2>3 DEF OrderInv, Numbered, BatchesNumbered
  <2>6. BatchesClosed'
    <3>1. ASSUME NEW x \in Chain, chain'[x].pc = "attaching" PROVE Closed(chain'[x].batch)
      BY <1>1, <2>2, <2>3, <3>1 DEF OrderInv, BatchesClosed
    <3> QED
      BY <2>1, <3>1 DEF BatchesClosed, Closed
  <2> QED
    BY <2>4, <2>5, <2>6
<1>6. CASE EndAttaching(ch)
  <2> DEFINE consumed == Consumed(ch)
  <2>1. Consume(ch) /\ queue' = queue \ consumed /\ UNCHANGED tickets
    BY <1>6 DEF EndAttaching, Attach, AttachFails, Consume, Take
  <2>2. chain[ch].pc = "attaching" /\ chain'[ch].pc # "attaching"
    BY <1>0, <2>1, Became DEF Consume
  <2>3. Closed(consumed)
    BY <2>2 DEF Consumed, OrderInv, BatchesClosed, Closed, Older
  <2> HIDE DEF consumed
  <2> QED
    BY <1>2, <2>1, <2>2, <2>3, LosesOrder, ClosedRemoval
<1> QED
  BY <1>3, <1>4, <1>5, <1>6 DEF Turn, EndProcessing

LEMMA OrderStep ==
    ASSUME OrderInv, [Next]_vars
    PROVE  OrderInv' /\ InOrder
<1>0. TypeOK' /\ GuardTyped
  BY TypeStep, TypeParts DEF OrderInv
<1>1. CASE UNCHANGED vars
  BY <1>0, <1>1, LosesOrder DEF vars, OrderInv, InOrder
<1>2. CASE Cancel
  <2>1. controller \in Chain
    BY <1>0, <1>2 DEF Cancel, CanCancel, GuardTyped
  <2>2. \A x \in Chain : chain'[x].pc = chain[x].pc /\ chain'[x].batch = chain[x].batch
    BY <1>0, <1>2, <2>1 DEF Cancel, GuardTyped, ChainType
  <2>3. UNCHANGED <<queue, tickets>>
    BY <1>2 DEF Cancel
  <2> QED
    BY <1>0, <2>2, <2>3, LosesOrder DEF OrderInv, InOrder
<1> QED
  BY <1>0, <1>1, <1>2, ArrivalOrder, DrainOrder, TurnOrder DEF Next, OrderInv

LEMMA OrderInit == Init => OrderInv
BY TypeInit DEF Init, OrderInv, Numbered, BatchesNumbered, BatchesClosed, Free

\* Of two waiting commands of one mode, isMeta flag, workload and priority the
\* newer one never leaves first, whichever of the takers of the queue takes it,
\* and also when a turn removes what it saw before others took from the queue and
\* added to it.
THEOREM LeavesInOrder == Spec => LeaveInOrder
<1>1. OrderInv /\ [Next]_vars => OrderInv'
  BY OrderStep
<1>2. OrderInv /\ [Next]_vars =>
          [\A d, e \in queue :
              d.kind = e.kind /\ d.rank = e.rank /\ d.at < e.at /\ e \notin queue'
                  => d \notin queue']_vars
  BY OrderStep DEF InOrder, Older
<1> QED
  BY OrderInit, <1>1, <1>2, PTL DEF Spec, LeaveInOrder

------------------------------------------------------------------------------
(* A command enters the conversation once.  One that nobody took from under  *)
(* an attaching turn is in one object at most, queued or at processUserInput;*)
(* while there is one it has come to none of its ends, and the step that     *)
(* removes the object gives it one end.                                      *)

\* Who may have the object of a command: a chain, and for NoChain the queue.
Place == Chain \cup {NoChain}

Held(p) == IF p = NoChain THEN queue
           ELSE IF chain[p].pc = "processing" THEN chain[p].batch ELSE {}

Alone(c) ==
    \A p, q \in Place : \A d \in Held(p), e \in Held(q) :
        d.cmd = c /\ e.cmd = c => p = q /\ d = e

Live(c) == \E p \in Place : \E e \in Held(p) : e.cmd = c

PutAside(c) == c \in returned \cup dropped \cup failed \cup lost

Once(c) ==
    /\ Alone(c)
    /\ Live(c) => handled[c] = 0 /\ ~PutAside(c)
    /\ handled[c] > 0 => handled[c] = 1 /\ ~PutAside(c)
    /\ c > arrived => ~Live(c) /\ handled[c] = 0 /\ ~PutAside(c)

EachOnce == \A c \in Command \ raced : Once(c)

\* What a turn is attaching waits in the queue, unless somebody took it.
AttachedWaits ==
    \A ch \in Chain : chain[ch].pc = "attaching" =>
        \A e \in chain[ch].batch : e.kind # "agent" /\ (e \in queue \/ e.cmd \in raced)

OnceInv == TypeOK /\ EachOnce /\ AttachedWaits

OnceDone == EachOnce' /\ AttachedWaits'

\* The ends of a command stay as they are, or it comes to one of them.
SameEnds(c) == handled'[c] = handled[c] /\ (PutAside(c)' <=> PutAside(c))

OneEnd(c) ==
    \/ handled'[c] = handled[c] + 1 /\ (PutAside(c)' <=> PutAside(c))
    \/ handled'[c] = handled[c]

LEMMA OnceStays ==
    ASSUME EndsTyped, NEW c \in Command, Once(c), Alone(c)', Live(c)' => Live(c),
           SameEnds(c), arrived' \in Nat, arrived <= arrived'
    PROVE  Once(c)'
<1>1. c > arrived' => c > arrived
  BY DEF EndsTyped, Command
<1> QED
  BY <1>1 DEF Once, SameEnds

LEMMA OnceEnds ==
    ASSUME EndsTyped, NEW c \in Command, Once(c), Live(c), ~Live(c)', Alone(c)', OneEnd(c),
           UNCHANGED arrived \/ arrived' = arrived + 1
    PROVE  Once(c)'
<1>1. handled[c] = 0 /\ ~PutAside(c) /\ ~(c > arrived)
  BY DEF Once
<1>2. ~(c > arrived')
  BY <1>1 DEF EndsTyped, Command
<1> QED
  BY <1>1, <1>2 DEF Once, OneEnd

LEMMA OnceBegins ==
    ASSUME EndsTyped, NEW c \in Command, Once(c), c = arrived + 1, arrived' = c, Alone(c)',
           SameEnds(c) \/ (~Live(c)' /\ OneEnd(c))
    PROVE  Once(c)'
<1>1. c > arrived /\ ~(c > arrived')
  BY DEF EndsTyped, Command
<1>2. ~Live(c) /\ handled[c] = 0 /\ ~PutAside(c)
  BY <1>1 DEF Once
<1> QED
  BY <1>1, <1>2 DEF Once, SameEnds, OneEnd

------------------------------------------------------------------------------
(* Where the objects of a command are after a step.                          *)

LEMMA AloneLess ==
    ASSUME NEW c, Alone(c), \A p \in Place : \A e \in Held(p)' : e.cmd = c => e \in Held(p)
    PROVE  Alone(c)' /\ (Live(c)' => Live(c))
BY DEF Alone, Live

LEMMA AloneOnly ==
    ASSUME NEW c, NEW p0, NEW e0,
           \A p \in Place : \A e \in Held(p)' : e.cmd = c => p = p0 /\ e = e0
    PROVE  Alone(c)'
BY DEF Alone

LEMMA AloneGone ==
    ASSUME NEW c, Alone(c), NEW p0 \in Place, NEW e0 \in Held(p0), e0.cmd = c, e0 \notin Held(p0)',
           \A p \in Place : \A e \in Held(p)' : e.cmd = c => e \in Held(p)
    PROVE  Live(c) /\ ~Live(c)' /\ Alone(c)'
BY DEF Alone, Live

LEMMA QueueHeld == Held(NoChain) = queue /\ Held(NoChain)' = queue'
BY DEF Held

LEMMA ChainHeld ==
    ASSUME NEW ch \in Chain
    PROVE  /\ Held(ch) = IF chain[ch].pc = "processing" THEN chain[ch].batch ELSE {}
           /\ Held(ch)' = IF chain'[ch].pc = "processing" THEN chain'[ch].batch ELSE {}
           /\ ch # NoChain
<1>1. ch # NoChain
  BY DEF Chain, NoChain
<1> QED
  BY <1>1 DEF Held

LEMMA OthersHeld ==
    ASSUME NEW ch \in Chain, \A x \in Chain \ {ch} : chain'[x] = chain[x]
    PROVE  \A p \in Place \ {NoChain, ch} : Held(p)' = Held(p)
BY ChainHeld DEF Place

\* What leaves the queue was not being attached, or its command is raced.
LEMMA AttachedTaken ==
    ASSUME AttachedWaits, NEW objects, NEW self, queue \ objects \subseteq queue',
           raced' = raced \cup Commands(objects \cap HeldBut(self)),
           \A x \in Chain : chain'[x].pc = "attaching" =>
               x # self /\ chain[x].pc = "attaching" /\ chain'[x].batch = chain[x].batch
    PROVE  AttachedWaits'
<1> SUFFICES ASSUME NEW x \in Chain, chain'[x].pc = "attaching", NEW e \in chain'[x].batch
             PROVE  e.kind # "agent" /\ (e \in queue' \/ e.cmd \in raced')
  BY DEF AttachedWaits
<1>1. x # self /\ chain[x].pc = "attaching" /\ e \in chain[x].batch
  OBVIOUS
<1>2. e.kind # "agent" /\ (e \in queue \/ e.cmd \in raced)
  BY <1>1 DEF AttachedWaits
<1>3. e \in HeldBut(self)
  BY <1>1 DEF HeldBut
<1>4. e \in objects => e.cmd \in Commands(objects \cap HeldBut(self))
  BY <1>3 DEF Commands
<1> QED
  BY <1>2, <1>4

LEMMA AttachedKept ==
    ASSUME AttachedWaits, \A e \in queue \ queue' : e.kind = "agent", raced' = raced,
           \A x \in Chain : chain'[x].pc = "attaching" =>
               chain[x].pc = "attaching" /\ chain'[x].batch = chain[x].batch
    PROVE  AttachedWaits'
BY DEF AttachedWaits

\* A step that moves no object and ends nothing.
LEMMA OnceQuiet ==
    ASSUME OnceInv, UNCHANGED <<queue, arrived, handled, returned, dropped, failed, lost, raced>>,
           \A p \in Chain : Held(p)' \subseteq Held(p)
    PROVE  EachOnce'
<1>1. EndsTyped
  BY TypeParts DEF OnceInv
<1> SUFFICES ASSUME NEW c \in Command \ raced PROVE Once(c)'
  BY DEF EachOnce
<1>2. Once(c)
  BY DEF OnceInv, EachOnce
<1>3. \A p \in Place : Held(p)' \subseteq Held(p)
  BY QueueHeld DEF Place
<1>4. Alone(c)' /\ (Live(c)' => Live(c))
  BY <1>2, <1>3, AloneLess DEF Once
<1>5. SameEnds(c) /\ arrived' \in Nat /\ arrived <= arrived'
  BY <1>1 DEF SameEnds, PutAside, EndsTyped
<1> QED
  BY <1>1, <1>2, <1>4, <1>5, OnceStays

\* The goal's prompt takes the place of the one that waits.
LEMMA OnceContinued ==
    ASSUME OnceInv, NEW a \in Command, ContinueGoal(a)
    PROVE  OnceDone
<1>0. GuardTyped /\ QueueTyped /\ EndsTyped /\ AttachedWaits
  BY TypeParts DEF OnceInv
<1> DEFINE old == {e \in queue : e.kind = "goal"}
           o == Object(a, "goal", 2)
<1>1. /\ a = arrived + 1 /\ arrived' = a /\ queue' = (queue \ old) \cup {o}
      /\ raced' = raced \cup Commands(old \cap HeldBut(NoChain))
      /\ dropped' = dropped \cup Commands(old)
      /\ UNCHANGED <<chain, handled, returned, failed, lost>>
  BY DEF ContinueGoal, Arrive
<1>2. o.cmd = a /\ old \subseteq queue
  BY DEF Object
<1> HIDE DEF old, o
<1>3. /\ NoChain \in Place /\ Held(NoChain) = queue
      /\ Held(NoChain)' = (queue \ old) \cup {o}
      /\ \A p \in Place \ {NoChain} : Held(p)' = Held(p)
  BY <1>1, QueueHeld, ChainHeld DEF Place
<1>4. ASSUME NEW c \in Command \ raced PROVE Once(c)'
  <2>1. Once(c) /\ Alone(c)
    BY <1>4 DEF OnceInv, EachOnce, Once
  <2>2. CASE c = a
    <3>1. ~Live(c)
      BY <1>0, <1>1, <2>1, <2>2 DEF Once, EndsTyped
    <3>2. \A p \in Place : \A e \in Held(p) : e.cmd # c
      BY <3>1 DEF Live
    <3>3. \A p \in Place : \A e \in Held(p)' : e.cmd = c => p = NoChain /\ e = o
      BY <1>3, <3>2
    <3>4. c \notin Commands(old)
      BY <1>2, <1>3, <3>2 DEF Commands
    <3>5. Alone(c)' /\ SameEnds(c)
      BY <1>1, <3>3, <3>4, AloneOnly DEF SameEnds, PutAside
    <3> QED
      BY <1>0, <1>1, <2>1, <2>2, <3>5, OnceBegins
  <2>3. CASE c # a
    <3>1. \A p \in Place : \A e \in Held(p)' : e.cmd = c => e \in Held(p)
      BY <1>2, <1>3, <2>3
    <3>2. CASE c \in Commands(old)
      <4>1. PICK e \in old : e.cmd = c
        BY <3>2 DEF Commands
      <4>2. e \in Held(NoChain) /\ e \notin Held(NoChain)'
        BY <1>2, <1>3, <2>3, <4>1
      <4>3. Live(c) /\ ~Live(c)' /\ Alone(c)'
        BY <1>3, <2>1, <3>1, <4>1, <4>2, AloneGone
      <4>4. OneEnd(c)
        BY <1>1 DEF OneEnd
      <4> QED
        BY <1>0, <1>1, <2>1, <4>3, <4>4, OnceEnds
    <3>3. CASE c \notin Commands(old)
      <4>1. Alone(c)' /\ (Live(c)' => Live(c))
        BY <2>1, <3>1, AloneLess
      <4>2. SameEnds(c)
        BY <1>1, <3>3 DEF SameEnds, PutAside
      <4>3. arrived' \in Nat /\ arrived <= arrived'
        BY <1>0, <1>1 DEF EndsTyped
      <4> QED
        BY <1>0, <2>1, <4>1, <4>2, <4>3, OnceStays
    <3> QED
      BY <3>2, <3>3
  <2> QED
    BY <2>2, <2>3
<1>5. \A x \in Chain : x # NoChain
  BY ChainHeld
<1>6. AttachedWaits'
  BY <1>0, <1>1, <1>5, AttachedTaken
<1> QED
  BY <1>1, <1>4, <1>6 DEF OnceDone, EachOnce

LEMMA OnceArrival ==
    ASSUME OnceInv, NEW a \in Command, Arrival(a)
    PROVE  OnceDone
<1> SUFFICES ASSUME ~ContinueGoal(a) PROVE OnceDone
  BY OnceContinued
<1>0. GuardTyped /\ QueueTyped /\ EndsTyped
  BY TypeParts DEF OnceInv
<1>1. a = arrived + 1 /\ arrived' = a /\ arrived' \in Nat /\ arrived <= arrived' /\ raced' = raced
  <2>1. a = arrived + 1 /\ arrived' = a /\ raced' = raced
    BY DEF Arrival, Submit, SubmitWhileActive, Notify, Incoming, Arrive
  <2>2. arrived \in Nat
    BY <1>0 DEF EndsTyped
  <2> QED
    BY <2>1, <2>2
<1>2. \A c \in Command \ raced : Once(c)
  BY DEF OnceInv, EachOnce
<1>3. a \notin raced => ~Live(a)
  BY <1>0, <1>1, <1>2 DEF Once, EndsTyped
<1>4. ASSUME UNCHANGED <<handled, returned, dropped, failed, lost>>, NEW p0 \in Place, NEW o, o.cmd = a,
             \A p \in Place : \A e \in Held(p)' : e \in Held(p) \/ (p = p0 /\ e = o)
      PROVE  EachOnce'
  <2> SUFFICES ASSUME NEW c \in Command \ raced PROVE Once(c)'
    BY <1>1 DEF EachOnce
  <2>1. SameEnds(c) /\ Once(c)
    BY <1>2, <1>4 DEF SameEnds, PutAside
  <2>2. CASE c = a
    <3>1. \A p \in Place : \A e \in Held(p)' : e.cmd = c => p = p0 /\ e = o
      BY <1>3, <1>4, <2>2 DEF Live
    <3>2. Alone(c)'
      <4> SUFFICES ASSUME NEW p \in Place, NEW q \in Place, NEW d \in Held(p)', NEW e \in Held(q)',
                          d.cmd = c, e.cmd = c
                   PROVE  p = q /\ d = e
        BY DEF Alone
      <4>1. (p = p0 /\ d = o) /\ (q = p0 /\ e = o)
        BY <3>1
      <4> QED
        BY <4>1
    <3>3. c = arrived + 1 /\ arrived' = c
      BY <1>1, <2>2
    <3> QED
      BY <1>0, <2>1, <3>2, <3>3, OnceBegins
  <2>3. CASE c # a
    <3>1. \A p \in Place : \A e \in Held(p)' : e.cmd = c => e \in Held(p)
      BY <1>4, <2>3
    <3>2. Alone(c)' /\ (Live(c)' => Live(c))
      BY <2>1, <3>1, AloneLess DEF Once
    <3> QED
      BY <1>0, <1>1, <2>1, <3>2, OnceStays
  <2> QED
    BY <2>2, <2>3
<1>5. ASSUME NEW kind, Submit(a, kind) PROVE OnceDone
  <2> DEFINE o == Object(a, kind, 1)
  <2>1. PICK ch \in Chain : chain[ch].pc = "free" /\ Become(ch, "processing", {o}, 0)
    BY <1>5 DEF Submit, Execute, FirstFree
  <2>2. /\ chain'[ch].pc = "processing" /\ chain'[ch].batch = {o}
        /\ \A x \in Chain \ {ch} : chain'[x] = chain[x]
    BY <1>0, <2>1 DEF Become, GuardTyped, ChainType
  <2>3. o.cmd = a
    BY DEF Object
  <2>4. UNCHANGED <<queue, handled, returned, dropped, failed, lost>>
    BY <1>5 DEF Submit
  <2> HIDE DEF o
  <2>5. Held(ch)' = {o} /\ ch \in Place
    BY <2>2, ChainHeld DEF Place
  <2>6. \A p \in Place : \A e \in Held(p)' : e \in Held(p) \/ (p = ch /\ e = o)
    <3>1. \A p \in Place \ {ch} : Held(p)' = Held(p)
      BY <2>2, <2>4, OthersHeld, QueueHeld
    <3> QED
      BY <2>5, <3>1
  <2>7. EachOnce'
    BY <1>4, <2>3, <2>4, <2>5, <2>6
  <2>8. AttachedWaits'
    BY <1>1, <2>2, <2>4, AttachedKept DEF OnceInv
  <2> QED
    BY <2>7, <2>8 DEF OnceDone
<1>6. ASSUME NEW kind, NEW rank, Enqueue(Object(a, kind, rank)),
             UNCHANGED <<handled, returned, dropped, failed, lost>>,
             \A x \in Chain : chain'[x].pc = chain[x].pc /\ chain'[x].batch = chain[x].batch
      PROVE  OnceDone
  <2> DEFINE o == Object(a, kind, rank)
  <2>1. queue' = queue \cup {o} /\ o.cmd = a
    BY <1>6 DEF Enqueue, Object
  <2> HIDE DEF o
  <2>2. \A x \in Chain : Held(x)' = Held(x)
    BY <1>6, ChainHeld
  <2>3. NoChain \in Place
        /\ \A p \in Place : \A e \in Held(p)' : e \in Held(p) \/ (p = NoChain /\ e = o)
    <3>1. \A p \in Place \ {NoChain} : Held(p)' = Held(p)
      BY <2>2 DEF Place
    <3>2. NoChain \in Place /\ Held(NoChain)' = Held(NoChain) \cup {o}
      BY <2>1, QueueHeld DEF Place
    <3> QED
      BY <3>1, <3>2
  <2>4. EachOnce'
    BY <1>4, <1>6, <2>1, <2>3
  <2>5. AttachedWaits'
    BY <1>1, <1>6, <2>1, AttachedKept DEF OnceInv
  <2> QED
    BY <2>4, <2>5 DEF OnceDone
<1>7. ASSUME NEW kind, SubmitWhileActive(a, kind) PROVE OnceDone
  <2>1. \A x \in Chain : chain'[x].pc = chain[x].pc /\ chain'[x].batch = chain[x].batch
    <3>1. CASE controller # NoChain /\ chain' = [chain EXCEPT ![controller].aborted = TRUE]
      BY <1>0, <3>1 DEF GuardTyped, ChainType
    <3> QED
      BY <1>7, <3>1 DEF SubmitWhileActive
  <2> QED
    BY <1>6, <1>7, <2>1 DEF SubmitWhileActive
<1>8. ASSUME NEW kind, NEW rank, Notify(a, kind, rank) PROVE OnceDone
  BY <1>6, <1>8 DEF Notify
<1>9. CASE Incoming(a)
  <2>1. PICK ch \in Chain : chain[ch].pc = "free" /\ Become(ch, "running", {}, generation + 1)
    BY <1>9 DEF Incoming, FirstFree
  <2>2. chain'[ch].pc = "running" /\ \A x \in Chain \ {ch} : chain'[x] = chain[x]
    BY <1>0, <2>1, Became
  <2>3. UNCHANGED <<queue, returned, dropped, failed, lost>> /\ handled' = [handled EXCEPT ![a] = @ + 1]
    BY <1>9 DEF Incoming
  <2>4. Held(ch)' = {}
    BY <2>2, ChainHeld
  <2>5. \A p \in Place : Held(p)' \subseteq Held(p)
    BY <2>2, <2>3, <2>4, OthersHeld, QueueHeld
  <2>6. ASSUME NEW c \in Command \ raced PROVE Once(c)'
    <3>1. Once(c) /\ Alone(c)' /\ (Live(c)' => Live(c))
      BY <1>2, <2>5, AloneLess DEF Once
    <3>2. CASE c = a
      <4>1. OneEnd(c) /\ ~Live(c)'
        BY <1>0, <1>3, <2>3, <3>1, <3>2 DEF OneEnd, PutAside, EndsTyped
      <4> QED
        BY <1>0, <1>1, <3>1, <3>2, <4>1, OnceBegins
    <3>3. CASE c # a
      <4>1. SameEnds(c)
        BY <1>0, <2>3, <3>3 DEF SameEnds, PutAside, EndsTyped
      <4> QED
        BY <1>0, <1>1, <3>1, <4>1, OnceStays
    <3> QED
      BY <3>2, <3>3
  <2>7. AttachedWaits'
    BY <1>1, <2>2, <2>3, AttachedKept DEF OnceInv
  <2> QED
    BY <1>1, <2>6, <2>7 DEF OnceDone, EachOnce
<1> QED
  BY <1>5, <1>7, <1>8, <1>9 DEF Arrival

\* Objects leave the queue for good: their commands come to one end each.
LEMMA OnceRemoved ==
    ASSUME OnceInv, NEW objects, objects \subseteq queue, queue' = queue \ objects,
           UNCHANGED <<chain, arrived>>, raced \subseteq raced',
           \A c \in Command : IF c \in Commands(objects) THEN OneEnd(c) ELSE SameEnds(c)
    PROVE  EachOnce'
<1>0. EndsTyped
  BY TypeParts DEF OnceInv
<1> SUFFICES ASSUME NEW c \in Command \ raced PROVE Once(c)'
  BY DEF EachOnce
<1>1. Once(c) /\ Alone(c)
  BY DEF OnceInv, EachOnce, Once
<1>2. \A p \in Place : Held(p)' \subseteq Held(p)
  BY QueueHeld, ChainHeld DEF Place
<1>3. CASE c \in Commands(objects)
  <2>1. PICK e \in objects : e.cmd = c
    BY <1>3 DEF Commands
  <2>2. NoChain \in Place /\ e \in Held(NoChain) /\ e \notin Held(NoChain)'
    BY QueueHeld DEF Place
  <2>3. Live(c) /\ ~Live(c)' /\ Alone(c)'
    BY <1>1, <1>2, <2>1, <2>2, AloneGone
  <2> QED
    BY <1>0, <1>1, <1>3, <2>3, OnceEnds
<1>4. CASE c \notin Commands(objects)
  <2>1. Alone(c)' /\ (Live(c)' => Live(c))
    BY <1>1, <1>2, AloneLess
  <2>2. SameEnds(c) /\ arrived' \in Nat /\ arrived <= arrived'
    BY <1>0, <1>4 DEF EndsTyped
  <2> QED
    BY <1>0, <1>1, <2>1, <2>2, OnceStays
<1> QED
  BY <1>3, <1>4

LEMMA HandledEnds ==
    ASSUME EndsTyped, NEW objects, Handle(objects), UNCHANGED <<returned, dropped, failed, lost>>
    PROVE  \A c \in Command : IF c \in Commands(objects) THEN OneEnd(c) ELSE SameEnds(c)
BY DEF Handle, EndsTyped, OneEnd, SameEnds, PutAside

LEMMA AsideEnds ==
    ASSUME NEW objects, UNCHANGED handled,
           \/ returned' = returned \cup Commands(objects) /\ UNCHANGED <<dropped, failed, lost>>
           \/ dropped' = dropped \cup Commands(objects) /\ UNCHANGED <<returned, failed, lost>>
           \/ failed' = failed \cup Commands(objects) /\ UNCHANGED <<returned, dropped, lost>>
    PROVE  \A c \in Command : IF c \in Commands(objects) THEN OneEnd(c) ELSE SameEnds(c)
BY DEF OneEnd, SameEnds, PutAside

LEMMA OnceDrain ==
    ASSUME OnceInv, ProcessQueue \/ DropPassive \/ PopAllEditable \/ ClearQueue
                      \/ \E rank \in 1 .. 2 : SubagentDrain(rank)
    PROVE  OnceDone
<1>0. GuardTyped /\ QueueTyped /\ EndsTyped
  BY TypeParts DEF OnceInv
<1>1. ASSUME NEW objects, objects \subseteq queue, Take(objects, NoChain),
             UNCHANGED <<chain, arrived>>,
             \A c \in Command : IF c \in Commands(objects) THEN OneEnd(c) ELSE SameEnds(c)
      PROVE  OnceDone
  <2>1. queue' = queue \ objects /\ raced \subseteq raced'
    BY <1>1 DEF Take
  <2>2. EachOnce'
    BY <1>1, <2>1, OnceRemoved
  <2>3. AttachedWaits'
    BY <1>1, AttachedTaken, ChainHeld DEF OnceInv, Take
  <2> QED
    BY <2>2, <2>3 DEF OnceDone
<1>2. CASE ProcessQueue
  <2>1. PICK B : /\ B \subseteq queue /\ Execute(B) /\ Take(B, NoChain)
                 /\ UNCHANGED <<arrived, ends>>
    BY <1>0, <1>2, BatchTyped DEF ProcessQueue, MainThread
  <2>2. PICK ch \in Chain : chain[ch].pc = "free" /\ Become(ch, "processing", B, 0)
    BY <2>1 DEF Execute, FirstFree
  <2>3. /\ chain'[ch].pc = "processing" /\ chain'[ch].batch = B
        /\ \A x \in Chain \ {ch} : chain'[x] = chain[x]
    BY <1>0, <2>2 DEF Become, GuardTyped, ChainType
  <2>4. queue' = queue \ B /\ raced \subseteq raced'
    BY <2>1 DEF Take
  <2>5. /\ Held(ch) = {} /\ Held(ch)' = B /\ ch # NoChain /\ {ch, NoChain} \subseteq Place
        /\ \A p \in Place \ {NoChain, ch} : Held(p)' = Held(p)
    BY <2>2, <2>3, ChainHeld, OthersHeld DEF Place
  <2>6. ASSUME NEW c \in Command \ raced PROVE Once(c)'
    <3>1. Once(c) /\ Alone(c)
      BY <2>6 DEF OnceInv, EachOnce, Once
    <3> DEFINE from(p) == IF p = ch THEN NoChain ELSE p
    <3>2. ASSUME NEW p \in Place, NEW d \in Held(p)'
          PROVE  from(p) \in Place /\ d \in Held(from(p)) /\ (p = NoChain => d \notin B)
      BY <2>1, <2>4, <2>5, <3>2, QueueHeld
    <3>3. ASSUME NEW p \in Place, NEW q \in Place, NEW d \in Held(p)', NEW e \in Held(q)',
                 d.cmd = c, e.cmd = c
          PROVE  p = q /\ d = e
      <4>1. from(p) = from(q) /\ d = e
        BY <3>1, <3>2, <3>3 DEF Alone
      <4>2. p = ch => d \in B
        BY <2>5
      <4>3. q = ch => e \in B
        BY <2>5
      <4> QED
        BY <3>2, <4>1, <4>2, <4>3
    <3>4. Alone(c)'
      BY <3>3 DEF Alone
    <3>5. Live(c)' => Live(c)
      BY <3>2 DEF Live
    <3>6. SameEnds(c) /\ arrived' \in Nat /\ arrived <= arrived'
      BY <1>0, <2>1 DEF EndsTyped, SameEnds, PutAside
    <3> QED
      BY <1>0, <3>1, <3>4, <3>5, <3>6, OnceStays
  <2>7. AttachedWaits'
    <3>1. queue \ B \subseteq queue' /\ raced' = raced \cup Commands(B \cap HeldBut(NoChain))
      BY <2>1 DEF Take
    <3> QED
      BY <2>3, <3>1, AttachedTaken, ChainHeld DEF OnceInv
  <2> QED
    BY <2>4, <2>6, <2>7 DEF OnceDone, EachOnce
<1>3. CASE DropPassive
  <2>1. PICK B : /\ B \subseteq queue /\ Take(B, NoChain) /\ dropped' = dropped \cup Commands(B)
                 /\ UNCHANGED <<chain, arrived, handled, returned, failed, lost>>
    BY <1>0, <1>3, BatchTyped DEF DropPassive, MainThread
  <2> QED
    BY <1>1, <2>1, AsideEnds
<1>4. CASE PopAllEditable
  <2>1. /\ Editable \subseteq queue /\ Take(Editable, NoChain)
        /\ returned' = returned \cup Commands(Editable)
        /\ UNCHANGED <<chain, arrived, handled, dropped, failed, lost>>
    BY <1>4 DEF PopAllEditable, Editable
  <2> QED
    BY <1>1, <2>1, AsideEnds
<1>5. CASE ClearQueue
  <2>1. /\ Take(queue, NoChain) /\ dropped' = dropped \cup Commands(queue)
        /\ UNCHANGED <<chain, arrived, handled, returned, failed, lost>>
    BY <1>5 DEF ClearQueue
  <2> QED
    BY <1>1, <2>1, AsideEnds
<1>6. ASSUME NEW rank \in 1 .. 2, SubagentDrain(rank) PROVE OnceDone
  <2>1. PICK objects : /\ objects \subseteq queue /\ \A e \in objects : e.kind = "agent"
                       /\ queue' = queue \ objects /\ Handle(objects)
                       /\ UNCHANGED <<chain, arrived, returned, dropped, failed, lost, raced>>
    BY <1>6 DEF SubagentDrain
  <2>2. EachOnce'
    BY <1>0, <2>1, HandledEnds, OnceRemoved
  <2>3. AttachedWaits'
    BY <2>1, AttachedKept DEF OnceInv
  <2> QED
    BY <2>2, <2>3 DEF OnceDone
<1> QED
  BY <1>2, <1>3, <1>4, <1>5, <1>6

\* A chain ends its processing, and the commands of its batch come to an end.
LEMMA OnceProcessed ==
    ASSUME OnceInv, NEW ch \in Chain, chain[ch].pc = "processing",
           chain'[ch].pc \in {"free", "running"},
           \A x \in Chain \ {ch} : chain'[x] = chain[x], UNCHANGED <<queue, arrived, raced>>,
           \A c \in Command : IF c \in Commands(chain[ch].batch) THEN OneEnd(c) ELSE SameEnds(c)
    PROVE  OnceDone
<1>0. EndsTyped
  BY TypeParts DEF OnceInv
<1>1. Held(ch) = chain[ch].batch /\ Held(ch)' = {} /\ ch \in Place
  BY ChainHeld DEF Place
<1>2. \A p \in Place : Held(p)' \subseteq Held(p)
  BY <1>1, OthersHeld, QueueHeld
<1>3. ASSUME NEW c \in Command \ raced PROVE Once(c)'
  <2>1. Once(c) /\ Alone(c)
    BY <1>3 DEF OnceInv, EachOnce, Once
  <2>2. CASE c \in Commands(chain[ch].batch)
    <3>1. PICK e \in Held(ch) : e.cmd = c
      BY <1>1, <2>2 DEF Commands
    <3>2. e \notin Held(ch)'
      BY <1>1
    <3>3. Live(c) /\ ~Live(c)' /\ Alone(c)'
      BY <1>1, <1>2, <2>1, <3>1, <3>2, AloneGone
    <3> QED
      BY <1>0, <2>1, <2>2, <3>3, OnceEnds
  <2>3. CASE c \notin Commands(chain[ch].batch)
    <3>1. Alone(c)' /\ (Live(c)' => Live(c))
      BY <1>2, <2>1, AloneLess
    <3>2. SameEnds(c) /\ arrived' \in Nat /\ arrived <= arrived'
      BY <1>0, <2>3 DEF EndsTyped
    <3> QED
      BY <1>0, <2>1, <3>1, <3>2, OnceStays
  <2> QED
    BY <2>2, <2>3
<1>4. AttachedWaits'
  BY AttachedKept DEF OnceInv
<1> QED
  BY <1>3, <1>4 DEF OnceDone, EachOnce

\* Its commands are queued again, with one object for each, but for the isMeta
\* ones, which end.
LEMMA OnceRequeued ==
    ASSUME OnceInv, NEW ch \in Chain, RequeueTurn(ch)
    PROVE  OnceDone
<1>0. GuardTyped /\ EndsTyped
  BY TypeParts DEF OnceInv
<1> DEFINE kept == {e \in chain[ch].batch : e.kind \notin Meta}
<1>1. /\ chain[ch].pc = "processing" /\ queue' = queue \cup Again(kept)
      /\ lost' = lost \cup Commands(chain[ch].batch \ kept)
      /\ UNCHANGED <<arrived, handled, returned, dropped, failed, raced>>
  BY DEF RequeueTurn
<1>2. chain'[ch].pc = "free" /\ \A x \in Chain \ {ch} : chain'[x] = chain[x]
  BY <1>0, Released DEF RequeueTurn
<1>3. /\ Held(ch) = chain[ch].batch /\ Held(ch)' = {} /\ {ch, NoChain} \subseteq Place
      /\ \A p \in Place \ {NoChain, ch} : Held(p)' = Held(p)
  BY <1>1, <1>2, ChainHeld, OthersHeld DEF Place
<1> DEFINE new(e) == [cmd |-> e.cmd, kind |-> "prompt", rank |-> 1,
                      at |-> tickets + Cardinality({d \in kept : d.at <= e.at})]
<1>4. Again(kept) = {new(e) : e \in kept} /\ \A e \in kept : new(e).cmd = e.cmd
  BY DEF Again
<1>5. kept \subseteq chain[ch].batch
  OBVIOUS
<1> HIDE DEF kept, new
<1>6. ASSUME NEW c \in Command \ raced PROVE Once(c)'
  <2>1. Once(c) /\ Alone(c)
    BY <1>6 DEF OnceInv, EachOnce, Once
  <2>2. CASE c \in Commands(kept)
    <3>1. PICK e0 \in kept : e0.cmd = c
      BY <2>2 DEF Commands
    <3>2. e0 \in Held(ch) /\ ch \in Place
      BY <1>3, <1>5
    <3>3. ASSUME NEW p \in Place, NEW d \in Held(p), d.cmd = c PROVE p = ch /\ d = e0
      BY <2>1, <3>1, <3>2, <3>3 DEF Alone
    <3>4. \A d \in Again(kept) : d.cmd = c => d = new(e0)
      <4> SUFFICES ASSUME NEW e \in kept, new(e).cmd = c PROVE new(e) = new(e0)
        BY <1>4
      <4>1. e.cmd = c /\ e \in Held(ch)
        BY <1>3, <1>4, <1>5
      <4>2. e = e0
        BY <3>2, <3>3, <4>1
      <4> QED
        BY <4>2
    <3>5. ASSUME NEW p \in Place, NEW d \in Held(p)', d.cmd = c
          PROVE  p = NoChain /\ d = new(e0)
      <4>1. p # ch
        BY <1>3, <3>5
      <4>2. d \notin Held(p)
        BY <3>3, <3>5, <4>1
      <4>3. p = NoChain
        BY <1>3, <3>5, <4>1, <4>2
      <4>4. d \in Again(kept)
        BY <1>1, <3>5, <4>2, <4>3, QueueHeld
      <4> QED
        BY <3>4, <3>5, <4>3, <4>4
    <3>6. Alone(c)'
      BY <3>5, AloneOnly
    <3>7. Live(c)
      BY <3>1, <3>2 DEF Live
    <3>8. c \notin Commands(chain[ch].batch \ kept)
      BY <1>3, <3>1, <3>2, <3>3 DEF Commands
    <3>9. SameEnds(c) /\ arrived' \in Nat /\ arrived <= arrived'
      BY <1>0, <1>1, <3>8 DEF EndsTyped, SameEnds, PutAside
    <3> QED
      BY <1>0, <2>1, <3>6, <3>7, <3>9, OnceStays
  <2>3. CASE c \notin Commands(kept)
    <3>1. \A d \in Again(kept) : d.cmd # c
      BY <1>4, <2>3 DEF Commands
    <3>2. \A p \in Place : \A d \in Held(p)' : d.cmd = c => d \in Held(p)
      BY <1>1, <1>3, <3>1, QueueHeld
    <3>3. Alone(c)' /\ (Live(c)' => Live(c))
      BY <2>1, <3>2, AloneLess
    <3>4. CASE c \in Commands(chain[ch].batch)
      <4>1. PICK e \in Held(ch) : e.cmd = c
        BY <1>3, <3>4 DEF Commands
      <4>2. e \notin Held(ch)' /\ ch \in Place
        BY <1>3
      <4>3. Live(c) /\ ~Live(c)'
        BY <2>1, <3>2, <4>1, <4>2, AloneGone
      <4>4. OneEnd(c)
        BY <1>1 DEF OneEnd
      <4> QED
        BY <1>0, <1>1, <2>1, <3>3, <4>3, <4>4, OnceEnds
    <3>5. CASE c \notin Commands(chain[ch].batch)
      <4>1. c \notin Commands(chain[ch].batch \ kept)
        BY <3>5 DEF Commands
      <4>2. SameEnds(c) /\ arrived' \in Nat /\ arrived <= arrived'
        BY <1>0, <1>1, <4>1 DEF EndsTyped, SameEnds, PutAside
      <4> QED
        BY <1>0, <2>1, <3>3, <4>2, OnceStays
    <3> QED
      BY <3>4, <3>5
  <2> QED
    BY <2>2, <2>3
<1>7. AttachedWaits'
  BY <1>1, <1>2, AttachedKept DEF OnceInv
<1> QED
  BY <1>1, <1>6, <1>7 DEF OnceDone, EachOnce

\* What is attached was waiting, but for what others took: the objects leave the
\* queue, and the other turns that hold on to them are noted.
LEMMA OnceAttached ==
    ASSUME OnceInv, NEW ch \in Chain, EndAttaching(ch)
    PROVE  OnceDone
<1>0. GuardTyped /\ EndsTyped
  BY TypeParts DEF OnceInv
<1> DEFINE consumed == Consumed(ch)
<1>1. /\ chain[ch].pc = "attaching" /\ Take(consumed, ch) /\ Consume(ch)
      /\ UNCHANGED <<arrived, returned, dropped, lost>>
      /\ \/ Handle(consumed) /\ UNCHANGED failed
         \/ failed' = failed \cup Commands(consumed \cap queue) /\ UNCHANGED handled
  BY DEF EndAttaching, Attach, AttachFails, Consume
<1>2. chain'[ch].pc = "running" /\ \A x \in Chain \ {ch} : chain'[x] = chain[x]
  BY <1>0, <1>1, Became DEF Consume
<1>3. \A e \in consumed : e \in queue \/ e.cmd \in raced
  BY <1>1 DEF OnceInv, AttachedWaits, Consumed
<1> HIDE DEF consumed
<1>4. queue' = queue \ consumed /\ raced \subseteq raced'
  BY <1>1 DEF Take
<1>5. Held(ch) = {} /\ Held(ch)' = {}
  BY <1>1, <1>2, ChainHeld
<1>6. \A p \in Place : Held(p)' \subseteq Held(p)
  BY <1>2, <1>4, <1>5, OthersHeld, QueueHeld
<1>7. ASSUME NEW c \in Command \ raced PROVE Once(c)'
  <2>1. Once(c) /\ Alone(c)
    BY <1>7 DEF OnceInv, EachOnce, Once
  <2>2. IF c \in Commands(consumed) THEN OneEnd(c) ELSE SameEnds(c)
    <3>1. CASE Handle(consumed) /\ UNCHANGED failed
      BY <1>0, <1>1, <3>1, HandledEnds
    <3>2. CASE failed' = failed \cup Commands(consumed \cap queue) /\ UNCHANGED handled
      <4>1. c \notin Commands(consumed) => c \notin Commands(consumed \cap queue)
        BY DEF Commands
      <4> QED
        BY <1>1, <3>2, <4>1 DEF OneEnd, SameEnds, PutAside
    <3> QED
      BY <1>1, <3>1, <3>2
  <2>3. CASE c \in Commands(consumed)
    <3>1. PICK e \in consumed : e.cmd = c
      BY <2>3 DEF Commands
    <3>2. e \in Held(NoChain) /\ e \notin Held(NoChain)' /\ NoChain \in Place
      BY <1>3, <1>4, <3>1, QueueHeld DEF Place
    <3>3. Live(c) /\ ~Live(c)' /\ Alone(c)'
      BY <1>6, <2>1, <3>1, <3>2, AloneGone
    <3> QED
      BY <1>0, <1>1, <2>1, <2>2, <2>3, <3>3, OnceEnds
  <2>4. CASE c \notin Commands(consumed)
    <3>1. Alone(c)' /\ (Live(c)' => Live(c))
      BY <1>6, <2>1, AloneLess
    <3>2. arrived' \in Nat /\ arrived <= arrived'
      BY <1>0, <1>1 DEF EndsTyped
    <3> QED
      BY <1>0, <2>1, <2>2, <2>4, <3>1, <3>2, OnceStays
  <2> QED
    BY <2>3, <2>4
<1>8. AttachedWaits'
  BY <1>1, <1>2, AttachedTaken DEF OnceInv, Take
<1> QED
  BY <1>4, <1>7, <1>8 DEF OnceDone, EachOnce

LEMMA OnceTurn ==
    ASSUME OnceInv, NEW ch \in Chain, Turn(ch)
    PROVE  OnceDone
<1>0. GuardTyped /\ EndsTyped
  BY TypeParts DEF OnceInv
<1>1. \A x \in Chain \ {ch} : chain'[x] = chain[x]
  BY <1>0, Became, Released
     DEF Turn, EndProcessing, StartTurn, RequeueTurn, EndWithoutTurn, FailProcessing,
         Snapshot, EndAttaching, Attach, AttachFails, Consume, FinishTurn
<1>2. CASE StartTurn(ch) \/ EndWithoutTurn(ch)
  <2>1. /\ chain[ch].pc = "processing" /\ Handle(chain[ch].batch)
        /\ UNCHANGED <<queue, arrived, returned, dropped, failed, lost, raced>>
    BY <1>2 DEF StartTurn, EndWithoutTurn
  <2>2. chain'[ch].pc \in {"free", "running"}
    BY <1>0, <1>2, Became, Released DEF StartTurn, EndWithoutTurn
  <2> QED
    BY <1>0, <1>1, <2>1, <2>2, HandledEnds, OnceProcessed
<1>3. CASE FailProcessing(ch)
  <2>1. /\ chain[ch].pc = "processing" /\ failed' = failed \cup Commands(chain[ch].batch)
        /\ UNCHANGED <<queue, arrived, handled, returned, dropped, lost, raced>>
    BY <1>3 DEF FailProcessing
  <2>2. chain'[ch].pc \in {"free", "running"}
    BY <1>0, <1>3, Released DEF FailProcessing
  <2> QED
    BY <1>1, <2>1, <2>2, AsideEnds, OnceProcessed
<1>4. ASSUME NEW rank \in 1 .. 2, Snapshot(ch, rank) PROVE OnceDone
  <2> DEFINE seen == {e \in MainThread : e.rank <= rank /\ e.kind # "slash"}
  <2>1. /\ Become(ch, "attaching", seen, chain[ch].gen)
        /\ UNCHANGED <<queue, arrived, handled, returned, dropped, failed, lost, raced>>
    BY <1>4 DEF Snapshot
  <2>2. \A e \in seen : e \in queue /\ e.kind # "agent"
    BY DEF MainThread
  <2> HIDE DEF seen
  <2>3. chain'[ch].pc = "attaching" /\ chain'[ch].batch = seen
    BY <1>0, <2>1 DEF Become, GuardTyped, ChainType
  <2>4. Held(ch)' = {} /\ \A p \in Chain : Held(p)' \subseteq Held(p)
    BY <1>1, <2>3, ChainHeld
  <2>5. EachOnce'
    BY <2>1, <2>4, OnceQuiet
  <2>6. AttachedWaits'
    BY <1>1, <2>1, <2>2, <2>3 DEF OnceInv, AttachedWaits
  <2> QED
    BY <2>5, <2>6 DEF OnceDone
<1>5. CASE FinishTurn(ch)
  <2>1. UNCHANGED <<queue, arrived, handled, returned, dropped, failed, lost, raced>>
    BY <1>5 DEF FinishTurn
  <2>2. chain'[ch].pc = "free"
    BY <1>0, <1>5, Released DEF FinishTurn
  <2>3. \A p \in Chain : Held(p)' \subseteq Held(p)
    BY <1>1, <2>2, ChainHeld
  <2>4. EachOnce'
    BY <2>1, <2>3, OnceQuiet
  <2>5. AttachedWaits'
    BY <1>1, <2>1, <2>2, AttachedKept DEF OnceInv
  <2> QED
    BY <2>4, <2>5 DEF OnceDone
<1> QED
  BY <1>2, <1>3, <1>4, <1>5, OnceRequeued, OnceAttached DEF Turn, EndProcessing

LEMMA OnceStep == OnceInv /\ [Next]_vars => OnceInv'
<1> SUFFICES ASSUME OnceInv, [Next]_vars PROVE OnceDone
  BY TypeStep DEF OnceInv, OnceDone
<1>0. GuardTyped
  BY TypeParts DEF OnceInv
<1>1. ASSUME UNCHANGED <<queue, arrived, handled, returned, dropped, failed, lost, raced>>,
             \A x \in Chain : chain'[x].pc = chain[x].pc /\ chain'[x].batch = chain[x].batch
      PROVE  OnceDone
  <2>1. \A p \in Chain : Held(p)' \subseteq Held(p)
    BY <1>1, ChainHeld
  <2> QED
    BY <1>1, <2>1, OnceQuiet, AttachedKept DEF OnceInv, OnceDone
<1>2. CASE UNCHANGED vars
  BY <1>1, <1>2 DEF vars
<1>3. CASE Cancel
  <2>1. controller \in Chain
    BY <1>0, <1>3 DEF Cancel, CanCancel, GuardTyped
  <2>2. \A x \in Chain : chain'[x].pc = chain[x].pc /\ chain'[x].batch = chain[x].batch
    BY <1>0, <1>3, <2>1 DEF Cancel, GuardTyped, ChainType
  <2> QED
    BY <1>1, <1>3, <2>2 DEF Cancel
<1> QED
  BY <1>2, <1>3, OnceArrival, OnceDrain, OnceTurn DEF Next

LEMMA OnceInit == Init => OnceInv
<1> SUFFICES ASSUME Init PROVE OnceInv
  OBVIOUS
<1>1. TypeOK
  BY TypeInit
<1>2. \A p \in Place : Held(p) = {}
  BY QueueHeld, ChainHeld DEF Init, Place, Free
<1>3. EachOnce
  BY <1>2 DEF Init, EachOnce, Once, Alone, Live, PutAside
<1>4. AttachedWaits
  BY DEF Init, AttachedWaits, Free
<1> QED
  BY <1>1, <1>3, <1>4 DEF OnceInv

\* A command that nobody took while a turn was attaching it enters the
\* conversation at most once, and not if it was given back, discarded, lost to a
\* failure or still waits: whatever is interrupted, refused, queued again and
\* drained by whom.
THEOREM EntersOnce == Spec => []HandledOnce
<1>1. OnceInv => HandledOnce
  <2> SUFFICES ASSUME OnceInv, NEW c \in Command \ raced
               PROVE  /\ handled[c] <= 1
                      /\ handled[c] = 1 =>
                             c \notin returned \cup dropped \cup failed \cup lost \cup Commands(queue)
    BY DEF HandledOnce
  <2>1. Once(c) /\ handled[c] \in Nat
    BY TypeParts DEF OnceInv, EachOnce, EndsTyped
  <2>2. c \in Commands(queue) => Live(c)
    BY QueueHeld DEF Commands, Live, Place
  <2> QED
    BY <2>1, <2>2 DEF Once, PutAside
<1> QED
  BY OnceInit, OnceStep, <1>1, PTL DEF Spec

==============================================================================
