----------------------- MODULE MemoryWorkerLockProofs -----------------------
(***************************************************************************)
(* What worker.lock guarantees for every number of workers, hosts and      *)
(* iterations. TypeOK holds of every behaviour, and so does                *)
(* NothingIsLeftBehind. MutualExclusion holds under NoTheft: no worker is  *)
(* killed, and either no worker leaves the lock untouched for staleMs, or  *)
(* all workers share a host and nobody runs a repair. Without NoTheft it   *)
(* does not hold (see ReclaimsWhatItSaw). RefusedByRunning holds if no     *)
(* worker is killed.                                                       *)
(***************************************************************************)
EXTENDS MemoryWorkerLock, TLAPS

NoTheft ==
    /\ MayCrash = {}
    /\ \/ MayStall = {}
       \/ Repairer = {} /\ \A v, w \in Worker : HostOf[v] = HostOf[w]

Releasing == {"releaseAgain", "removeAgain"}

\* Who has created the file and not yet left the loop has its name on it, or is
\* about to have, and no other name is on it.
HolderInv ==
    \A w \in Holders : /\ present /\ owner \in {w, Nobody}
                       /\ pc[w] = "writeOwner" => owner = Nobody

\* A name on the file is that of a worker that has not ended.
OwnerInv == present /\ owner # Nobody => pc[owner] \in Holding \cup Releasing

RemoverInv ==
    \A w \in Worker : pc[w] \in {"remove", "removeAgain"} => present /\ owner = w

\* Nobody has come to the conclusion that the lock is stale.
NoVerdict ==
    /\ \A w \in Worker : pc[w] \notin {"recheck", "reclaim"}
    /\ \A r \in Repairer : pc[r] # "unlink"

\* An empty file that nobody writes to.  Nothing removes it.
Stuck == present /\ owner = Nobody /\ Holders = {}

AgeInv ==
    MayStall = {} => /\ old => Stuck
                     /\ \A w \in Worker : pc[w] = "readOwner" /\ sawOld[w] => Stuck

IInv == /\ TypeOK /\ MutualExclusion
        /\ HolderInv /\ OwnerInv /\ RemoverInv /\ NoVerdict /\ AgeInv

USE LockConstants DEF Goto, file, RemoveFile, Ended, Holding, Holders

LEMMA TypeAcquire ==
    ASSUME TypeOK, NEW w \in Worker, Acquire(w) PROVE TypeOK'
<1>1. CASE Stat(w)
  BY <1>1 DEF Stat, TypeOK, WorkerLabels
<1>2. CASE ReadOwner(w)
  BY <1>2 DEF ReadOwner, TypeOK, WorkerLabels, OnDisk
<1>3. CASE Recheck(w)
  BY <1>3 DEF Recheck, TypeOK, WorkerLabels
<1>4. CASE Reclaim(w)
  BY <1>4 DEF Reclaim, TypeOK, WorkerLabels
<1>5. CASE Create(w)
  <2>1. CASE present
    BY <1>5, <2>1 DEF Create, TypeOK, WorkerLabels
  <2>2. CASE ~present
    <3>1. pc' = [pc EXCEPT ![w] = "writeOwner"] /\ open' = {w}
      BY <1>5, <2>2 DEF Create
    <3>2. pc'[w] = "writeOwner" /\ \A v \in Worker \cup Repairer : v # w => pc'[v] = pc[v]
      BY <3>1 DEF TypeOK
    <3> QED
      BY <1>5, <2>2, <3>1, <3>2 DEF Create, TypeOK, WorkerLabels
  <2> QED
    BY <2>1, <2>2
<1>6. CASE WriteOwner(w)
  BY <1>6 DEF WriteOwner, WriteIdentity, TypeOK, WorkerLabels
<1> QED
  BY <1>1, <1>2, <1>3, <1>4, <1>5, <1>6 DEF Acquire

LEMMA AfterTouchType ==
    ASSUME NEW w \in Worker
    PROVE  AfterTouch(w) \subseteq {"work", "release", "touch"}
BY DEF AfterTouch

LEMMA TypeLoop ==
    ASSUME TypeOK, NEW w \in Worker,
           Loop(w) \/ WriteOwnerFails(w) \/ TouchFails(w) \/ WorkThrows(w)
    PROVE  TypeOK'
<1>1. CASE OpenTouch(w)
  BY <1>1 DEF OpenTouch, TypeOK, WorkerLabels
<1>2. CASE WriteTouch(w)
  BY <1>2, AfterTouchType DEF WriteTouch, WriteIdentity, TypeOK, WorkerLabels
<1>3. CASE Work(w)
  BY <1>3 DEF Work, TypeOK, WorkerLabels
<1>4. CASE WriteOwnerFails(w)
  BY <1>4 DEF WriteOwnerFails, TypeOK, WorkerLabels
<1>5. CASE TouchFails(w)
  BY <1>5, AfterTouchType DEF TouchFails, TypeOK, WorkerLabels
<1>6. CASE WorkThrows(w)
  BY <1>6 DEF WorkThrows, TypeOK, WorkerLabels
<1> QED
  BY <1>1, <1>2, <1>3, <1>4, <1>5, <1>6 DEF Loop

LEMMA TypeEnd ==
    ASSUME TypeOK, NEW w \in Worker,
           Release(w) \/ Crash(w) \/ Exit(w) \/ Restart(w)
    PROVE  TypeOK'
<1>1. CASE ReleaseCheck(w)
  BY <1>1 DEF ReleaseCheck, TypeOK, WorkerLabels
<1>2. CASE ReleaseRemove(w)
  BY <1>2 DEF ReleaseRemove, TypeOK, WorkerLabels
<1>3. CASE Crash(w)
  BY <1>3 DEF Crash, TypeOK, WorkerLabels
<1>4. CASE Exit(w)
  BY <1>4 DEF Exit, TypeOK, WorkerLabels
<1>5. CASE Restart(w)
  BY <1>5 DEF Restart, TypeOK, WorkerLabels
<1> QED
  BY <1>1, <1>2, <1>3, <1>4, <1>5 DEF Release

LEMMA TypeRepair ==
    ASSUME TypeOK, NEW r \in Repairer, Repair(r) PROVE TypeOK'
<1>1. CASE RepairStat(r)
  BY <1>1 DEF RepairStat, TypeOK, RepairLabels
<1>2. CASE RepairRead(r)
  <2>1. RepairDecision(r) \in {"cross-host", "unlink", "live-lock"}
    BY DEF RepairDecision
  <2> QED
    BY <1>2, <2>1 DEF RepairRead, TypeOK, RepairLabels, OnDisk
<1>3. CASE RepairUnlink(r)
  BY <1>3 DEF RepairUnlink, TypeOK, RepairLabels
<1>4. CASE RepairConfirm(r)
  BY <1>4 DEF RepairConfirm, TypeOK, RepairLabels
<1> QED
  BY <1>1, <1>2, <1>3, <1>4 DEF Repair

LEMMA TypeNext == ASSUME TypeOK, [Next]_vars PROVE TypeOK'
<1>1. CASE Age
  BY <1>1 DEF Age, TypeOK
<1>2. CASE UNCHANGED vars
  BY <1>2 DEF vars, TypeOK
<1>3. CASE Terminated
  BY <1>2, <1>3 DEF Terminated
<1> QED
  BY <1>1, <1>2, <1>3, TypeAcquire, TypeLoop, TypeEnd, TypeRepair DEF Next

LEMMA TypeInit == Init => TypeOK
<1> SUFFICES ASSUME Init PROVE TypeOK
  OBVIOUS
<1>1. "stat" \in WorkerLabels /\ "stat" \in RepairLabels
  BY DEF WorkerLabels, RepairLabels
<1>2. pc \in [Worker \cup Repairer -> WorkerLabels \cup RepairLabels]
  BY <1>1 DEF Init
<1>3. \A p \in Worker \cup Repairer : pc[p] = "stat"
  BY DEF Init
<1> QED
  BY <1>1, <1>2, <1>3 DEF Init, TypeOK

-----------------------------------------------------------------------------
(* The invariant, under NoTheft.                                           *)

\* A verdict of staleness needs an owner that has ended, or an old file.
LEMMA NotStale ==
    ASSUME IInv, NoTheft, NEW w \in Worker, pc[w] = "readOwner"
    PROVE  ~LooksStale(w, OnDisk)
<1> SUFFICES ASSUME LooksStale(w, OnDisk) PROVE FALSE
  OBVIOUS
<1>1. OnDisk # Nobody /\ present /\ owner # Nobody /\ owner \in Worker /\ OnDisk = owner
  BY DEF LooksStale, OnDisk, SameHost, IInv, TypeOK
<1>2. owner \in pidAlive
  BY <1>1 DEF IInv, OwnerInv, TypeOK, Releasing
<1>3. HostOf[owner] # HostOf[w] /\ sawOld[w]
  BY <1>1, <1>2 DEF LooksStale, SameHost, IsProcessAlive
<1> QED
  BY <1>1, <1>3 DEF NoTheft, IInv, AgeInv, Stuck

LEMMA NotRepaired ==
    ASSUME IInv, NoTheft, NEW r \in Repairer
    PROVE  RepairDecision(r) # "unlink"
<1> SUFFICES ASSUME RepairDecision(r) = "unlink" PROVE FALSE
  OBVIOUS
<1>1. SameHost(r, OnDisk) /\ (~IsProcessAlive(OnDisk) \/ old)
  BY DEF RepairDecision
<1>2. present /\ owner # Nobody /\ owner \in Worker /\ OnDisk = owner
  BY <1>1 DEF OnDisk, SameHost, IInv, TypeOK
<1>3. owner \in pidAlive
  BY <1>2 DEF IInv, OwnerInv, TypeOK, Releasing
<1> QED
  BY <1>1, <1>2, <1>3 DEF NoTheft, IInv, AgeInv, Stuck, IsProcessAlive

LEMMA InvAcquire ==
    ASSUME IInv, TypeOK', NoTheft, NEW w \in Worker, Acquire(w)
    PROVE  IInv'
<1> USE DEF MutualExclusion, HolderInv, OwnerInv, RemoverInv, NoVerdict, AgeInv,
            Stuck, Releasing
<1>1. CASE Stat(w)
  BY <1>1 DEF Stat, IInv, TypeOK
<1>2. CASE ReadOwner(w)
  <2>1. pc' = [pc EXCEPT ![w] = "create"]
    BY <1>2, NotStale DEF ReadOwner
  <2> QED
    BY <1>2, <2>1 DEF ReadOwner, IInv, TypeOK
<1>3. ~Recheck(w) /\ ~Reclaim(w)
  BY DEF Recheck, Reclaim, IInv
<1>4. CASE Create(w)
  <2>1. CASE present
    BY <1>4, <2>1 DEF Create, IInv, TypeOK
  <2>2. CASE ~present
    <3>1. Holders = {} /\ \A v \in Worker : pc[v] \notin {"remove", "removeAgain"}
      BY <2>2 DEF IInv
    <3>2. /\ present' /\ owner' = Nobody /\ ~old' /\ pc' = [pc EXCEPT ![w] = "writeOwner"]
          /\ sawOld' = sawOld
      BY <1>4, <2>2 DEF Create
    <3>3. Holders' = {w}
      BY <3>1, <3>2 DEF IInv, TypeOK
    <3>4. MayStall = {} => \A v \in Worker : ~(pc[v] = "readOwner" /\ sawOld[v])
      BY <2>2 DEF IInv
    <3>5. MutualExclusion' /\ HolderInv' /\ OwnerInv'
      BY <3>2, <3>3
    <3>6. RemoverInv' /\ NoVerdict'
      BY <3>1, <3>2 DEF IInv, TypeOK
    <3>7. AgeInv'
      BY <3>2, <3>4 DEF IInv, TypeOK
    <3> QED
      BY <3>5, <3>6, <3>7 DEF IInv
  <2> QED
    BY <2>1, <2>2
<1>5. CASE WriteOwner(w)
  BY <1>5 DEF WriteOwner, WriteIdentity, IInv, TypeOK
<1> QED
  BY <1>1, <1>2, <1>3, <1>4, <1>5 DEF Acquire

LEMMA InvLoop ==
    ASSUME IInv, TypeOK', NoTheft, NEW w \in Worker,
           Loop(w) \/ WriteOwnerFails(w) \/ TouchFails(w) \/ WorkThrows(w)
    PROVE  IInv'
<1> USE DEF MutualExclusion, HolderInv, OwnerInv, RemoverInv, NoVerdict, AgeInv,
            Stuck, Releasing
<1>1. CASE OpenTouch(w)
  BY <1>1 DEF OpenTouch, IInv, TypeOK
<1>2. CASE WriteTouch(w)
  BY <1>2, AfterTouchType DEF WriteTouch, WriteIdentity, IInv, TypeOK
<1>3. CASE Work(w)
  BY <1>3 DEF Work, IInv, TypeOK
<1>4. CASE WriteOwnerFails(w)
  BY <1>4 DEF WriteOwnerFails, IInv, TypeOK
<1>5. CASE TouchFails(w)
  BY <1>5, AfterTouchType DEF TouchFails, IInv, TypeOK
<1>6. CASE WorkThrows(w)
  BY <1>6 DEF WorkThrows, IInv, TypeOK
<1> QED
  BY <1>1, <1>2, <1>3, <1>4, <1>5, <1>6 DEF Loop

LEMMA InvEnd ==
    ASSUME IInv, TypeOK', NoTheft, NEW w \in Worker,
           Release(w) \/ Crash(w) \/ Exit(w) \/ Restart(w)
    PROVE  IInv'
<1> USE DEF MutualExclusion, HolderInv, OwnerInv, RemoverInv, NoVerdict, AgeInv,
            Stuck, Releasing
<1>1. CASE ReleaseCheck(w)
  BY <1>1 DEF ReleaseCheck, OwnsFile, OnDisk, IInv, TypeOK
<1>2. CASE ReleaseRemove(w)
  BY <1>2 DEF ReleaseRemove, IInv, TypeOK
<1>3. ~Crash(w)
  BY DEF Crash, NoTheft
<1>4. CASE Exit(w)
  BY <1>4 DEF Exit, IInv, TypeOK
<1>5. CASE Restart(w)
  BY <1>5 DEF Restart, IInv, TypeOK
<1> QED
  BY <1>1, <1>2, <1>3, <1>4, <1>5 DEF Release

LEMMA InvRepair ==
    ASSUME IInv, TypeOK', NoTheft, NEW r \in Repairer, Repair(r)
    PROVE  IInv'
<1>1. UNCHANGED file /\ sawOld' = sawOld
  BY DEF Repair, RepairStat, RepairRead, RepairUnlink, RepairConfirm, IInv, NoVerdict
<1>2. \A w \in Worker : pc'[w] = pc[w]
  BY DEF Repair, RepairStat, RepairRead, RepairUnlink, RepairConfirm, IInv, TypeOK
<1>3. \A q \in Repairer : pc'[q] # "unlink"
  BY NotRepaired DEF Repair, RepairStat, RepairRead, RepairUnlink, RepairConfirm,
                     IInv, TypeOK, NoVerdict
<1> QED
  BY <1>1, <1>2, <1>3 DEF IInv, MutualExclusion, HolderInv, OwnerInv, RemoverInv,
                         NoVerdict, AgeInv, Stuck, TypeOK

LEMMA InvAge == ASSUME IInv, TypeOK', NoTheft, Age PROVE IInv'
<1>1. UNCHANGED <<present, owner, pc, sawOld>>
  BY DEF Age
<1>2. MayStall = {} => Stuck
  <2> SUFFICES ASSUME MayStall = {} PROVE Stuck
    OBVIOUS
  <2>1. present /\ Holders = {} /\ \A w \in Worker : ~Owns(w)
    BY DEF Age
  <2>2. owner = Nobody
    BY <2>1 DEF Owns, IInv, OwnerInv, Releasing, TypeOK
  <2> QED
    BY <2>1, <2>2 DEF Stuck
<1> QED
  BY <1>1, <1>2 DEF IInv, MutualExclusion, HolderInv, OwnerInv, RemoverInv,
                   NoVerdict, AgeInv, Stuck

LEMMA InvNext == ASSUME IInv, NoTheft, [Next]_vars PROVE IInv'
<1>1. TypeOK'
  BY TypeNext DEF IInv
<1>2. CASE UNCHANGED vars
  BY <1>1, <1>2 DEF vars, IInv, MutualExclusion, HolderInv, OwnerInv, RemoverInv,
                    NoVerdict, AgeInv, Stuck
<1>3. CASE Terminated
  BY <1>2, <1>3 DEF Terminated
<1> QED
  BY <1>1, <1>2, <1>3, InvAcquire, InvLoop, InvEnd, InvRepair, InvAge DEF Next

LEMMA InvInit == Init => IInv
BY TypeInit DEF Init, IInv, MutualExclusion, HolderInv, OwnerInv, RemoverInv,
                NoVerdict, AgeInv

-----------------------------------------------------------------------------
\* The types of all variables, and that only a worker between the two halves of
\* a write has a handle on the lock file.
THEOREM TypeCorrect == Spec => []TypeOK
<1>1. Init => TypeOK
  BY TypeInit
<1>2. TypeOK /\ [Next]_vars => TypeOK'
  BY TypeNext
<1> QED
  BY <1>1, <1>2, PTL DEF Spec

THEOREM Invariant == ASSUME NoTheft PROVE Spec => []IInv
<1>1. Init => IInv
  BY InvInit
<1>2. IInv /\ [Next]_vars => IInv'
  BY InvNext
<1> QED
  BY <1>1, <1>2, PTL DEF Spec

\* At most one worker runs between acquireMemoryWorkerLock and
\* releaseMemoryWorkerLock, for any number of workers, iterations, failing
\* writes and, when no lock goes stale, hosts and repairs.
THEOREM Exclusive == ASSUME NoTheft PROVE Spec => []MutualExclusion
<1>1. IInv => MutualExclusion
  BY DEF IInv
<1> QED
  BY <1>1, Invariant, PTL

\* Only a worker that the file names, or that is about to be named, writes it.
LEMMA OwnerStep ==
    ASSUME IInv, NoTheft, [Next]_vars, NEW w \in Worker, Owns(w), owner' # w
    PROVE  pc'[w] # pc[w]
<1> USE DEF Owns
<1>1. \A v \in Worker : pc[v] \in Holding => v = w
  BY DEF IInv, HolderInv
<1>2. \A v \in Worker : pc[v] \in {"remove", "removeAgain"} => v = w
  BY DEF IInv, RemoverInv
<1>3. ASSUME NEW v \in Worker, Acquire(v) PROVE pc'[w] # pc[w]
  <2>1. WriteOwner(v)
    BY <1>3 DEF Acquire, Stat, ReadOwner, Recheck, Reclaim, Create, IInv, NoVerdict
  <2> QED
    BY <1>1, <2>1 DEF WriteOwner, IInv, TypeOK
<1>4. ASSUME NEW v \in Worker, Loop(v) PROVE pc'[w] # pc[w]
  <2>1. v = w
    BY <1>1, <1>4 DEF Loop, OpenTouch, WriteTouch, Work
  <2>2. CASE OpenTouch(v)
    BY <2>1, <2>2 DEF OpenTouch, IInv, TypeOK
  <2>3. CASE WriteTouch(v)
    <3>1. PICK label \in AfterTouch(v) : pc' = [pc EXCEPT ![v] = label]
      BY <2>3 DEF WriteTouch
    <3>2. label \in {"work", "release", "touch"}
      BY AfterTouchType
    <3> QED
      BY <2>1, <2>3, <3>1, <3>2 DEF WriteTouch, IInv, TypeOK
  <2>4. CASE Work(v)
    BY <2>1, <2>4 DEF Work, IInv, TypeOK
  <2> QED
    BY <1>4, <2>2, <2>3, <2>4 DEF Loop
<1>5. ASSUME NEW v \in Worker, Release(v) PROVE pc'[w] # pc[w]
  <2>1. ReleaseRemove(v) /\ v = w
    BY <1>2, <1>5 DEF Release, ReleaseCheck, ReleaseRemove
  <2> QED
    BY <2>1 DEF ReleaseRemove, IInv, TypeOK
<1>6. \A v \in Worker : ~(\/ WriteOwnerFails(v) \/ TouchFails(v) \/ WorkThrows(v)
                          \/ Crash(v) \/ Exit(v) \/ Restart(v))
  BY DEF WriteOwnerFails, TouchFails, WorkThrows, Crash, Exit, Restart
<1>7. \A r \in Repairer : ~Repair(r)
  BY DEF Repair, RepairStat, RepairRead, RepairUnlink, RepairConfirm, IInv, NoVerdict
<1>8. ~Age /\ ~Terminated /\ ~UNCHANGED vars
  BY DEF Age, Terminated, vars
<1> QED
  BY <1>3, <1>4, <1>5, <1>6, <1>7, <1>8 DEF Next

\* Nobody takes a worker's identity off the lock file but the worker itself.
THEOREM OwnerKeepsLock == ASSUME NoTheft PROVE Spec => OnlyOwnerChanges
<1>1. IInv /\ [Next]_vars
        => [\A w \in Worker : Owns(w) /\ owner' # w => pc'[w] # pc[w]]_vars
  BY OwnerStep
<1> QED
  BY <1>1, Invariant, PTL DEF Spec, OnlyOwnerChanges

-----------------------------------------------------------------------------
(* What the workers leave behind, whatever happens: kills, thefts, repairs   *)
(* and failing writes.  Only w writes the name of w, and each way to an end  *)
(* that is not a kill passes a look at the file after the last such write.   *)

\* A name on the file is that of a worker that has written it and has not yet
\* seen in its `finally` that it is gone, or that was killed in between.
NamedInv ==
    \A w \in Worker : present /\ owner = w
        => pc[w] \in (Holding \ {"writeOwner"}) \cup Releasing \cup {"dead"}

LeftInv == TypeOK /\ NamedInv /\ EmptyIsTransient

\* A step that changes no name and ends no writing keeps the invariant.
LEMMA LeftQuiet ==
    ASSUME LeftInv, UNCHANGED <<present, owner, open, faults>>,
           \A w \in Worker : pc[w] = "dead" => pc'[w] = "dead",
           \A w \in Worker : present /\ owner = w
               => pc'[w] \in (Holding \ {"writeOwner"}) \cup Releasing \cup {"dead"}
    PROVE  NamedInv' /\ EmptyIsTransient'
BY DEF LeftInv, TypeOK, NamedInv, EmptyIsTransient

\* A step that takes the file away leaves nothing.
LEMMA LeftRemoved ==
    ASSUME RemoveFile, LeftInv PROVE NamedInv' /\ EmptyIsTransient'
BY DEF NamedInv, EmptyIsTransient

\* What a worker writes is its own name, and it has a way to go from there.
LEMMA LeftWritten ==
    ASSUME LeftInv, NEW w \in Worker, WriteIdentity(w), UNCHANGED faults,
           NEW label \in {"touch", "work", "release"}, pc' = [pc EXCEPT ![w] = label],
           pc[w] \in {"writeOwner", "writeTouch", "writeTouchAgain"}
    PROVE  NamedInv' /\ EmptyIsTransient'
<1>1. \A v \in Worker : v # w => pc'[v] = pc[v]
  BY DEF LeftInv, TypeOK
<1>2. pc'[w] = label
  BY DEF LeftInv, TypeOK
<1>3. CASE w \in open
  <2>1. owner' = w /\ present' = present
    BY <1>3 DEF WriteIdentity
  <2> QED
    BY <1>2, <2>1 DEF NamedInv, EmptyIsTransient
<1>4. CASE w \notin open
  <2>1. UNCHANGED <<present, owner, open>>
    BY <1>4 DEF WriteIdentity, LeftInv, TypeOK
  <2>2. faults' = faults
    BY DEF LeftInv, TypeOK
  <2> QED
    BY <1>1, <1>2, <2>1, <2>2, LeftQuiet DEF LeftInv, NamedInv
<1> QED
  BY <1>3, <1>4

\* A write that fails, and a kill, may leave an empty file, and are counted.
LEMMA LeftInterrupted ==
    ASSUME LeftInv, NEW w \in Worker, WriteOwnerFails(w) \/ TouchFails(w) \/ Crash(w)
    PROVE  NamedInv' /\ EmptyIsTransient'
<1>1. CASE WriteOwnerFails(w)
  <2>1. faults' > 0 /\ UNCHANGED <<present, owner>> /\ pc' = [pc EXCEPT ![w] = "failed"]
    BY <1>1 DEF WriteOwnerFails, LeftInv, TypeOK
  <2>2. ~(present /\ owner = w)
    BY <1>1 DEF WriteOwnerFails, LeftInv, NamedInv, Releasing
  <2> QED
    BY <2>1, <2>2 DEF LeftInv, TypeOK, NamedInv, EmptyIsTransient
<1>2. CASE TouchFails(w)
  <2>1. faults' > 0 /\ UNCHANGED <<present, owner>>
    BY <1>2 DEF TouchFails, LeftInv, TypeOK
  <2>2. PICK label \in AfterTouch(w) : pc' = [pc EXCEPT ![w] = label]
    BY <1>2 DEF TouchFails
  <2>3. label \in {"work", "release", "touch"}
    BY AfterTouchType
  <2> QED
    BY <2>1, <2>2, <2>3 DEF LeftInv, TypeOK, NamedInv, EmptyIsTransient
<1>3. CASE Crash(w)
  BY <1>3 DEF Crash, LeftInv, TypeOK, NamedInv, EmptyIsTransient
<1> QED
  BY <1>1, <1>2, <1>3

LEMMA LeftAcquire ==
    ASSUME LeftInv, NEW w \in Worker, Acquire(w) PROVE NamedInv' /\ EmptyIsTransient'
<1>0. faults' = faults
  BY DEF Acquire, Stat, ReadOwner, Recheck, Reclaim, Create, WriteOwner, LeftInv, TypeOK
<1>1. CASE Stat(w) \/ ReadOwner(w) \/ Recheck(w)
  <2>1. UNCHANGED <<present, owner, open>> /\ ~(present /\ owner = w)
    BY <1>1 DEF Stat, ReadOwner, Recheck, LeftInv, NamedInv, Releasing
  <2>2. pc[w] # "dead" /\ \A v \in Worker : v # w => pc'[v] = pc[v]
    BY <1>1 DEF Stat, ReadOwner, Recheck, LeftInv, TypeOK
  <2> QED
    BY <1>0, <2>1, <2>2, LeftQuiet DEF LeftInv, NamedInv
<1>2. CASE Reclaim(w)
  BY <1>2, LeftRemoved DEF Reclaim
<1>3. CASE Create(w) /\ present
  <2>1. UNCHANGED <<present, owner, open>> /\ ~(present /\ owner = w)
    BY <1>3 DEF Create, LeftInv, NamedInv, Releasing
  <2>2. pc[w] # "dead" /\ \A v \in Worker : v # w => pc'[v] = pc[v]
    BY <1>3 DEF Create, LeftInv, TypeOK
  <2> QED
    BY <1>0, <2>1, <2>2, LeftQuiet DEF LeftInv, NamedInv
<1>4. CASE Create(w) /\ ~present
  <2>1. owner' = Nobody /\ open' = {w}
    BY <1>4 DEF Create
  <2> QED
    BY <2>1 DEF NamedInv, EmptyIsTransient
<1>5. CASE WriteOwner(w)
  BY <1>0, <1>5, LeftWritten DEF WriteOwner
<1> QED
  BY <1>1, <1>2, <1>3, <1>4, <1>5 DEF Acquire

LEMMA LeftLoop ==
    ASSUME LeftInv, NEW w \in Worker, Loop(w) \/ WorkThrows(w)
    PROVE  NamedInv' /\ EmptyIsTransient'
<1>1. CASE OpenTouch(w)
  <2>1. owner' = Nobody /\ w \in open'
    BY <1>1 DEF OpenTouch
  <2> QED
    BY <2>1 DEF NamedInv, EmptyIsTransient
<1>2. CASE WriteTouch(w)
  <2>1. PICK label \in AfterTouch(w) : pc' = [pc EXCEPT ![w] = label]
    BY <1>2 DEF WriteTouch
  <2>2. label \in {"touch", "work", "release"}
    BY AfterTouchType
  <2>3. WriteIdentity(w) /\ UNCHANGED faults
        /\ pc[w] \in {"writeOwner", "writeTouch", "writeTouchAgain"}
    BY <1>2 DEF WriteTouch
  <2> QED
    BY <2>1, <2>2, <2>3, LeftWritten
<1>3. CASE Work(w) \/ WorkThrows(w)
  <2>1. UNCHANGED <<present, owner, open>> /\ faults' = faults
    BY <1>3 DEF Work, WorkThrows, LeftInv, TypeOK
  <2>2. pc[w] = "work" /\ pc'[w] \in {"touchAgain", "releaseAgain"}
        /\ \A v \in Worker : v # w => pc'[v] = pc[v]
    BY <1>3 DEF Work, WorkThrows, LeftInv, TypeOK
  <2> QED
    BY <2>1, <2>2, LeftQuiet DEF LeftInv, NamedInv, Releasing
<1> QED
  BY <1>1, <1>2, <1>3 DEF Loop

LEMMA LeftEnd ==
    ASSUME LeftInv, NEW w \in Worker, Release(w) \/ Exit(w) \/ Restart(w)
    PROVE  NamedInv' /\ EmptyIsTransient'
<1>1. CASE ReleaseCheck(w)
  <2>1. UNCHANGED <<present, owner, open>> /\ faults' = faults
    BY <1>1 DEF ReleaseCheck, LeftInv, TypeOK
  <2>2. pc[w] # "dead" /\ \A v \in Worker : v # w => pc'[v] = pc[v]
    BY <1>1 DEF ReleaseCheck, LeftInv, TypeOK
  <2>3. present /\ owner = w => pc'[w] \in {"remove", "releaseAgain", "removeAgain"}
    BY <1>1 DEF ReleaseCheck, OwnsFile, OnDisk, LeftInv, TypeOK
  <2> QED
    BY <2>1, <2>2, <2>3, LeftQuiet DEF LeftInv, NamedInv, Releasing
<1>2. CASE ReleaseRemove(w)
  BY <1>2, LeftRemoved DEF ReleaseRemove
<1>3. CASE Exit(w)
  BY <1>3 DEF Exit, LeftInv, NamedInv, EmptyIsTransient
<1>4. CASE Restart(w)
  <2>1. UNCHANGED <<present, owner, open>> /\ ~(present /\ owner = w) /\ faults' = faults
    BY <1>4 DEF Restart, LeftInv, TypeOK, NamedInv, Releasing
  <2>2. pc[w] # "dead" /\ \A v \in Worker : v # w => pc'[v] = pc[v]
    BY <1>4 DEF Restart, LeftInv, TypeOK
  <2> QED
    BY <2>1, <2>2, LeftQuiet DEF LeftInv, NamedInv
<1> QED
  BY <1>1, <1>2, <1>3, <1>4 DEF Release

LEMMA LeftRepair ==
    ASSUME LeftInv, NEW r \in Repairer, Repair(r) PROVE NamedInv' /\ EmptyIsTransient'
<1>1. \A w \in Worker : pc'[w] = pc[w]
  BY DEF Repair, RepairStat, RepairRead, RepairUnlink, RepairConfirm, LeftInv, TypeOK
<1>2. CASE RepairUnlink(r)
  BY <1>2, LeftRemoved DEF RepairUnlink
<1>3. CASE RepairStat(r) \/ RepairRead(r) \/ RepairConfirm(r)
  <2>1. UNCHANGED <<present, owner, open>> /\ faults' = faults
    BY <1>3 DEF RepairStat, RepairRead, RepairConfirm, LeftInv, TypeOK
  <2> QED
    BY <1>1, <2>1, LeftQuiet DEF LeftInv, NamedInv
<1> QED
  BY <1>2, <1>3 DEF Repair

LEMMA LeftNext == ASSUME LeftInv, [Next]_vars PROVE LeftInv'
<1>1. TypeOK'
  BY TypeNext DEF LeftInv
<1>2. CASE UNCHANGED vars
  BY <1>1, <1>2 DEF vars, LeftInv, NamedInv, EmptyIsTransient
<1>3. CASE Terminated
  BY <1>2, <1>3 DEF Terminated
<1>4. CASE Age
  BY <1>1, <1>4 DEF Age, LeftInv, NamedInv, EmptyIsTransient
<1> QED
  BY <1>1, <1>2, <1>3, <1>4, LeftAcquire, LeftLoop, LeftInterrupted, LeftEnd, LeftRepair
     DEF Next, LeftInv

LEMMA LeftCorrect == Spec => []LeftInv
<1>1. Init => LeftInv
  BY TypeInit DEF Init, LeftInv, NamedInv, EmptyIsTransient
<1>2. LeftInv /\ [Next]_vars => LeftInv'
  BY LeftNext
<1> QED
  BY <1>1, <1>2, PTL DEF Spec

\* A worker that has returned, thrown or been refused has left no lock of its
\* own, and an empty lock file waits for a writer, unless somebody was killed or
\* a write failed: for every number of workers, hosts, repairs and iterations,
\* whichever of them are killed or stall.
THEOREM LeavesNothing == Spec => []NothingIsLeftBehind
<1>1. LeftInv => NothingIsLeftBehind
  BY DEF LeftInv, NamedInv, Releasing, NothingIsLeftBehind, EndedOwnsNothing
<1> QED
  BY <1>1, LeftCorrect, PTL

NoneDead == \A w \in Worker : pc[w] # "dead"

LEMMA NoneDeadNext == ASSUME MayCrash = {}, TypeOK, NoneDead, [Next]_vars PROVE NoneDead'
<1>1. CASE UNCHANGED vars \/ Age \/ Terminated
  BY <1>1 DEF vars, Age, Terminated, NoneDead
<1>2. ASSUME NEW w \in Worker, Acquire(w) PROVE NoneDead'
  BY <1>2 DEF Acquire, Stat, ReadOwner, Recheck, Reclaim, Create, WriteOwner, NoneDead, TypeOK
<1>3. ASSUME NEW w \in Worker, Loop(w) \/ TouchFails(w) PROVE NoneDead'
  BY <1>3, AfterTouchType DEF Loop, OpenTouch, WriteTouch, Work, TouchFails, NoneDead, TypeOK
<1>4. ASSUME NEW w \in Worker, Release(w) \/ WriteOwnerFails(w) \/ WorkThrows(w)
                               \/ Exit(w) \/ Restart(w)
      PROVE  NoneDead'
  BY <1>4 DEF Release, ReleaseCheck, ReleaseRemove, WriteOwnerFails, WorkThrows, Exit,
              Restart, NoneDead, TypeOK
<1>5. \A w \in Worker : ~Crash(w)
  BY DEF Crash
<1>6. ASSUME NEW r \in Repairer, Repair(r) PROVE NoneDead'
  BY <1>6 DEF Repair, RepairStat, RepairRead, RepairUnlink, RepairConfirm, NoneDead, TypeOK
<1> QED
  BY <1>1, <1>2, <1>3, <1>4, <1>5, <1>6 DEF Next

\* While nobody is killed, a worker is turned away only by one that has not
\* ended, or by an empty file, also when locks are stolen from stalled workers
\* of other hosts and by repairs.
THEOREM RefusedByALiveOwner == ASSUME MayCrash = {} PROVE Spec => RefusedByRunning
<1>1. Init => NoneDead
  BY DEF Init, NoneDead
<1>2. TypeOK /\ NoneDead /\ [Next]_vars => NoneDead'
  BY NoneDeadNext
<1>3. LeftInv /\ NoneDead /\ [Next]_vars
        => [\A w \in Worker : Create(w) /\ present
               => owner = Nobody \/ \E v \in Worker : Owns(v)]_vars
  <2> SUFFICES ASSUME LeftInv, NoneDead, present, owner # Nobody
               PROVE  \E v \in Worker : Owns(v)
    OBVIOUS
  <2>1. owner \in Worker /\ pc[owner] \notin Ended
    BY DEF LeftInv, TypeOK, NamedInv, NoneDead, Releasing
  <2> QED
    BY <2>1 DEF Owns
<1> QED
  BY <1>1, <1>2, <1>3, TypeCorrect, LeftCorrect, PTL DEF Spec, RefusedByRunning

==============================================================================
