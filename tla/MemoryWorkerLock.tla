-------------------------- MODULE MemoryWorkerLock --------------------------
(***************************************************************************)
(* worker.lock of the memory sidecar                                       *)
(* (memory-sidecar/src/agent/workerLoop.ts, releaseLock.ts): one file that *)
(* is to keep the memory workers of a project apart.  Workers are separate *)
(* processes, possibly on several hosts that share the directory; a step   *)
(* is what happens between two file operations, so another process may act *)
(* between any two of them.                                                *)
(*                                                                         *)
(* A worker acquires the lock (removing one it takes for stale), touches   *)
(* it before and after every iteration and releases it twice: once before  *)
(* it reads its final status, once in its `finally`.  A repairer is a run  *)
(* of releaseStaleMemoryWorkerLock, which an operator confirms.            *)
(*                                                                         *)
(* Every acquire draws a new lockId and a worker acquires once, so a       *)
(* worker stands for its own lockId and its own pid.                       *)
(***************************************************************************)
EXTENDS Integers

CONSTANTS
    Worker, Repairer,
    HostOf,         \* the host of each worker and repairer
    MayCrash,       \* workers that may be killed at any point
    MayStall,       \* workers that may leave the lock untouched for staleMs
    MaxIterations,  \* iterations of one worker's loop
    MaxFaults,      \* writes that may fail (disk full, permissions)
    Nobody          \* what an empty or unparsable lock file names

ASSUME LockConstants ==
    /\ Nobody \notin Worker
    /\ Worker \cap Repairer = {}
    /\ Worker \cup Repairer \subseteq DOMAIN HostOf
    /\ MayCrash \subseteq Worker /\ MayStall \subseteq Worker
    /\ MaxIterations \in Nat \ {0} /\ MaxFaults \in Nat

VARIABLES
    present,   \* a file exists at lockPath
    owner,     \* whose lockId, pid and hostname it holds, or Nobody
    old,       \* its mtime and updatedAt are older than staleMs
    open,      \* workers that write to the file at lockPath through a handle
    pidAlive,  \* workers whose pid answers kill(pid, 0)
    pc,        \* where each worker and each repairer is
    seen,      \* the stale owner a worker has read, until it has reclaimed
    sawOld,    \* what a worker's stat() said of the file's age, until it reads
    iteration, \* iterations a worker has begun
    faults

file == <<present, owner, old, open>>
vars == <<file, pidAlive, pc, seen, sawOld, iteration, faults>>

\* From the creation of the file to the first release.
Holding == {"writeOwner", "touch", "writeTouch", "work", "touchAgain",
            "writeTouchAgain", "release", "remove"}
Ended == {"done", "refused", "failed", "dead"}
Holders == {w \in Worker : pc[w] \in Holding}
Owns(w) == present /\ owner = w /\ pc[w] \notin Ended

Init ==
    /\ present = FALSE /\ owner = Nobody /\ old = FALSE /\ open = {}
    /\ pidAlive = Worker
    /\ pc = [p \in Worker \cup Repairer |-> "stat"]
    /\ seen = [w \in Worker |-> Nobody]
    /\ sawOld = [w \in Worker |-> FALSE]
    /\ iteration = [w \in Worker |-> 0]
    /\ faults = 0

Goto(p, label) == pc' = [pc EXCEPT ![p] = label]
OnDisk == IF present THEN owner ELSE Nobody
SameHost(p, o) == o # Nobody /\ HostOf[o] = HostOf[p]
IsProcessAlive(o) == o \in pidAlive

\* rm and unlink take the name away; a handle on the file keeps writing to
\* what has no name any more.
RemoveFile == present' = FALSE /\ owner' = Nobody /\ old' = FALSE /\ open' = {}

-----------------------------------------------------------------------------
(* acquireMemoryWorkerLock                                                 *)

\* stat(lockPath) of removeStaleLockIfNeeded.
Stat(w) ==
    /\ pc[w] = "stat"
    /\ sawOld' = [sawOld EXCEPT ![w] = old]
    /\ Goto(w, IF present THEN "readOwner" ELSE "create")
    /\ UNCHANGED <<file, pidAlive, seen, iteration, faults>>

\* Mutant: the mtime decides on the same host too.
LooksStale_ByAge(w, o) == sawOld[w]

\* A lock of this host is stale if its process is gone, whatever its age; any
\* other if it is old.  The re-read refuses a lock without a lockId.
LooksStale(w, o) ==
    IF SameHost(w, o) THEN ~IsProcessAlive(o) ELSE sawOld[w] /\ o # Nobody

ReadOwner(w) ==
    /\ pc[w] = "readOwner"
    /\ IF LooksStale(w, OnDisk)
       THEN Goto(w, "recheck") /\ seen' = [seen EXCEPT ![w] = OnDisk]
       ELSE Goto(w, "create") /\ UNCHANGED seen
    /\ sawOld' = [sawOld EXCEPT ![w] = FALSE]
    /\ UNCHANGED <<file, pidAlive, iteration, faults>>

\* Mutant: the re-read is compared with the worker's own lockId.
Recheck_OwnId(w) ==
    /\ pc[w] = "recheck"
    /\ IF present /\ owner = w
       THEN Goto(w, "reclaim") /\ UNCHANGED seen
       ELSE Goto(w, "create") /\ seen' = [seen EXCEPT ![w] = Nobody]
    /\ UNCHANGED <<file, pidAlive, sawOld, iteration, faults>>

\* sameLockIdStillPresent
Recheck(w) ==
    /\ pc[w] = "recheck"
    /\ IF present /\ owner = seen[w]
       THEN Goto(w, "reclaim") /\ UNCHANGED seen
       ELSE Goto(w, "create") /\ seen' = [seen EXCEPT ![w] = Nobody]
    /\ UNCHANGED <<file, pidAlive, sawOld, iteration, faults>>

\* reclaimStaleLock
Reclaim(w) ==
    /\ pc[w] = "reclaim"
    /\ RemoveFile
    /\ Goto(w, "create")
    /\ seen' = [seen EXCEPT ![w] = Nobody]
    /\ UNCHANGED <<pidAlive, sawOld, iteration, faults>>

\* Mutant: the file is opened without O_EXCL.
Create_Overwrites(w) ==
    /\ pc[w] = "create"
    /\ present' = TRUE /\ owner' = Nobody /\ old' = FALSE
    /\ open' = (IF present THEN open ELSE {}) \cup {w}
    /\ Goto(w, "writeOwner")
    /\ UNCHANGED <<pidAlive, seen, sawOld, iteration, faults>>

\* open(lockPath, 'wx'): the file comes to exist empty, or the worker gives up.
Create(w) ==
    /\ pc[w] = "create"
    /\ IF present
       THEN Goto(w, "refused") /\ UNCHANGED file
       ELSE /\ present' = TRUE /\ owner' = Nobody /\ old' = FALSE /\ open' = {w}
            /\ Goto(w, "writeOwner")
    /\ UNCHANGED <<pidAlive, seen, sawOld, iteration, faults>>

\* Mutant: the handle is not closed.
WriteIdentity_LeavesHandle(w) ==
    /\ owner' = IF w \in open THEN w ELSE owner
    /\ UNCHANGED <<present, old, open>>

\* What w writes reaches lockPath unless the file was removed meanwhile.
WriteIdentity(w) ==
    /\ owner' = IF w \in open THEN w ELSE owner
    /\ open' = open \ {w}
    /\ UNCHANGED <<present, old>>

\* Mutant: acquire leaves the identity to the first touch.
WriteOwner_LeavesToTouch(w) ==
    /\ pc[w] = "writeOwner"
    /\ open' = open \ {w}
    /\ Goto(w, "touch")
    /\ UNCHANGED <<present, owner, old, pidAlive, seen, sawOld, iteration, faults>>

WriteOwner(w) ==
    /\ pc[w] = "writeOwner"
    /\ WriteIdentity(w)
    /\ Goto(w, "touch")
    /\ UNCHANGED <<pidAlive, seen, sawOld, iteration, faults>>

\* The write throws: acquireMemoryWorkerLock fails and leaves the empty file.
WriteOwnerFails(w) ==
    /\ pc[w] = "writeOwner" /\ faults < MaxFaults
    /\ faults' = faults + 1
    /\ open' = open \ {w}
    /\ Goto(w, "failed")
    /\ UNCHANGED <<present, owner, old, pidAlive, seen, sawOld, iteration>>

-----------------------------------------------------------------------------
(* runMemoryWorkerLoop                                                     *)

\* After the touch at the end of an iteration the loop goes on or stops.
AfterTouch(w) ==
    IF pc[w] \in {"touch", "writeTouch"} THEN {"work"}
    ELSE {"release"} \cup (IF iteration[w] < MaxIterations THEN {"touch"} ELSE {})

\* touchMemoryWorkerLock: writeFile opens lockPath, creating or truncating it...
OpenTouch(w) ==
    /\ pc[w] \in {"touch", "touchAgain"}
    /\ present' = TRUE /\ owner' = Nobody /\ old' = FALSE
    /\ open' = open \cup {w}
    /\ Goto(w, IF pc[w] = "touch" THEN "writeTouch" ELSE "writeTouchAgain")
    /\ UNCHANGED <<pidAlive, seen, sawOld, iteration, faults>>

\* ... and writes the identity that acquire drew, whoever's the file was.
WriteTouch(w) ==
    /\ pc[w] \in {"writeTouch", "writeTouchAgain"}
    /\ WriteIdentity(w)
    /\ \E label \in AfterTouch(w) : Goto(w, label)
    /\ UNCHANGED <<pidAlive, seen, sawOld, iteration, faults>>

\* writeFile fails, before or after it opened the file; the error is swallowed.
TouchFails(w) ==
    /\ pc[w] \in {"touch", "writeTouch", "touchAgain", "writeTouchAgain"}
    /\ faults < MaxFaults
    /\ faults' = faults + 1
    /\ open' = open \ {w}
    /\ \E label \in AfterTouch(w) : Goto(w, label)
    /\ UNCHANGED <<present, owner, old, pidAlive, seen, sawOld, iteration>>

\* The iteration itself: retries, scheduling, the jobs, onIteration.
Work(w) ==
    /\ pc[w] = "work"
    /\ iteration' = [iteration EXCEPT ![w] = @ + 1]
    /\ Goto(w, "touchAgain")
    /\ UNCHANGED <<file, pidAlive, seen, sawOld, faults>>

\* The iteration throws, and only the `finally` releases the lock.
WorkThrows(w) ==
    /\ pc[w] = "work"
    /\ Goto(w, "releaseAgain")
    /\ UNCHANGED <<file, pidAlive, seen, sawOld, iteration, faults>>

-----------------------------------------------------------------------------
(* releaseMemoryWorkerLock                                                 *)

OwnsFile(w) == OnDisk = w

\* Mutant: getUnlockedWorkerStatus only reads the lock, and so does the finally.
ReleaseCheck_Forgets(w) ==
    /\ pc[w] \in {"release", "releaseAgain"}
    /\ Goto(w, IF pc[w] = "release" THEN "releaseAgain" ELSE "done")
    /\ UNCHANGED <<file, pidAlive, seen, sawOld, iteration, faults>>

ReleaseCheck(w) ==
    /\ pc[w] \in {"release", "releaseAgain"}
    /\ Goto(w, IF pc[w] = "release"
               THEN IF OwnsFile(w) THEN "remove" ELSE "releaseAgain"
               ELSE IF OwnsFile(w) THEN "removeAgain" ELSE "done")
    /\ UNCHANGED <<file, pidAlive, seen, sawOld, iteration, faults>>

ReleaseRemove(w) ==
    /\ pc[w] \in {"remove", "removeAgain"}
    /\ RemoveFile
    /\ Goto(w, IF pc[w] = "remove" THEN "releaseAgain" ELSE "done")
    /\ UNCHANGED <<pidAlive, seen, sawOld, iteration, faults>>

-----------------------------------------------------------------------------
(* releaseStaleMemoryWorkerLock                                            *)

\* readLockStatus: stat, ...
RepairStat(r) ==
    /\ pc[r] = "stat"
    /\ Goto(r, IF present THEN "readStatus" ELSE "no-lock")
    /\ UNCHANGED <<file, pidAlive, seen, sawOld, iteration, faults>>

\* ... then the owner; an unreadable owner counts as another host's.
RepairDecision(r) ==
    CASE ~SameHost(r, OnDisk) -> "cross-host"
      [] SameHost(r, OnDisk) /\ (~IsProcessAlive(OnDisk) \/ old) -> "unlink"
      [] OTHER -> "live-lock"

RepairRead(r) ==
    /\ pc[r] = "readStatus"
    /\ Goto(r, RepairDecision(r))
    /\ UNCHANGED <<file, pidAlive, seen, sawOld, iteration, faults>>

RepairUnlink(r) ==
    /\ pc[r] = "unlink"
    /\ RemoveFile
    /\ Goto(r, "confirm")
    /\ UNCHANGED <<pidAlive, seen, sawOld, iteration, faults>>

\* "Confirm gone": a lock that is there again makes the repair throw.
RepairConfirm(r) ==
    /\ pc[r] = "confirm"
    /\ Goto(r, IF present THEN "failed" ELSE "released")
    /\ UNCHANGED <<file, pidAlive, seen, sawOld, iteration, faults>>

-----------------------------------------------------------------------------
(* The environment.                                                        *)

Age ==
    /\ present /\ ~old
    /\ \A w \in Worker : w \in Holders \/ Owns(w) => w \in MayStall
    /\ old' = TRUE
    /\ UNCHANGED <<present, owner, open, pidAlive, pc, seen, sawOld, iteration,
                   faults>>

Crash(w) ==
    /\ w \in MayCrash /\ pc[w] \notin Ended
    /\ Goto(w, "dead")
    /\ open' = open \ {w} /\ pidAlive' = pidAlive \ {w}
    /\ UNCHANGED <<present, owner, old, seen, sawOld, iteration, faults>>

\* The process of a worker that has returned or thrown goes away.
Exit(w) ==
    /\ pc[w] \in Ended /\ w \in pidAlive
    /\ pidAlive' = pidAlive \ {w}
    /\ UNCHANGED <<file, pc, seen, sawOld, iteration, faults>>

\* A worker that was refused is started again.
Restart(w) ==
    /\ pc[w] = "refused"
    /\ Goto(w, "stat")
    /\ pidAlive' = pidAlive \cup {w}
    /\ UNCHANGED <<file, seen, sawOld, iteration, faults>>

Terminated ==
    /\ \A w \in Worker : pc[w] \in Ended \ {"refused"} /\ w \notin pidAlive
    /\ \A r \in Repairer : pc[r] \notin {"stat", "readStatus", "unlink", "confirm"}
    /\ UNCHANGED vars

Acquire(w) == \/ Stat(w) \/ ReadOwner(w) \/ Recheck(w) \/ Reclaim(w)
              \/ Create(w) \/ WriteOwner(w)
Loop(w) == OpenTouch(w) \/ WriteTouch(w) \/ Work(w)
Release(w) == ReleaseCheck(w) \/ ReleaseRemove(w)
Repair(r) == RepairStat(r) \/ RepairRead(r) \/ RepairUnlink(r) \/ RepairConfirm(r)

Next ==
    \/ \E w \in Worker :
          \/ Acquire(w) \/ Loop(w) \/ Release(w)
          \/ WriteOwnerFails(w) \/ TouchFails(w) \/ WorkThrows(w)
          \/ Crash(w) \/ Exit(w) \/ Restart(w)
    \/ \E r \in Repairer : Repair(r)
    \/ Age \/ Terminated

Spec == Init /\ [][Next]_vars

\* A process that is not killed goes on, and a refused worker is started again.
FairSpec ==
    /\ Spec
    /\ \A w \in Worker : /\ WF_vars(Acquire(w)) /\ WF_vars(Loop(w))
                        /\ WF_vars(Release(w)) /\ WF_vars(Restart(w))

-----------------------------------------------------------------------------
(* Properties.                                                             *)

WorkerLabels == Holding \cup Ended \cup
    {"stat", "readOwner", "recheck", "reclaim", "create", "releaseAgain",
     "removeAgain"}
RepairLabels == {"stat", "readStatus", "unlink", "confirm", "no-lock",
                 "cross-host", "live-lock", "released", "failed"}

\* The shape of the variables; a handle is open exactly while its worker is
\* between the two halves of a write, and a missing file has no content.
TypeOK ==
    /\ present \in BOOLEAN /\ old \in BOOLEAN
    /\ owner \in Worker \cup {Nobody}
    /\ ~present => owner = Nobody /\ open = {} /\ ~old
    /\ open \subseteq
          {w \in Worker : pc[w] \in {"writeOwner", "writeTouch", "writeTouchAgain"}}
    /\ pidAlive \subseteq Worker
    /\ pc \in [Worker \cup Repairer -> WorkerLabels \cup RepairLabels]
    /\ \A w \in Worker : pc[w] \in WorkerLabels /\ (pc[w] \notin Ended => w \in pidAlive)
    /\ \A r \in Repairer : pc[r] \in RepairLabels
    /\ seen \in [Worker -> Worker \cup {Nobody}]
    /\ sawOld \in [Worker -> BOOLEAN]
    /\ iteration \in [Worker -> Nat] /\ faults \in Nat

\* "memory worker is already running": at most one worker is between its
\* acquire and its release.
MutualExclusion == \A v, w \in Holders : v = w

\* A worker is turned away only by one that still runs (or by a file that a
\* failed write left empty): stale removal and the two releases leave nothing
\* behind that blocks the next worker.
RefusedByRunning ==
    [][\A w \in Worker : Create(w) /\ present
          => owner = Nobody \/ \E v \in Worker : Owns(v)]_vars

\* "If the PID IS alive, never steal the lock": on one host a worker's identity
\* leaves the file only by steps of that worker, however long its job takes.
OnlyOwnerChanges ==
    [][\A w \in Worker : Owns(w) /\ owner' # w => pc'[w] # pc[w]]_vars

\* A worker that has returned, thrown or been refused has left no lock of its
\* own behind, whatever other workers did to the file meanwhile.
EndedOwnsNothing ==
    \A w \in Worker : present /\ owner = w => pc[w] \notin Ended \ {"dead"}

\* While nobody has been killed and no write has failed, an empty lock file,
\* which no worker may reclaim, is one that some worker is about to fill: no
\* sequence of thefts, repairs and late touches leaves one behind.
EmptyIsTransient ==
    present /\ owner = Nobody
       => open # {} \/ faults > 0 \/ \E w \in Worker : pc[w] = "dead"

\* No worker that is gone keeps the next one from its work.
NothingIsLeftBehind == EndedOwnsNothing /\ EmptyIsTransient

\* The lock of a worker that was killed is not for ever: as long as a worker of
\* the same host tries to acquire it, it is reclaimed.
Contending(w) == pc[w] \in {"stat", "readOwner", "recheck", "reclaim", "create",
                            "refused"}
OrphanBy(d) ==
    /\ present /\ owner = d /\ pc[d] = "dead"
    /\ \E w \in Worker \ MayCrash : SameHost(w, d) /\ Contending(w)
OrphanIsReclaimed ==
    \A d \in Worker : OrphanBy(d) ~> ~(present /\ owner = d)

-----------------------------------------------------------------------------
(* What comments in the code say and the code does not do.                 *)

\* workerLoop.ts 512: "Re-read and lockId-compare before deleting so we never
\* reclaim a lock that already belongs to someone else."
ReclaimsWhatItSaw ==
    [][\A w \in Worker : Reclaim(w) /\ present => owner = seen[w]]_vars
=============================================================================
