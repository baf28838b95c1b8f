---------------------- MODULE PublishedRunsLedgerProofs ----------------------
(***************************************************************************)
(* Proofs about PublishedRuns, continued: the registry keeps the ledger of *)
(* RunLedger, and every request has one answer.                            *)
(*                                                                         *)
(* Both rest on the invariants of PublishedRunsProofs: the types and the   *)
(* run in flight (FlightInv), and the exclusion that holds while no live   *)
(* process has lost its lock (Once).  A step either leaves the registry on *)
(* disk as it is, or opens a run, or rewrites one run.                     *)
(***************************************************************************)
EXTENDS PublishedRunsProofs

\* A live process loses its lock in no other step than Lapse.
LEMMA LapsesGrow ==
    ASSUME FlightInv, [Next]_vars, lapses' = 0
    PROVE  lapses = 0
<1>1. lapses \in Nat
  BY DEF FlightInv, TypeOK
<1>2. lapses' = lapses \/ lapses' = lapses + 1
  BY DEF Next, Serve, vars, Publish, Submit, Acquire, GiveUp, Release, Replay, Refuse,
         Enable, Invoke, Retry, Cancel, Decide, WriteAhead, Dispatch, Finish,
         Crash, WriteFails, Lapse
<1> QED
  BY <1>1, <1>2

\* One receipt is put in front of those on disk.
Prints(receipt) ==
    /\ receipt \in ReceiptShape
    /\ disk'.receipts = Newest(receipt, disk.receipts, MaxReceipts)

\* No receipt is on disk that was not there before, but for the one printed.
LEMMA PrintsReceipt ==
    ASSUME FlightInv, NEW receipt, Prints(receipt), NEW k \in DOMAIN disk'.receipts
    PROVE  \/ disk'.receipts[k] = receipt
           \/ \E l \in DOMAIN disk.receipts : disk'.receipts[k] = disk.receipts[l]
<1> DEFINE s == disk.receipts
           n == Newest(receipt, s, MaxReceipts)
<1>1. /\ s \in Seq(ReceiptShape) /\ MaxReceipts \in Nat \ {0}
      /\ receipt \in ReceiptShape /\ disk'.receipts = n
  BY BoundAssumption DEF FlightInv, TypeOK, Registry, Prints
<1> HIDE DEF s
<1>2. /\ n[1] = receipt
      /\ \A l \in DOMAIN n \ {1} : l - 1 \in DOMAIN s /\ n[l] = s[l - 1]
  BY <1>1, NewestType
<1> HIDE DEF n
<1>3. k \in DOMAIN n /\ disk'.receipts[k] = n[k]
  BY <1>1
<1>4. CASE k = 1
  BY <1>2, <1>3, <1>4
<1>5. CASE k # 1
  <2>1. k - 1 \in DOMAIN s /\ n[k] = s[k - 1]
    BY <1>2, <1>3, <1>5
  <2> QED
    BY <1>3, <2>1 DEF s
<1> QED
  BY <1>4, <1>5

\* A process that rewrites a run puts one receipt in front, with the answer
\* it prints.
LEMMA WritesPrints ==
    ASSUME FlightInv, NEW p \in Procs, pc[p] # "idle", mem[p] = disk,
           NEW run, NEW tool, Found(disk, req[p].run) # {},
           Writes(p, RunOf(disk, req[p].run), run, tool)
    PROVE  /\ run \in RunShape /\ run.id = req[p].run /\ run.id \in RunIds
           /\ run.birth = RunOf(disk, req[p].run).birth
           /\ run.r12 = RunOf(disk, req[p].run).r12
           /\ run.state = "waiting" \/ run.state \in Terminal
           /\ Rewritten(run)
           /\ Prints([req |-> req[p], answer |-> AnswerOf(run)])
           /\ reply' = [reply EXCEPT ![p] = [req |-> req[p], answer |-> AnswerOf(run)]]
           /\ pc' = [pc EXCEPT ![p] = "done"]
<1> DEFINE old == RunOf(disk, req[p].run)
<1>1. /\ RegistryOK(disk) /\ req[p] \in Requests
      /\ run \in RunShape /\ RunOK(run) /\ tool \in Nat
      /\ run.r12 /\ run.state = "waiting" /\ run.wait.scope = "runtime_tool" => tool = run.rev
  BY DEF FlightInv, FlightOK, Writes
<1>2. /\ RegistryOK(Updated(disk, run, tool))
      /\ Updated(disk, run, tool).runs = Replaced(disk.runs, run)
      /\ Updated(disk, run, tool).receipts = disk.receipts
  BY <1>1, UpdatedOK
<1>3. AnswerOf(run) \in Answers
  BY <1>1, AnswerType
<1>4. Save(p, Updated(disk, run, tool), AnswerOf(run))
  BY DEF Writes
<1>5. /\ disk'.runs = Replaced(disk.runs, run)
      /\ disk'.receipts = Newest([req |-> req[p], answer |-> AnswerOf(run)],
                                 disk.receipts, MaxReceipts)
      /\ reply' = [reply EXCEPT ![p] = [req |-> req[p], answer |-> AnswerOf(run)]]
      /\ pc' = [pc EXCEPT ![p] = "done"]
  BY <1>1, <1>2, <1>3, <1>4, SavedRuns
<1>6. run.id = req[p].run /\ run.birth = old.birth /\ run.id \in RunIds
  BY <1>1, NamedRun DEF Writes, RunShape
<1>7. Rewritten(run)
  BY <1>1, <1>5, RunOfReplaced DEF Rewritten, RegistryOK
<1>8. Prints([req |-> req[p], answer |-> AnswerOf(run)])
  BY <1>1, <1>3, <1>5 DEF Prints, ReceiptShape
<1> QED
  BY <1>1, <1>5, <1>6, <1>7, <1>8 DEF Writes

\* A process that starts a run puts it in front of the others, and the
\* receipt in front of the receipts.
LEMMA StartsPrints ==
    ASSUME FlightInv, NEW p \in Procs, mem[p] = disk, Invoke(p) \/ Retry(p)
    PROVE  \E run \in RunShape :
              /\ run.state \in {"waiting", "completed", "failed"} /\ run.rev \in {0, 1}
              /\ req[p] \in Starting /\ run.id = req[p].new /\ run.id \in RunIds
              /\ run.birth = births[run.id] + 1
              /\ births' = [births EXCEPT ![run.id] = @ + 1]
              /\ disk'.runs = Newest(run, disk.runs, MaxRuns)
              /\ Prints([req |-> req[p], answer |-> AnswerOf(run)])
              /\ reply' = [reply EXCEPT ![p] = [req |-> req[p], answer |-> AnswerOf(run)]]
              /\ pc' = [pc EXCEPT ![p] = "done"]
<1>1. PICK run \in RunShape :
              /\ RunOK(run) /\ run.state \in {"waiting", "completed", "failed"}
              /\ run.state = "waiting" /\ run.r12 => run.wait.scope # "runtime_tool"
              /\ req[p] \in Requests /\ req[p].op \in {"invoke", "retry"}
              /\ run.id = req[p].new /\ run.birth = births[run.id] + 1
              /\ run.rev \in {0, 1}
              /\ Save(p, Opened(disk, run), AnswerOf(run))
              /\ births' = [births EXCEPT ![run.id] = @ + 1]
  BY InvokeSaves
<1>2. /\ RegistryOK(Opened(disk, run))
      /\ Opened(disk, run).runs = Newest(run, disk.runs, MaxRuns)
      /\ Opened(disk, run).receipts = disk.receipts
  BY <1>1, OpenedOK DEF FlightInv
<1>3. AnswerOf(run) \in Answers
  BY AnswerType
<1>4. /\ disk'.runs = Newest(run, disk.runs, MaxRuns)
      /\ disk'.receipts = Newest([req |-> req[p], answer |-> AnswerOf(run)],
                                 disk.receipts, MaxReceipts)
      /\ reply' = [reply EXCEPT ![p] = [req |-> req[p], answer |-> AnswerOf(run)]]
      /\ pc' = [pc EXCEPT ![p] = "done"]
  BY <1>1, <1>2, <1>3, SavedRuns
<1>5. Prints([req |-> req[p], answer |-> AnswerOf(run)])
  BY <1>1, <1>3, <1>4 DEF Prints, ReceiptShape
<1>6. req[p] \in Starting /\ run.id \in RunIds
  BY <1>1 DEF Starting, RunShape
<1> QED
  BY <1>1, <1>4, <1>5, <1>6

\* Enabling a version leaves the runs alone.
LEMMA EnablePrints ==
    ASSUME FlightInv, NEW p \in Procs, mem[p] = disk, Enable(p)
    PROVE  /\ disk'.runs = disk.runs
           /\ req[p] \in Requests /\ req[p].op = "enable"
           /\ \E receipt : /\ Prints(receipt) /\ receipt.req = req[p]
                           /\ receipt.answer.birth = 0
                           /\ reply' = [reply EXCEPT ![p] = receipt]
           /\ pc' = [pc EXCEPT ![p] = "done"]
<1> DEFINE g == [disk EXCEPT !.enabled = req[p].version]
           answer == [run |-> Free, birth |-> 0, state |-> "enabled", rev |-> 0]
           receipt == [req |-> req[p], answer |-> answer]
           h == [g EXCEPT !.receipts = Newest(receipt, @, MaxReceipts)]
<1>1. req[p] \in Requests /\ req[p].op = "enable" /\ disk \in Registry
  BY DEF FlightInv, FlightOK, TypeOK, Enable
<1>2. Save(p, g, answer)
  BY DEF Enable
<1>3. /\ g.runs = disk.runs /\ h.runs = g.runs
      /\ g.receipts = disk.receipts /\ h.receipts = Newest(receipt, disk.receipts, MaxReceipts)
  BY <1>1 DEF Registry
<1>4. /\ disk' = h /\ pc' = [pc EXCEPT ![p] = "done"]
      /\ reply' = [reply EXCEPT ![p] = receipt]
  BY <1>2 DEF Save, Done
<1>5. receipt \in ReceiptShape /\ receipt.req = req[p] /\ receipt.answer.birth = 0
  BY <1>1 DEF ReceiptShape, Answers
<1> QED
  BY <1>1, <1>3, <1>4, <1>5 DEF Prints

\* An attempt that is recorded prints nothing.
LEMMA WriteAheadMarks ==
    ASSUME FlightInv, Once, NEW p \in Procs, WriteAhead(p)
    PROVE  LET old == RunOf(disk, req[p].run)
           IN  /\ Found(disk, req[p].run) # {} /\ MayDecide(disk, req[p])
               /\ req[p] \in Requests /\ req[p].op = "decide"
               /\ \E run \in RunShape :
                     /\ run.state = "running" /\ run.id = req[p].run /\ run.id \in RunIds
                     /\ run.birth = old.birth /\ run.r12 = old.r12
                     /\ run.rev = old.rev + 1 /\ run.decided = old.decided \cup {req[p]}
                     /\ Rewritten(run) /\ RunOf(disk', run.id) = run
               /\ disk'.receipts = disk.receipts
<1> DEFINE old == RunOf(disk, req[p].run)
<1>1. mem[p] = disk /\ disk \in Registry
  BY DEF Once, Copies, WriteAhead, FlightInv, TypeOK
<1>2. /\ Found(disk, req[p].run) # {} /\ MayDecide(disk, req[p])
      /\ req[p] \in Requests /\ req[p].op = "decide"
  BY <1>1, WriteAheadWrites
<1>3. PICK run \in RunShape :
                 /\ run.state = "running" /\ run.id = req[p].run
                 /\ run.birth = old.birth /\ run.r12 = old.r12
                 /\ run.rev = old.rev + 1 /\ run.decided = old.decided \cup {req[p]}
                 /\ disk'.runs = InPlace(disk, run)
                 /\ disk'.receipts = disk.receipts
  BY <1>1, WriteAheadWrites
<1>4. run.id \in RunIds
  BY DEF RunShape
<1>5. ASSUME NEW i \in RunIds
      PROVE  /\ Found(disk', i) = Found(disk, i)
             /\ Found(disk, i) # {} => RunOf(disk', i) = IF run.id = i THEN run ELSE RunOf(disk, i)
  BY <1>1, <1>3, RunOfInPlace
<1>6. Rewritten(run)
  BY <1>5 DEF Rewritten
<1>7. RunOf(disk', run.id) = run
  BY <1>2, <1>3, <1>4, <1>5
<1> QED
  BY <1>2, <1>3, <1>4, <1>6, <1>7

-----------------------------------------------------------------------------
(* The ledger.                                                             *)

LEMMA EntryType ==
    ASSUME NEW i \in RunIds
    PROVE  /\ LedgerEntry(i).known = Remembered(i) /\ LedgerEntry(i).birth = births[i]
           /\ Found(disk, i) = {} =>
                 LedgerEntry(i) = [known |-> Remembered(i), phase |-> "none", rev |-> 0,
                                   birth |-> births[i]]
           /\ Found(disk, i) # {} =>
                 LedgerEntry(i) = [known |-> Remembered(i), phase |-> PhaseOf(RunOf(disk, i)),
                                   rev |-> RunOf(disk, i).rev, birth |-> births[i]]
BY DEF LedgerEntry

\* A run that the step does not touch stays or fades.
LEMMA EntryFades ==
    ASSUME NEW i \in RunIds, births'[i] = births[i],
           Remembered(i)' => Remembered(i),
           Found(disk', i) # {} =>
              /\ Found(disk, i) # {} /\ RunOf(disk', i) = RunOf(disk, i)
              /\ PhaseOf(RunOf(disk, i))' = PhaseOf(RunOf(disk, i))
    PROVE  Ledger!Fades(LedgerEntry(i), LedgerEntry(i)')
<1> DEFINE old == LedgerEntry(i)
           new == LedgerEntry(i)'
           known == Remembered(i)'
<1>1. /\ old.known = Remembered(i) /\ old.birth = births[i]
      /\ Found(disk, i) # {} =>
            old = [known |-> Remembered(i), phase |-> PhaseOf(RunOf(disk, i)),
                   rev |-> RunOf(disk, i).rev, birth |-> births[i]]
  BY EntryType
<1>2. /\ Found(disk', i) = {} =>
            new = [known |-> known, phase |-> "none", rev |-> 0, birth |-> births'[i]]
      /\ Found(disk', i) # {} =>
            new = [known |-> known, phase |-> PhaseOf(RunOf(disk, i))',
                   rev |-> RunOf(disk', i).rev, birth |-> births'[i]]
  BY DEF LedgerEntry
<1> QED
  BY <1>1, <1>2 DEF Ledger!Fades

\* A step of the ledger: one run moves or fades, the others fade.
LEMMA LedgerStep ==
    ASSUME NEW i \in RunIds,
           \/ Ledger!Moves(LedgerEntry(i), LedgerEntry(i)')
           \/ Ledger!Fades(LedgerEntry(i), LedgerEntry(i)'),
           \A j \in RunIds \ {i} : Ledger!Fades(LedgerEntry(j), LedgerEntry(j)')
    PROVE  Ledger!LedgerNext
<1> DEFINE e == [j \in RunIds |-> LedgerEntry(j)]
<1>1. \A j \in RunIds : e[j] = LedgerEntry(j) /\ e'[j] = LedgerEntry(j)'
  OBVIOUS
<1>2. \E k \in RunIds :
         /\ Ledger!Moves(e[k], e'[k]) \/ Ledger!Fades(e[k], e'[k])
         /\ \A j \in RunIds \ {k} : Ledger!Fades(e[j], e'[j])
  BY <1>1
<1> QED
  BY <1>2 DEF Ledger!LedgerNext

LEMMA RememberedGrows ==
    ASSUME FlightInv, NEW receipt, Prints(receipt), NEW i, Remembered(i)'
    PROVE  Remembered(i) \/ (receipt.req \in Starting /\ receipt.req.new = i)
<1>1. PICK k \in DOMAIN disk'.receipts :
        disk'.receipts[k].req \in Starting /\ disk'.receipts[k].req.new = i
  BY DEF Remembered
<1>2. \/ disk'.receipts[k] = receipt
      \/ \E l \in DOMAIN disk.receipts : disk'.receipts[k] = disk.receipts[l]
  BY PrintsReceipt
<1> QED
  BY <1>1, <1>2 DEF Remembered

\* A step that rewrites one run, and makes its entry move, is a step of the
\* ledger.
LEMMA RewriteLedger ==
    ASSUME FlightInv, NEW run \in RunShape, Found(disk, run.id) # {}, Rewritten(run),
           births' = births, dispatched' = dispatched,
           \A i \in RunIds : Remembered(i)' => Remembered(i),
           Ledger!Moves(
              [known |-> Remembered(run.id), phase |-> PhaseOf(RunOf(disk, run.id)),
               rev |-> RunOf(disk, run.id).rev, birth |-> births[run.id]],
              [known |-> Remembered(run.id)', phase |-> PhaseOf(run)',
               rev |-> run.rev, birth |-> births[run.id]])
    PROVE  Ledger!LedgerNext
<1>1. run.id \in RunIds
  BY DEF RunShape
<1>2. Found(disk', run.id) # {} /\ RunOf(disk', run.id) = run
  BY <1>1 DEF Rewritten
<1>3. LedgerEntry(run.id) =
        [known |-> Remembered(run.id), phase |-> PhaseOf(RunOf(disk, run.id)),
         rev |-> RunOf(disk, run.id).rev, birth |-> births[run.id]]
  BY <1>1, EntryType
<1>4. LedgerEntry(run.id)' =
        [known |-> Remembered(run.id)', phase |-> PhaseOf(run)',
         rev |-> run.rev, birth |-> births[run.id]]
  BY <1>1, <1>2 DEF LedgerEntry, PhaseOf, WasDispatched
<1>5. ASSUME NEW j \in RunIds \ {run.id}
      PROVE  Ledger!Fades(LedgerEntry(j), LedgerEntry(j)')
  <2>1. Found(disk', j) # {} => Found(disk, j) # {} /\ RunOf(disk', j) = RunOf(disk, j)
    BY <1>5 DEF Rewritten
  <2>2. RunOf(disk', j) = RunOf(disk, j) => PhaseOf(RunOf(disk, j))' = PhaseOf(RunOf(disk, j))
    BY DEF PhaseOf, WasDispatched
  <2> QED
    BY <2>1, <2>2, EntryFades
<1> QED
  BY <1>1, <1>3, <1>4, <1>5, LedgerStep

\* The entry of a run that waits or is over after the step moves.
MovesTo(old, run) ==
    LET phase == IF run.state = "waiting" THEN "waiting" ELSE "finished"
    IN  \A known, known2, birth :
           Ledger!Moves(
              [known |-> known, phase |-> PhaseOf(old), rev |-> old.rev, birth |-> birth],
              [known |-> known2, phase |-> phase, rev |-> run.rev, birth |-> birth])

\* A process that answers a decision or a cancellation makes the run move.
LEMMA WritesLedger ==
    ASSUME FlightInv, NEW p \in Procs, pc[p] # "idle", mem[p] = disk,
           NEW run, NEW tool, Found(disk, req[p].run) # {},
           Writes(p, RunOf(disk, req[p].run), run, tool),
           req[p].op \in {"cancel", "decide"},
           births' = births, dispatched' = dispatched,
           MovesTo(RunOf(disk, req[p].run), run)
    PROVE  Ledger!LedgerNext
<1> DEFINE receipt == [req |-> req[p], answer |-> AnswerOf(run)]
<1>1. /\ run \in RunShape /\ run.id = req[p].run
      /\ run.state = "waiting" \/ run.state \in Terminal
      /\ Rewritten(run) /\ Prints(receipt)
  BY WritesPrints
<1>2. receipt.req \notin Starting
  BY DEF Starting
<1>3. \A i \in RunIds : Remembered(i)' => Remembered(i)
  BY <1>1, <1>2, RememberedGrows
<1>4. PhaseOf(run)' = IF run.state = "waiting" THEN "waiting" ELSE "finished"
  BY <1>1 DEF PhaseOf, Terminal
<1>5. Ledger!Moves(
         [known |-> Remembered(run.id), phase |-> PhaseOf(RunOf(disk, run.id)),
          rev |-> RunOf(disk, run.id).rev, birth |-> births[run.id]],
         [known |-> Remembered(run.id)', phase |-> PhaseOf(run)',
          rev |-> run.rev, birth |-> births[run.id]])
  BY <1>1, <1>4 DEF MovesTo
<1> QED
  BY <1>1, <1>3, <1>5, RewriteLedger

LEMMA CancelLedger ==
    ASSUME FlightInv, Once, NEW p \in Procs, Cancel(p)
    PROVE  Ledger!LedgerNext
<1> DEFINE old == RunOf(disk, req[p].run)
<1>1. /\ pc[p] = "loaded" /\ mem[p] = disk
      /\ births' = births /\ dispatched' = dispatched
  BY DEF Cancel, Once, Copies
<1>2. /\ req[p].op = "cancel" /\ Found(disk, req[p].run) # {}
      /\ old.state = "waiting"
  BY <1>1, CancelWrites DEF MayCancel
<1>3. PICK run : /\ Writes(p, old, run, 0)
                 /\ run.state = "cancelled"
                 /\ run.rev = (IF run.r12 THEN old.rev + 1 ELSE old.rev)
  BY <1>1, CancelWrites
<1>4. MovesTo(old, run)
  <2>1. run.rev \in {old.rev, old.rev + 1}
    BY <1>3
  <2> QED
    BY <1>2, <1>3, <2>1 DEF MovesTo, PhaseOf, Ledger!Moves, Ledger!Cancels
<1> QED
  BY <1>1, <1>2, <1>3, <1>4, WritesLedger

LEMMA DecideLedger ==
    ASSUME FlightInv, Once, NEW p \in Procs, Decide(p)
    PROVE  Ledger!LedgerNext
<1> DEFINE old == RunOf(disk, req[p].run)
<1>1. /\ pc[p] = "loaded" /\ mem[p] = disk
      /\ births' = births /\ dispatched' = dispatched
  BY DEF Decide, Once, Copies
<1>2. /\ req[p].op = "decide" /\ Found(disk, req[p].run) # {}
      /\ old.state = "waiting"
  BY <1>1, DecideWrites DEF MayDecide
<1>3. PICK run : Writes(p, old, run, 0) /\ run.rev = old.rev + 1
  BY <1>1, DecideWrites
<1>4. MovesTo(old, run)
  BY <1>2, <1>3 DEF MovesTo, PhaseOf, Ledger!Moves, Ledger!Decides
<1> QED
  BY <1>1, <1>2, <1>3, <1>4, WritesLedger

LEMMA FinishLedger ==
    ASSUME FlightInv, Once, NEW p \in Procs, Finish(p)
    PROVE  Ledger!LedgerNext
<1> DEFINE old == RunOf(disk, req[p].run)
<1>1. /\ pc[p] \in InFlight /\ pc[p] # "idle" /\ mem[p] = disk
      /\ births' = births /\ dispatched' = dispatched
  BY DEF Finish, Once, Copies, InFlight
<1>2. /\ req[p].op = "decide" /\ Found(disk, req[p].run) # {}
      /\ old.state = "running"
  BY <1>1, FinishWrites
<1>3. PICK run, tool : Writes(p, old, run, tool) /\ run.rev = old.rev
  BY <1>1, FinishWrites
<1>4. MovesTo(old, run)
  BY <1>2, <1>3 DEF MovesTo, PhaseOf, Terminal, Ledger!Moves, Ledger!Settles
<1> QED
  BY <1>1, <1>2, <1>3, <1>4, WritesLedger

\* A decision that lets the agent run: what it grants was not handed over
\* before.
LEMMA WriteAheadLedger ==
    ASSUME FlightInv, Once, NEW p \in Procs, WriteAhead(p)
    PROVE  Ledger!LedgerNext
<1> DEFINE old == RunOf(disk, req[p].run)
<1>1. /\ Found(disk, req[p].run) # {} /\ old.state = "waiting"
      /\ disk'.receipts = disk.receipts
  BY WriteAheadMarks DEF MayDecide
<1>2. PICK run \in RunShape :
                     /\ run.state = "running" /\ run.id = req[p].run /\ run.id \in RunIds
                     /\ run.birth = old.birth /\ run.rev = old.rev + 1
                     /\ Rewritten(run) /\ RunOf(disk', run.id) = run
  BY WriteAheadMarks
<1>3. /\ births' = births /\ dispatched' = dispatched /\ req' = req
      /\ pc' = [pc EXCEPT ![p] = "granted"] /\ pc'[p] = "granted"
  BY DEF WriteAhead, FlightInv, TypeOK
<1>4. PhaseOf(run)' = "granted"
  <2>1. Grants(p)'
    BY GrantingStep
  <2>2. \A n \in DOMAIN dispatched :
           dispatched[n].run = run.id /\ dispatched[n].birth = run.birth =>
              dispatched[n].wait.rev < LastAttempt(run).wait.rev
    BY <1>2, <1>3, <2>1 DEF Grants
  <2>3. ASSUME NEW n \in DOMAIN dispatched,
               dispatched[n] = [run |-> run.id, birth |-> run.birth,
                                wait |-> LastAttempt(run).wait]
        PROVE  FALSE
    <3>1. /\ dispatched[n].run = run.id /\ dispatched[n].birth = run.birth
          /\ dispatched[n].wait.rev = LastAttempt(run).wait.rev
      BY <2>3
    <3>2. dispatched[n].wait.rev \in Nat
      BY DispatchedType DEF FlightInv
    <3> QED
      BY <2>2, <3>1, <3>2
  <2>4. ~WasDispatched(run)'
    BY <1>3, <2>3 DEF WasDispatched
  <2> QED
    BY <1>2, <2>4 DEF PhaseOf, Terminal
<1>5. \A i \in RunIds : Remembered(i)' => Remembered(i)
  BY <1>1 DEF Remembered
<1>6. PhaseOf(RunOf(disk, run.id)) = "waiting" /\ Found(disk, run.id) # {}
  BY <1>1, <1>2 DEF PhaseOf
<1>7. Ledger!Moves(
         [known |-> Remembered(run.id), phase |-> PhaseOf(RunOf(disk, run.id)),
          rev |-> RunOf(disk, run.id).rev, birth |-> births[run.id]],
         [known |-> Remembered(run.id)', phase |-> PhaseOf(run)',
          rev |-> run.rev, birth |-> births[run.id]])
  BY <1>2, <1>4, <1>6 DEF Ledger!Moves, Ledger!Decides
<1> QED
  BY <1>2, <1>3, <1>5, <1>6, <1>7, RewriteLedger

\* The execution that is handed over was granted, and not handed over before.
LEMMA DispatchLedger ==
    ASSUME FlightInv, Once, NEW p \in Procs, Dispatch(p)
    PROVE  Ledger!LedgerNext
<1>1. /\ pc[p] = "granted" /\ mem[p] = disk
      /\ disk' = disk /\ births' = births
  BY DEF Dispatch, Once, Copies
<1>2. /\ req[p] \in Requests /\ req[p].op = "decide" /\ req[p].run \in RunIds
      /\ Found(disk, req[p].run) # {} /\ RunOf(disk, req[p].run).state = "running"
  BY <1>1, RequestType DEF FlightInv, FlightOK, InFlight
<1>3. PICK i \in RunIds, run \in RunShape :
        /\ i = req[p].run /\ run = RunOf(disk, i) /\ run.id = i
        /\ Found(disk, i) # {} /\ run.state = "running"
  BY <1>2, NamedRun DEF FlightInv
<1> DEFINE d == [run |-> run.id, birth |-> run.birth, wait |-> LastAttempt(run).wait]
<1>4. dispatched' = Append(dispatched, d)
  BY <1>1, <1>3 DEF Dispatch
<1>5. dispatched \in Seq([run: RunIds, birth: Nat, wait: WaitShape])
  BY DEF FlightInv, TypeOK
<1>6. /\ DOMAIN dispatched' = DOMAIN dispatched \cup {Len(dispatched) + 1}
      /\ dispatched'[Len(dispatched) + 1] = d
      /\ \A n \in DOMAIN dispatched : dispatched'[n] = dispatched[n]
  <2> HIDE DEF d
  <2> QED
    BY <1>5, <1>4
<1>7. PhaseOf(run) = "granted"
  <2>1. \A n \in DOMAIN dispatched :
           dispatched[n].run = run.id /\ dispatched[n].birth = run.birth =>
              dispatched[n].wait.rev < LastAttempt(run).wait.rev
    BY <1>1, <1>3 DEF Once, Grants
  <2>2. ASSUME NEW n \in DOMAIN dispatched, dispatched[n] = d
        PROVE  FALSE
    <3>1. /\ dispatched[n].run = run.id /\ dispatched[n].birth = run.birth
          /\ dispatched[n].wait.rev = LastAttempt(run).wait.rev
      BY <2>2
    <3>2. dispatched[n].wait.rev \in Nat
      BY DispatchedType DEF FlightInv
    <3> QED
      BY <2>1, <3>1, <3>2
  <2>3. ~WasDispatched(run)
    BY <2>2 DEF WasDispatched
  <2> QED
    BY <1>3, <2>3 DEF PhaseOf, Terminal
<1>8. \E n \in DOMAIN dispatched' : dispatched'[n] = d
  BY <1>6
<1>9. ASSUME NEW j \in RunIds
      PROVE  /\ Remembered(j)' = Remembered(j)
             /\ Found(disk', j) = Found(disk, j) /\ RunOf(disk', j) = RunOf(disk, j)
  BY <1>1 DEF Remembered
<1>10. LedgerEntry(i) = [known |-> Remembered(i), phase |-> "granted", rev |-> run.rev,
                        birth |-> births[i]]
  BY <1>3, <1>7, EntryType
<1>11. LedgerEntry(i)' = [known |-> Remembered(i)', phase |-> "executing", rev |-> run.rev,
                          birth |-> births[i]]
  <2>1. Found(disk', i) # {} /\ RunOf(disk', i) = run
    BY <1>3, <1>9
  <2>2. run.state # "waiting" /\ run.state \notin Terminal
    BY <1>3 DEF Terminal
  <2> QED
    BY <1>1, <1>8, <2>1, <2>2 DEF LedgerEntry, PhaseOf, WasDispatched
<1>12. Ledger!Moves(LedgerEntry(i), LedgerEntry(i)')
  BY <1>10, <1>11 DEF Ledger!Moves, Ledger!Dispatches
<1>13. ASSUME NEW j \in RunIds \ {i}
       PROVE  Ledger!Fades(LedgerEntry(j), LedgerEntry(j)')
  <2> DEFINE other == RunOf(disk, j)
  <2>1. CASE Found(disk, j) = {}
    BY <1>1, <1>9, <2>1, EntryFades
  <2>2. CASE Found(disk, j) # {}
    <3>1. other.id = j
      BY <2>2, NamedRun DEF FlightInv
    <3>2. [run |-> other.id, birth |-> other.birth, wait |-> LastAttempt(other).wait] # d
      BY <1>3, <1>13, <3>1
    <3>3. (\E n \in DOMAIN dispatched' : dispatched'[n] =
              [run |-> other.id, birth |-> other.birth, wait |-> LastAttempt(other).wait])
          <=> (\E n \in DOMAIN dispatched : dispatched[n] =
                  [run |-> other.id, birth |-> other.birth, wait |-> LastAttempt(other).wait])
      BY <1>6, <3>2
    <3>4. PhaseOf(other)' = PhaseOf(other)
      BY <1>1, <3>3 DEF PhaseOf, WasDispatched
    <3> QED
      BY <1>1, <1>9, <2>2, <3>4, EntryFades
  <2> QED
    BY <2>1, <2>2
<1> QED
  BY <1>3, <1>12, <1>13, LedgerStep

\* A run is started only when the request that started it before is
\* forgotten.
LEMMA StartLedger ==
    ASSUME FlightInv, Once, NEW p \in Procs, Invoke(p) \/ Retry(p)
    PROVE  Ledger!LedgerNext
<1>1. /\ mem[p] = disk /\ Prior(disk, req[p]) = {} /\ dispatched' = dispatched
  BY DEF Invoke, Retry, Once, Copies
<1>2. PICK run \in RunShape :
              /\ run.state \in {"waiting", "completed", "failed"} /\ run.rev \in {0, 1}
              /\ req[p] \in Starting /\ run.id = req[p].new /\ run.id \in RunIds
              /\ run.birth = births[run.id] + 1
              /\ births' = [births EXCEPT ![run.id] = @ + 1]
              /\ disk'.runs = Newest(run, disk.runs, MaxRuns)
              /\ Prints([req |-> req[p], answer |-> AnswerOf(run)])
  BY <1>1, StartsPrints
<1> DEFINE i == run.id
<1>3. ~Remembered(i)
  <2> SUFFICES ASSUME NEW k \in DOMAIN disk.receipts,
                      disk.receipts[k].req \in Starting, disk.receipts[k].req.new = i
               PROVE  FALSE
    BY DEF Remembered
  <2>1. disk.receipts[k].req.op = req[p].op /\ disk.receipts[k].req.key = req[p].key
    BY <1>2, RequestAssumption
  <2>2. k \in Prior(disk, req[p])
    BY <2>1 DEF Prior
  <2> QED
    BY <1>1, <2>2
<1>4. disk \in Registry /\ births \in [RunIds -> Nat] /\ MaxRuns \in Nat \ {0}
  BY BoundAssumption DEF FlightInv, TypeOK
<1>5. Found(disk', i) # {}
  <2> DEFINE runs == disk.runs
             n == Newest(run, runs, MaxRuns)
  <2>1. disk'.runs = n
    BY <1>2
  <2>2. runs \in Seq(RunShape) /\ run \in RunShape /\ MaxRuns \in Nat \ {0}
    BY <1>2, <1>4 DEF Registry
  <2> HIDE DEF runs
  <2>3. 1 \in DOMAIN n /\ n[1] = run
    BY <2>2, NewestType
  <2> HIDE DEF n
  <2> QED
    BY <2>1, <2>3 DEF Found
<1>6. RunOf(disk', i) = run
  BY <1>2, <1>4, <1>5, RunOfNewest
<1>7. births'[i] > births[i]
  BY <1>2, <1>4
<1>8. PhaseOf(run)' \in {"waiting", "finished"}
  BY <1>2 DEF PhaseOf, Terminal
<1>9. /\ LedgerEntry(i)'.phase = PhaseOf(run)' /\ LedgerEntry(i)'.rev = run.rev
      /\ LedgerEntry(i)'.birth = births'[i]
  BY <1>5, <1>6 DEF LedgerEntry, PhaseOf, WasDispatched
<1>10. ~LedgerEntry(i).known /\ LedgerEntry(i).birth = births[i]
  BY <1>2, <1>3, EntryType
<1>11. Ledger!Moves(LedgerEntry(i), LedgerEntry(i)')
  BY <1>2, <1>7, <1>8, <1>9, <1>10 DEF Ledger!Moves, Ledger!Starts
<1>12. ASSUME NEW j \in RunIds \ {i}
       PROVE  Ledger!Fades(LedgerEntry(j), LedgerEntry(j)')
  <2>1. births'[j] = births[j]
    BY <1>2, <1>4, <1>12
  <2>2. Remembered(j)' => Remembered(j)
    BY <1>2, <1>12, RememberedGrows
  <2>3. Found(disk', j) # {} => Found(disk, j) # {} /\ RunOf(disk', j) = RunOf(disk, j)
    BY <1>2, <1>4, <1>12, RunOfNewest
  <2>4. RunOf(disk', j) = RunOf(disk, j) => PhaseOf(RunOf(disk, j))' = PhaseOf(RunOf(disk, j))
    BY <1>1 DEF PhaseOf, WasDispatched
  <2> QED
    BY <2>1, <2>2, <2>3, <2>4, EntryFades
<1> QED
  BY <1>2, <1>11, <1>12, LedgerStep

\* Enabling a version may forget the oldest request.
LEMMA EnableLedger ==
    ASSUME FlightInv, Once, NEW p \in Procs, Enable(p)
    PROVE  \/ UNCHANGED [i \in RunIds |-> LedgerEntry(i)]
           \/ Ledger!LedgerNext
<1>1. mem[p] = disk /\ births' = births /\ dispatched' = dispatched
  BY DEF Enable, Once, Copies
<1>2. disk'.runs = disk.runs /\ req[p].op = "enable"
  BY <1>1, EnablePrints
<1>3. PICK receipt : Prints(receipt) /\ receipt.req = req[p]
  BY <1>1, EnablePrints
<1>4. ASSUME NEW j \in RunIds
      PROVE  Ledger!Fades(LedgerEntry(j), LedgerEntry(j)')
  <2>1. Remembered(j)' => Remembered(j)
    BY <1>2, <1>3, RememberedGrows DEF Starting
  <2>2. Found(disk', j) = Found(disk, j) /\ RunOf(disk', j) = RunOf(disk, j)
    BY <1>2, SameRunsFound
  <2>3. PhaseOf(RunOf(disk, j))' = PhaseOf(RunOf(disk, j))
    BY <1>1, <2>2 DEF PhaseOf, WasDispatched
  <2> QED
    BY <1>1, <2>1, <2>2, <2>3, EntryFades
<1>5. CASE RunIds = {}
  BY <1>5
<1>6. CASE RunIds # {}
  BY <1>4, <1>6, LedgerStep
<1> QED
  BY <1>5, <1>6

\* A step that changes nothing of what the ledger sees.
LEMMA QuietLedger ==
    ASSUME disk' = disk, births' = births, dispatched' = dispatched
    PROVE  UNCHANGED [i \in RunIds |-> LedgerEntry(i)]
<1>1. ASSUME NEW i \in RunIds
      PROVE  LedgerEntry(i)' = LedgerEntry(i)
  <2>1. Remembered(i)' = Remembered(i)
    BY DEF Remembered
  <2>2. Found(disk', i) = Found(disk, i) /\ RunOf(disk', i) = RunOf(disk, i)
    OBVIOUS
  <2>3. PhaseOf(RunOf(disk, i))' = PhaseOf(RunOf(disk, i))
    BY <2>2 DEF PhaseOf, WasDispatched
  <2> QED
    BY <2>1, <2>2, <2>3 DEF LedgerEntry
<1> QED
  BY <1>1

\* While no live process loses its lock, every step of the processes is a step
\* of the ledger or leaves it as it is: locks, copies, crashes, failed writes
\* and repeated requests implement the ledger (withRuntimeLock and the
\* operations of the run protocol).
THEOREM LedgerKept == Spec => KeepsTheLedger
<1> DEFINE Step ==
             lapses' = 0 => \/ UNCHANGED [i \in RunIds |-> LedgerEntry(i)]
                            \/ Ledger!LedgerNext
<1>1. Init => Ledger!LedgerInit
  <2> SUFFICES ASSUME Init, NEW i \in RunIds
               PROVE  LedgerEntry(i) = Ledger!Blank
    BY DEF Ledger!LedgerInit
  <2>1. disk.runs = << >> /\ disk.receipts = << >> /\ births[i] = 0
    BY DEF Init, EmptyRegistry
  <2>2. Found(disk, i) = {} /\ Remembered(i) = FALSE
    BY <2>1 DEF Found, Remembered
  <2> QED
    BY <2>1, <2>2 DEF LedgerEntry, Ledger!Blank
<1>2. FlightInv /\ OnceInv /\ [Next]_vars => [Step]_vars
  <2> SUFFICES ASSUME FlightInv, OnceInv, Next, lapses' = 0
               PROVE  \/ UNCHANGED [i \in RunIds |-> LedgerEntry(i)]
                      \/ Ledger!LedgerNext
    OBVIOUS
  <2>1. Once
    BY LapsesGrow DEF OnceInv
  <2>2. CASE disk' = disk /\ births' = births /\ dispatched' = dispatched
    BY <2>2, QuietLedger
  <2>3. ASSUME NEW p \in Procs, Enable(p)
        PROVE  UNCHANGED [i \in RunIds |-> LedgerEntry(i)] \/ Ledger!LedgerNext
    BY <2>1, <2>3, EnableLedger
  <2>4. ASSUME NEW p \in Procs, Invoke(p) \/ Retry(p)
        PROVE  Ledger!LedgerNext
    BY <2>1, <2>4, StartLedger
  <2>5. ASSUME NEW p \in Procs, Cancel(p)
        PROVE  Ledger!LedgerNext
    BY <2>1, <2>5, CancelLedger
  <2>6. ASSUME NEW p \in Procs, Decide(p)
        PROVE  Ledger!LedgerNext
    BY <2>1, <2>6, DecideLedger
  <2>7. ASSUME NEW p \in Procs, WriteAhead(p)
        PROVE  Ledger!LedgerNext
    BY <2>1, <2>7, WriteAheadLedger
  <2>8. ASSUME NEW p \in Procs, Dispatch(p)
        PROVE  Ledger!LedgerNext
    BY <2>1, <2>8, DispatchLedger
  <2>9. ASSUME NEW p \in Procs, Finish(p)
        PROVE  Ledger!LedgerNext
    BY <2>1, <2>9, FinishLedger
  <2>10. \/ disk' = disk /\ births' = births /\ dispatched' = dispatched
         \/ \E p \in Procs :
               \/ Enable(p) \/ Invoke(p) \/ Retry(p) \/ Cancel(p) \/ Decide(p)
               \/ WriteAhead(p) \/ Dispatch(p) \/ Finish(p)
    BY DEF Next, Serve, Publish, Submit, Acquire, GiveUp, Release, Replay, Refuse,
           Crash, WriteFails, Lapse
  <2> QED
    BY <2>2, <2>3, <2>4, <2>5, <2>6, <2>7, <2>8, <2>9, <2>10
<1>3. Spec => Ledger!LedgerInit /\ [][Step]_vars
  BY <1>1, <1>2, FlightIsInvariant, OnceIsInvariant, PTL DEF Spec
<1> QED
  BY <1>3, PTL DEF KeepsTheLedger

-----------------------------------------------------------------------------
(* Answers: the receipts that were printed, are about to be printed, or can *)
(* be printed again.                                                       *)

Issued ==
    told \cup {disk.receipts[k] : k \in DOMAIN disk.receipts}
         \cup {reply[p] : p \in {q \in Procs : reply[q] # NoReply}}

\* What the run on disk shows of the decision or the cancellation that was
\* answered.
Shows(run, a) ==
    /\ a.req.op = "cancel" => run.state = "cancelled"
    /\ a.req.op = "decide" =>
        /\ run.r12
        /\ a.req \in run.decided
        /\ a.answer.rev <= run.rev
        /\ run.state = "running" => a.answer.rev < run.rev

Answered(a) ==
    a.answer.run \in RunIds =>
        /\ a.answer.birth <= births[a.answer.run]
        /\ Found(disk, a.answer.run) # {}
           /\ RunOf(disk, a.answer.run).birth = a.answer.birth
              => Shows(RunOf(disk, a.answer.run), a)

Agree(a, b) ==
    a.answer.run = b.answer.run /\ a.answer.birth = b.answer.birth =>
        /\ a.req.op = b.req.op /\ a.req.key = b.req.key /\ a.req.op # "enable"
            => a = b
        /\ /\ {a.req.op, b.req.op} \subseteq {"cancel", "decide"}
           /\ a.answer.rev = b.answer.rev
           /\ a.answer.rev > 0
           => a = b

\* The decision that is being executed is recorded, and not yet answered.
Unanswered(p) ==
    pc[p] \in InFlight =>
        LET run == RunOf(disk, req[p].run)
        IN  /\ run.r12 /\ req[p] \in run.decided
            /\ \A a \in Issued :
                  a.req.op = "decide" /\ a.answer.run = req[p].run
                  /\ a.answer.birth = run.birth => a.req.key # req[p].key

Consistent ==
    /\ \A a \in Issued : Answered(a)
    /\ \A a, b \in Issued : Agree(a, b)
    /\ \A p \in Procs : Unanswered(p)

AnswerInv == lapses = 0 => Consistent

LEMMA IssuedType ==
    ASSUME FlightInv, NEW a \in Issued
    PROVE  /\ a \in ReceiptShape /\ a.req \in Requests
           /\ a.answer.birth \in Nat /\ a.answer.rev \in Nat
<1>1. a \in ReceiptShape
  <2>1. CASE a \in told
    BY <2>1 DEF FlightInv, TypeOK
  <2>2. ASSUME NEW k \in DOMAIN disk.receipts, a = disk.receipts[k]
        PROVE  a \in ReceiptShape
    <3>1. disk.receipts \in Seq(ReceiptShape)
      BY DEF FlightInv, TypeOK, Registry
    <3> QED
      BY <2>2, <3>1
  <2>3. ASSUME NEW p \in Procs, reply[p] # NoReply, a = reply[p]
        PROVE  a \in ReceiptShape
    BY <2>3 DEF FlightInv, TypeOK
  <2> QED
    BY <2>1, <2>2, <2>3 DEF Issued
<1> QED
  BY <1>1 DEF ReceiptShape, Answers

\* A receipt that is printed is the only one that is new.
LEMMA IssuedGrows ==
    ASSUME FlightInv, NEW p \in Procs, NEW receipt, Prints(receipt),
           reply' = [reply EXCEPT ![p] = receipt], told' = told,
           NEW a \in Issued'
    PROVE  a \in Issued \/ a = receipt
<1>1. CASE a \in told'
  BY <1>1 DEF Issued
<1>2. ASSUME NEW k \in DOMAIN disk'.receipts, a = disk'.receipts[k]
      PROVE  a \in Issued \/ a = receipt
  <2>1. \/ disk'.receipts[k] = receipt
        \/ \E l \in DOMAIN disk.receipts : disk'.receipts[k] = disk.receipts[l]
    BY PrintsReceipt
  <2> QED
    BY <1>2, <2>1 DEF Issued
<1>3. ASSUME NEW q \in Procs, reply'[q] # NoReply, a = reply'[q]
      PROVE  a \in Issued \/ a = receipt
  <2>1. reply'[q] = receipt \/ reply'[q] = reply[q]
    BY DEF FlightInv, TypeOK
  <2> QED
    BY <1>3, <2>1 DEF Issued
<1> QED
  BY <1>1, <1>2, <1>3 DEF Issued

\* A new run with an old id has a new birth.
LEMMA OpenAnswered ==
    ASSUME FlightInv, NEW run \in RunShape, run.birth = births[run.id] + 1,
           births' = [births EXCEPT ![run.id] = @ + 1],
           disk'.runs = Newest(run, disk.runs, MaxRuns),
           NEW a \in Issued, Answered(a)
    PROVE  Answered(a)'
<1>1. /\ disk \in Registry /\ births \in [RunIds -> Nat]
      /\ run.id \in RunIds /\ a.answer.birth \in Nat
  BY IssuedType DEF FlightInv, TypeOK, RunShape
<1> SUFFICES ASSUME a.answer.run \in RunIds
             PROVE  /\ a.answer.birth <= births'[a.answer.run]
                    /\ Found(disk', a.answer.run) # {}
                       /\ RunOf(disk', a.answer.run).birth = a.answer.birth
                          => Shows(RunOf(disk', a.answer.run), a)
  BY DEF Answered
<1> DEFINE i == a.answer.run
<1>2. a.answer.birth <= births[i]
  BY DEF Answered
<1>3. CASE run.id = i
  <2>1. births'[i] = births[i] + 1
    BY <1>1, <1>3
  <2>2. Found(disk', i) # {} => RunOf(disk', i).birth = births[i] + 1
    BY <1>1, <1>3, RunOfNewest
  <2> QED
    BY <1>1, <1>2, <2>1, <2>2
<1>4. CASE run.id # i
  <2>1. births'[i] = births[i]
    BY <1>1, <1>4
  <2>2. Found(disk', i) # {} => Found(disk, i) # {} /\ RunOf(disk', i) = RunOf(disk, i)
    BY <1>1, <1>4, RunOfNewest
  <2> QED
    BY <1>2, <2>1, <2>2 DEF Answered
<1> QED
  BY <1>3, <1>4

\* A run that is rewritten shows what its older self showed.
LEMMA RewriteAnswered ==
    ASSUME FlightInv, NEW run \in RunShape, Found(disk, run.id) # {}, Rewritten(run),
           births' = births,
           RunOf(disk, run.id).state \in {"waiting", "running"},
           run.birth = RunOf(disk, run.id).birth, run.r12 = RunOf(disk, run.id).r12,
           RunOf(disk, run.id).decided \subseteq run.decided,
           RunOf(disk, run.id).rev <= run.rev,
           run.state = "running" => RunOf(disk, run.id).rev < run.rev,
           NEW a \in Issued, Answered(a)
    PROVE  Answered(a)'
<1> SUFFICES ASSUME a.answer.run \in RunIds
             PROVE  /\ a.answer.birth <= births'[a.answer.run]
                    /\ Found(disk', a.answer.run) # {}
                       /\ RunOf(disk', a.answer.run).birth = a.answer.birth
                          => Shows(RunOf(disk', a.answer.run), a)
  BY DEF Answered
<1> DEFINE i == a.answer.run
           old == RunOf(disk, i)
<1>1. a.answer.birth <= births'[i]
  BY DEF Answered
<1>2. ASSUME Found(disk', i) # {}, RunOf(disk', i).birth = a.answer.birth
      PROVE  Shows(RunOf(disk', i), a)
  <2>1. Found(disk, i) # {} /\ RunOf(disk', i) = IF run.id = i THEN run ELSE old
    BY <1>2 DEF Rewritten
  <2>2. CASE run.id # i
    BY <1>2, <2>1, <2>2 DEF Answered
  <2>3. CASE run.id = i
    <3>1. Shows(old, a)
      BY <1>2, <2>1, <2>3 DEF Answered
    <3>2. old \in RunShape /\ run.rev \in Nat /\ old.rev \in Nat /\ a.answer.rev \in Nat
      BY <2>1, NamedRun, IssuedType DEF FlightInv, RunShape
    <3>3. a.req.op # "cancel"
      BY <2>3, <3>1 DEF Shows
    <3>4. Shows(run, a)
      BY <2>3, <3>1, <3>2, <3>3 DEF Shows
    <3> QED
      BY <2>1, <2>3, <3>4
  <2> QED
    BY <2>2, <2>3
<1> QED
  BY <1>1, <1>2

\* A step that prints nothing new and leaves the runs alone.
LEMMA QuietAnswers ==
    ASSUME Consistent, disk'.runs = disk.runs, births' = births, Issued' \subseteq Issued,
           \A q \in Procs : pc'[q] \in InFlight => pc[q] \in InFlight /\ req'[q] = req[q]
    PROVE  Consistent'
<1>1. \A i : Found(disk', i) = Found(disk, i) /\ RunOf(disk', i) = RunOf(disk, i)
  BY SameRunsFound
<1>2. ASSUME NEW a \in Issued'
      PROVE  Answered(a)'
  <2>1. Answered(a)
    BY <1>2 DEF Consistent
  <2> QED
    BY <1>1, <2>1 DEF Answered
<1>3. \A a, b \in Issued' : Agree(a, b)
  BY DEF Consistent
<1>4. ASSUME NEW q \in Procs
      PROVE  Unanswered(q)'
  <2>1. Unanswered(q)
    BY DEF Consistent
  <2> QED
    BY <1>1, <2>1 DEF Unanswered
<1> QED
  BY <1>2, <1>3, <1>4 DEF Consistent, Agree

\* A step that prints one receipt, which agrees with those that were printed.
LEMMA PrintedAnswer ==
    ASSUME FlightInv, Once, Consistent, NEW p \in Procs, NEW receipt, Prints(receipt),
           reply' = [reply EXCEPT ![p] = receipt], told' = told,
           pc' = [pc EXCEPT ![p] = "done"], pc[p] \in Inside,
           \A a \in Issued : Answered(a)', Answered(receipt)',
           \A a \in Issued : Agree(a, receipt)
    PROVE  Consistent'
<1>1. \A a \in Issued' : a \in Issued \/ a = receipt
  BY IssuedGrows
<1>2. \A a \in Issued' : Answered(a)'
  BY <1>1
<1>3. ASSUME NEW a \in Issued', NEW b \in Issued'
      PROVE  Agree(a, b)
  <2>1. CASE a \in Issued /\ b \in Issued
    BY <2>1 DEF Consistent
  <2>2. CASE a = receipt /\ b \in Issued
    <3>1. Agree(b, a)
      BY <2>2
    <3> QED
      BY <3>1 DEF Agree
  <2>3. CASE a \in Issued /\ b = receipt
    BY <2>3
  <2>4. CASE a = receipt /\ b = receipt
    BY <2>4 DEF Agree
  <2> QED
    BY <1>1, <2>1, <2>2, <2>3, <2>4
<1>4. ASSUME NEW q \in Procs
      PROVE  pc'[q] \notin InFlight
  <2>1. CASE q = p
    BY <2>1 DEF FlightInv, TypeOK, InFlight
  <2>2. CASE q # p
    <3>1. pc'[q] = pc[q] /\ lock = p
      BY <2>2 DEF FlightInv, TypeOK, Once, Owns
    <3> QED
      BY <2>2, <3>1 DEF Once, Owns, InFlight, Inside
  <2> QED
    BY <2>1, <2>2
<1> QED
  BY <1>2, <1>3, <1>4 DEF Consistent, Agree, Unanswered

\* A process that answers a decision or a cancellation prints an answer that
\* agrees with the others.
LEMMA WritesAnswer ==
    ASSUME FlightInv, Once, Consistent, NEW p \in Procs, pc[p] \in Inside \ {"done"},
           NEW run, NEW tool, Found(disk, req[p].run) # {},
           Writes(p, RunOf(disk, req[p].run), run, tool),
           births' = births, told' = told,
           RunOf(disk, req[p].run).state \in {"waiting", "running"},
           RunOf(disk, req[p].run).decided \subseteq run.decided,
           RunOf(disk, req[p].run).rev <= run.rev,
           Shows(run, [req |-> req[p], answer |-> AnswerOf(run)]),
           \A a \in Issued :
              a.answer.run = req[p].run /\ a.answer.birth = RunOf(disk, req[p].run).birth
                 => Agree(a, [req |-> req[p], answer |-> AnswerOf(run)])
    PROVE  Consistent'
<1> DEFINE receipt == [req |-> req[p], answer |-> AnswerOf(run)]
<1>1. mem[p] = disk /\ pc[p] # "idle"
  BY DEF Once, Copies, Inside
<1>2. /\ run \in RunShape /\ run.id = req[p].run /\ run.id \in RunIds
      /\ run.birth = RunOf(disk, req[p].run).birth
      /\ run.r12 = RunOf(disk, req[p].run).r12
      /\ run.state = "waiting" \/ run.state \in Terminal
      /\ Rewritten(run) /\ Prints(receipt)
      /\ reply' = [reply EXCEPT ![p] = receipt]
      /\ pc' = [pc EXCEPT ![p] = "done"]
  BY <1>1, WritesPrints
<1>3. run.state # "running"
  BY <1>2 DEF Terminal
<1>4. ASSUME NEW a \in Issued
      PROVE  Answered(a)'
  <2>1. Answered(a)
    BY DEF Consistent
  <2> QED
    BY <1>2, <1>3, <2>1, RewriteAnswered
<1>5. /\ receipt.req = req[p] /\ receipt.answer.run = run.id
      /\ receipt.answer.birth = run.birth
  BY DEF AnswerOf
<1>6. ASSUME NEW a \in Issued
      PROVE  Agree(a, receipt)
  <2>1. CASE a.answer.run = req[p].run /\ a.answer.birth = RunOf(disk, req[p].run).birth
    BY <2>1
  <2>2. CASE ~(a.answer.run = req[p].run /\ a.answer.birth = RunOf(disk, req[p].run).birth)
    BY <1>2, <1>5, <2>2 DEF Agree
  <2> QED
    BY <2>1, <2>2
<1>7. PICK r \in {receipt} : r = receipt /\ Shows(run, r)
  OBVIOUS
<1> HIDE DEF receipt
<1>8. Answered(r)'
  <2>1. run.birth <= births[run.id]
    BY <1>2 DEF Once, Born
  <2>2. RunOf(disk', run.id) = run
    BY <1>2 DEF Rewritten
  <2>3. r.answer.run = run.id /\ r.answer.birth = run.birth
    BY <1>5, <1>7
  <2> QED
    BY <1>7, <2>1, <2>2, <2>3 DEF Answered
<1>9. /\ Prints(r) /\ reply' = [reply EXCEPT ![p] = r]
      /\ \A a \in Issued : Agree(a, r)
  BY <1>2, <1>6, <1>7
<1> QED
  BY <1>2, <1>4, <1>8, <1>9, PrintedAnswer

LEMMA CancelAnswers ==
    ASSUME FlightInv, Once, Consistent, NEW p \in Procs, Cancel(p)
    PROVE  Consistent'
<1> DEFINE old == RunOf(disk, req[p].run)
<1>1. /\ pc[p] = "loaded" /\ mem[p] = disk /\ births' = births /\ told' = told
  BY DEF Cancel, Once, Copies
<1>2. /\ req[p] \in Requests /\ req[p].op = "cancel" /\ Found(disk, req[p].run) # {}
      /\ old.state = "waiting"
  BY <1>1, CancelWrites DEF MayCancel
<1>3. PICK run : /\ Writes(p, old, run, 0)
                 /\ run.state = "cancelled"
                 /\ run.rev = (IF run.r12 THEN old.rev + 1 ELSE old.rev)
                 /\ run.decided = old.decided
  BY <1>1, CancelWrites
<1> DEFINE receipt == [req |-> req[p], answer |-> AnswerOf(run)]
<1>4. old \in RunShape /\ old.rev \in Nat /\ run.r12 = old.r12
  BY <1>2, <1>3, NamedRun DEF FlightInv, Writes, RunShape
<1>5. old.rev <= run.rev /\ old.decided \subseteq run.decided
  BY <1>3, <1>4
<1>6. Shows(run, receipt)
  BY <1>2, <1>3 DEF Shows
<1>7. ASSUME NEW a \in Issued, a.answer.run = req[p].run, a.answer.birth = old.birth
      PROVE  Agree(a, receipt)
  <2>1. Shows(old, a)
    BY <1>2, <1>7, RequestType DEF Consistent, Answered
  <2>2. a.req.op # "cancel"
    BY <1>2, <2>1 DEF Shows
  <2>3. a.req.op = "decide" => a.answer.rev <= old.rev /\ old.r12
    BY <2>1 DEF Shows
  <2>4. a.answer.rev \in Nat
    BY IssuedType
  <2>5. receipt.req.op = "cancel" /\ receipt.answer.rev = run.rev
    BY <1>2 DEF AnswerOf
  <2>6. a.req.op = "decide" => a.answer.rev # run.rev
    BY <1>3, <1>4, <2>3, <2>4
  <2> QED
    BY <2>2, <2>5, <2>6 DEF Agree
<1> QED
  BY <1>1, <1>2, <1>3, <1>5, <1>6, <1>7, WritesAnswer DEF Inside

LEMMA DecideAnswers ==
    ASSUME FlightInv, Once, Consistent, NEW p \in Procs, Decide(p)
    PROVE  Consistent'
<1> DEFINE old == RunOf(disk, req[p].run)
<1>1. /\ pc[p] = "loaded" /\ mem[p] = disk /\ births' = births /\ told' = told
  BY DEF Decide, Once, Copies
<1>2. /\ req[p] \in Requests /\ req[p].op = "decide" /\ Found(disk, req[p].run) # {}
      /\ old.state = "waiting" /\ old.r12 /\ \A d \in old.decided : d.key # req[p].key
  BY <1>1, DecideWrites DEF MayDecide
<1>3. PICK run : /\ Writes(p, old, run, 0)
                 /\ run.state \in {"waiting", "completed", "failed"}
                 /\ run.rev = old.rev + 1
                 /\ run.decided = old.decided \cup {req[p]}
  BY <1>1, DecideWrites
<1> DEFINE receipt == [req |-> req[p], answer |-> AnswerOf(run)]
<1>4. old \in RunShape /\ old.rev \in Nat /\ run.r12 = old.r12
  BY <1>2, <1>3, NamedRun DEF FlightInv, Writes, RunShape
<1>5. /\ old.rev <= run.rev /\ run.rev \in Nat
      /\ old.decided \subseteq run.decided /\ req[p] \in run.decided
  BY <1>3, <1>4
<1>6. Shows(run, receipt)
  BY <1>2, <1>3, <1>4, <1>5 DEF Shows, AnswerOf
<1>7. ASSUME NEW a \in Issued, a.answer.run = req[p].run, a.answer.birth = old.birth
      PROVE  Agree(a, receipt)
  <2>1. Shows(old, a)
    BY <1>2, <1>7, RequestType DEF Consistent, Answered
  <2>2. a.req.op # "cancel"
    BY <1>2, <2>1 DEF Shows
  <2>3. a.req.op = "decide" => a.answer.rev <= old.rev /\ a.req.key # req[p].key
    BY <1>2, <2>1 DEF Shows
  <2>4. a.answer.rev \in Nat
    BY IssuedType
  <2>5. receipt.req = req[p] /\ receipt.answer.rev = run.rev
    BY DEF AnswerOf
  <2>6. a.req.op = "decide" => a.answer.rev # run.rev
    BY <1>3, <1>4, <2>3, <2>4
  <2> QED
    BY <1>2, <2>2, <2>3, <2>5, <2>6 DEF Agree
<1> QED
  BY <1>1, <1>2, <1>3, <1>5, <1>6, <1>7, WritesAnswer DEF Inside

LEMMA FinishAnswers ==
    ASSUME FlightInv, Once, Consistent, NEW p \in Procs, Finish(p)
    PROVE  Consistent'
<1> DEFINE old == RunOf(disk, req[p].run)
<1>1. /\ pc[p] \in {"granted", "executing"} /\ mem[p] = disk
      /\ births' = births /\ told' = told
  BY DEF Finish, Once, Copies
<1>2. /\ req[p] \in Requests /\ req[p].op = "decide" /\ Found(disk, req[p].run) # {}
      /\ old.state = "running"
  BY <1>1, FinishWrites
<1>3. PICK run, tool : /\ Writes(p, old, run, tool)
                       /\ run.rev = old.rev
                       /\ run.decided = old.decided
  BY <1>1, FinishWrites
<1> DEFINE receipt == [req |-> req[p], answer |-> AnswerOf(run)]
<1>4. /\ old \in RunShape /\ old.rev \in Nat /\ run.r12 = old.r12
      /\ run.state # "running"
  BY <1>2, <1>3, NamedRun DEF FlightInv, Writes, RunShape, Terminal
<1>5. /\ old.r12 /\ req[p] \in old.decided
      /\ \A a \in Issued :
            a.req.op = "decide" /\ a.answer.run = req[p].run
            /\ a.answer.birth = old.birth => a.req.key # req[p].key
  BY <1>1 DEF Consistent, Unanswered, InFlight
<1>6. Shows(run, receipt)
  BY <1>2, <1>3, <1>4, <1>5 DEF Shows, AnswerOf
<1>7. ASSUME NEW a \in Issued, a.answer.run = req[p].run, a.answer.birth = old.birth
      PROVE  Agree(a, receipt)
  <2>1. Shows(old, a)
    BY <1>2, <1>7, RequestType DEF Consistent, Answered
  <2>2. a.req.op # "cancel"
    BY <1>2, <2>1 DEF Shows
  <2>3. a.req.op = "decide" => a.answer.rev < old.rev /\ a.req.key # req[p].key
    BY <1>2, <1>5, <1>7, <2>1 DEF Shows
  <2>4. a.answer.rev \in Nat
    BY IssuedType
  <2>5. receipt.req = req[p] /\ receipt.answer.rev = run.rev
    BY DEF AnswerOf
  <2>6. a.req.op = "decide" => a.answer.rev # run.rev
    BY <1>3, <1>4, <2>3, <2>4
  <2> QED
    BY <1>2, <2>2, <2>3, <2>5, <2>6 DEF Agree
<1>8. old.rev <= run.rev /\ old.decided \subseteq run.decided
  BY <1>3, <1>4
<1> QED
  BY <1>1, <1>2, <1>3, <1>6, <1>7, <1>8, WritesAnswer DEF Inside

LEMMA StartAnswers ==
    ASSUME FlightInv, Once, Consistent, NEW p \in Procs, Invoke(p) \/ Retry(p)
    PROVE  Consistent'
<1>1. /\ pc[p] = "loaded" /\ mem[p] = disk /\ told' = told
  BY DEF Invoke, Retry, Once, Copies
<1>2. PICK run \in RunShape :
              /\ req[p] \in Starting /\ run.id \in RunIds
              /\ run.birth = births[run.id] + 1
              /\ births' = [births EXCEPT ![run.id] = @ + 1]
              /\ disk'.runs = Newest(run, disk.runs, MaxRuns)
              /\ Prints([req |-> req[p], answer |-> AnswerOf(run)])
              /\ reply' = [reply EXCEPT ![p] = [req |-> req[p], answer |-> AnswerOf(run)]]
              /\ pc' = [pc EXCEPT ![p] = "done"]
  BY <1>1, StartsPrints
<1>3. PICK r \in ReceiptShape : r = [req |-> req[p], answer |-> AnswerOf(run)]
  BY <1>2 DEF Prints
<1>4. /\ Prints(r) /\ reply' = [reply EXCEPT ![p] = r]
      /\ r.answer.run = run.id /\ r.answer.birth = run.birth
      /\ r.req.op \in {"invoke", "retry"}
  BY <1>2, <1>3 DEF AnswerOf, Starting
<1>5. /\ disk \in Registry /\ births \in [RunIds -> Nat] /\ births[run.id] \in Nat
      /\ births'[run.id] = run.birth
  BY <1>2 DEF FlightInv, TypeOK
<1>6. ASSUME NEW a \in Issued
      PROVE  Answered(a)' /\ Agree(a, r)
  <2>1. Answered(a)
    BY DEF Consistent
  <2>2. Answered(a)'
    BY <1>2, <2>1, OpenAnswered
  <2>3. ~(a.answer.run = r.answer.run /\ a.answer.birth = r.answer.birth)
    BY <1>2, <1>4, <1>5, <2>1, IssuedType DEF Answered
  <2> QED
    BY <2>2, <2>3 DEF Agree
<1>7. Answered(r)'
  <2>1. Found(disk', run.id) # {} => RunOf(disk', run.id) = run
    BY <1>2, <1>5, RunOfNewest
  <2>2. run.birth \in Nat
    BY <1>2 DEF RunShape
  <2>3. Shows(run, r)
    BY <1>4 DEF Shows
  <2> QED
    BY <1>4, <1>5, <2>1, <2>2, <2>3 DEF Answered
<1> QED
  BY <1>1, <1>2, <1>4, <1>6, <1>7, PrintedAnswer DEF Inside

LEMMA EnableAnswers ==
    ASSUME FlightInv, Once, Consistent, NEW p \in Procs, Enable(p)
    PROVE  Consistent'
<1>1. /\ pc[p] = "loaded" /\ mem[p] = disk /\ told' = told /\ births' = births
  BY DEF Enable, Once, Copies
<1>2. /\ disk'.runs = disk.runs /\ req[p].op = "enable"
      /\ pc' = [pc EXCEPT ![p] = "done"]
  BY <1>1, EnablePrints
<1>3. PICK r : /\ Prints(r) /\ r.req = req[p] /\ r.answer.birth = 0
               /\ reply' = [reply EXCEPT ![p] = r]
  BY <1>1, EnablePrints
<1>4. \A i : Found(disk', i) = Found(disk, i) /\ RunOf(disk', i) = RunOf(disk, i)
  BY <1>2, SameRunsFound
<1>5. ASSUME NEW a \in Issued
      PROVE  Answered(a)' /\ Agree(a, r)
  <2>1. Answered(a)'
    BY <1>1, <1>4 DEF Consistent, Answered
  <2>2. r.req.op = "enable"
    BY <1>2, <1>3
  <2> QED
    BY <2>1, <2>2 DEF Agree
<1>6. Answered(r)'
  <2>1. births' \in [RunIds -> Nat]
    BY <1>1 DEF FlightInv, TypeOK
  <2> QED
    BY <1>2, <1>3, <2>1 DEF Answered, Shows
<1> QED
  BY <1>1, <1>2, <1>3, <1>5, <1>6, PrintedAnswer DEF Inside

LEMMA WriteAheadAnswers ==
    ASSUME FlightInv, Once, Consistent, NEW p \in Procs, WriteAhead(p)
    PROVE  Consistent'
<1> DEFINE old == RunOf(disk, req[p].run)
<1>1. /\ Found(disk, req[p].run) # {} /\ old.state = "waiting" /\ old.r12
      /\ \A d \in old.decided : d.key # req[p].key
      /\ req[p] \in Requests /\ req[p].op = "decide"
      /\ disk'.receipts = disk.receipts
  BY WriteAheadMarks DEF MayDecide
<1>2. PICK run \in RunShape :
                     /\ run.state = "running" /\ run.id = req[p].run /\ run.id \in RunIds
                     /\ run.birth = old.birth /\ run.r12 = old.r12
                     /\ run.rev = old.rev + 1 /\ run.decided = old.decided \cup {req[p]}
                     /\ Rewritten(run) /\ RunOf(disk', run.id) = run
  BY WriteAheadMarks
<1>3. /\ births' = births /\ told' = told /\ reply' = reply /\ req' = req
      /\ pc' = [pc EXCEPT ![p] = "granted"] /\ pc[p] = "loaded"
  BY DEF WriteAhead
<1>4. Issued' = Issued
  BY <1>1, <1>3 DEF Issued
<1>5. old \in RunShape /\ old.rev \in Nat
  BY <1>1, NamedRun DEF FlightInv, RunShape
<1>6. /\ old.rev <= run.rev /\ old.rev < run.rev
      /\ old.decided \subseteq run.decided /\ req[p] \in run.decided
  BY <1>2, <1>5
<1>7. ASSUME NEW a \in Issued
      PROVE  Answered(a)'
  <2>1. Answered(a)
    BY DEF Consistent
  <2>2. old = RunOf(disk, run.id) /\ Found(disk, run.id) # {}
    BY <1>1, <1>2
  <2> QED
    BY <1>1, <1>2, <1>3, <1>6, <2>1, <2>2, RewriteAnswered
<1>8. Unanswered(p)'
  <2>1. RunOf(disk', req'[p].run) = run /\ run.r12 /\ req'[p] \in run.decided
    BY <1>1, <1>2, <1>3, <1>6
  <2>2. ASSUME NEW a \in Issued, a.req.op = "decide", a.answer.run = req[p].run,
               a.answer.birth = run.birth
        PROVE  a.req.key # req[p].key
    <3>1. Shows(old, a)
      BY <1>1, <1>2, <2>2 DEF Consistent, Answered
    <3> QED
      BY <1>1, <2>2, <3>1 DEF Shows
  <2> QED
    BY <1>3, <1>4, <2>1, <2>2 DEF Unanswered
<1>9. ASSUME NEW q \in Procs, q # p
      PROVE  pc'[q] \notin InFlight
  <2>1. pc'[q] = pc[q] /\ lock = p
    BY <1>3, <1>9 DEF FlightInv, TypeOK, Once, Owns, Inside
  <2> QED
    BY <1>9, <2>1 DEF Once, Owns, InFlight, Inside
<1> QED
  BY <1>4, <1>7, <1>8, <1>9 DEF Consistent, Agree, Unanswered

LEMMA AnswerInit == Init => AnswerInv
<1> SUFFICES ASSUME Init PROVE Consistent
  BY DEF AnswerInv
<1>1. disk.receipts = << >> /\ told = {} /\ \A p \in Procs : reply[p] = NoReply /\ pc[p] = "idle"
  BY DEF Init, EmptyRegistry
<1>2. Issued = {}
  BY <1>1 DEF Issued
<1> QED
  BY <1>1, <1>2 DEF Consistent, Unanswered, InFlight

LEMMA AnswerNext == FlightInv /\ OnceInv /\ AnswerInv /\ [Next]_vars => AnswerInv'
<1> SUFFICES ASSUME FlightInv, OnceInv, AnswerInv, [Next]_vars, lapses' = 0
             PROVE  Consistent'
  BY DEF AnswerInv
<1>1. Once /\ Consistent /\ TypeOK
  BY LapsesGrow DEF OnceInv, AnswerInv, FlightInv
<1>2. CASE UNCHANGED vars \/ Publish
  <2>1. UNCHANGED <<disk, births, pc, req, reply, told>>
    BY <1>2 DEF vars, Publish
  <2>2. Issued' = Issued
    BY <2>1 DEF Issued
  <2> QED
    BY <1>1, <2>1, <2>2, QuietAnswers
<1>3. ASSUME NEW p \in Procs,
             \/ \E r \in Requests : Submit(p, r)
             \/ Acquire(p) \/ Dispatch(p) \/ Lapse(p)
      PROVE  Consistent'
  <2>1. UNCHANGED <<disk, births, reply, told>>
    BY <1>3 DEF Submit, Acquire, Dispatch, Lapse
  <2>2. Issued' = Issued
    BY <2>1 DEF Issued
  <2>3. \A q \in Procs : pc'[q] \in InFlight => pc[q] \in InFlight /\ req'[q] = req[q]
    BY <1>1, <1>3 DEF Submit, Acquire, Dispatch, Lapse, TypeOK, InFlight
  <2> QED
    BY <1>1, <2>1, <2>2, <2>3, QuietAnswers
<1>4. ASSUME NEW p \in Procs, GiveUp(p) \/ Release(p) \/ Crash(p)
      PROVE  Consistent'
  <2>1. /\ Ends(p) /\ disk' = disk /\ births' = births
        /\ told' = told \/ (reply[p] # NoReply /\ told' = told \cup {reply[p]})
    BY <1>4 DEF GiveUp, Release, Crash
  <2>2. \A q \in Procs : reply'[q] # NoReply => reply'[q] = reply[q]
    BY <1>1, <2>1 DEF Ends, TypeOK
  <2>3. Issued' \subseteq Issued
    BY <2>1, <2>2 DEF Issued
  <2>4. \A q \in Procs : pc'[q] \in InFlight => pc[q] \in InFlight /\ req'[q] = req[q]
    BY <1>1, <2>1 DEF Ends, TypeOK, InFlight
  <2> QED
    BY <1>1, <2>1, <2>3, <2>4, QuietAnswers
<1>5. ASSUME NEW p \in Procs, Replay(p) \/ Refuse(p) \/ WriteFails(p)
      PROVE  Consistent'
  <2>1. /\ disk' = disk /\ births' = births /\ told' = told /\ req' = req
        /\ pc[p] \in {"loaded", "granted", "executing"}
    BY <1>5 DEF Replay, Refuse, WriteFails
  <2>2. mem[p] = disk
    BY <1>1, <2>1 DEF Once, Copies
  <2>3. PICK r : /\ Done(p, r)
                 /\ r = NoReply \/ \E k \in DOMAIN disk.receipts : r = disk.receipts[k]
    BY <1>5, <2>2 DEF Replay, Refuse, WriteFails, Prior
  <2>4. \A q \in Procs : reply'[q] = reply[q] \/ reply'[q] = r
    BY <1>1, <2>3 DEF Done, TypeOK
  <2>5. Issued' \subseteq Issued
    BY <2>1, <2>3, <2>4 DEF Issued
  <2>6. \A q \in Procs : pc'[q] \in InFlight => pc[q] \in InFlight /\ req'[q] = req[q]
    BY <1>1, <2>1, <2>3 DEF Done, TypeOK, InFlight
  <2> QED
    BY <1>1, <2>1, <2>5, <2>6, QuietAnswers
<1>6. ASSUME NEW p \in Procs, Enable(p)
      PROVE  Consistent'
  BY <1>1, <1>6, EnableAnswers
<1>7. ASSUME NEW p \in Procs, Invoke(p) \/ Retry(p)
      PROVE  Consistent'
  BY <1>1, <1>7, StartAnswers
<1>8. ASSUME NEW p \in Procs, Cancel(p)
      PROVE  Consistent'
  BY <1>1, <1>8, CancelAnswers
<1>9. ASSUME NEW p \in Procs, Decide(p)
      PROVE  Consistent'
  BY <1>1, <1>9, DecideAnswers
<1>10. ASSUME NEW p \in Procs, WriteAhead(p)
       PROVE  Consistent'
  BY <1>1, <1>10, WriteAheadAnswers
<1>11. ASSUME NEW p \in Procs, Finish(p)
       PROVE  Consistent'
  BY <1>1, <1>11, FinishAnswers
<1> QED
  BY <1>2, <1>3, <1>4, <1>5, <1>6, <1>7, <1>8, <1>9, <1>10, <1>11 DEF Next, Serve

\* While no live process has lost its lock, a request that is accepted again for
\* the same birth of a run is told what it was told before, and of all decisions
\* and cancellations one wins each revision (priorResponse and the revision
\* checks of the cancel and decide operations).
THEOREM OneAnswerOnly == Spec => []OneAnswer
<1>1. Spec => []AnswerInv
  BY AnswerInit, AnswerNext, FlightIsInvariant, OnceIsInvariant, PTL DEF Spec
<1>2. AnswerInv => OneAnswer
  <2> SUFFICES ASSUME AnswerInv, lapses = 0, NEW a \in told, NEW b \in told
               PROVE  Agree(a, b)
    BY DEF OneAnswer, Agree
  <2> QED
    BY DEF AnswerInv, Consistent, Issued
<1> QED
  BY <1>1, <1>2, PTL
=============================================================================
