------------------------- MODULE PublishedRunsProofs -------------------------
(***************************************************************************)
(* Theorems about PublishedRuns, for every set of processes, requests and  *)
(* workflows: the types, that no execution is handed to an agent twice,    *)
(* and that what has settled stays.                                        *)
(*                                                                         *)
(* FlightInv joins the types with what a process that has recorded an      *)
(* attempt holds in memory.  OnceInv adds, while no live process has lost  *)
(* its lock, that only the owner of the lock is at work, on a copy equal   *)
(* to the registry, and that revisions grow past every dispatched wait.    *)
(***************************************************************************)
EXTENDS PublishedRuns, TLAPS, WellFoundedInduction

-----------------------------------------------------------------------------
(* Least elements: the first run of an id, the first node that waits.      *)

\* A nonempty set of numbers has a least element.
LEMMA Least ==
    ASSUME NEW S \in SUBSET Nat, S # {}
    PROVE  \E x \in S : \A y \in S : x <= y
<1> DEFINE R == {ss \in Nat \X Nat : ss[1] < ss[2]}
<1>1. IsWellFoundedOn(R, Nat)
  BY NatLessThanWellFounded DEF OpToRel
<1> HIDE DEF R
<1>2. PICK x \in S : \A y \in S : <<y, x>> \notin R
  BY <1>1, WFMin
<1>3. \A y \in S : ~(y < x)
  BY <1>2 DEF R
<1> QED
  BY <1>3

\* RunOf is the first run with the id.
LEMMA RunOfIsFirst ==
    ASSUME NEW g, g.runs \in Seq(RunShape), NEW i, Found(g, i) # {}
    PROVE  \E k \in Found(g, i) :
              /\ RunOf(g, i) = g.runs[k]
              /\ \A l \in Found(g, i) : k <= l
<1>1. Found(g, i) \in SUBSET Nat
  BY DEF Found
<1>2. \E k \in Found(g, i) : \A l \in Found(g, i) : k <= l
  BY <1>1, Least
<1> DEFINE c == CHOOSE k \in Found(g, i) : \A l \in Found(g, i) : k <= l
<1>3. c \in Found(g, i) /\ \A l \in Found(g, i) : c <= l
  BY <1>2
<1> QED
  BY <1>3 DEF RunOf

LEMMA RunOfType ==
    ASSUME NEW g, g.runs \in Seq(RunShape), NEW i, Found(g, i) # {}
    PROVE  RunOf(g, i) \in RunShape /\ RunOf(g, i).id = i
<1>1. PICK k \in Found(g, i) : RunOf(g, i) = g.runs[k]
  BY RunOfIsFirst
<1> QED
  BY <1>1 DEF Found

\* StopFrom is a node from here on, or the end.
LEMMA StopFromType ==
    ASSUME NEW flow \in Seq(Kinds), NEW from \in Nat \ {0}, from <= Len(flow) + 1
    PROVE  /\ StopFrom(flow, from) \in from .. (Len(flow) + 1)
           /\ StopFrom(flow, from) <= Len(flow) => Waits(flow[StopFrom(flow, from)])
           /\ \A k \in from .. (StopFrom(flow, from) - 1) : ~Waits(flow[k])
<1> DEFINE Ok == {j \in from .. (Len(flow) + 1) : j <= Len(flow) => Waits(flow[j])}
<1>1. Ok \in SUBSET Nat /\ Len(flow) + 1 \in Ok
  OBVIOUS
<1>2. PICK j \in Ok : \A k \in Ok : j <= k
  BY <1>1, Least
<1>3. \A k \in from .. (j - 1) : ~Waits(flow[k])
  BY <1>2
<1>4. \E n \in from .. (Len(flow) + 1) :
          /\ n <= Len(flow) => Waits(flow[n])
          /\ \A k \in from .. (n - 1) : ~Waits(flow[k])
  BY <1>2, <1>3
<1> QED
  BY <1>4 DEF StopFrom
-----------------------------------------------------------------------------
(* The shape of a run: where its nodes stand, and what belongs to its      *)
(* state.                                                                  *)

FullLength(run) == Len(run.steps) = Len(Flow[run.version])

\* The nodes before n are done, none from there on has begun.
Ready(run, n) ==
    /\ FullLength(run)
    /\ n \in 1 .. (Len(run.steps) + 1)
    /\ \A k \in DOMAIN run.steps : run.steps[k] = IF k < n THEN "completed" ELSE "pending"

\* The run stands at node n, which waits.
StandsAt(run, n) ==
    /\ n \in DOMAIN run.steps
    /\ \A k \in DOMAIN run.steps :
        run.steps[k] = IF k < n THEN "completed" ELSE IF k = n THEN "waiting" ELSE "pending"

WaitsWell(run) ==
    run.wait.rev = run.rev /\ StandsAt(run, run.wait.node)

RunsWell(run) ==
    IsMarkedUnknown(run) /\ StandsAt(run, LastAttempt(run).wait.node)

RunOK(run) ==
    /\ FullLength(run)
    /\ run.state = "waiting" /\ run.r12 => WaitsWell(run)
    /\ run.state = "waiting" /\ ~run.r12 => run.wait = NoWait
    /\ run.state = "running" => RunsWell(run) /\ run.wait = NoWait
    /\ run.state \in Terminal => HasSettled(run)

\* Only its state, its nodes and its wait differ.
SameRun(old, new) ==
    /\ new.id = old.id /\ new.birth = old.birth /\ new.version = old.version
    /\ new.r12 = old.r12 /\ new.rev = old.rev
    /\ new.decided = old.decided /\ new.attempts = old.attempts

\* The last attempt is given its outcome.
SameWaits(old, new) ==
    /\ DOMAIN new.attempts = DOMAIN old.attempts
    /\ \A a \in DOMAIN old.attempts : new.attempts[a].wait = old.attempts[a].wait

LEMMA FlowType == ASSUME NEW v \in Versions PROVE Flow[v] \in Seq(Kinds)
BY FlowAssumption

LEMMA NoWaitType == NoWait \in WaitShape
BY DEF NoWait, WaitShape, Scopes

LEMMA MarkedType ==
    ASSUME NEW steps \in Seq(StepStates), NEW lo \in Int, NEW hi \in Int, NEW s \in StepStates
    PROVE  /\ Marked(steps, lo, hi, s) \in Seq(StepStates)
           /\ Len(Marked(steps, lo, hi, s)) = Len(steps)
           /\ DOMAIN Marked(steps, lo, hi, s) = DOMAIN steps
           /\ \A k \in DOMAIN steps :
                 Marked(steps, lo, hi, s)[k] = IF k \in lo .. hi THEN s ELSE steps[k]
<1>1. Marked(steps, lo, hi, s) =
        [k \in 1 .. Len(steps) |-> IF k \in lo .. hi THEN s ELSE steps[k]]
  BY DEF Marked
<1>2. \A k \in 1 .. Len(steps) : (IF k \in lo .. hi THEN s ELSE steps[k]) \in StepStates
  OBVIOUS
<1> QED
  BY <1>1, <1>2

\* A node that fails ends the run, and leaves no node that waits.
LEMMA FailedAtOK ==
    ASSUME NEW run \in RunShape, NEW n \in Nat, FullLength(run),
           \A k \in DOMAIN run.steps : k # n => run.steps[k] # "waiting"
    PROVE  /\ FailedAt(run, n) \in RunShape
           /\ RunOK(FailedAt(run, n))
           /\ FailedAt(run, n).state = "failed"
           /\ SameRun(run, FailedAt(run, n))
<1> DEFINE f == FailedAt(run, n)
           m == Marked(run.steps, n, n, "failed")
<1>1. run.steps \in Seq(StepStates) /\ "failed" \in StepStates
  BY DEF RunShape, StepStates
<1>2. /\ m \in Seq(StepStates) /\ Len(m) = Len(run.steps)
      /\ DOMAIN m = DOMAIN run.steps
      /\ \A k \in DOMAIN run.steps : m[k] = IF k \in n .. n THEN "failed" ELSE run.steps[k]
  BY <1>1, MarkedType
<1> HIDE DEF m
<1>3. f = [run EXCEPT !.state = "failed", !.steps = m, !.wait = NoWait]
  BY DEF FailedAt, m
<1>4. f \in RunShape
  BY <1>2, <1>3, NoWaitType DEF RunShape, States
<1>5. /\ f.state = "failed" /\ f.steps = m /\ f.wait = NoWait
      /\ SameRun(run, f)
  BY <1>3 DEF RunShape, SameRun
<1>6. FullLength(f)
  BY <1>2, <1>5 DEF FullLength, SameRun
<1>7. HasSettled(f)
  BY <1>2, <1>5 DEF HasSettled
<1> HIDE DEF f
<1> QED
  BY <1>4, <1>5, <1>6, <1>7 DEF RunOK, Terminal, f

\* A run that stops at a node can be taken up there.
LEMMA ParkedOK ==
    ASSUME NEW run \in RunShape, NEW n \in Nat, NEW scope \in Scopes, FullLength(run),
           StandsAt([run EXCEPT !.steps = Marked(@, n, n, "waiting")], n)
    PROVE  /\ Parked(run, n, scope) \in RunShape
           /\ RunOK(Parked(run, n, scope))
           /\ Parked(run, n, scope).state = "waiting"
           /\ run.r12 => Parked(run, n, scope).wait.scope = scope
           /\ SameRun(run, Parked(run, n, scope))
<1> DEFINE f == Parked(run, n, scope)
           m == Marked(run.steps, n, n, "waiting")
           w == IF run.r12 THEN [node |-> n, scope |-> scope, rev |-> run.rev] ELSE NoWait
<1>1. run.steps \in Seq(StepStates) /\ "waiting" \in StepStates
  BY DEF RunShape, StepStates
<1>2. /\ m \in Seq(StepStates) /\ Len(m) = Len(run.steps)
      /\ DOMAIN m = DOMAIN run.steps
  BY <1>1, MarkedType
<1>3. w \in WaitShape
  BY NoWaitType DEF WaitShape, RunShape
<1> HIDE DEF m
<1>4. f = [run EXCEPT !.state = "waiting", !.steps = m, !.wait = w]
  BY DEF Parked, m
<1>5. f \in RunShape
  <2> HIDE DEF w
  <2> QED
    BY <1>2, <1>3, <1>4 DEF RunShape, States
<1>6. /\ f.state = "waiting" /\ f.steps = m /\ f.wait = w
      /\ SameRun(run, f)
  BY <1>4 DEF RunShape, SameRun
<1>7. FullLength(f)
  BY <1>2, <1>6 DEF FullLength, SameRun
<1>8. StandsAt(f, n)
  <2>1. [run EXCEPT !.steps = Marked(@, n, n, "waiting")].steps = m
    BY DEF RunShape, m
  <2> QED
    BY <1>6, <2>1 DEF StandsAt
<1>9. run.r12 => w.node = n /\ w.scope = scope /\ w.rev = run.rev
  OBVIOUS
<1>10. ~run.r12 => w = NoWait
  OBVIOUS
<1> HIDE DEF f, w
<1> QED
  BY <1>5, <1>6, <1>7, <1>8, <1>9, <1>10 DEF RunOK, WaitsWell, Terminal, SameRun, f

UpTo(run, from, n) == [run EXCEPT !.steps = Marked(@, from, n, "completed"), !.wait = NoWait]

LEMMA UpToReady ==
    ASSUME NEW run \in RunShape, NEW from \in Nat \ {0}, Ready(run, from),
           NEW n \in Nat, from <= n + 1, n <= Len(run.steps)
    PROVE  /\ UpTo(run, from, n) \in RunShape
           /\ Ready(UpTo(run, from, n), n + 1)
           /\ SameRun(run, UpTo(run, from, n))
           /\ UpTo(run, from, n).state = run.state
           /\ UpTo(run, from, n).wait = NoWait
           /\ Len(UpTo(run, from, n).steps) = Len(run.steps)
<1> DEFINE u == UpTo(run, from, n)
           m == Marked(run.steps, from, n, "completed")
<1>1. run.steps \in Seq(StepStates) /\ "completed" \in StepStates
  BY DEF RunShape, StepStates
<1>2. /\ m \in Seq(StepStates) /\ Len(m) = Len(run.steps)
      /\ DOMAIN m = DOMAIN run.steps
      /\ \A k \in DOMAIN run.steps : m[k] = IF k \in from .. n THEN "completed" ELSE run.steps[k]
  <2> DEFINE steps == run.steps
  <2>1. steps \in Seq(StepStates) /\ from \in Int /\ n \in Int
    BY <1>1
  <2> HIDE DEF steps
  <2>2. LET s == Marked(steps, from, n, "completed")
        IN  /\ s \in Seq(StepStates) /\ Len(s) = Len(steps) /\ DOMAIN s = DOMAIN steps
            /\ \A k \in DOMAIN steps : s[k] = IF k \in from .. n THEN "completed" ELSE steps[k]
    BY <1>1, <2>1, MarkedType
  <2> QED
    BY <2>2 DEF steps
<1> HIDE DEF m
<1>3. u = [run EXCEPT !.steps = m, !.wait = NoWait]
  BY DEF UpTo, m
<1>4. u \in RunShape
  BY <1>2, <1>3, NoWaitType DEF RunShape
<1>5. u.steps = m /\ u.wait = NoWait /\ u.state = run.state /\ SameRun(run, u)
  BY <1>3 DEF RunShape, SameRun
<1>6. Len(run.steps) \in Nat /\ DOMAIN run.steps = 1 .. Len(run.steps)
  BY <1>1
<1>7. \A k \in DOMAIN m : m[k] = IF k < n + 1 THEN "completed" ELSE "pending"
  BY <1>2, <1>6 DEF Ready
<1>8. Ready(u, n + 1)
  BY <1>2, <1>5, <1>6, <1>7 DEF Ready, FullLength, SameRun
<1> QED
  BY <1>2, <1>4, <1>5, <1>8

\* Running nodes leaves a run that waits at a node or has settled.
LEMMA AdvancedOK ==
    ASSUME NEW run \in RunShape, NEW from \in Nat \ {0}, Ready(run, from),
           NEW x \in Advanced(run, from)
    PROVE  /\ x \in RunShape
           /\ RunOK(x)
           /\ x.state \in {"waiting", "completed", "failed"}
           /\ x.state = "waiting" /\ x.r12 => x.wait.scope # "runtime_tool"
           /\ SameRun(run, x)
<1> DEFINE flow == Flow[run.version]
           stop == StopFrom(flow, from)
<1>1. flow \in Seq(Kinds) /\ Len(flow) \in Nat
  BY FlowType DEF RunShape
<1>2. /\ run.steps \in Seq(StepStates) /\ Len(run.steps) = Len(flow)
      /\ from <= Len(flow) + 1
  BY DEF RunShape, Ready, FullLength
<1>3. stop \in from .. (Len(flow) + 1)
  BY <1>1, <1>2, StopFromType
<1> HIDE DEF flow, stop
<1>4. \/ stop > Len(flow) /\ x = [UpTo(run, from, stop - 1) EXCEPT !.state = "completed"]
      \/ /\ stop <= Len(flow)
         /\ \E scope \in {"step_execution", "human_approval"} :
               x = Parked(UpTo(run, from, stop - 1), stop, scope)
      \/ \E n \in from .. (stop - 1) : x = FailedAt(UpTo(run, from, n - 1), n)
      \/ \E n \in from .. (stop - 1) :
            x = [UpTo(run, from, n) EXCEPT !.state = "completed",
                    !.steps = Marked(@, n + 1, Len(flow), "skipped")]
  <2> DEFINE End == IF stop > Len(flow)
                    THEN [UpTo(run, from, stop - 1) EXCEPT !.state = "completed"]
                    ELSE Parked(UpTo(run, from, stop - 1), stop,
                                IF flow[stop] = "agent" THEN "step_execution" ELSE "human_approval")
             Failed == {FailedAt(UpTo(run, from, n - 1), n) : n \in from .. (stop - 1)}
             Skipped == {[UpTo(run, from, n) EXCEPT !.state = "completed",
                             !.steps = Marked(@, n + 1, Len(flow), "skipped")] :
                           n \in {k \in from .. (stop - 1) : flow[k] = "condition"}}
  <2>1. Advanced(run, from) = {End} \cup Failed \cup Skipped
    BY DEF Advanced, UpTo, flow, stop
  <2>2. ASSUME x = End
        PROVE  \/ stop > Len(flow) /\ x = [UpTo(run, from, stop - 1) EXCEPT !.state = "completed"]
               \/ /\ stop <= Len(flow)
                  /\ \E scope \in {"step_execution", "human_approval"} :
                        x = Parked(UpTo(run, from, stop - 1), stop, scope)
    BY <1>1, <1>3, <2>2
  <2>3. ASSUME x \in Failed
        PROVE  \E n \in from .. (stop - 1) : x = FailedAt(UpTo(run, from, n - 1), n)
    BY <2>3
  <2>4. ASSUME x \in Skipped
        PROVE  \E n \in from .. (stop - 1) :
                  x = [UpTo(run, from, n) EXCEPT !.state = "completed",
                          !.steps = Marked(@, n + 1, Len(flow), "skipped")]
    BY <2>4
  <2> HIDE DEF End, Failed, Skipped
  <2> QED
    BY <2>1, <2>2, <2>3, <2>4
<1>5. CASE stop > Len(flow) /\ x = [UpTo(run, from, stop - 1) EXCEPT !.state = "completed"]
  <2> DEFINE u == UpTo(run, from, stop - 1)
  <2>1. /\ u \in RunShape /\ Ready(u, stop) /\ SameRun(run, u)
        /\ u.wait = NoWait /\ Len(u.steps) = Len(run.steps)
    BY <1>1, <1>2, <1>3, UpToReady
  <2> HIDE DEF u
  <2>2. x = [u EXCEPT !.state = "completed"]
    BY <1>5 DEF u
  <2>3. /\ x \in RunShape /\ x.state = "completed" /\ x.wait = NoWait
        /\ x.steps = u.steps /\ SameRun(u, x)
    BY <2>1, <2>2 DEF RunShape, States, SameRun
  <2>4. \A k \in DOMAIN x.steps : x.steps[k] = "completed"
    <3>1. DOMAIN u.steps = 1 .. Len(flow)
      BY <1>2, <2>1 DEF RunShape
    <3> QED
      <4>1. stop = Len(flow) + 1
        BY <1>1, <1>3, <1>5
      <4>2. \A k \in DOMAIN u.steps : k < stop
        BY <1>1, <3>1, <4>1
      <4> QED
        BY <2>1, <2>3, <4>2 DEF Ready
  <2>5. HasSettled(x)
    BY <2>3, <2>4 DEF HasSettled
  <2>6. FullLength(x)
    BY <2>1, <2>3 DEF FullLength, Ready, SameRun
  <2>7. RunOK(x)
    BY <2>3, <2>5, <2>6 DEF RunOK, Terminal
  <2> QED
    BY <2>1, <2>3, <2>7 DEF SameRun
<1>6. CASE /\ stop <= Len(flow)
           /\ \E scope \in {"step_execution", "human_approval"} :
                 x = Parked(UpTo(run, from, stop - 1), stop, scope)
  <2> DEFINE u == UpTo(run, from, stop - 1)
             m == Marked(u.steps, stop, stop, "waiting")
  <2>1. /\ u \in RunShape /\ Ready(u, stop) /\ SameRun(run, u)
        /\ u.wait = NoWait /\ Len(u.steps) = Len(run.steps)
    BY <1>1, <1>2, <1>3, UpToReady
  <2> HIDE DEF u
  <2>2. PICK scope \in {"step_execution", "human_approval"} : x = Parked(u, stop, scope)
    BY <1>6 DEF u
  <2>3. u.steps \in Seq(StepStates) /\ DOMAIN u.steps = 1 .. Len(flow)
    BY <1>2, <2>1 DEF RunShape
  <2>4. /\ DOMAIN m = DOMAIN u.steps
        /\ \A k \in DOMAIN u.steps : m[k] = IF k \in stop .. stop THEN "waiting" ELSE u.steps[k]
    BY <1>3, <2>3, MarkedType DEF StepStates
  <2> HIDE DEF m
  <2>5. \A k \in DOMAIN u.steps : m[k] =
            IF k < stop THEN "completed" ELSE IF k = stop THEN "waiting" ELSE "pending"
    BY <1>1, <1>3, <2>1, <2>3, <2>4 DEF Ready
  <2>6. [u EXCEPT !.steps = Marked(@, stop, stop, "waiting")].steps = m
    BY <2>1 DEF RunShape, m
  <2>7. StandsAt([u EXCEPT !.steps = Marked(@, stop, stop, "waiting")], stop)
    BY <1>1, <1>3, <1>6, <2>3, <2>4, <2>5, <2>6 DEF StandsAt
  <2>8. FullLength(u) /\ stop \in Nat /\ scope \in Scopes
    BY <1>3, <2>1 DEF Ready, Scopes
  <2>9. /\ x \in RunShape /\ RunOK(x) /\ x.state = "waiting"
        /\ u.r12 => x.wait.scope = scope
        /\ SameRun(u, x)
    BY <2>1, <2>2, <2>7, <2>8, ParkedOK
  <2> QED
    BY <2>1, <2>2, <2>9 DEF SameRun
<1>7. CASE \E n \in from .. (stop - 1) : x = FailedAt(UpTo(run, from, n - 1), n)
  <2>1. PICK n \in from .. (stop - 1) : x = FailedAt(UpTo(run, from, n - 1), n)
    BY <1>7
  <2> DEFINE u == UpTo(run, from, n - 1)
  <2>2. n \in Nat /\ n - 1 \in Nat /\ from <= n /\ n - 1 <= Len(run.steps)
    BY <1>1, <1>2, <1>3
  <2>3. u \in RunShape /\ Ready(u, n) /\ SameRun(run, u)
    BY <2>2, UpToReady
  <2> HIDE DEF u
  <2>4. x = FailedAt(u, n)
    BY <2>1 DEF u
  <2>5. FullLength(u) /\ \A k \in DOMAIN u.steps : u.steps[k] # "waiting"
    BY <2>3 DEF Ready
  <2>6. /\ x \in RunShape /\ RunOK(x) /\ x.state = "failed" /\ SameRun(u, x)
    BY <2>2, <2>3, <2>4, <2>5, FailedAtOK
  <2> QED
    BY <2>3, <2>6 DEF SameRun
<1>8. CASE \E n \in from .. (stop - 1) :
              x = [UpTo(run, from, n) EXCEPT !.state = "completed",
                      !.steps = Marked(@, n + 1, Len(flow), "skipped")]
  <2>1. PICK n \in from .. (stop - 1) :
              x = [UpTo(run, from, n) EXCEPT !.state = "completed",
                      !.steps = Marked(@, n + 1, Len(flow), "skipped")]
    BY <1>8
  <2> DEFINE u == UpTo(run, from, n)
             m == Marked(u.steps, n + 1, Len(flow), "skipped")
  <2>2. n \in Nat /\ from <= n + 1 /\ n <= Len(run.steps)
    BY <1>1, <1>2, <1>3
  <2>3. u \in RunShape /\ Ready(u, n + 1) /\ SameRun(run, u) /\ u.wait = NoWait
    BY <2>2, UpToReady
  <2> HIDE DEF u
  <2>4. u.steps \in Seq(StepStates) /\ DOMAIN u.steps = 1 .. Len(flow)
    <3>1. u.steps \in Seq(StepStates)
      BY <2>3 DEF RunShape
    <3>2. Len(u.steps) = Len(flow)
      BY <2>3 DEF Ready, FullLength, SameRun, flow
    <3> QED
      BY <3>1, <3>2
  <2>5. /\ m \in Seq(StepStates) /\ Len(m) = Len(u.steps) /\ DOMAIN m = DOMAIN u.steps
        /\ \A k \in DOMAIN u.steps : m[k] = IF k \in (n + 1) .. Len(flow) THEN "skipped" ELSE u.steps[k]
    <3>1. n + 1 \in Int /\ Len(flow) \in Int /\ "skipped" \in StepStates
      BY <1>1, <2>2 DEF StepStates
    <3> QED
      BY <2>4, <3>1, MarkedType
  <2>6. x = [u EXCEPT !.state = "completed", !.steps = m]
    BY <2>1, <2>3 DEF u
  <2> HIDE DEF m
  <2>7. /\ x \in RunShape /\ x.state = "completed" /\ x.wait = NoWait
        /\ x.steps = m /\ SameRun(u, x)
    BY <2>3, <2>5, <2>6 DEF RunShape, States, SameRun
  <2>8. \A k \in DOMAIN m : m[k] \in {"completed", "skipped"}
    BY <1>1, <2>2, <2>3, <2>4, <2>5 DEF Ready
  <2>9. HasSettled(x)
    BY <2>7, <2>8 DEF HasSettled
  <2>10. FullLength(x)
    BY <2>3, <2>5, <2>7 DEF FullLength, Ready, SameRun
  <2>11. RunOK(x)
    BY <2>7, <2>9, <2>10 DEF RunOK, Terminal
  <2> QED
    BY <2>3, <2>7, <2>11 DEF SameRun
<1> QED
  BY <1>4, <1>5, <1>6, <1>7, <1>8

-----------------------------------------------------------------------------
(* The registry: the runs and their checkpoints.                           *)

RunsOK(g) == \A k \in DOMAIN g.runs : RunOK(g.runs[k])

CheckpointsOK(g) ==
    \A i \in RunIds :
        Found(g, i) # {} /\ RunOf(g, i).r12 /\ RunOf(g, i).state = "waiting" =>
            /\ g.checkpoints[i].version = RunOf(g, i).version
            /\ RunOf(g, i).wait.scope = "runtime_tool" =>
                  g.checkpoints[i].tool = RunOf(g, i).rev

RegistryOK(g) == g \in Registry /\ RunsOK(g) /\ CheckpointsOK(g)

LEMMA RegistryRuns ==
    ASSUME NEW g \in Registry
    PROVE  /\ g.runs \in Seq(RunShape) /\ g.receipts \in Seq(ReceiptShape)
           /\ \A k \in DOMAIN g.runs : g.runs[k] \in RunShape
BY DEF Registry

LEMMA RunOfIs ==
    ASSUME NEW g, g.runs \in Seq(RunShape), NEW i,
           NEW k \in Found(g, i), \A l \in Found(g, i) : k <= l
    PROVE  RunOf(g, i) = g.runs[k]
<1>1. PICK j \in Found(g, i) : RunOf(g, i) = g.runs[j] /\ \A l \in Found(g, i) : j <= l
  BY RunOfIsFirst
<1>2. j = k
  <2>1. j <= k /\ k <= j
    BY <1>1
  <2>2. j \in Nat /\ k \in Nat
    BY DEF Found
  <2> QED
    BY <2>1, <2>2
<1> QED
  BY <1>1, <1>2

\* The newest element comes first, the others follow, the oldest may be dropped.
LEMMA NewestType ==
    ASSUME NEW T, NEW x \in T, NEW s \in Seq(T), NEW n \in Nat \ {0}
    PROVE  /\ Newest(x, s, n) \in Seq(T)
           /\ 1 \in DOMAIN Newest(x, s, n) /\ Newest(x, s, n)[1] = x
           /\ \A k \in DOMAIN Newest(x, s, n) \ {1} :
                 k - 1 \in DOMAIN s /\ Newest(x, s, n)[k] = s[k - 1]
           /\ \A k \in DOMAIN Newest(x, s, n) \ {1} :
                 \A l \in 1 .. (k - 1) : l + 1 \in DOMAIN Newest(x, s, n)
<1> DEFINE m == IF Len(s) < n THEN Len(s) + 1 ELSE n
<1>1. m \in Nat /\ 1 <= m /\ m <= Len(s) + 1 /\ Len(s) \in Nat
  OBVIOUS
<1>2. Newest(x, s, n) = [k \in 1 .. m |-> IF k = 1 THEN x ELSE s[k - 1]]
  BY DEF Newest
<1> HIDE DEF m
<1>3. \A k \in 1 .. m : k # 1 => k - 1 \in 1 .. Len(s)
  BY <1>1
<1>4. \A k \in 1 .. m : (IF k = 1 THEN x ELSE s[k - 1]) \in T
  BY <1>3
<1> QED
  BY <1>1, <1>2, <1>3, <1>4

LEMMA ReplacedType ==
    ASSUME NEW runs \in Seq(RunShape), NEW run \in RunShape
    PROVE  /\ Replaced(runs, run) \in Seq(RunShape)
           /\ DOMAIN Replaced(runs, run) = DOMAIN runs
           /\ \A k \in DOMAIN runs :
                 Replaced(runs, run)[k] = IF runs[k].id = run.id THEN run ELSE runs[k]
<1>1. Replaced(runs, run) = [k \in 1 .. Len(runs) |-> IF runs[k].id = run.id THEN run ELSE runs[k]]
  BY DEF Replaced
<1>2. \A k \in 1 .. Len(runs) : (IF runs[k].id = run.id THEN run ELSE runs[k]) \in RunShape
  OBVIOUS
<1> QED
  BY <1>1, <1>2

\* The run of an id after a run was put in front of the others.
LEMMA RunOfNewest ==
    ASSUME NEW g \in Registry, NEW h, NEW run \in RunShape,
           h.runs = Newest(run, g.runs, MaxRuns),
           NEW i, Found(h, i) # {}
    PROVE  /\ run.id = i => RunOf(h, i) = run
           /\ run.id # i => Found(g, i) # {} /\ RunOf(h, i) = RunOf(g, i)
<1>1. g.runs \in Seq(RunShape) /\ MaxRuns \in Nat \ {0}
  BY RegistryRuns, BoundAssumption
<1>2. /\ h.runs \in Seq(RunShape)
      /\ 1 \in DOMAIN h.runs /\ h.runs[1] = run
      /\ \A k \in DOMAIN h.runs \ {1} : k - 1 \in DOMAIN g.runs /\ h.runs[k] = g.runs[k - 1]
      /\ \A k \in DOMAIN h.runs \ {1} : \A l \in 1 .. (k - 1) : l + 1 \in DOMAIN h.runs
  <2> DEFINE s == g.runs
             r == h.runs
             T == RunShape
  <2>1. s \in Seq(T) /\ run \in T /\ r = Newest(run, s, MaxRuns)
    BY <1>1
  <2> HIDE DEF s, r, T
  <2>2. /\ r \in Seq(T)
        /\ 1 \in DOMAIN r /\ r[1] = run
        /\ \A k \in DOMAIN r \ {1} : k - 1 \in DOMAIN s /\ r[k] = s[k - 1]
        /\ \A k \in DOMAIN r \ {1} : \A l \in 1 .. (k - 1) : l + 1 \in DOMAIN r
    <3>1. MaxRuns \in Nat \ {0}
      BY <1>1
    <3>2. /\ Newest(run, s, MaxRuns) \in Seq(T)
          /\ 1 \in DOMAIN Newest(run, s, MaxRuns) /\ Newest(run, s, MaxRuns)[1] = run
          /\ \A k \in DOMAIN Newest(run, s, MaxRuns) \ {1} :
                k - 1 \in DOMAIN s /\ Newest(run, s, MaxRuns)[k] = s[k - 1]
          /\ \A k \in DOMAIN Newest(run, s, MaxRuns) \ {1} :
                \A l \in 1 .. (k - 1) : l + 1 \in DOMAIN Newest(run, s, MaxRuns)
      BY <2>1, <3>1, NewestType, Zenon
    <3> QED
      BY <2>1, <3>2, Zenon
  <2> QED
    BY <2>2 DEF s, r, T
<1>3. ASSUME run.id = i
      PROVE  RunOf(h, i) = run
  <2>1. 1 \in Found(h, i)
    BY <1>2, <1>3 DEF Found
  <2>2. \A l \in Found(h, i) : 1 <= l
    BY <1>2 DEF Found
  <2> QED
    BY <1>2, <2>1, <2>2, RunOfIs
<1>4. ASSUME run.id # i
      PROVE  Found(g, i) # {} /\ RunOf(h, i) = RunOf(g, i)
  <2>1. PICK k \in Found(h, i) : RunOf(h, i) = h.runs[k] /\ \A l \in Found(h, i) : k <= l
    BY <1>2, RunOfIsFirst
  <2>2. k \in DOMAIN h.runs /\ k # 1 /\ h.runs[k].id = i
    BY <1>2, <1>4, <2>1 DEF Found
  <2>3. k - 1 \in Found(g, i) /\ h.runs[k] = g.runs[k - 1]
    BY <1>2, <2>2 DEF Found
  <2>4. k \in Nat /\ DOMAIN g.runs = 1 .. Len(g.runs) /\ Len(g.runs) \in Nat
    BY <1>1, <1>2, <2>2
  <2>5. ASSUME NEW l \in Found(g, i), l < k - 1
        PROVE  FALSE
    <3>1. l \in 1 .. (k - 1) /\ l \in DOMAIN g.runs /\ g.runs[l].id = i
      BY <2>4, <2>5 DEF Found
    <3>2. l + 1 \in DOMAIN h.runs /\ l + 1 # 1
      BY <1>2, <2>2, <3>1
    <3>3. h.runs[l + 1] = g.runs[l]
      BY <1>2, <3>1, <3>2
    <3>4. l + 1 \in Found(h, i)
      BY <3>1, <3>2, <3>3 DEF Found
    <3> QED
      BY <2>1, <2>4, <2>5, <3>1, <3>4
  <2>6. \A l \in Found(g, i) : k - 1 <= l
    BY <2>4, <2>5 DEF Found
  <2> QED
    BY <1>1, <2>1, <2>3, <2>6, RunOfIs
<1> QED
  BY <1>3, <1>4

\* The run of an id after a run took the place of its older self.
LEMMA RunOfReplaced ==
    ASSUME NEW g \in Registry, NEW h, NEW run \in RunShape,
           h.runs = Replaced(g.runs, run), NEW i
    PROVE  /\ Found(h, i) = Found(g, i)
           /\ Found(g, i) # {} =>
                 RunOf(h, i) = IF run.id = i THEN run ELSE RunOf(g, i)
<1>1. g.runs \in Seq(RunShape)
  BY RegistryRuns
<1>2. /\ h.runs \in Seq(RunShape) /\ DOMAIN h.runs = DOMAIN g.runs
      /\ \A k \in DOMAIN g.runs :
            h.runs[k] = IF g.runs[k].id = run.id THEN run ELSE g.runs[k]
  <2> DEFINE s == g.runs
             r == h.runs
  <2>1. s \in Seq(RunShape) /\ r = Replaced(s, run)
    BY <1>1
  <2> HIDE DEF s, r
  <2>2. /\ r \in Seq(RunShape) /\ DOMAIN r = DOMAIN s
        /\ \A k \in DOMAIN s : r[k] = IF s[k].id = run.id THEN run ELSE s[k]
    BY <2>1, ReplacedType
  <2> QED
    BY <2>2 DEF s, r
<1>3. Found(h, i) = Found(g, i)
  BY <1>2 DEF Found
<1>4. ASSUME Found(g, i) # {}
      PROVE  RunOf(h, i) = IF run.id = i THEN run ELSE RunOf(g, i)
  <2>1. PICK k \in Found(g, i) : RunOf(g, i) = g.runs[k] /\ \A l \in Found(g, i) : k <= l
    BY <1>1, <1>4, RunOfIsFirst
  <2>2. RunOf(h, i) = h.runs[k]
    BY <1>2, <1>3, <2>1, RunOfIs
  <2> QED
    BY <1>2, <2>1, <2>2 DEF Found
<1> QED
  BY <1>3, <1>4

\* The runs after the newest run of an id was changed.
LEMMA InPlaceType ==
    ASSUME NEW g \in Registry, NEW h, NEW run \in RunShape,
           h.runs = InPlace(g, run)
    PROVE  /\ h.runs \in Seq(RunShape) /\ DOMAIN h.runs = DOMAIN g.runs
           /\ \A k \in DOMAIN g.runs :
                 h.runs[k] = IF g.runs[k].id = run.id /\ \A l \in Found(g, run.id) : k <= l
                             THEN run ELSE g.runs[k]
<1> DEFINE First(k) == \A l \in Found(g, run.id) : k <= l
           s == g.runs
           r == h.runs
<1>1. s \in Seq(RunShape) /\ DOMAIN s = 1 .. Len(s)
  BY RegistryRuns
<1>2. r = [k \in DOMAIN s |-> IF s[k].id = run.id /\ First(k) THEN run ELSE s[k]]
  BY DEF InPlace
<1> HIDE DEF First, s, r
<1>3. r = [k \in 1 .. Len(s) |-> IF s[k].id = run.id /\ First(k) THEN run ELSE s[k]]
  BY <1>1, <1>2
<1>4. \A k \in 1 .. Len(s) : (IF s[k].id = run.id /\ First(k) THEN run ELSE s[k]) \in RunShape
  BY <1>1
<1>5. /\ r \in Seq(RunShape) /\ DOMAIN r = DOMAIN s
      /\ \A k \in DOMAIN s : r[k] = IF s[k].id = run.id /\ First(k) THEN run ELSE s[k]
  BY <1>1, <1>3, <1>4
<1> QED
  BY <1>5 DEF First, s, r

\* The run of an id after the newest run of an id was changed.
LEMMA RunOfInPlace ==
    ASSUME NEW g \in Registry, NEW h, NEW run \in RunShape,
           h.runs = InPlace(g, run), NEW i
    PROVE  /\ Found(h, i) = Found(g, i)
           /\ Found(g, i) # {} =>
                 RunOf(h, i) = IF run.id = i THEN run ELSE RunOf(g, i)
<1> DEFINE First(k) == \A l \in Found(g, run.id) : k <= l
<1>1. g.runs \in Seq(RunShape)
  BY RegistryRuns
<1>2. /\ h.runs \in Seq(RunShape) /\ DOMAIN h.runs = DOMAIN g.runs
      /\ \A k \in DOMAIN g.runs :
            h.runs[k] = IF g.runs[k].id = run.id /\ First(k) THEN run ELSE g.runs[k]
  BY InPlaceType
<1> HIDE DEF First
<1>3. \A k \in DOMAIN g.runs : h.runs[k].id = g.runs[k].id
  BY <1>2
<1>4. Found(h, i) = Found(g, i)
  BY <1>2, <1>3 DEF Found
<1>5. ASSUME Found(g, i) # {}
      PROVE  RunOf(h, i) = IF run.id = i THEN run ELSE RunOf(g, i)
  <2>1. PICK k \in Found(g, i) : RunOf(g, i) = g.runs[k] /\ \A l \in Found(g, i) : k <= l
    BY <1>1, <1>5, RunOfIsFirst
  <2>2. RunOf(h, i) = h.runs[k]
    BY <1>2, <1>4, <2>1, RunOfIs
  <2>3. k \in DOMAIN g.runs /\ g.runs[k].id = i
    BY <2>1 DEF Found
  <2>4. run.id = i => First(k)
    BY <2>1 DEF First
  <2> QED
    BY <1>2, <2>1, <2>2, <2>3, <2>4
<1> QED
  BY <1>4, <1>5

LEMMA SameRunsFound ==
    ASSUME NEW g, NEW h, h.runs = g.runs, NEW i
    PROVE  Found(h, i) = Found(g, i) /\ RunOf(h, i) = RunOf(g, i)
<1>1. Found(h, i) = Found(g, i)
  BY DEF Found
<1> QED
  BY <1>1 DEF RunOf

LEMMA AnswerType ==
    ASSUME NEW run \in RunShape
    PROVE  AnswerOf(run) \in Answers
BY DEF AnswerOf, Answers, RunShape

\* What is written is well formed if what is put into it is.
LEMMA SavedOK ==
    ASSUME NEW g, RegistryOK(g), NEW receipt \in ReceiptShape
    PROVE  /\ RegistryOK([g EXCEPT !.receipts = Newest(receipt, @, MaxReceipts)])
           /\ [g EXCEPT !.receipts = Newest(receipt, @, MaxReceipts)].runs = g.runs
           /\ [g EXCEPT !.receipts = Newest(receipt, @, MaxReceipts)].receipts
                 = Newest(receipt, g.receipts, MaxReceipts)
<1> DEFINE n == Newest(receipt, g.receipts, MaxReceipts)
           h == [g EXCEPT !.receipts = n]
<1>1. g \in Registry /\ g.receipts \in Seq(ReceiptShape) /\ MaxReceipts \in Nat \ {0}
  BY RegistryRuns, BoundAssumption DEF RegistryOK
<1>2. n \in Seq(ReceiptShape)
  BY <1>1, NewestType, Zenon
<1> HIDE DEF n
<1>3. h \in Registry /\ h.runs = g.runs /\ h.receipts = n /\ h.checkpoints = g.checkpoints
  BY <1>1, <1>2 DEF Registry
<1> HIDE DEF h
<1>4. RunsOK(h)
  BY <1>3 DEF RegistryOK, RunsOK
<1>5. \A i \in RunIds : Found(h, i) = Found(g, i) /\ RunOf(h, i) = RunOf(g, i)
  BY <1>3, SameRunsFound
<1>6. CheckpointsOK(h)
  BY <1>3, <1>5 DEF RegistryOK, CheckpointsOK
<1> QED
  BY <1>3, <1>4, <1>6 DEF RegistryOK, h, n

\* A run that was just started is put in front.
LEMMA OpenedOK ==
    ASSUME NEW g, RegistryOK(g), NEW run \in RunShape, RunOK(run),
           run.state \in {"waiting", "completed", "failed"},
           run.state = "waiting" /\ run.r12 => run.wait.scope # "runtime_tool"
    PROVE  /\ RegistryOK(Opened(g, run))
           /\ Opened(g, run).runs = Newest(run, g.runs, MaxRuns)
           /\ Opened(g, run).receipts = g.receipts
<1> DEFINE n == Newest(run, g.runs, MaxRuns)
           h == Opened(g, run)
           c == [version |-> run.version, tool |-> 0]
<1>1. /\ g \in Registry /\ RunsOK(g) /\ CheckpointsOK(g)
      /\ g.runs \in Seq(RunShape) /\ MaxRuns \in Nat \ {0}
  BY RegistryRuns, BoundAssumption DEF RegistryOK
<1>2. /\ n \in Seq(RunShape) /\ 1 \in DOMAIN n /\ n[1] = run
      /\ \A k \in DOMAIN n \ {1} : k - 1 \in DOMAIN g.runs /\ n[k] = g.runs[k - 1]
  <2> DEFINE s == g.runs
             T == RunShape
  <2>1. s \in Seq(T) /\ run \in T /\ MaxRuns \in Nat \ {0}
    BY <1>1
  <2> HIDE DEF s, T
  <2>2. /\ Newest(run, s, MaxRuns) \in Seq(T)
        /\ 1 \in DOMAIN Newest(run, s, MaxRuns) /\ Newest(run, s, MaxRuns)[1] = run
        /\ \A k \in DOMAIN Newest(run, s, MaxRuns) \ {1} :
              k - 1 \in DOMAIN s /\ Newest(run, s, MaxRuns)[k] = s[k - 1]
        /\ \A k \in DOMAIN Newest(run, s, MaxRuns) \ {1} :
              \A l \in 1 .. (k - 1) : l + 1 \in DOMAIN Newest(run, s, MaxRuns)
    BY <2>1, NewestType, Zenon
  <2> QED
    BY <2>2 DEF s, T
<1>3. c \in CheckpointShape
  BY DEF CheckpointShape, RunShape
<1>4. g.checkpoints \in [RunIds -> CheckpointShape \cup {NoCheckpoint}] /\ run.id \in RunIds
  BY <1>1 DEF Registry, RunShape
<1>5. /\ h.runs = n /\ h.enabled = g.enabled /\ h.receipts = g.receipts
      /\ h.checkpoints = IF run.r12 /\ run.state \notin Terminal
                         THEN [g.checkpoints EXCEPT ![run.id] = c] ELSE g.checkpoints
      /\ h = [g EXCEPT !.runs = n, !.checkpoints = h.checkpoints]
  <2> HIDE DEF n, c
  <2>1. h = [g EXCEPT !.runs = n, !.checkpoints = IF run.r12 /\ run.state \notin Terminal
                         THEN [g.checkpoints EXCEPT ![run.id] = c] ELSE g.checkpoints]
    BY DEF Opened, n, c
  <2> QED
    BY <1>1, <2>1 DEF Registry
<1> HIDE DEF n, h, c
<1>6. h.checkpoints \in [RunIds -> CheckpointShape \cup {NoCheckpoint}]
  BY <1>3, <1>4, <1>5
<1>7. h \in Registry
  BY <1>1, <1>2, <1>5, <1>6 DEF Registry
<1>8. RunsOK(h)
  BY <1>1, <1>2, <1>5 DEF RunsOK
<1>9. CheckpointsOK(h)
  <2> SUFFICES ASSUME NEW i \in RunIds, Found(h, i) # {}, RunOf(h, i).r12, RunOf(h, i).state = "waiting"
               PROVE  /\ h.checkpoints[i].version = RunOf(h, i).version
                      /\ RunOf(h, i).wait.scope = "runtime_tool" =>
                            h.checkpoints[i].tool = RunOf(h, i).rev
    BY DEF CheckpointsOK
  <2>1. h.runs = Newest(run, g.runs, MaxRuns)
    BY <1>5 DEF n
  <2>2. CASE run.id = i
    <3>1. RunOf(h, i) = run
      BY <1>1, <2>1, <2>2, RunOfNewest
    <3>2. h.checkpoints[i] = c
      BY <1>4, <1>5, <2>2, <3>1 DEF Terminal
    <3> QED
      BY <3>1, <3>2 DEF c
  <2>3. CASE run.id # i
    <3>1. Found(g, i) # {} /\ RunOf(h, i) = RunOf(g, i)
      BY <1>1, <2>1, <2>3, RunOfNewest
    <3>2. h.checkpoints[i] = g.checkpoints[i]
      BY <1>4, <1>5, <2>3
    <3> QED
      BY <1>1, <3>1, <3>2 DEF CheckpointsOK
  <2> QED
    BY <2>2, <2>3
<1> QED
  BY <1>5, <1>7, <1>8, <1>9 DEF RegistryOK, h, n

\* A run takes the place of its older self, whatever becomes of its checkpoint.
LEMMA ReplacedOK ==
    ASSUME NEW g, RegistryOK(g), NEW run \in RunShape, RunOK(run),
           NEW cp \in CheckpointShape \cup {NoCheckpoint},
           run.r12 /\ run.state = "waiting" =>
              /\ cp.version = run.version
              /\ run.wait.scope = "runtime_tool" => cp.tool = run.rev
    PROVE  RegistryOK([g EXCEPT !.runs = Replaced(@, run), !.checkpoints[run.id] = cp])
<1> DEFINE r == Replaced(g.runs, run)
           h == [g EXCEPT !.runs = r, !.checkpoints[run.id] = cp]
<1>1. /\ g \in Registry /\ RunsOK(g) /\ CheckpointsOK(g) /\ g.runs \in Seq(RunShape)
  BY RegistryRuns DEF RegistryOK
<1>2. /\ r \in Seq(RunShape) /\ DOMAIN r = DOMAIN g.runs
      /\ \A k \in DOMAIN g.runs : r[k] = IF g.runs[k].id = run.id THEN run ELSE g.runs[k]
  BY <1>1, ReplacedType, Zenon
<1>3. g.checkpoints \in [RunIds -> CheckpointShape \cup {NoCheckpoint}] /\ run.id \in RunIds
  BY <1>1 DEF Registry, RunShape
<1> HIDE DEF r
<1>4. /\ h.runs = r /\ h.checkpoints = [g.checkpoints EXCEPT ![run.id] = cp]
      /\ h \in Registry
  BY <1>1, <1>2, <1>3 DEF Registry
<1> HIDE DEF h
<1>5. RunsOK(h)
  BY <1>1, <1>2, <1>4 DEF RunsOK
<1>6. CheckpointsOK(h)
  <2> SUFFICES ASSUME NEW i \in RunIds, Found(h, i) # {}, RunOf(h, i).r12, RunOf(h, i).state = "waiting"
               PROVE  /\ h.checkpoints[i].version = RunOf(h, i).version
                      /\ RunOf(h, i).wait.scope = "runtime_tool" =>
                            h.checkpoints[i].tool = RunOf(h, i).rev
    BY DEF CheckpointsOK
  <2>1. h.runs = Replaced(g.runs, run)
    BY <1>4 DEF r
  <2>2. Found(g, i) # {} /\ RunOf(h, i) = IF run.id = i THEN run ELSE RunOf(g, i)
    BY <1>1, <2>1, RunOfReplaced
  <2>3. h.checkpoints[i] = IF run.id = i THEN cp ELSE g.checkpoints[i]
    BY <1>3, <1>4
  <2> QED
    BY <1>1, <2>2, <2>3 DEF CheckpointsOK
<1> QED
  BY <1>4, <1>5, <1>6 DEF RegistryOK, h, r

\* A run that is executed is changed in place.
LEMMA InPlaceOK ==
    ASSUME NEW g, RegistryOK(g), NEW run \in RunShape, RunOK(run), run.state = "running"
    PROVE  /\ RegistryOK([g EXCEPT !.runs = InPlace(g, run)])
           /\ [g EXCEPT !.runs = InPlace(g, run)].runs = InPlace(g, run)
           /\ [g EXCEPT !.runs = InPlace(g, run)].receipts = g.receipts
<1> DEFINE n == InPlace(g, run)
           h == [g EXCEPT !.runs = n]
<1>1. g \in Registry /\ RunsOK(g) /\ CheckpointsOK(g)
  BY DEF RegistryOK
<1> HIDE DEF n
<1>2. h.runs = n /\ h.checkpoints = g.checkpoints /\ h.receipts = g.receipts
  BY <1>1 DEF Registry
<1>3. h.runs = InPlace(g, run)
  BY <1>2 DEF n
<1>4. /\ h.runs \in Seq(RunShape) /\ DOMAIN h.runs = DOMAIN g.runs
      /\ \A k \in DOMAIN g.runs : h.runs[k] = run \/ h.runs[k] = g.runs[k]
  <2> HIDE DEF h
  <2> QED
    BY <1>1, <1>3, InPlaceType
<1>5. h \in Registry
  BY <1>1, <1>2, <1>4 DEF Registry
<1> HIDE DEF h
<1>6. RunsOK(h)
  BY <1>1, <1>4 DEF RunsOK
<1>7. CheckpointsOK(h)
  <2> SUFFICES ASSUME NEW i \in RunIds, Found(h, i) # {}, RunOf(h, i).r12, RunOf(h, i).state = "waiting"
               PROVE  /\ h.checkpoints[i].version = RunOf(h, i).version
                      /\ RunOf(h, i).wait.scope = "runtime_tool" =>
                            h.checkpoints[i].tool = RunOf(h, i).rev
    BY DEF CheckpointsOK
  <2>1. Found(g, i) # {} /\ RunOf(h, i) = IF run.id = i THEN run ELSE RunOf(g, i)
    BY <1>1, <1>3, RunOfInPlace
  <2> QED
    BY <1>1, <1>2, <2>1 DEF CheckpointsOK
<1> QED
  BY <1>2, <1>5, <1>6, <1>7 DEF RegistryOK, h, n

LEMMA UpdatedOK ==
    ASSUME NEW g, RegistryOK(g), NEW run \in RunShape, RunOK(run), NEW tool \in Nat,
           run.r12 /\ run.state = "waiting" /\ run.wait.scope = "runtime_tool" => tool = run.rev
    PROVE  /\ RegistryOK(Updated(g, run, tool))
           /\ Updated(g, run, tool).runs = Replaced(g.runs, run)
           /\ Updated(g, run, tool).receipts = g.receipts
<1> DEFINE cp == IF run.state \in Terminal THEN NoCheckpoint
                 ELSE [version |-> run.version, tool |-> tool]
           h == [g EXCEPT !.runs = Replaced(@, run), !.checkpoints[run.id] = cp]
<1>1. cp \in CheckpointShape \cup {NoCheckpoint}
  BY DEF CheckpointShape, RunShape
<1>2. run.r12 /\ run.state = "waiting" =>
        cp.version = run.version /\ (run.wait.scope = "runtime_tool" => cp.tool = run.rev)
  BY DEF Terminal
<1> HIDE DEF cp
<1>3. RegistryOK(h)
  BY <1>1, <1>2, ReplacedOK, Zenon
<1>4. h.runs = Replaced(g.runs, run) /\ h.receipts = g.receipts
  BY DEF RegistryOK, Registry
<1>5. Updated(g, run, tool) = h
  BY DEF Updated, cp
<1> QED
  BY <1>3, <1>4, <1>5

-----------------------------------------------------------------------------
(* The operations on one run.                                              *)

LEMMA StartedOK ==
    ASSUME births \in [RunIds -> Nat], NEW id \in RunIds, NEW v \in Versions,
           NEW r12 \in BOOLEAN, NEW x \in Started(id, v, r12)
    PROVE  /\ x \in RunShape /\ RunOK(x)
           /\ x.state \in {"waiting", "completed", "failed"}
           /\ x.state = "waiting" /\ x.r12 => x.wait.scope # "runtime_tool"
           /\ x.id = id /\ x.birth = births[id] + 1 /\ x.version = v
           /\ x.attempts = << >> /\ x.rev \in {0, 1}
<1> DEFINE flow == Flow[v]
           st == [k \in DOMAIN flow |-> "pending"]
           run == [id |-> id, birth |-> births[id] + 1, version |-> v, r12 |-> r12,
                   rev |-> IF r12 THEN 1 ELSE 0, state |-> "running",
                   steps |-> st, wait |-> NoWait, decided |-> {}, attempts |-> << >>]
<1>1. flow \in Seq(Kinds) /\ DOMAIN flow = 1 .. Len(flow) /\ Len(flow) \in Nat
  BY FlowType
<1> HIDE DEF flow
<1>2. st \in Seq(StepStates) /\ Len(st) = Len(flow) /\ DOMAIN st = DOMAIN flow
  <2>1. st = [k \in 1 .. Len(flow) |-> "pending"]
    BY <1>1
  <2>2. \A k \in 1 .. Len(flow) : "pending" \in StepStates
    BY DEF StepStates
  <2> QED
    BY <1>1, <2>1, <2>2
<1>3. \A k \in DOMAIN st : st[k] = "pending"
  OBVIOUS
<1> HIDE DEF st
<1>4. << >> \in Seq(AttemptShape)
  OBVIOUS
<1>5. run \in RunShape
  BY <1>2, <1>4, NoWaitType DEF RunShape, States
<1>6. /\ run.steps = st /\ run.version = v /\ run.id = id /\ run.attempts = << >>
      /\ run.birth = births[id] + 1 /\ run.rev \in {0, 1}
  OBVIOUS
<1>7. x \in Advanced(run, 1)
  BY DEF Started, flow, st
<1> HIDE DEF run
<1>8. Ready(run, 1)
  BY <1>1, <1>2, <1>3, <1>6 DEF Ready, FullLength, flow
<1>9. 1 \in Nat \ {0}
  OBVIOUS
<1>10. /\ x \in RunShape /\ RunOK(x)
       /\ x.state \in {"waiting", "completed", "failed"}
       /\ x.state = "waiting" /\ x.r12 => x.wait.scope # "runtime_tool"
       /\ SameRun(run, x)
  BY <1>5, <1>7, <1>8, <1>9, AdvancedOK, Zenon
<1> QED
  BY <1>6, <1>10 DEF SameRun

\* A decision changes the revision, the wait and the decisions of a run.
LEMMA DecidedShape ==
    ASSUME NEW run \in RunShape, NEW r \in Requests
    PROVE  /\ Decided(run, r) \in RunShape
           /\ Decided(run, r) = [run EXCEPT !.rev = run.rev + 1, !.wait = NoWait,
                                            !.decided = run.decided \cup {r}]
           /\ Decided(run, r).id = run.id /\ Decided(run, r).birth = run.birth
           /\ Decided(run, r).version = run.version /\ Decided(run, r).r12 = run.r12
           /\ Decided(run, r).steps = run.steps /\ Decided(run, r).rev = run.rev + 1
           /\ Decided(run, r).attempts = run.attempts /\ Decided(run, r).state = run.state
           /\ Decided(run, r).wait = NoWait
           /\ r \in Decided(run, r).decided
           /\ Decided(run, r).decided = run.decided \cup {r}
<1> DEFINE v == run.rev + 1
           ds == run.decided \cup {r}
           x == Decided(run, r)
<1>1. v \in Nat /\ ds \in SUBSET Requests /\ r \in ds
  BY DEF RunShape
<1>2. x = [run EXCEPT !.rev = v, !.wait = NoWait, !.decided = ds]
  BY DEF Decided
<1>3. x = [run EXCEPT !.rev = run.rev + 1, !.wait = NoWait, !.decided = run.decided \cup {r}]
  BY DEF Decided
<1> HIDE DEF ds, v, x
<1>4. x \in RunShape
  BY <1>1, <1>2, NoWaitType DEF RunShape
<1>5. /\ x.id = run.id /\ x.birth = run.birth
      /\ x.version = run.version /\ x.r12 = run.r12
      /\ x.steps = run.steps /\ x.rev = v
      /\ x.attempts = run.attempts /\ x.state = run.state
      /\ x.wait = NoWait /\ x.decided = ds
  BY <1>2 DEF RunShape
<1> QED
  BY <1>1, <1>3, <1>4, <1>5 DEF v, x, ds

\* The node that waits is done: the run is ready for the next one.
LEMMA NodeDone ==
    ASSUME NEW run \in RunShape, NEW n \in Nat, FullLength(run), StandsAt(run, n)
    PROVE  /\ [run EXCEPT !.steps = Marked(@, n, n, "completed")] \in RunShape
           /\ Ready([run EXCEPT !.steps = Marked(@, n, n, "completed")], n + 1)
           /\ SameRun(run, [run EXCEPT !.steps = Marked(@, n, n, "completed")])
<1> DEFINE m == Marked(run.steps, n, n, "completed")
           d == [run EXCEPT !.steps = m]
<1>1. /\ run.steps \in Seq(StepStates) /\ "completed" \in StepStates /\ n \in Int
      /\ DOMAIN run.steps = 1 .. Len(run.steps) /\ Len(run.steps) \in Nat
  BY DEF RunShape, StepStates
<1>2. /\ m \in Seq(StepStates) /\ Len(m) = Len(run.steps)
      /\ DOMAIN m = DOMAIN run.steps
      /\ \A k \in DOMAIN run.steps : m[k] = IF k \in n .. n THEN "completed" ELSE run.steps[k]
  BY <1>1, MarkedType
<1> HIDE DEF m
<1>3. d \in RunShape /\ d.steps = m /\ SameRun(run, d)
  BY <1>2 DEF RunShape, SameRun
<1>4. \A k \in DOMAIN m : m[k] = IF k < n + 1 THEN "completed" ELSE "pending"
  BY <1>1, <1>2 DEF StandsAt
<1> HIDE DEF d
<1>5. n + 1 \in 1 .. (Len(m) + 1)
  BY <1>1, <1>2 DEF StandsAt
<1>6. Ready(d, n + 1)
  BY <1>2, <1>3, <1>4, <1>5 DEF Ready, FullLength, SameRun
<1> QED
  BY <1>3, <1>6 DEF d, m

\* A decision that needs no agent.
DecidedRuns(run, r) ==
    {FailedAt(Decided(run, r), run.wait.node)}
        \cup Advanced([Decided(run, r) EXCEPT !.steps =
                         Marked(@, run.wait.node, run.wait.node, "completed")],
                      run.wait.node + 1)

LEMMA DecideOK ==
    ASSUME NEW run \in RunShape, RunOK(run), run.r12, run.state = "waiting",
           NEW r \in Requests,
           NEW x \in DecidedRuns(run, r)
    PROVE  /\ x \in RunShape /\ RunOK(x)
           /\ x.state \in {"waiting", "completed", "failed"}
           /\ x.state = "waiting" /\ x.r12 => x.wait.scope # "runtime_tool"
           /\ x.id = run.id /\ x.birth = run.birth /\ x.version = run.version
           /\ x.r12 = run.r12 /\ x.rev = run.rev + 1 /\ x.attempts = run.attempts
           /\ x.decided = Decided(run, r).decided
<1> DEFINE new == Decided(run, r)
           n == run.wait.node
<1>1. /\ new \in RunShape
      /\ new.id = run.id /\ new.birth = run.birth
      /\ new.version = run.version /\ new.r12 = run.r12
      /\ new.steps = run.steps /\ new.rev = run.rev + 1
      /\ new.attempts = run.attempts /\ new.decided = Decided(run, r).decided
  BY DecidedShape
<1> HIDE DEF new
<1>2. n \in Nat /\ StandsAt(run, n) /\ FullLength(run)
  BY DEF RunOK, WaitsWell, RunShape, WaitShape
<1>3. FullLength(new) /\ StandsAt(new, n)
  BY <1>1, <1>2 DEF FullLength, StandsAt
<1>4. CASE x = FailedAt(new, n)
  <2>1. \A k \in DOMAIN new.steps : k # n => new.steps[k] # "waiting"
    BY <1>3 DEF StandsAt
  <2>2. x \in RunShape /\ RunOK(x) /\ x.state = "failed" /\ SameRun(new, x)
    BY <1>1, <1>2, <1>3, <1>4, <2>1, FailedAtOK
  <2> QED
    BY <1>1, <2>2 DEF SameRun
<1>5. CASE x \in Advanced([new EXCEPT !.steps = Marked(@, n, n, "completed")], n + 1)
  <2> DEFINE d == [new EXCEPT !.steps = Marked(@, n, n, "completed")]
  <2>1. d \in RunShape /\ Ready(d, n + 1) /\ SameRun(new, d)
    BY <1>1, <1>2, <1>3, NodeDone
  <2> HIDE DEF d
  <2>2. n + 1 \in Nat \ {0} /\ x \in Advanced(d, n + 1)
    BY <1>2, <1>5 DEF d
  <2>3. /\ x \in RunShape /\ RunOK(x)
        /\ x.state \in {"waiting", "completed", "failed"}
        /\ x.state = "waiting" /\ x.r12 => x.wait.scope # "runtime_tool"
        /\ SameRun(d, x)
    BY <2>1, <2>2, AdvancedOK
  <2> QED
    BY <1>1, <2>1, <2>3 DEF SameRun
<1> QED
  BY <1>4, <1>5 DEF new, DecidedRuns

\* A decision that allows the agent to run, with its attempt.
GrantedRun(run, r) ==
    [Decided(run, r) EXCEPT
       !.state = "running",
       !.attempts = Append(@, [wait |-> run.wait, status |-> "unknown"])]

LEMMA WriteAheadOK ==
    ASSUME NEW run \in RunShape, RunOK(run), run.r12, run.state = "waiting",
           NEW r \in Requests, r.grant = TRUE, r.rev = run.rev,
           NEW x \in {GrantedRun(run, r)}
    PROVE  /\ x \in RunShape /\ RunOK(x)
           /\ x.state = "running"
           /\ x.id = run.id /\ x.birth = run.birth /\ x.version = run.version
           /\ x.r12 = run.r12 /\ x.rev = run.rev + 1
           /\ x.attempts = Append(run.attempts, [wait |-> run.wait, status |-> "unknown"])
           /\ x.decided = run.decided \cup {r}
<1> DEFINE new == Decided(run, r)
           a == [wait |-> run.wait, status |-> "unknown"]
           n == run.wait.node
<1>1. /\ new \in RunShape
      /\ new.id = run.id /\ new.birth = run.birth
      /\ new.version = run.version /\ new.r12 = run.r12
      /\ new.steps = run.steps /\ new.rev = run.rev + 1
      /\ new.attempts = run.attempts /\ new.wait = NoWait /\ r \in new.decided
      /\ new.decided = run.decided \cup {r}
  BY DecidedShape
<1> HIDE DEF new
<1>2. n \in Nat /\ StandsAt(run, n) /\ FullLength(run)
  BY DEF RunOK, WaitsWell, RunShape, WaitShape
<1>3. a \in AttemptShape /\ a.wait = run.wait /\ a.status = "unknown"
  BY DEF AttemptShape, RunShape
<1> HIDE DEF a
<1>4. run.attempts \in Seq(AttemptShape)
  BY DEF RunShape
<1>5. /\ Append(run.attempts, a) \in Seq(AttemptShape)
      /\ Append(run.attempts, a) # << >>
      /\ Append(run.attempts, a)[Len(Append(run.attempts, a))] = a
  BY <1>3, <1>4
<1>6. x = [new EXCEPT !.state = "running", !.attempts = Append(run.attempts, a)]
  BY <1>1 DEF new, a, GrantedRun
<1>7. /\ x \in RunShape /\ x.state = "running" /\ x.attempts = Append(run.attempts, a)
      /\ x.id = new.id /\ x.birth = new.birth /\ x.version = new.version
      /\ x.r12 = new.r12 /\ x.rev = new.rev /\ x.steps = new.steps
      /\ x.wait = new.wait /\ x.decided = new.decided
  BY <1>1, <1>5, <1>6 DEF RunShape, States
<1>8. LastAttempt(x) = a
  BY <1>5, <1>7 DEF LastAttempt
<1>9. IsMarkedUnknown(x)
  BY <1>1, <1>3, <1>5, <1>7, <1>8 DEF IsMarkedUnknown
<1>10. StandsAt(x, LastAttempt(x).wait.node)
  BY <1>1, <1>2, <1>3, <1>7, <1>8 DEF StandsAt
<1>11. FullLength(x)
  BY <1>1, <1>2, <1>7 DEF FullLength
<1>12. RunOK(x)
  BY <1>1, <1>7, <1>9, <1>10, <1>11 DEF RunOK, RunsWell, Terminal
<1> QED
  BY <1>1, <1>7, <1>12 DEF a

CancelledRun(run) ==
    [run EXCEPT
       !.state = "cancelled", !.wait = NoWait,
       !.rev = IF run.r12 THEN @ + 1 ELSE @,
       !.steps = [k \in DOMAIN @ |-> IF @[k] \in {"pending", "waiting"}
                                     THEN "cancelled" ELSE @[k]]]

LEMMA CancelledOK ==
    ASSUME NEW run \in RunShape, RunOK(run), NEW x, x = CancelledRun(run)
    PROVE  /\ x \in RunShape /\ RunOK(x)
           /\ x.state = "cancelled"
           /\ x.id = run.id /\ x.birth = run.birth /\ x.version = run.version
           /\ x.r12 = run.r12 /\ x.rev = (IF run.r12 THEN run.rev + 1 ELSE run.rev)
           /\ x.attempts = run.attempts /\ x.decided = run.decided
<1> DEFINE m == [k \in DOMAIN run.steps |-> IF run.steps[k] \in {"pending", "waiting"}
                                            THEN "cancelled" ELSE run.steps[k]]
           v == IF run.r12 THEN run.rev + 1 ELSE run.rev
<1>1. run.steps \in Seq(StepStates) /\ DOMAIN run.steps = 1 .. Len(run.steps)
  BY DEF RunShape
<1>2. /\ m \in Seq(StepStates) /\ Len(m) = Len(run.steps)
      /\ \A k \in DOMAIN m : m[k] # "waiting"
  <2>1. m = [k \in 1 .. Len(run.steps) |-> IF run.steps[k] \in {"pending", "waiting"}
                                            THEN "cancelled" ELSE run.steps[k]]
    BY <1>1
  <2>2. \A k \in 1 .. Len(run.steps) :
           (IF run.steps[k] \in {"pending", "waiting"} THEN "cancelled" ELSE run.steps[k])
              \in StepStates
    BY <1>1 DEF StepStates
  <2>3. m \in Seq(StepStates) /\ Len(m) = Len(run.steps)
    BY <1>1, <2>1, <2>2
  <2> QED
    BY <2>3
<1>3. v \in Nat
  BY DEF RunShape
<1>4. x = [run EXCEPT !.state = "cancelled", !.wait = NoWait, !.rev = v, !.steps = m]
  BY DEF CancelledRun
<1> HIDE DEF m, v
<1>5. /\ x \in RunShape /\ x.state = "cancelled" /\ x.wait = NoWait /\ x.rev = v
      /\ x.steps = m /\ x.id = run.id /\ x.birth = run.birth /\ x.version = run.version
      /\ x.r12 = run.r12 /\ x.attempts = run.attempts /\ x.decided = run.decided
  BY <1>2, <1>3, <1>4, NoWaitType DEF RunShape, States
<1>6. HasSettled(x) /\ FullLength(x)
  BY <1>2, <1>5 DEF HasSettled, FullLength, RunOK
<1>7. RunOK(x)
  BY <1>5, <1>6 DEF RunOK, Terminal
<1> QED
  BY <1>5, <1>7 DEF v

\* The outcomes of an execution.
LEMMA ConcludedShape ==
    ASSUME NEW run \in RunShape, run.attempts # << >>,
           NEW s \in {"unknown", "waiting", "completed", "failed"}
    PROVE  /\ Concluded(run, s) \in RunShape
           /\ Concluded(run, s).id = run.id /\ Concluded(run, s).birth = run.birth
           /\ Concluded(run, s).version = run.version /\ Concluded(run, s).r12 = run.r12
           /\ Concluded(run, s).steps = run.steps /\ Concluded(run, s).rev = run.rev
           /\ Concluded(run, s).decided = run.decided
           /\ SameWaits(run, Concluded(run, s))
<1> DEFINE n == Len(run.attempts)
           at == [run.attempts EXCEPT ![n].status = s]
           c == Concluded(run, s)
<1>1. run.attempts \in Seq(AttemptShape) /\ n \in Nat /\ n \in DOMAIN run.attempts
  BY DEF RunShape
<1>2. at \in Seq(AttemptShape) /\ DOMAIN at = DOMAIN run.attempts
  <2>1. DOMAIN at = 1 .. n
    BY <1>1
  <2>2. ASSUME NEW k \in 1 .. n
        PROVE  at[k] \in AttemptShape
    <3> DEFINE old == run.attempts[k]
    <3>1. old \in AttemptShape
      BY <1>1
    <3>2. at[k] = IF k = n THEN [old EXCEPT !.status = s] ELSE old
      BY <1>1
    <3> HIDE DEF old, at
    <3> QED
      BY <3>1, <3>2 DEF AttemptShape
  <2>3. at = [k \in 1 .. n |-> at[k]]
    BY <1>1
  <2> QED
    BY <1>1, <2>1, <2>2, <2>3
<1>3. \A k \in DOMAIN run.attempts : at[k].wait = run.attempts[k].wait
  BY <1>1 DEF AttemptShape
<1> HIDE DEF at
<1>4. c = [run EXCEPT !.attempts = at]
  BY DEF Concluded, at
<1> QED
  BY <1>2, <1>3, <1>4 DEF RunShape, SameWaits

LEMMA OutcomesOK ==
    ASSUME NEW run \in RunShape, RunOK(run), run.state = "running",
           NEW started \in BOOLEAN, NEW x \in Outcomes(run, started)
    PROVE  /\ x \in RunShape /\ RunOK(x)
           /\ x.state \in {"waiting", "completed", "failed"}
           /\ x.id = run.id /\ x.birth = run.birth /\ x.version = run.version
           /\ x.r12 = run.r12 /\ x.rev = run.rev /\ x.decided = run.decided
           /\ SameWaits(run, x)
<1> DEFINE w == LastAttempt(run).wait
           n == w.node
           asked == IF w.scope = "runtime_tool" THEN "completed" ELSE "waiting"
<1>1. FullLength(run) /\ run.attempts # << >> /\ StandsAt(run, n)
  BY DEF RunOK, RunsWell, IsMarkedUnknown
<1>2. n \in Nat
  <2>1. run.attempts \in Seq(AttemptShape) /\ Len(run.attempts) \in DOMAIN run.attempts
    BY <1>1 DEF RunShape
  <2>2. LastAttempt(run) \in AttemptShape
    BY <2>1 DEF LastAttempt
  <2> QED
    BY <2>2 DEF AttemptShape, WaitShape
<1> HIDE DEF n
<1>3. \/ \E s \in {"failed", "unknown"} : x = FailedAt(Concluded(run, s), n)
      \/ x = Parked(Concluded(run, asked), n, "runtime_tool")
      \/ x \in Advanced([Concluded(run, "completed") EXCEPT
                           !.steps = Marked(@, n, n, "completed")], n + 1)
  BY DEF Outcomes, n
<1>4. asked \in {"unknown", "waiting", "completed", "failed"}
  OBVIOUS
<1> HIDE DEF asked, w
<1>5. ASSUME NEW s \in {"unknown", "waiting", "completed", "failed"}, NEW c, c = Concluded(run, s)
      PROVE  /\ c \in RunShape
             /\ c.id = run.id /\ c.birth = run.birth
             /\ c.version = run.version /\ c.r12 = run.r12
             /\ c.steps = run.steps /\ c.rev = run.rev /\ c.decided = run.decided
             /\ SameWaits(run, c) /\ FullLength(c) /\ StandsAt(c, n)
  <2>1. /\ c \in RunShape
        /\ c.id = run.id /\ c.birth = run.birth
        /\ c.version = run.version /\ c.r12 = run.r12
        /\ c.steps = run.steps /\ c.rev = run.rev /\ c.decided = run.decided
        /\ SameWaits(run, c)
    BY <1>1, <1>5, ConcludedShape
  <2> QED
    BY <1>1, <2>1 DEF FullLength, StandsAt
<1>6. ASSUME NEW s \in {"failed", "unknown"}, x = FailedAt(Concluded(run, s), n)
      PROVE  /\ x \in RunShape /\ RunOK(x)
             /\ x.state \in {"waiting", "completed", "failed"}
             /\ \E c : SameWaits(run, c) /\ SameRun(c, x) /\ c.id = run.id /\ c.birth = run.birth
                       /\ c.version = run.version /\ c.r12 = run.r12 /\ c.rev = run.rev /\ c.decided = run.decided
  <2> DEFINE c == Concluded(run, s)
  <2>1. /\ c \in RunShape
        /\ c.id = run.id /\ c.birth = run.birth
        /\ c.version = run.version /\ c.r12 = run.r12
        /\ c.steps = run.steps /\ c.rev = run.rev /\ c.decided = run.decided
        /\ SameWaits(run, c) /\ FullLength(c) /\ StandsAt(c, n)
    BY <1>5
  <2> HIDE DEF c
  <2>2. \A k \in DOMAIN c.steps : k # n => c.steps[k] # "waiting"
    BY <2>1 DEF StandsAt
  <2>3. x = FailedAt(c, n)
    BY <1>6 DEF c
  <2>4. x \in RunShape /\ RunOK(x) /\ x.state = "failed" /\ SameRun(c, x)
    BY <1>2, <2>1, <2>2, <2>3, FailedAtOK
  <2> QED
    BY <2>1, <2>4
<1>7. ASSUME x = Parked(Concluded(run, asked), n, "runtime_tool")
      PROVE  /\ x \in RunShape /\ RunOK(x)
             /\ x.state \in {"waiting", "completed", "failed"}
             /\ \E c : SameWaits(run, c) /\ SameRun(c, x) /\ c.id = run.id /\ c.birth = run.birth
                       /\ c.version = run.version /\ c.r12 = run.r12 /\ c.rev = run.rev /\ c.decided = run.decided
  <2> DEFINE c == Concluded(run, asked)
             m == Marked(c.steps, n, n, "waiting")
             d == [c EXCEPT !.steps = Marked(@, n, n, "waiting")]
  <2>1. /\ c \in RunShape
        /\ c.id = run.id /\ c.birth = run.birth
        /\ c.version = run.version /\ c.r12 = run.r12
        /\ c.steps = run.steps /\ c.rev = run.rev /\ c.decided = run.decided
        /\ SameWaits(run, c) /\ FullLength(c) /\ StandsAt(c, n)
    BY <1>4, <1>5
  <2> HIDE DEF c
  <2>2. c.steps \in Seq(StepStates) /\ "waiting" \in StepStates /\ n \in Int
    BY <1>2, <2>1 DEF RunShape, StepStates
  <2>3. /\ DOMAIN m = DOMAIN c.steps
        /\ \A k \in DOMAIN c.steps : m[k] = IF k \in n .. n THEN "waiting" ELSE c.steps[k]
    <3> DEFINE steps == c.steps
    <3>1. steps \in Seq(StepStates)
      BY <2>2
    <3> HIDE DEF steps
    <3>2. /\ DOMAIN Marked(steps, n, n, "waiting") = DOMAIN steps
          /\ \A k \in DOMAIN steps :
                Marked(steps, n, n, "waiting")[k] = IF k \in n .. n THEN "waiting" ELSE steps[k]
      BY <2>2, <3>1, MarkedType
    <3> QED
      BY <3>2 DEF steps
  <2> HIDE DEF m
  <2>4. d.steps = m
    BY <2>1 DEF RunShape, m
  <2> HIDE DEF d
  <2>5. \A k \in DOMAIN c.steps : m[k] = c.steps[k]
    BY <1>2, <2>1, <2>2, <2>3 DEF StandsAt
  <2>6. StandsAt(d, n)
    BY <2>1, <2>3, <2>4, <2>5 DEF StandsAt
  <2>7. x = Parked(c, n, "runtime_tool") /\ "runtime_tool" \in Scopes
    BY <1>7 DEF c, Scopes
  <2>8. x \in RunShape /\ RunOK(x) /\ x.state = "waiting" /\ SameRun(c, x)
    BY <1>2, <2>1, <2>6, <2>7, ParkedOK DEF d
  <2> QED
    BY <2>1, <2>8
<1>8. ASSUME x \in Advanced([Concluded(run, "completed") EXCEPT
                               !.steps = Marked(@, n, n, "completed")], n + 1)
      PROVE  /\ x \in RunShape /\ RunOK(x)
             /\ x.state \in {"waiting", "completed", "failed"}
             /\ \E c : SameWaits(run, c) /\ SameRun(c, x) /\ c.id = run.id /\ c.birth = run.birth
                       /\ c.version = run.version /\ c.r12 = run.r12 /\ c.rev = run.rev /\ c.decided = run.decided
  <2> DEFINE c == Concluded(run, "completed")
             d == [c EXCEPT !.steps = Marked(@, n, n, "completed")]
  <2>1. /\ c \in RunShape
        /\ c.id = run.id /\ c.birth = run.birth
        /\ c.version = run.version /\ c.r12 = run.r12
        /\ c.steps = run.steps /\ c.rev = run.rev /\ c.decided = run.decided
        /\ SameWaits(run, c) /\ FullLength(c) /\ StandsAt(c, n)
    BY <1>5
  <2> HIDE DEF c
  <2>2. d \in RunShape /\ Ready(d, n + 1) /\ SameRun(c, d)
    BY <1>2, <2>1, NodeDone
  <2> HIDE DEF d
  <2>3. x \in Advanced(d, n + 1) /\ n + 1 \in Nat \ {0}
    BY <1>2, <1>8 DEF c, d
  <2>4. /\ x \in RunShape /\ RunOK(x)
        /\ x.state \in {"waiting", "completed", "failed"}
        /\ SameRun(d, x)
    BY <2>2, <2>3, AdvancedOK
  <2>5. SameRun(c, x)
    BY <2>2, <2>4 DEF SameRun
  <2> QED
    BY <2>1, <2>4, <2>5
<1>9. /\ x \in RunShape /\ RunOK(x)
      /\ x.state \in {"waiting", "completed", "failed"}
      /\ \E c : SameWaits(run, c) /\ SameRun(c, x) /\ c.id = run.id /\ c.birth = run.birth
                /\ c.version = run.version /\ c.r12 = run.r12 /\ c.rev = run.rev /\ c.decided = run.decided
  BY <1>3, <1>6, <1>7, <1>8
<1> QED
  BY <1>9 DEF SameRun, SameWaits

-----------------------------------------------------------------------------
(* The types, and the run that is being executed.                          *)

\* A process that has recorded an attempt holds the run it executes.
FlightOK(p) ==
    /\ pc[p] # "idle" => req[p] \in Requests
    /\ pc[p] \in InFlight =>
        /\ req[p].op = "decide"
        /\ Found(mem[p], req[p].run) # {}
        /\ RunOf(mem[p], req[p].run).state = "running"

FlightInv ==
    /\ TypeOK
    /\ RegistryOK(disk)
    /\ \A p \in Procs : RegistryOK(mem[p]) /\ FlightOK(p)

LEMMA RequestType ==
    ASSUME NEW r \in Requests
    PROVE  /\ r.version \in Versions /\ r.key \in Keys
           /\ r.op \in {"enable", "invoke", "retry", "cancel", "decide"}
           /\ r.op \in {"retry", "cancel", "decide"} => r.run \in RunIds
           /\ r.op \in {"cancel", "decide"} => r.rev \in Nat
           /\ r.op = "decide" => r.grant \in BOOLEAN
           /\ r.op \in {"invoke", "retry"} => r.new \in RunIds
           /\ r.op = "invoke" => r.r12 \in BOOLEAN
<1>1. r \in RequestShapes
  BY RequestAssumption
<1> QED
  BY <1>1 DEF RequestShapes

LEMMA EmptyOK == RegistryOK(EmptyRegistry)
<1> DEFINE e == EmptyRegistry
<1>1. << >> \in Seq(RunShape) /\ << >> \in Seq(ReceiptShape)
  OBVIOUS
<1>2. e \in Registry /\ e.runs = << >>
  BY <1>1 DEF EmptyRegistry, Registry
<1>3. \A i : Found(e, i) = {}
  BY <1>2 DEF Found
<1> HIDE DEF e
<1> QED
  BY <1>2, <1>3 DEF RegistryOK, RunsOK, CheckpointsOK, e

\* The run that a request names.
LEMMA NamedRun ==
    ASSUME NEW g, RegistryOK(g), NEW i, Found(g, i) # {}
    PROVE  RunOf(g, i) \in RunShape /\ RunOf(g, i).id = i /\ RunOK(RunOf(g, i))
<1>1. g \in Registry /\ g.runs \in Seq(RunShape) /\ RunsOK(g)
  BY RegistryRuns DEF RegistryOK
<1>2. PICK k \in Found(g, i) : RunOf(g, i) = g.runs[k]
  BY <1>1, RunOfIsFirst
<1> QED
  BY <1>1, <1>2, RunOfType DEF RunsOK, Found

\* A registry with a receipt is written, and the work is over.
LEMMA SaveKeeps ==
    ASSUME FlightInv, NEW p \in Procs, pc[p] # "idle",
           NEW g, RegistryOK(g), NEW answer \in Answers, Save(p, g, answer),
           births' \in [RunIds -> Nat],
           UNCHANGED <<published, lock, req, faults, lapses, dispatched, told>>
    PROVE  FlightInv'
<1> DEFINE receipt == [req |-> req[p], answer |-> answer]
           n == [g EXCEPT !.receipts = Newest(receipt, @, MaxReceipts)]
<1>1. req[p] \in Requests /\ RegistryOK(disk) /\ TypeOK
  BY DEF FlightInv, FlightOK
<1>2. receipt \in ReceiptShape
  BY <1>1 DEF ReceiptShape
<1> HIDE DEF receipt
<1>3. RegistryOK(n)
  BY <1>2, SavedOK
<1> HIDE DEF n
<1>4. /\ disk' = n /\ pc' = [pc EXCEPT ![p] = "done"]
      /\ mem' = [mem EXCEPT ![p] = EmptyRegistry]
      /\ reply' = [reply EXCEPT ![p] = receipt]
  BY DEF Save, Done, n, receipt
<1>5. n \in Registry /\ EmptyRegistry \in Registry
  BY <1>3, EmptyOK DEF RegistryOK
<1>6. TypeOK'
  <2> HIDE DEF FlightInv
  <2> QED
    BY <1>1, <1>2, <1>4, <1>5 DEF TypeOK, Inside
<1>7. RegistryOK(disk)'
  BY <1>3, <1>4
<1>8. ASSUME NEW q \in Procs
      PROVE  (RegistryOK(mem[q]) /\ FlightOK(q))'
  <2>1. CASE q = p
    <3>1. mem'[q] = EmptyRegistry /\ pc'[q] = "done" /\ req'[q] = req[p]
      BY <1>1, <1>4, <2>1 DEF TypeOK
    <3>2. RegistryOK(mem'[q])
      BY <3>1, EmptyOK
    <3> QED
      BY <1>1, <3>1, <3>2 DEF FlightOK, InFlight
  <2>2. CASE q # p
    <3>1. mem'[q] = mem[q] /\ pc'[q] = pc[q] /\ req'[q] = req[q]
      BY <1>1, <1>4, <2>2 DEF TypeOK
    <3> QED
      BY <3>1 DEF FlightInv, FlightOK
  <2> QED
    BY <2>1, <2>2
<1> QED
  BY <1>6, <1>7, <1>8 DEF FlightInv

\* The work is over and nothing was written.
LEMMA DoneKeeps ==
    ASSUME FlightInv, NEW p \in Procs, pc[p] # "idle",
           NEW receipt \in ReceiptShape \cup {NoReply}, Done(p, receipt),
           faults' \in Nat, faults' + lapses <= MaxFaults,
           UNCHANGED <<published, disk, lock, req, lapses, births, dispatched, told>>
    PROVE  FlightInv'
<1>1. req[p] \in Requests /\ TypeOK
  BY DEF FlightInv, FlightOK
<1>2. /\ pc' = [pc EXCEPT ![p] = "done"]
      /\ mem' = [mem EXCEPT ![p] = EmptyRegistry]
      /\ reply' = [reply EXCEPT ![p] = receipt]
  BY DEF Done
<1>3. EmptyRegistry \in Registry
  BY EmptyOK DEF RegistryOK
<1>4. TypeOK'
  <2> HIDE DEF FlightInv
  <2> QED
    BY <1>1, <1>2, <1>3 DEF TypeOK, Inside
<1>5. RegistryOK(disk)'
  BY DEF FlightInv
<1>6. ASSUME NEW q \in Procs
      PROVE  (RegistryOK(mem[q]) /\ FlightOK(q))'
  <2>1. CASE q = p
    <3>1. mem'[q] = EmptyRegistry /\ pc'[q] = "done" /\ req'[q] = req[p]
      BY <1>1, <1>2, <2>1 DEF TypeOK
    <3>2. RegistryOK(mem'[q])
      BY <3>1, EmptyOK
    <3> QED
      BY <1>1, <3>1, <3>2 DEF FlightOK, InFlight
  <2>2. CASE q # p
    <3>1. mem'[q] = mem[q] /\ pc'[q] = pc[q] /\ req'[q] = req[q]
      BY <1>1, <1>2, <2>2 DEF TypeOK
    <3> QED
      BY <3>1 DEF FlightInv, FlightOK
  <2> QED
    BY <2>1, <2>2
<1> QED
  BY <1>4, <1>5, <1>6 DEF FlightInv

\* The process ends.
LEMMA EndsKeeps ==
    ASSUME FlightInv, NEW p \in Procs, Ends(p),
           lock' \in Procs \cup {Free, Stale}, told' \subseteq ReceiptShape,
           faults' \in Nat, faults' + lapses <= MaxFaults,
           UNCHANGED <<published, disk, lapses, births, dispatched>>
    PROVE  FlightInv'
<1>1. TypeOK
  BY DEF FlightInv
<1>2. /\ pc' = [pc EXCEPT ![p] = "idle"]
      /\ req' = [req EXCEPT ![p] = Free]
      /\ mem' = [mem EXCEPT ![p] = EmptyRegistry]
      /\ reply' = [reply EXCEPT ![p] = NoReply]
  BY DEF Ends
<1>3. EmptyRegistry \in Registry
  BY EmptyOK DEF RegistryOK
<1>4. TypeOK'
  <2> HIDE DEF FlightInv
  <2> QED
    BY <1>1, <1>2, <1>3 DEF TypeOK
<1>5. RegistryOK(disk)'
  BY DEF FlightInv
<1>6. ASSUME NEW q \in Procs
      PROVE  (RegistryOK(mem[q]) /\ FlightOK(q))'
  <2>1. CASE q = p
    <3>1. mem'[q] = EmptyRegistry /\ pc'[q] = "idle"
      BY <1>1, <1>2, <2>1 DEF TypeOK
    <3>2. RegistryOK(mem'[q])
      BY <3>1, EmptyOK
    <3> QED
      BY <3>1, <3>2 DEF FlightOK, InFlight
  <2>2. CASE q # p
    <3>1. mem'[q] = mem[q] /\ pc'[q] = pc[q] /\ req'[q] = req[q]
      BY <1>1, <1>2, <2>2 DEF TypeOK
    <3> QED
      BY <3>1 DEF FlightInv, FlightOK
  <2> QED
    BY <2>1, <2>2
<1> QED
  BY <1>4, <1>5, <1>6 DEF FlightInv

\* The operations that write: each puts a well-formed run in its place.
LEMMA InvokeSaves ==
    ASSUME FlightInv, NEW p \in Procs, Invoke(p) \/ Retry(p)
    PROVE  \E run \in RunShape :
              /\ RunOK(run) /\ run.state \in {"waiting", "completed", "failed"}
              /\ run.state = "waiting" /\ run.r12 => run.wait.scope # "runtime_tool"
              /\ req[p] \in Requests /\ req[p].op \in {"invoke", "retry"}
              /\ run.id = req[p].new /\ run.birth = births[run.id] + 1 /\ run.attempts = << >>
              /\ run.rev \in {0, 1}
              /\ Save(p, Opened(mem[p], run), AnswerOf(run))
              /\ births' = [births EXCEPT ![run.id] = @ + 1]
<1>1. births \in [RunIds -> Nat] /\ RegistryOK(mem[p])
  BY DEF FlightInv, TypeOK
<1>2. req[p] \in Requests
  BY DEF FlightInv, FlightOK, Invoke, Retry
<1>3. CASE Invoke(p)
  <2>1. req[p].op = "invoke"
    BY <1>3 DEF Invoke, MayInvoke
  <2>2. PICK run \in Started(req[p].new, req[p].version, req[p].r12) :
           Save(p, Opened(mem[p], run), AnswerOf(run))
    BY <1>3 DEF Invoke
  <2>3. req[p].new \in RunIds /\ req[p].version \in Versions /\ req[p].r12 \in BOOLEAN
    BY <1>2, <2>1, RequestType
  <2>4. /\ run \in RunShape /\ RunOK(run)
        /\ run.state \in {"waiting", "completed", "failed"}
        /\ run.state = "waiting" /\ run.r12 => run.wait.scope # "runtime_tool"
        /\ run.id = req[p].new /\ run.birth = births[req[p].new] + 1
        /\ run.attempts = << >> /\ run.rev \in {0, 1}
    BY <1>1, <2>3, StartedOK
  <2>5. births' = [births EXCEPT ![req[p].new] = @ + 1]
    BY <1>3 DEF Invoke
  <2> QED
    BY <1>2, <2>1, <2>2, <2>4, <2>5
<1>4. CASE Retry(p)
  <2>1. req[p].op = "retry" /\ Found(mem[p], req[p].run) # {}
    BY <1>4 DEF Retry, MayRetry, Names
  <2>2. PICK run \in Started(req[p].new, req[p].version, RunOf(mem[p], req[p].run).r12) :
           Save(p, Opened(mem[p], run), AnswerOf(run))
    BY <1>4 DEF Retry
  <2>3. req[p].new \in RunIds /\ req[p].version \in Versions
    BY <1>2, <2>1, RequestType
  <2>4. RunOf(mem[p], req[p].run).r12 \in BOOLEAN
    BY <1>1, <2>1, NamedRun DEF RunShape
  <2>5. /\ run \in RunShape /\ RunOK(run)
        /\ run.state \in {"waiting", "completed", "failed"}
        /\ run.state = "waiting" /\ run.r12 => run.wait.scope # "runtime_tool"
        /\ run.id = req[p].new /\ run.birth = births[req[p].new] + 1
        /\ run.attempts = << >> /\ run.rev \in {0, 1}
    BY <1>1, <2>2, <2>3, <2>4, StartedOK
  <2>6. births' = [births EXCEPT ![req[p].new] = @ + 1]
    BY <1>4 DEF Retry
  <2> QED
    BY <1>2, <2>1, <2>2, <2>5, <2>6
<1> QED
  BY <1>3, <1>4

\* The run that an operation on an older run writes.
Writes(p, old, run, tool) ==
    /\ run \in RunShape /\ RunOK(run)
    /\ run.state \in {"waiting"} \cup Terminal
    /\ run.id = old.id /\ run.birth = old.birth /\ run.r12 = old.r12
    /\ tool \in Nat
    /\ run.state = "waiting" /\ run.r12 /\ run.wait.scope = "runtime_tool" => tool = run.rev
    /\ Save(p, Updated(mem[p], run, tool), AnswerOf(run))

LEMMA CancelWrites ==
    ASSUME FlightInv, NEW p \in Procs, Cancel(p)
    PROVE  /\ req[p] \in Requests /\ req[p].op = "cancel" /\ MayCancel(mem[p], req[p])
           /\ Found(mem[p], req[p].run) # {}
           /\ \E run : /\ Writes(p, RunOf(mem[p], req[p].run), run, 0)
                       /\ run.state = "cancelled"
                       /\ run.rev = (IF run.r12 THEN RunOf(mem[p], req[p].run).rev + 1
                                     ELSE RunOf(mem[p], req[p].run).rev)
                       /\ run.attempts = RunOf(mem[p], req[p].run).attempts
                       /\ run.decided = RunOf(mem[p], req[p].run).decided
<1> DEFINE old == RunOf(mem[p], req[p].run)
           x == CancelledRun(old)
<1>1. req[p] \in Requests /\ RegistryOK(mem[p])
  BY DEF FlightInv, FlightOK, Cancel
<1>2. /\ MayCancel(mem[p], req[p]) /\ req[p].op = "cancel"
      /\ Found(mem[p], req[p].run) # {}
  BY DEF Cancel, MayCancel, Names
<1>3. old \in RunShape /\ RunOK(old)
  BY <1>1, <1>2, NamedRun
<1>4. Save(p, Updated(mem[p], x, 0), AnswerOf(x))
  BY DEF Cancel, CancelledRun
<1> HIDE DEF old, x
<1>5. x = CancelledRun(old)
  BY DEF x
<1>6. /\ x \in RunShape /\ RunOK(x) /\ x.state = "cancelled"
      /\ x.id = old.id /\ x.birth = old.birth
      /\ x.r12 = old.r12 /\ x.rev = (IF old.r12 THEN old.rev + 1 ELSE old.rev)
      /\ x.attempts = old.attempts /\ x.decided = old.decided
  BY <1>3, <1>5, CancelledOK
<1>7. Writes(p, old, x, 0)
  BY <1>4, <1>6 DEF Writes, Terminal
<1> QED
  BY <1>1, <1>2, <1>6, <1>7 DEF old

LEMMA DecideWrites ==
    ASSUME FlightInv, NEW p \in Procs, Decide(p)
    PROVE  /\ req[p] \in Requests /\ req[p].op = "decide" /\ MayDecide(mem[p], req[p])
           /\ Found(mem[p], req[p].run) # {}
           /\ \E run : /\ Writes(p, RunOf(mem[p], req[p].run), run, 0)
                       /\ run.state \in {"waiting", "completed", "failed"}
                       /\ run.rev = RunOf(mem[p], req[p].run).rev + 1
                       /\ run.attempts = RunOf(mem[p], req[p].run).attempts
                       /\ run.decided = RunOf(mem[p], req[p].run).decided \cup {req[p]}
<1> DEFINE old == RunOf(mem[p], req[p].run)
           r == req[p]
<1>1. r \in Requests /\ RegistryOK(mem[p])
  BY DEF FlightInv, FlightOK, Decide
<1>2. /\ MayDecide(mem[p], r) /\ r.op = "decide"
      /\ Found(mem[p], r.run) # {} /\ old.r12 /\ old.state = "waiting"
  BY DEF Decide, MayDecide, Names
<1>3. old \in RunShape /\ RunOK(old)
  BY <1>1, <1>2, NamedRun
<1>4. PICK run :
        run \in DecidedRuns(old, r) /\ Save(p, Updated(mem[p], run, 0), AnswerOf(run))
  BY DEF Decide, DecidedRuns
<1> HIDE DEF old, r
<1>5. /\ run \in RunShape /\ RunOK(run)
      /\ run.state \in {"waiting", "completed", "failed"}
      /\ run.state = "waiting" /\ run.r12 => run.wait.scope # "runtime_tool"
      /\ run.id = old.id /\ run.birth = old.birth
      /\ run.r12 = old.r12 /\ run.rev = old.rev + 1 /\ run.attempts = old.attempts
      /\ run.decided = Decided(old, r).decided
  BY <1>1, <1>2, <1>3, <1>4, DecideOK
<1>6. Writes(p, old, run, 0)
  BY <1>4, <1>5 DEF Writes, Terminal
<1>7. run.decided = old.decided \cup {r}
  BY <1>1, <1>3, <1>5, DecidedShape
<1> QED
  BY <1>1, <1>2, <1>5, <1>6, <1>7 DEF old, r

LEMMA FinishWrites ==
    ASSUME FlightInv, NEW p \in Procs, Finish(p)
    PROVE  /\ pc[p] \in InFlight
           /\ req[p] \in Requests /\ req[p].op = "decide"
           /\ Found(mem[p], req[p].run) # {}
           /\ RunOf(mem[p], req[p].run).state = "running"
           /\ \E run, tool :
                 /\ Writes(p, RunOf(mem[p], req[p].run), run, tool)
                 /\ run.rev = RunOf(mem[p], req[p].run).rev
                 /\ run.decided = RunOf(mem[p], req[p].run).decided
                 /\ SameWaits(RunOf(mem[p], req[p].run), run)
<1> DEFINE old == RunOf(mem[p], req[p].run)
           started == pc[p] = "executing"
<1>1. pc[p] \in InFlight /\ req[p] \in Requests /\ RegistryOK(mem[p])
  BY DEF FlightInv, FlightOK, Finish, InFlight
<1>2. req[p].op = "decide" /\ Found(mem[p], req[p].run) # {} /\ old.state = "running"
  BY <1>1 DEF FlightInv, FlightOK
<1>3. old \in RunShape /\ RunOK(old)
  BY <1>1, <1>2, NamedRun
<1>4. PICK run \in Outcomes(old, started) :
        Save(p, Updated(mem[p], run, IF run.wait.scope = "runtime_tool" THEN run.rev ELSE 0),
             AnswerOf(run))
  BY DEF Finish
<1>5. started \in BOOLEAN
  OBVIOUS
<1> HIDE DEF old, started
<1>6. /\ run \in RunShape /\ RunOK(run)
      /\ run.state \in {"waiting", "completed", "failed"}
      /\ run.id = old.id /\ run.birth = old.birth
      /\ run.r12 = old.r12 /\ run.rev = old.rev /\ run.decided = old.decided
      /\ SameWaits(old, run)
  BY <1>2, <1>3, <1>4, <1>5, OutcomesOK
<1> DEFINE tool == IF run.wait.scope = "runtime_tool" THEN run.rev ELSE 0
<1>7. tool \in Nat
  BY <1>6 DEF RunShape
<1>8. Writes(p, old, run, tool)
  BY <1>4, <1>6, <1>7 DEF Writes, Terminal
<1> QED
  BY <1>1, <1>2, <1>6, <1>8 DEF old

LEMMA WritesKeeps ==
    ASSUME FlightInv, NEW p \in Procs, pc[p] # "idle", NEW old, NEW run, NEW tool,
           Writes(p, old, run, tool),
           UNCHANGED <<published, lock, req, faults, lapses, births, dispatched, told>>
    PROVE  FlightInv'
<1>1. /\ RegistryOK(mem[p]) /\ run \in RunShape /\ RunOK(run) /\ tool \in Nat
      /\ run.r12 /\ run.state = "waiting" /\ run.wait.scope = "runtime_tool" => tool = run.rev
  BY DEF FlightInv, Writes
<1>2. RegistryOK(Updated(mem[p], run, tool))
  BY <1>1, UpdatedOK
<1>3. births' \in [RunIds -> Nat] /\ AnswerOf(run) \in Answers
  BY <1>1, AnswerType DEF FlightInv, TypeOK
<1>4. Save(p, Updated(mem[p], run, tool), AnswerOf(run))
  BY DEF Writes
<1> QED
  BY <1>2, <1>3, <1>4, SaveKeeps, Zenon

\* An attempt is recorded: in the registry, and in the copy of the process.
LEMMA WriteAheadWrites ==
    ASSUME FlightInv, NEW p \in Procs, WriteAhead(p)
    PROVE  /\ req[p] \in Requests /\ req[p].op = "decide" /\ MayDecide(mem[p], req[p])
           /\ Found(mem[p], req[p].run) # {}
           /\ \E run \in RunShape :
                 /\ RunOK(run) /\ run.state = "running"
                 /\ run.id = req[p].run
                 /\ run.birth = RunOf(mem[p], req[p].run).birth
                 /\ run.r12 = RunOf(mem[p], req[p].run).r12
                 /\ run.rev = RunOf(mem[p], req[p].run).rev + 1
                 /\ run.attempts = Append(RunOf(mem[p], req[p].run).attempts,
                                          [wait |-> RunOf(mem[p], req[p].run).wait,
                                           status |-> "unknown"])
                 /\ run.decided = RunOf(mem[p], req[p].run).decided \cup {req[p]}
                 /\ RegistryOK(disk') /\ disk'.runs = InPlace(mem[p], run)
                 /\ disk'.receipts = mem[p].receipts
                 /\ mem' = [mem EXCEPT ![p] = disk']
<1> DEFINE g == mem[p]
           r == req[p]
           old == RunOf(g, r.run)
           run == GrantedRun(old, r)
<1>1. r \in Requests /\ RegistryOK(g)
  BY DEF FlightInv, FlightOK, WriteAhead
<1>2. /\ MayDecide(g, r) /\ r.op = "decide" /\ r.grant
      /\ Found(g, r.run) # {} /\ old.r12 /\ old.state = "waiting" /\ old.rev = r.rev
  BY DEF WriteAhead, MayDecide, Names
<1>3. old \in RunShape /\ RunOK(old) /\ old.id = r.run
  BY <1>1, <1>2, NamedRun
<1>4. disk' = [g EXCEPT !.runs = InPlace(g, run)] /\ mem' = [mem EXCEPT ![p] = disk']
  BY DEF WriteAhead, GrantedRun
<1>5. PICK x : x = run
  OBVIOUS
<1> HIDE DEF g, r, old
<1>6. /\ x \in RunShape /\ RunOK(x)
      /\ x.state = "running"
      /\ x.id = old.id /\ x.birth = old.birth
      /\ x.r12 = old.r12 /\ x.rev = old.rev + 1
      /\ x.attempts = Append(old.attempts, [wait |-> old.wait, status |-> "unknown"])
      /\ x.decided = old.decided \cup {r}
  <2>1. r.rev = old.rev /\ r.grant = TRUE /\ old.r12 /\ old.state = "waiting" /\ r \in Requests
    BY <1>1, <1>2, RequestType
  <2>2. old \in RunShape /\ RunOK(old) /\ x \in {GrantedRun(old, r)}
    BY <1>3, <1>5
  <2> HIDE DEF run
  <2> QED
    BY <2>1, <2>2, WriteAheadOK
<1> HIDE DEF run
<1>7. disk' = [g EXCEPT !.runs = InPlace(g, x)]
  BY <1>4, <1>5
<1>8. RegistryOK(disk') /\ disk'.runs = InPlace(g, x) /\ disk'.receipts = g.receipts
  BY <1>1, <1>6, <1>7, InPlaceOK
<1> QED
  BY <1>1, <1>2, <1>3, <1>4, <1>6, <1>8 DEF g, r, old

LEMMA FlightInit == Init => FlightInv
<1> SUFFICES ASSUME Init PROVE FlightInv
  OBVIOUS
<1>1. RegistryOK(EmptyRegistry) /\ EmptyRegistry \in Registry
  BY EmptyOK DEF RegistryOK
<1>2. MaxFaults \in Nat
  BY BoundAssumption
<1>3. << >> \in Seq([run: RunIds, birth: Nat, wait: WaitShape])
  OBVIOUS
<1>4. TypeOK
  BY <1>1, <1>2, <1>3 DEF Init, TypeOK
<1>5. RegistryOK(disk)
  BY <1>1 DEF Init
<1>6. ASSUME NEW p \in Procs PROVE RegistryOK(mem[p]) /\ FlightOK(p)
  <2>1. mem[p] = EmptyRegistry /\ pc[p] = "idle"
    BY DEF Init
  <2> QED
    BY <1>1, <2>1 DEF FlightOK, InFlight
<1> QED
  BY <1>4, <1>5, <1>6 DEF FlightInv

LEMMA FlightNext == FlightInv /\ [Next]_vars => FlightInv'
<1> SUFFICES ASSUME FlightInv, [Next]_vars PROVE FlightInv'
  OBVIOUS
<1>1. TypeOK /\ RegistryOK(disk) /\ \A p \in Procs : RegistryOK(mem[p]) /\ FlightOK(p)
  BY DEF FlightInv
<1>2. CASE UNCHANGED vars
  <2>1. TypeOK'
    BY <1>1, <1>2 DEF TypeOK, vars
  <2>2. RegistryOK(disk)' /\ \A p \in Procs : (RegistryOK(mem[p]) /\ FlightOK(p))'
    BY <1>1, <1>2 DEF vars, FlightOK
  <2> QED
    BY <2>1, <2>2 DEF FlightInv
<1>3. CASE Publish
  <2>1. TypeOK'
    BY <1>1, <1>3 DEF Publish, TypeOK
  <2>2. RegistryOK(disk)' /\ \A p \in Procs : (RegistryOK(mem[p]) /\ FlightOK(p))'
    BY <1>1, <1>3 DEF Publish, FlightOK
  <2> QED
    BY <2>1, <2>2 DEF FlightInv
<1>4. ASSUME NEW p \in Procs, NEW r \in Requests, Submit(p, r)
      PROVE  FlightInv'
  <2>1. TypeOK'
    BY <1>1, <1>4 DEF Submit, TypeOK
  <2>2. RegistryOK(disk)' /\ \A q \in Procs : (RegistryOK(mem[q]) /\ FlightOK(q))'
    BY <1>1, <1>4 DEF Submit, FlightOK, TypeOK, InFlight
  <2> QED
    BY <2>1, <2>2 DEF FlightInv
<1>5. ASSUME NEW p \in Procs, Acquire(p)
      PROVE  FlightInv'
  <2>1. disk \in Registry
    BY <1>1 DEF TypeOK
  <2>2. TypeOK'
    BY <1>1, <1>5, <2>1 DEF Acquire, TypeOK, Inside
  <2>3. RegistryOK(disk)'
    BY <1>1, <1>5 DEF Acquire
  <2>4. ASSUME NEW q \in Procs PROVE (RegistryOK(mem[q]) /\ FlightOK(q))'
    <3>1. CASE q = p
      <4>1. mem'[q] = disk /\ pc'[q] = "loaded" /\ req'[q] = req[p] /\ pc[p] = "locking"
        BY <1>1, <1>5, <3>1 DEF Acquire, TypeOK
      <4> QED
        BY <1>1, <4>1 DEF FlightOK, InFlight
    <3>2. CASE q # p
      <4>1. mem'[q] = mem[q] /\ pc'[q] = pc[q] /\ req'[q] = req[q]
        BY <1>1, <1>5, <3>2 DEF Acquire, TypeOK
      <4> QED
        BY <1>1, <4>1 DEF FlightOK
    <3> QED
      BY <3>1, <3>2
  <2> QED
    BY <2>2, <2>3, <2>4 DEF FlightInv
<1>6. ASSUME NEW p \in Procs, GiveUp(p) \/ Release(p) \/ Crash(p)
      PROVE  FlightInv'
  <2>1. lock' \in Procs \cup {Free, Stale}
    BY <1>1, <1>6 DEF GiveUp, Release, Crash, TypeOK
  <2>2. told' \subseteq ReceiptShape
    <3>1. reply[p] \in ReceiptShape \cup {NoReply} /\ told \subseteq ReceiptShape
      BY <1>1 DEF TypeOK
    <3> QED
      BY <1>6, <3>1 DEF GiveUp, Release, Crash
  <2>3. faults' \in Nat /\ faults' + lapses <= MaxFaults
    <3>1. faults \in Nat /\ lapses \in Nat /\ faults + lapses <= MaxFaults /\ MaxFaults \in Nat
      BY <1>1, BoundAssumption DEF TypeOK
    <3>2. faults' = faults \/ (faults + lapses < MaxFaults /\ faults' = faults + 1)
      BY <1>6 DEF GiveUp, Release, Crash
    <3> QED
      BY <3>1, <3>2
  <2>4. Ends(p) /\ UNCHANGED <<published, disk, lapses, births, dispatched>>
    BY <1>6 DEF GiveUp, Release, Crash
  <2> QED
    BY <2>1, <2>2, <2>3, <2>4, EndsKeeps
<1>7. ASSUME NEW p \in Procs, Replay(p) \/ Refuse(p) \/ WriteFails(p)
      PROVE  FlightInv'
  <2>1. PICK receipt \in ReceiptShape \cup {NoReply} : Done(p, receipt)
    <3>1. CASE Replay(p)
      <4>1. mem[p].receipts \in Seq(ReceiptShape)
        BY <1>1, RegistryRuns DEF RegistryOK
      <4>2. PICK k \in Prior(mem[p], req[p]) : Done(p, mem[p].receipts[k])
        BY <3>1 DEF Replay
      <4> QED
        BY <4>1, <4>2 DEF Prior
    <3>2. CASE Refuse(p) \/ WriteFails(p)
      BY <3>2 DEF Refuse, WriteFails
    <3> QED
      BY <1>7, <3>1, <3>2
  <2>2. faults' \in Nat /\ faults' + lapses <= MaxFaults
    <3>1. faults \in Nat /\ lapses \in Nat /\ faults + lapses <= MaxFaults /\ MaxFaults \in Nat
      BY <1>1, BoundAssumption DEF TypeOK
    <3>2. faults' = faults \/ (faults + lapses < MaxFaults /\ faults' = faults + 1)
      BY <1>7 DEF Replay, Refuse, WriteFails
    <3> QED
      BY <3>1, <3>2
  <2>3. /\ pc[p] # "idle"
        /\ UNCHANGED <<published, disk, lock, req, lapses, births, dispatched, told>>
    BY <1>7 DEF Replay, Refuse, WriteFails
  <2> QED
    BY <2>1, <2>2, <2>3, DoneKeeps
<1>8. ASSUME NEW p \in Procs, Lapse(p)
      PROVE  FlightInv'
  <2>1. /\ lapses' = lapses + 1 /\ faults + lapses < MaxFaults
        /\ UNCHANGED <<published, disk, pc, req, mem, reply, faults, births, dispatched, told>>
    BY <1>8 DEF Lapse
  <2>2. faults + lapses' <= MaxFaults /\ lapses' \in Nat
    BY <1>1, <2>1, BoundAssumption DEF TypeOK
  <2>3. TypeOK'
    BY <1>1, <1>8, <2>1, <2>2 DEF Lapse, TypeOK
  <2>4. RegistryOK(disk)' /\ \A q \in Procs : (RegistryOK(mem[q]) /\ FlightOK(q))'
    BY <1>1, <2>1 DEF FlightOK
  <2> QED
    BY <2>3, <2>4 DEF FlightInv
<1>9. ASSUME NEW p \in Procs, Enable(p)
      PROVE  FlightInv'
  <2> DEFINE g == [mem[p] EXCEPT !.enabled = req[p].version]
             answer == [run |-> Free, birth |-> 0, state |-> "enabled", rev |-> 0]
  <2>1. RegistryOK(mem[p]) /\ mem[p] \in Registry /\ pc[p] # "idle"
    BY <1>1, <1>9 DEF RegistryOK, Enable
  <2>2. req[p] \in Requests /\ req[p].version \in Versions
    BY <1>1, <2>1, RequestType DEF FlightOK
  <2>3. g \in Registry /\ g.runs = mem[p].runs /\ g.checkpoints = mem[p].checkpoints
    BY <2>1, <2>2 DEF Registry
  <2>4. answer \in Answers
    BY DEF Answers
  <2>5. Save(p, g, answer)
    BY <1>9 DEF Enable
  <2>6. births' \in [RunIds -> Nat] /\ UNCHANGED <<published, lock, req, faults, lapses, dispatched, told>>
    BY <1>1, <1>9 DEF Enable, TypeOK
  <2> HIDE DEF g, answer
  <2>7. RunsOK(g)
    BY <2>1, <2>3 DEF RegistryOK, RunsOK
  <2>8. \A i \in RunIds : Found(g, i) = Found(mem[p], i) /\ RunOf(g, i) = RunOf(mem[p], i)
    BY <2>3, SameRunsFound
  <2>9. CheckpointsOK(g)
    BY <2>1, <2>3, <2>8 DEF RegistryOK, CheckpointsOK
  <2>10. RegistryOK(g)
    BY <2>3, <2>7, <2>9 DEF RegistryOK
  <2> QED
    BY <2>1, <2>4, <2>5, <2>6, <2>10, SaveKeeps
<1>10. ASSUME NEW p \in Procs, Invoke(p) \/ Retry(p)
       PROVE  FlightInv'
  <2>1. PICK run \in RunShape :
              /\ RunOK(run) /\ run.state \in {"waiting", "completed", "failed"}
              /\ run.state = "waiting" /\ run.r12 => run.wait.scope # "runtime_tool"
              /\ Save(p, Opened(mem[p], run), AnswerOf(run))
              /\ births' = [births EXCEPT ![run.id] = @ + 1]
    BY <1>10, InvokeSaves
  <2>2. RegistryOK(mem[p]) /\ pc[p] # "idle"
    BY <1>1, <1>10 DEF Invoke, Retry
  <2>3. RegistryOK(Opened(mem[p], run))
    BY <2>1, <2>2, OpenedOK
  <2>4. births' \in [RunIds -> Nat]
    <3> DEFINE i == run.id
    <3>1. births \in [RunIds -> Nat] /\ i \in RunIds
      BY <1>1 DEF TypeOK, RunShape
    <3>2. births' = [births EXCEPT ![i] = @ + 1]
      BY <2>1
    <3> HIDE DEF i
    <3> QED
      BY <3>1, <3>2
  <2>5. UNCHANGED <<published, lock, req, faults, lapses, dispatched, told>>
    BY <1>10 DEF Invoke, Retry
  <2>6. AnswerOf(run) \in Answers
    BY AnswerType
  <2> QED
    BY <2>1, <2>2, <2>3, <2>4, <2>5, <2>6, SaveKeeps
<1>11. ASSUME NEW p \in Procs, Cancel(p) \/ Decide(p) \/ Finish(p)
       PROVE  FlightInv'
  <2>1. PICK run, tool : Writes(p, RunOf(mem[p], req[p].run), run, tool)
    BY <1>11, CancelWrites, DecideWrites, FinishWrites
  <2>2. /\ pc[p] # "idle"
        /\ UNCHANGED <<published, lock, req, faults, lapses, births, dispatched, told>>
    BY <1>11 DEF Cancel, Decide, Finish
  <2> QED
    BY <2>1, <2>2, WritesKeeps
<1>12. ASSUME NEW p \in Procs, WriteAhead(p)
       PROVE  FlightInv'
  <2>1. PICK run \in RunShape :
                 /\ run.state = "running" /\ run.id = req[p].run
                 /\ RegistryOK(disk') /\ disk'.runs = InPlace(mem[p], run)
                 /\ mem' = [mem EXCEPT ![p] = disk']
    BY <1>12, WriteAheadWrites
  <2>2. /\ req[p] \in Requests /\ req[p].op = "decide"
        /\ Found(mem[p], req[p].run) # {} /\ mem[p] \in Registry
    BY <1>1, <1>12, WriteAheadWrites DEF RegistryOK
  <2>3. /\ Found(disk', req[p].run) = Found(mem[p], req[p].run)
        /\ RunOf(disk', req[p].run) = run
    <3> DEFINE i == req[p].run
    <3>1. disk'.runs = InPlace(mem[p], run) /\ run.id = i /\ Found(mem[p], i) # {}
      BY <2>1, <2>2
    <3> HIDE DEF i
    <3>2. Found(disk', i) = Found(mem[p], i) /\ RunOf(disk', i) = run
      BY <2>2, <3>1, RunOfInPlace
    <3> QED
      BY <3>2 DEF i
  <2>4. /\ pc' = [pc EXCEPT ![p] = "granted"] /\ req' = req
        /\ UNCHANGED <<published, lock, reply, faults, lapses, births, dispatched, told>>
    BY <1>12 DEF WriteAhead
  <2>5. disk' \in Registry
    BY <2>1 DEF RegistryOK
  <2>6. TypeOK'
    BY <1>1, <2>1, <2>4, <2>5 DEF TypeOK, Inside
  <2>7. ASSUME NEW q \in Procs PROVE (RegistryOK(mem[q]) /\ FlightOK(q))'
    <3>1. CASE q = p
      <4>1. mem'[q] = disk' /\ pc'[q] = "granted" /\ req'[q] = req[p]
        BY <1>1, <2>1, <2>4, <3>1 DEF TypeOK
      <4>2. FlightOK(q)'
        BY <2>1, <2>2, <2>3, <4>1 DEF FlightOK
      <4> QED
        BY <2>1, <4>1, <4>2
    <3>2. CASE q # p
      <4>1. mem'[q] = mem[q] /\ pc'[q] = pc[q] /\ req'[q] = req[q]
        BY <1>1, <2>1, <2>4, <3>2 DEF TypeOK
      <4> QED
        BY <1>1, <4>1 DEF FlightOK
    <3> QED
      BY <3>1, <3>2
  <2> QED
    BY <2>1, <2>6, <2>7 DEF FlightInv
<1>13. ASSUME NEW p \in Procs, Dispatch(p)
       PROVE  FlightInv'
  <2> DEFINE run == RunOf(mem[p], req[p].run)
             d == [run |-> run.id, birth |-> run.birth, wait |-> LastAttempt(run).wait]
  <2>1. /\ pc[p] \in InFlight /\ pc' = [pc EXCEPT ![p] = "executing"]
        /\ dispatched' = Append(dispatched, d)
        /\ UNCHANGED <<published, disk, lock, req, mem, reply, faults, lapses, births, told>>
    BY <1>13 DEF Dispatch, InFlight
  <2>2. Found(mem[p], req[p].run) # {} /\ run.state = "running"
    BY <1>1, <2>1 DEF FlightOK
  <2>3. run \in RunShape /\ RunOK(run)
    BY <1>1, <2>2, NamedRun
  <2> HIDE DEF run
  <2>4. LastAttempt(run) \in AttemptShape
    BY <2>2, <2>3 DEF RunOK, RunsWell, IsMarkedUnknown, RunShape, LastAttempt
  <2>5. d \in [run: RunIds, birth: Nat, wait: WaitShape]
    BY <2>3, <2>4 DEF RunShape, AttemptShape
  <2> HIDE DEF d
  <2>6. TypeOK'
    BY <1>1, <2>1, <2>5 DEF TypeOK, Inside
  <2>7. RegistryOK(disk)' /\ \A q \in Procs : RegistryOK(mem[q])'
    BY <1>1, <2>1
  <2>8. ASSUME NEW q \in Procs PROVE FlightOK(q)'
    <3>1. mem'[q] = mem[q] /\ req'[q] = req[q] /\ (pc'[q] = pc[q] \/ (q = p /\ pc[q] # "idle"))
      BY <1>1, <2>1 DEF TypeOK, InFlight
    <3> QED
      BY <1>1, <2>1, <3>1 DEF FlightOK
  <2> QED
    BY <2>6, <2>7, <2>8 DEF FlightInv
<1> QED
  <2>1. Next =>
          \/ Publish
          \/ \E p \in Procs :
               \/ \E r \in Requests : Submit(p, r)
               \/ Acquire(p)
               \/ GiveUp(p) \/ Release(p) \/ Crash(p)
               \/ Replay(p) \/ Refuse(p) \/ WriteFails(p)
               \/ Lapse(p) \/ Enable(p)
               \/ Invoke(p) \/ Retry(p)
               \/ Cancel(p) \/ Decide(p) \/ Finish(p)
               \/ WriteAhead(p) \/ Dispatch(p)
    BY DEF Next, Serve
  <2> QED
    BY <1>2, <1>3, <1>4, <1>5, <1>6, <1>7, <1>8, <1>9, <1>10, <1>11, <1>12, <1>13, <2>1

LEMMA FlightIsInvariant == Spec => []FlightInv
<1>1. Init => FlightInv
  BY FlightInit
<1>2. FlightInv /\ [Next]_vars => FlightInv'
  BY FlightNext
<1> QED
  BY <1>1, <1>2, PTL DEF Spec

\* The variables have their types: a registry that is written is always one
\* that can be loaded.
THEOREM TypeCorrect == Spec => []TypeOK
<1>1. FlightInv => TypeOK
  BY DEF FlightInv
<1> QED
  BY <1>1, FlightIsInvariant, PTL

\* The registry on disk describes runs that can go on, runs of unknown outcome
\* and runs that have settled, whatever fails and whoever loses its lock.
THEOREM Coherent == Spec => []RegistryIsCoherent
<1>1. FlightInv => RegistryIsCoherent
  <2> SUFFICES ASSUME FlightInv, NEW i \in RunIds, Found(disk, i) # {}
               PROVE  LET run == RunOf(disk, i)
                      IN  /\ run.r12 /\ run.state = "waiting" => CanBeResumed(run)
                          /\ run.state = "running" => IsMarkedUnknown(run)
                          /\ run.state \in Terminal => HasSettled(run)
    BY DEF RegistryIsCoherent
  <2> DEFINE run == RunOf(disk, i)
  <2>1. RegistryOK(disk)
    BY DEF FlightInv
  <2>2. RunOK(run) /\ run.id = i
    BY <2>1, NamedRun
  <2>3. ASSUME run.r12, run.state = "waiting"
        PROVE  CanBeResumed(run)
    <3>1. WaitsWell(run)
      BY <2>2, <2>3 DEF RunOK
    <3>2. /\ disk.checkpoints[i].version = run.version
          /\ run.wait.scope = "runtime_tool" => disk.checkpoints[i].tool = run.rev
      BY <2>1, <2>3 DEF RegistryOK, CheckpointsOK
    <3> HIDE DEF run
    <3> QED
      BY <2>2, <3>1, <3>2 DEF CanBeResumed, WaitsWell, StandsAt
  <2> QED
    BY <2>2, <2>3 DEF RunOK, RunsWell
<1> QED
  BY <1>1, FlightIsInvariant, PTL

-----------------------------------------------------------------------------
(* While no live process has lost its lock: one process at a time works on *)
(* the registry, and no wait it takes up was ever dispatched before.       *)

Owns(p) == pc[p] \in Inside => lock = p

Copies(p) == pc[p] \in {"loaded", "granted", "executing"} => mem[p] = disk

\* The execution that is about to be handed over is for a wait newer than any
\* that was handed over before.
Grants(p) ==
    pc[p] = "granted" =>
        LET run == RunOf(disk, req[p].run)
        IN  /\ LastAttempt(run).wait.rev < run.rev
            /\ \A n \in DOMAIN dispatched :
                  dispatched[n].run = run.id /\ dispatched[n].birth = run.birth =>
                      dispatched[n].wait.rev < LastAttempt(run).wait.rev

Born == \A i \in RunIds : Found(disk, i) # {} => RunOf(disk, i).birth <= births[i]

\* A run on disk that was executed has gone past the wait, and records it.
PastWait(run, wait) ==
    /\ wait.rev < run.rev
    /\ \E a \in DOMAIN run.attempts : run.attempts[a].wait = wait

Records(d) ==
    /\ d.birth <= births[d.run]
    /\ Found(disk, d.run) # {} /\ RunOf(disk, d.run).birth = d.birth =>
          PastWait(RunOf(disk, d.run), d.wait)

Recorded == \A n \in DOMAIN dispatched : Records(dispatched[n])

Distinct == \A i, j \in DOMAIN dispatched : dispatched[i] = dispatched[j] => i = j

Once ==
    /\ \A p \in Procs : Owns(p) /\ Copies(p) /\ Grants(p)
    /\ Born /\ Recorded /\ Distinct

OnceInv == lapses = 0 => Once

LEMMA DispatchedType ==
    ASSUME TypeOK, NEW n \in DOMAIN dispatched
    PROVE  /\ dispatched[n].run \in RunIds /\ dispatched[n].birth \in Nat
           /\ dispatched[n].wait.rev \in Nat
<1> DEFINE D == [run: RunIds, birth: Nat, wait: WaitShape]
           d == dispatched[n]
<1>1. dispatched \in Seq(D)
  BY DEF TypeOK
<1> HIDE DEF D
<1>2. d \in D
  BY <1>1
<1> HIDE DEF d
<1>3. d.run \in RunIds /\ d.birth \in Nat /\ d.wait.rev \in Nat
  BY <1>2 DEF D, WaitShape
<1> QED
  BY <1>3 DEF d

\* Only one process is inside.
LEMMA Alone ==
    ASSUME Once, NEW p \in Procs, pc[p] \in Inside, NEW q \in Procs, q # p
    PROVE  pc[q] \notin Inside
BY DEF Once, Owns

\* A run is opened under a birth of its own.
LEMMA OpenRecords ==
    ASSUME FlightInv, Born, Recorded, NEW run \in RunShape,
           run.birth = births[run.id] + 1,
           births' = [births EXCEPT ![run.id] = @ + 1],
           disk'.runs = Newest(run, disk.runs, MaxRuns), dispatched' = dispatched
    PROVE  Born' /\ Recorded'
<1>1. births \in [RunIds -> Nat] /\ run.id \in RunIds /\ disk \in Registry /\ TypeOK
  BY DEF FlightInv, TypeOK, RunShape
<1>2. births'[run.id] = births[run.id] + 1
  BY <1>1
<1>3. ASSUME NEW i \in RunIds
      PROVE  /\ births[i] <= births'[i] /\ births[i] \in Nat /\ births'[i] \in Nat
             /\ i # run.id => births'[i] = births[i]
  BY <1>1
<1>4. ASSUME NEW i \in RunIds, Found(disk', i) # {}
      PROVE  /\ run.id = i => RunOf(disk', i) = run
             /\ run.id # i => Found(disk, i) # {} /\ RunOf(disk', i) = RunOf(disk, i)
  BY <1>1, <1>4, RunOfNewest
<1>5. Born'
  <2> SUFFICES ASSUME NEW i \in RunIds, Found(disk', i) # {}
               PROVE  RunOf(disk', i).birth <= births'[i]
    BY DEF Born
  <2>1. CASE run.id = i
    BY <1>1, <1>2, <1>3, <1>4, <2>1
  <2>2. CASE run.id # i
    BY <1>3, <1>4, <2>2 DEF Born
  <2> QED
    BY <2>1, <2>2
<1>6. ASSUME NEW n \in DOMAIN dispatched
      PROVE  Records(dispatched[n])'
  <2> DEFINE d == dispatched[n]
  <2>1. d.run \in RunIds /\ d.birth \in Nat
    BY <1>1, DispatchedType
  <2>2. /\ d.birth <= births[d.run]
        /\ Found(disk, d.run) # {} /\ RunOf(disk, d.run).birth = d.birth =>
              PastWait(RunOf(disk, d.run), d.wait)
    BY DEF Recorded, Records
  <2>3. d' = d
    OBVIOUS
  <2> HIDE DEF d
  <2>4. d.birth <= births'[d.run]
    BY <1>3, <2>1, <2>2
  <2>5. ASSUME Found(disk', d.run) # {}, RunOf(disk', d.run).birth = d.birth
        PROVE  PastWait(RunOf(disk', d.run), d.wait)
    <3>1. run.id # d.run
      BY <1>3, <1>4, <2>1, <2>2, <2>5
    <3> QED
      BY <1>4, <2>1, <2>2, <2>5, <3>1
  <2> QED
    BY <2>3, <2>4, <2>5 DEF Records, d
<1> QED
  BY <1>5, <1>6 DEF Recorded

\* The runs on disk are what they were, but for this one.
Rewritten(run) ==
    \A i \in RunIds :
        /\ Found(disk', i) = Found(disk, i)
        /\ Found(disk, i) # {} =>
              RunOf(disk', i) = IF run.id = i THEN run ELSE RunOf(disk, i)

\* A run that takes the place of its older self keeps what it records.
LEMMA RewriteRecords ==
    ASSUME FlightInv, Born, Recorded, NEW run \in RunShape,
           Found(disk, run.id) # {}, run.birth = RunOf(disk, run.id).birth,
           RunOf(disk, run.id).rev <= run.rev,
           \A a \in DOMAIN RunOf(disk, run.id).attempts :
              \E b \in DOMAIN run.attempts :
                 run.attempts[b].wait = RunOf(disk, run.id).attempts[a].wait,
           Rewritten(run), births' = births, dispatched' = dispatched
    PROVE  Born' /\ Recorded'
<1> DEFINE old == RunOf(disk, run.id)
<1>1. run.id \in RunIds /\ disk \in Registry /\ TypeOK
  BY DEF FlightInv, TypeOK, RunShape
<1>2. old \in RunShape
  BY <1>1, RegistryRuns, RunOfType
<1>3. \A a \in DOMAIN old.attempts : \E b \in DOMAIN run.attempts :
         run.attempts[b].wait = old.attempts[a].wait
  OBVIOUS
<1>4. run.birth = old.birth /\ old.rev <= run.rev /\ old.rev \in Nat /\ run.rev \in Nat
  BY <1>2 DEF RunShape
<1>5. Born'
  BY <1>1 DEF Born, Rewritten
<1>6. ASSUME NEW n \in DOMAIN dispatched
      PROVE  Records(dispatched[n])'
  <2> DEFINE d == dispatched[n]
  <2>1. d.run \in RunIds /\ d.birth \in Nat /\ d.wait.rev \in Nat
    BY <1>1, DispatchedType
  <2>2. /\ d.birth <= births[d.run]
        /\ Found(disk, d.run) # {} /\ RunOf(disk, d.run).birth = d.birth =>
              PastWait(RunOf(disk, d.run), d.wait)
    BY DEF Recorded, Records
  <2>3. d' = d
    OBVIOUS
  <2> HIDE DEF d
  <2>4. ASSUME Found(disk', d.run) # {}, RunOf(disk', d.run).birth = d.birth
        PROVE  PastWait(RunOf(disk', d.run), d.wait)
    <3>1. CASE run.id = d.run
      <4>1. RunOf(disk', d.run) = run /\ old.birth = d.birth
        BY <1>1, <1>4, <2>4, <3>1 DEF Rewritten
      <4>2. PastWait(old, d.wait)
        BY <2>2, <3>1, <4>1
      <4>3. d.wait.rev < run.rev
        BY <1>4, <2>1, <4>2 DEF PastWait
      <4> HIDE DEF old
      <4>4. \E b \in DOMAIN run.attempts : run.attempts[b].wait = d.wait
        BY <1>3, <4>2 DEF PastWait
      <4> QED
        BY <4>1, <4>3, <4>4 DEF PastWait
    <3>2. CASE run.id # d.run
      <4>1. Found(disk, d.run) # {} /\ RunOf(disk', d.run) = RunOf(disk, d.run)
        BY <2>1, <2>4, <3>2 DEF Rewritten
      <4> QED
        BY <2>2, <2>4, <4>1
    <3> QED
      BY <3>1, <3>2
  <2> QED
    BY <2>2, <2>3, <2>4 DEF Records, d
<1> QED
  BY <1>5, <1>6 DEF Recorded

LEMMA SameRunsRecord ==
    ASSUME Born, Recorded, disk'.runs = disk.runs, births' = births, dispatched' = dispatched
    PROVE  Born' /\ Recorded'
<1>1. \A i : Found(disk', i) = Found(disk, i) /\ RunOf(disk', i) = RunOf(disk, i)
  BY SameRunsFound
<1> QED
  BY <1>1 DEF Born, Recorded, Records

\* What a step of the owner of the lock does to the runs on disk.
Opens ==
    \E run \in RunShape :
        /\ run.birth = births[run.id] + 1
        /\ births' = [births EXCEPT ![run.id] = @ + 1]
        /\ disk'.runs = Newest(run, disk.runs, MaxRuns)

Rewrites(p) ==
    \E run \in RunShape :
        /\ run.id = req[p].run
        /\ Found(disk, run.id) # {}
        /\ RunOf(disk, run.id).state = "waiting" \/ pc[p] \in InFlight
        /\ run.birth = RunOf(disk, run.id).birth
        /\ RunOf(disk, run.id).rev <= run.rev
        /\ \A a \in DOMAIN RunOf(disk, run.id).attempts :
              \E b \in DOMAIN run.attempts :
                 run.attempts[b].wait = RunOf(disk, run.id).attempts[a].wait
        /\ Rewritten(run)
        /\ births' = births

LEMMA SavedRuns ==
    ASSUME NEW p \in Procs, NEW g, RegistryOK(g), NEW answer \in Answers,
           req[p] \in Requests, Save(p, g, answer)
    PROVE  /\ disk'.runs = g.runs /\ pc' = [pc EXCEPT ![p] = "done"]
           /\ mem' = [mem EXCEPT ![p] = EmptyRegistry]
           /\ disk'.receipts = Newest([req |-> req[p], answer |-> answer], g.receipts, MaxReceipts)
           /\ reply' = [reply EXCEPT ![p] = [req |-> req[p], answer |-> answer]]
<1> DEFINE receipt == [req |-> req[p], answer |-> answer]
<1>1. receipt \in ReceiptShape
  BY DEF ReceiptShape
<1>2. /\ [g EXCEPT !.receipts = Newest(receipt, @, MaxReceipts)].runs = g.runs
      /\ [g EXCEPT !.receipts = Newest(receipt, @, MaxReceipts)].receipts
            = Newest(receipt, g.receipts, MaxReceipts)
  BY <1>1, SavedOK
<1> QED
  BY <1>2 DEF Save, Done

LEMMA WritesRewrites ==
    ASSUME FlightInv, NEW p \in Procs, pc[p] # "idle", mem[p] = disk,
           NEW old, old = RunOf(mem[p], req[p].run), NEW run, NEW tool,
           Found(mem[p], req[p].run) # {}, Writes(p, old, run, tool),
           old.state = "waiting" \/ pc[p] \in InFlight,
           old.rev <= run.rev,
           \A a \in DOMAIN old.attempts :
              \E b \in DOMAIN run.attempts : run.attempts[b].wait = old.attempts[a].wait,
           births' = births
    PROVE  /\ Rewrites(p) /\ pc' = [pc EXCEPT ![p] = "done"]
           /\ mem' = [mem EXCEPT ![p] = EmptyRegistry]
<1>1. /\ RegistryOK(mem[p]) /\ req[p] \in Requests
      /\ run \in RunShape /\ RunOK(run) /\ tool \in Nat
      /\ run.r12 /\ run.state = "waiting" /\ run.wait.scope = "runtime_tool" => tool = run.rev
  BY DEF FlightInv, FlightOK, Writes
<1>2. /\ RegistryOK(Updated(mem[p], run, tool))
      /\ Updated(mem[p], run, tool).runs = Replaced(mem[p].runs, run)
  BY <1>1, UpdatedOK
<1>3. AnswerOf(run) \in Answers
  BY <1>1, AnswerType
<1>4. Save(p, Updated(mem[p], run, tool), AnswerOf(run))
  BY DEF Writes
<1>5. /\ disk'.runs = Replaced(mem[p].runs, run)
      /\ pc' = [pc EXCEPT ![p] = "done"] /\ mem' = [mem EXCEPT ![p] = EmptyRegistry]
  BY <1>1, <1>2, <1>3, <1>4, SavedRuns
<1>6. run.id = req[p].run /\ run.birth = old.birth
  BY <1>1, NamedRun DEF Writes
<1>7. Rewritten(run)
  BY <1>1, <1>5, RunOfReplaced DEF Rewritten, RegistryOK
<1> QED
  BY <1>1, <1>5, <1>6, <1>7 DEF Rewrites

\* A process that saves is done, having opened a run, rewritten one, or left
\* them alone.
LEMMA SavingStep ==
    ASSUME FlightInv, Once, NEW p \in Procs,
           \/ Enable(p) \/ Invoke(p) \/ Retry(p) \/ Cancel(p) \/ Decide(p) \/ Finish(p)
    PROVE  /\ pc[p] \in {"loaded", "granted", "executing"}
           /\ pc' = [pc EXCEPT ![p] = "done"]
           /\ mem' = [mem EXCEPT ![p] = EmptyRegistry]
           /\ UNCHANGED <<lock, req, lapses, dispatched>>
           /\ \/ Opens
              \/ Rewrites(p)
              \/ disk'.runs = disk.runs /\ births' = births
<1>1. /\ pc[p] \in {"loaded", "granted", "executing"}
      /\ UNCHANGED <<lock, req, lapses, dispatched>>
  BY DEF Enable, Invoke, Retry, Cancel, Decide, Finish
<1>2. mem[p] = disk /\ RegistryOK(mem[p]) /\ req[p] \in Requests /\ pc[p] # "idle"
  BY <1>1 DEF Once, Copies, FlightInv, FlightOK
<1>3. CASE Enable(p)
  <2> DEFINE g == [mem[p] EXCEPT !.enabled = req[p].version]
             answer == [run |-> Free, birth |-> 0, state |-> "enabled", rev |-> 0]
             receipt == [req |-> req[p], answer |-> answer]
             h == [g EXCEPT !.receipts = Newest(receipt, @, MaxReceipts)]
  <2>1. Save(p, g, answer) /\ births' = births
    BY <1>3 DEF Enable
  <2>2. mem[p] \in Registry
    BY <1>2 DEF RegistryOK
  <2>3. g.runs = mem[p].runs /\ h.runs = g.runs
    BY <2>2 DEF Registry
  <2>4. disk' = h /\ pc' = [pc EXCEPT ![p] = "done"] /\ mem' = [mem EXCEPT ![p] = EmptyRegistry]
    BY <2>1 DEF Save, Done
  <2> QED
    BY <1>1, <1>2, <2>1, <2>3, <2>4
<1>4. CASE Invoke(p) \/ Retry(p)
  <2>1. PICK run \in RunShape :
              /\ RunOK(run) /\ run.state \in {"waiting", "completed", "failed"}
              /\ run.state = "waiting" /\ run.r12 => run.wait.scope # "runtime_tool"
              /\ run.birth = births[run.id] + 1
              /\ Save(p, Opened(mem[p], run), AnswerOf(run))
              /\ births' = [births EXCEPT ![run.id] = @ + 1]
    BY <1>4, InvokeSaves
  <2>2. /\ RegistryOK(Opened(mem[p], run))
        /\ Opened(mem[p], run).runs = Newest(run, mem[p].runs, MaxRuns)
    BY <1>2, <2>1, OpenedOK
  <2>3. AnswerOf(run) \in Answers
    BY AnswerType
  <2>4. /\ disk'.runs = Newest(run, mem[p].runs, MaxRuns)
        /\ pc' = [pc EXCEPT ![p] = "done"] /\ mem' = [mem EXCEPT ![p] = EmptyRegistry]
    BY <1>2, <2>1, <2>2, <2>3, SavedRuns
  <2>5. Opens
    BY <1>2, <2>1, <2>4 DEF Opens
  <2> QED
    BY <1>1, <2>4, <2>5
<1>5. CASE Cancel(p)
  <2> DEFINE old == RunOf(mem[p], req[p].run)
  <2>1. /\ Found(mem[p], req[p].run) # {} /\ old.state = "waiting"
    BY <1>5, CancelWrites DEF MayCancel
  <2>2. PICK run : /\ Writes(p, old, run, 0)
                   /\ run.rev = (IF run.r12 THEN old.rev + 1 ELSE old.rev)
                   /\ run.attempts = old.attempts
    BY <1>5, CancelWrites
  <2>3. old \in RunShape
    BY <1>2, <2>1, NamedRun
  <2>4. old.rev <= run.rev
    BY <2>2, <2>3 DEF RunShape
  <2>5. births' = births
    BY <1>5 DEF Cancel
  <2>6. \A a \in DOMAIN old.attempts :
           \E b \in DOMAIN run.attempts : run.attempts[b].wait = old.attempts[a].wait
    BY <2>2
  <2> QED
    BY <1>1, <1>2, <2>1, <2>2, <2>4, <2>5, <2>6, WritesRewrites
<1>6. CASE Decide(p)
  <2> DEFINE old == RunOf(mem[p], req[p].run)
  <2>1. /\ Found(mem[p], req[p].run) # {} /\ old.state = "waiting"
    BY <1>6, DecideWrites DEF MayDecide
  <2>2. PICK run : /\ Writes(p, old, run, 0)
                   /\ run.rev = old.rev + 1
                   /\ run.attempts = old.attempts
    BY <1>6, DecideWrites
  <2>3. old \in RunShape
    BY <1>2, <2>1, NamedRun
  <2>4. old.rev <= run.rev
    BY <2>2, <2>3 DEF RunShape
  <2>5. births' = births
    BY <1>6 DEF Decide
  <2>6. \A a \in DOMAIN old.attempts :
           \E b \in DOMAIN run.attempts : run.attempts[b].wait = old.attempts[a].wait
    BY <2>2
  <2> QED
    BY <1>1, <1>2, <2>1, <2>2, <2>4, <2>5, <2>6, WritesRewrites
<1>7. CASE Finish(p)
  <2> DEFINE old == RunOf(mem[p], req[p].run)
  <2>1. Found(mem[p], req[p].run) # {} /\ pc[p] \in InFlight
    BY <1>7, FinishWrites
  <2>2. PICK run, tool : /\ Writes(p, old, run, tool)
                         /\ run.rev = old.rev
                         /\ SameWaits(old, run)
    BY <1>7, FinishWrites
  <2>3. old \in RunShape
    BY <1>2, <2>1, NamedRun
  <2>4. old.rev <= run.rev
    BY <2>2, <2>3 DEF RunShape
  <2>5. births' = births
    BY <1>7 DEF Finish
  <2>6. \A a \in DOMAIN old.attempts :
           \E b \in DOMAIN run.attempts : run.attempts[b].wait = old.attempts[a].wait
    BY <2>2 DEF SameWaits
  <2> QED
    BY <1>1, <1>2, <2>1, <2>2, <2>4, <2>5, <2>6, WritesRewrites
<1> QED
  BY <1>3, <1>4, <1>5, <1>6, <1>7

\* An attempt that is recorded rewrites the run, and can be granted.
LEMMA GrantingStep ==
    ASSUME FlightInv, Once, NEW p \in Procs, WriteAhead(p)
    PROVE  Rewrites(p) /\ mem'[p] = disk' /\ Grants(p)'
<1> DEFINE old == RunOf(mem[p], req[p].run)
           w == [wait |-> old.wait, status |-> "unknown"]
<1>1. mem[p] = disk /\ RegistryOK(mem[p]) /\ TypeOK
  BY DEF Once, Copies, FlightInv, WriteAhead
<1>2. /\ Found(mem[p], req[p].run) # {} /\ old.state = "waiting" /\ old.r12
  BY WriteAheadWrites DEF MayDecide
<1>3. old \in RunShape /\ RunOK(old) /\ old.id = req[p].run
  BY <1>1, <1>2, NamedRun
<1>4. PICK run \in RunShape :
                 /\ run.state = "running"
                 /\ run.id = req[p].run /\ run.birth = old.birth
                 /\ run.rev = old.rev + 1
                 /\ run.attempts = Append(old.attempts, w)
                 /\ disk'.runs = InPlace(mem[p], run)
                 /\ mem' = [mem EXCEPT ![p] = disk']
  BY WriteAheadWrites
<1>5. /\ births' = births /\ dispatched' = dispatched /\ req' = req
      /\ pc' = [pc EXCEPT ![p] = "granted"]
  BY DEF WriteAhead
<1>6. mem'[p] = disk'
  BY <1>1, <1>4 DEF TypeOK
<1>7. old.wait.rev = old.rev /\ old.rev \in Nat /\ old.attempts \in Seq(AttemptShape)
  BY <1>2, <1>3 DEF RunOK, WaitsWell, RunShape
<1>8. w \in AttemptShape /\ w.wait = old.wait
  BY <1>3 DEF AttemptShape, RunShape
<1>9. run.id \in RunIds
  BY DEF RunShape
<1>10. ASSUME NEW n \in DOMAIN dispatched, dispatched[n].run = run.id, dispatched[n].birth = run.birth
       PROVE  dispatched[n].wait.rev < old.rev
  BY <1>1, <1>2, <1>4, <1>10 DEF Once, Recorded, Records, PastWait
<1> HIDE DEF old, w
<1>11. LastAttempt(run).wait = old.wait
  <2>1. /\ Len(Append(old.attempts, w)) = Len(old.attempts) + 1
        /\ Append(old.attempts, w)[Len(old.attempts) + 1] = w
    BY <1>7, <1>8
  <2> QED
    BY <1>4, <1>8, <2>1 DEF LastAttempt
<1>12. \A a \in DOMAIN old.attempts :
          \E b \in DOMAIN run.attempts : run.attempts[b].wait = old.attempts[a].wait
  <2> SUFFICES ASSUME NEW a \in DOMAIN old.attempts
               PROVE  \E b \in DOMAIN run.attempts : run.attempts[b].wait = old.attempts[a].wait
    OBVIOUS
  <2>1. /\ a \in DOMAIN Append(old.attempts, w)
        /\ Append(old.attempts, w)[a] = old.attempts[a]
    BY <1>7, <1>8
  <2> QED
    BY <1>4, <2>1
<1>13. RunOf(disk', req[p].run) = run /\ Rewritten(run)
  <2>1. disk \in Registry /\ disk'.runs = InPlace(disk, run)
    BY <1>1, <1>4 DEF RegistryOK
  <2>2. ASSUME NEW i \in RunIds
        PROVE  /\ Found(disk', i) = Found(disk, i)
               /\ Found(disk, i) # {} => RunOf(disk', i) = IF run.id = i THEN run ELSE RunOf(disk, i)
    BY <2>1, RunOfInPlace
  <2>3. Rewritten(run)
    BY <2>2 DEF Rewritten
  <2>4. Found(disk, run.id) # {} /\ run.id = req[p].run
    BY <1>1, <1>2, <1>4
  <2> QED
    BY <1>9, <2>2, <2>3, <2>4
<1>14. Grants(p)'
  <2>1. LastAttempt(run).wait.rev < run.rev
    BY <1>4, <1>7, <1>11
  <2>2. \A n \in DOMAIN dispatched :
           dispatched[n].run = run.id /\ dispatched[n].birth = run.birth =>
              dispatched[n].wait.rev < LastAttempt(run).wait.rev
    BY <1>7, <1>10, <1>11
  <2> QED
    BY <1>5, <1>13, <2>1, <2>2 DEF Grants
<1>15. old.rev <= run.rev
  BY <1>4, <1>7
<1>16. old = RunOf(disk, run.id) /\ Found(disk, run.id) # {}
  BY <1>1, <1>2, <1>4 DEF old
<1>17. Rewrites(p)
  <2>1. run.id = req[p].run /\ Found(disk, run.id) # {} /\ births' = births
    BY <1>4, <1>5, <1>16
  <2>2. /\ RunOf(disk, run.id).state = "waiting"
        /\ run.birth = RunOf(disk, run.id).birth /\ RunOf(disk, run.id).rev <= run.rev
    BY <1>2, <1>4, <1>15, <1>16
  <2>3. \A a \in DOMAIN RunOf(disk, run.id).attempts :
           \E b \in DOMAIN run.attempts :
              run.attempts[b].wait = RunOf(disk, run.id).attempts[a].wait
    BY <1>12, <1>16
  <2> QED
    BY <1>13, <2>1, <2>2, <2>3 DEF Rewrites
<1> QED
  BY <1>6, <1>14, <1>17

LEMMA RewritesRecord ==
    ASSUME FlightInv, Born, Recorded, NEW p, Rewrites(p), dispatched' = dispatched
    PROVE  Born' /\ Recorded'
<1>1. PICK run \in RunShape :
        /\ Found(disk, run.id) # {}
        /\ run.birth = RunOf(disk, run.id).birth
        /\ RunOf(disk, run.id).rev <= run.rev
        /\ \A a \in DOMAIN RunOf(disk, run.id).attempts :
              \E b \in DOMAIN run.attempts :
                 run.attempts[b].wait = RunOf(disk, run.id).attempts[a].wait
        /\ Rewritten(run)
        /\ births' = births
  BY DEF Rewrites
<1> QED
  BY <1>1, RewriteRecords

LEMMA OpensRecord ==
    ASSUME FlightInv, Born, Recorded, Opens, dispatched' = dispatched
    PROVE  Born' /\ Recorded'
<1>1. PICK run \in RunShape :
        /\ run.birth = births[run.id] + 1
        /\ births' = [births EXCEPT ![run.id] = @ + 1]
        /\ disk'.runs = Newest(run, disk.runs, MaxRuns)
  BY DEF Opens
<1> QED
  BY <1>1, OpenRecords

LEMMA OnceInit == Init => OnceInv
<1> SUFFICES ASSUME Init PROVE Once
  BY DEF OnceInv
<1>1. \A p \in Procs : pc[p] = "idle"
  BY DEF Init
<1>2. disk.runs = << >> /\ dispatched = << >>
  BY DEF Init, EmptyRegistry
<1>3. \A i : Found(disk, i) = {}
  BY <1>2 DEF Found
<1>4. Born /\ Recorded /\ Distinct
  BY <1>2, <1>3 DEF Born, Recorded, Distinct
<1> QED
  BY <1>1, <1>4 DEF Once, Owns, Copies, Grants, Inside

\* No process is inside when the lock can be taken.
LEMMA LockIsFree ==
    ASSUME Once, lock \in {Free, Stale}, NEW q \in Procs
    PROVE  pc[q] \notin Inside
BY LockAssumption DEF Once, Owns

\* Nothing on disk changes, and each process keeps what it had or stops work.
LEMMA QuietOnce ==
    ASSUME Once, disk' = disk, births' = births, dispatched' = dispatched,
           \A q \in Procs :
              \/ pc'[q] = pc[q] /\ mem'[q] = mem[q] /\ req'[q] = req[q]
                 /\ (pc[q] \in Inside => lock' = lock)
              \/ pc'[q] \in {"idle", "locking"}
              \/ pc'[q] = "done" /\ lock' = q
              \/ pc'[q] = "loaded" /\ lock' = q /\ mem'[q] = disk
    PROVE  Once'
<1>1. Born' /\ Recorded' /\ Distinct'
  BY DEF Once, Born, Recorded, Records, Found, Distinct
<1>2. ASSUME NEW q \in Procs
      PROVE  (Owns(q) /\ Copies(q) /\ Grants(q))'
  <2>1. Owns(q) /\ Copies(q) /\ Grants(q)
    BY DEF Once
  <2>2. CASE pc'[q] = pc[q] /\ mem'[q] = mem[q] /\ req'[q] = req[q] /\ (pc[q] \in Inside => lock' = lock)
    <3>1. Owns(q)' /\ Copies(q)'
      BY <2>1, <2>2 DEF Owns, Copies, Inside
    <3>2. Grants(q)'
      BY <2>1, <2>2 DEF Grants
    <3> QED
      BY <3>1, <3>2
  <2>3. CASE pc'[q] \in {"idle", "locking"}
    BY <2>3 DEF Owns, Copies, Grants, Inside
  <2>4. CASE pc'[q] = "done" /\ lock' = q
    BY <2>4 DEF Owns, Copies, Grants
  <2>5. CASE pc'[q] = "loaded" /\ lock' = q /\ mem'[q] = disk
    BY <2>5 DEF Owns, Copies, Grants
  <2> QED
    BY <2>2, <2>3, <2>4, <2>5
<1> QED
  BY <1>1, <1>2 DEF Once

LEMMA OnceNext == FlightInv /\ OnceInv /\ [Next]_vars => OnceInv'
<1> SUFFICES ASSUME FlightInv, OnceInv, [Next]_vars, lapses' = 0
             PROVE  Once'
  BY DEF OnceInv
<1>1. TypeOK /\ lapses \in Nat
  BY DEF FlightInv, TypeOK
<1>2. lapses = 0
  <2>1. lapses' = lapses \/ lapses' = lapses + 1
    BY DEF Next, Serve, vars, Publish, Submit, Acquire, GiveUp, Release, Replay, Refuse,
           Enable, Invoke, Retry, Cancel, Decide, WriteAhead, Dispatch, Finish,
           Crash, WriteFails, Lapse
  <2> QED
    BY <1>1, <2>1
<1>3. Once
  BY <1>2 DEF OnceInv
<1>4. Born /\ Recorded /\ Distinct
  BY <1>3 DEF Once
<1>5. CASE UNCHANGED vars \/ Publish
  <2>1. UNCHANGED <<disk, births, dispatched, pc, mem, req, lock>>
    BY <1>5 DEF vars, Publish
  <2> QED
    BY <1>3, <2>1, QuietOnce
<1>6. ASSUME NEW p \in Procs, NEW r \in Requests, Submit(p, r)
      PROVE  Once'
  <2>1. UNCHANGED <<disk, births, dispatched, mem, lock>>
    BY <1>6 DEF Submit
  <2>2. \A q \in Procs : pc'[q] \in {"idle", "locking"}
                         \/ (pc'[q] = pc[q] /\ mem'[q] = mem[q] /\ req'[q] = req[q])
    BY <1>1, <1>6 DEF Submit, TypeOK
  <2> QED
    BY <1>3, <2>1, <2>2, QuietOnce
<1>7. ASSUME NEW p \in Procs, Acquire(p)
      PROVE  Once'
  <2>1. UNCHANGED <<disk, births, dispatched, req>> /\ lock \in {Free, Stale}
    BY <1>7 DEF Acquire
  <2>2. pc'[p] = "loaded" /\ lock' = p /\ mem'[p] = disk
    BY <1>1, <1>7 DEF Acquire, TypeOK
  <2>3. \A q \in Procs : pc[q] \notin Inside
    BY <1>3, <2>1, LockIsFree
  <2>4. \A q \in Procs \ {p} : pc'[q] = pc[q] /\ mem'[q] = mem[q] /\ req'[q] = req[q]
    BY <1>1, <1>7 DEF Acquire, TypeOK
  <2> QED
    BY <1>3, <2>1, <2>2, <2>3, <2>4, QuietOnce
<1>8. ASSUME NEW p \in Procs, GiveUp(p) \/ Release(p) \/ Crash(p)
      PROVE  Once'
  <2>1. Ends(p) /\ UNCHANGED <<disk, births, dispatched>>
    BY <1>8 DEF GiveUp, Release, Crash
  <2>2. pc'[p] = "idle"
    BY <1>1, <2>1 DEF Ends, TypeOK
  <2>3. \A q \in Procs \ {p} : pc'[q] = pc[q] /\ mem'[q] = mem[q] /\ req'[q] = req[q]
    BY <1>1, <2>1 DEF Ends, TypeOK
  <2>4. ASSUME NEW q \in Procs \ {p}, pc[q] \in Inside
        PROVE  lock' = lock
    <3>1. lock = q
      BY <1>3, <2>4 DEF Once, Owns
    <3> QED
      BY <1>8, <3>1 DEF GiveUp, Release, Crash
  <2> QED
    BY <1>3, <2>1, <2>2, <2>3, <2>4, QuietOnce
<1>9. ASSUME NEW p \in Procs, Replay(p) \/ Refuse(p) \/ WriteFails(p)
      PROVE  Once'
  <2>1. /\ pc[p] \in Inside /\ UNCHANGED <<disk, births, dispatched, lock, req>>
        /\ \E receipt : Done(p, receipt)
    BY <1>9 DEF Replay, Refuse, WriteFails, Inside
  <2>2. pc'[p] = "done" /\ lock' = p
    BY <1>1, <1>3, <2>1 DEF Done, TypeOK, Once, Owns
  <2>3. \A q \in Procs \ {p} : pc'[q] = pc[q] /\ mem'[q] = mem[q] /\ req'[q] = req[q]
    BY <1>1, <2>1 DEF Done, TypeOK
  <2> QED
    BY <1>3, <2>1, <2>2, <2>3, QuietOnce
<1>10. ASSUME NEW p \in Procs, Lapse(p)
       PROVE  Once'
  BY <1>2, <1>10 DEF Lapse
<1>11. ASSUME NEW p \in Procs,
              Enable(p) \/ Invoke(p) \/ Retry(p) \/ Cancel(p) \/ Decide(p) \/ Finish(p)
       PROVE  Once'
  <2>1. /\ pc[p] \in {"loaded", "granted", "executing"}
        /\ pc' = [pc EXCEPT ![p] = "done"]
        /\ mem' = [mem EXCEPT ![p] = EmptyRegistry]
        /\ UNCHANGED <<lock, req, lapses, dispatched>>
        /\ Opens \/ Rewrites(p) \/ (disk'.runs = disk.runs /\ births' = births)
    BY <1>3, <1>11, SavingStep
  <2>2. Born' /\ Recorded'
    BY <1>4, <2>1, OpensRecord, RewritesRecord, SameRunsRecord
  <2>3. Distinct'
    BY <1>4, <2>1 DEF Distinct
  <2>4. ASSUME NEW q \in Procs
        PROVE  (Owns(q) /\ Copies(q) /\ Grants(q))'
    <3>1. pc[p] \in Inside /\ lock = p
      BY <1>3, <2>1 DEF Inside, Once, Owns
    <3>2. CASE q = p
      BY <1>1, <2>1, <3>1, <3>2 DEF TypeOK, Owns, Copies, Grants
    <3>3. CASE q # p
      <4>1. pc[q] \notin Inside /\ pc'[q] = pc[q]
        BY <1>1, <1>3, <2>1, <3>1, <3>3, Alone DEF TypeOK
      <4> QED
        BY <4>1 DEF Inside, Owns, Copies, Grants
    <3> QED
      BY <3>2, <3>3
  <2> QED
    BY <2>2, <2>3, <2>4 DEF Once
<1>12. ASSUME NEW p \in Procs, WriteAhead(p)
       PROVE  Once'
  <2>1. Rewrites(p) /\ mem'[p] = disk' /\ Grants(p)'
    BY <1>3, <1>12, GrantingStep
  <2>2. /\ pc[p] = "loaded" /\ pc' = [pc EXCEPT ![p] = "granted"]
        /\ UNCHANGED <<lock, req, births, dispatched>>
    BY <1>12 DEF WriteAhead
  <2>3. Born' /\ Recorded'
    BY <1>4, <2>1, <2>2, RewritesRecord
  <2>4. Distinct'
    BY <1>4, <2>2 DEF Distinct
  <2>5. ASSUME NEW q \in Procs
        PROVE  (Owns(q) /\ Copies(q) /\ Grants(q))'
    <3>1. pc[p] \in Inside /\ lock = p
      BY <1>3, <2>2 DEF Inside, Once, Owns
    <3>2. CASE q = p
      BY <2>1, <2>2, <3>1, <3>2 DEF Owns, Copies
    <3>3. CASE q # p
      <4>1. pc[q] \notin Inside /\ pc'[q] = pc[q]
        BY <1>1, <1>3, <2>2, <3>1, <3>3, Alone DEF TypeOK
      <4> QED
        BY <4>1 DEF Inside, Owns, Copies, Grants
    <3> QED
      BY <3>2, <3>3
  <2> QED
    BY <2>3, <2>4, <2>5 DEF Once
<1>13. ASSUME NEW p \in Procs, Dispatch(p)
       PROVE  Once'
  <2> DEFINE run == RunOf(disk, req[p].run)
             w == LastAttempt(run).wait
             d == [run |-> run.id, birth |-> run.birth, wait |-> w]
             D == [run: RunIds, birth: Nat, wait: WaitShape]
  <2>1. /\ pc[p] = "granted" /\ pc' = [pc EXCEPT ![p] = "executing"]
        /\ mem[p] = disk
        /\ dispatched' = Append(dispatched, d)
        /\ UNCHANGED <<disk, lock, req, mem, births>>
    BY <1>3, <1>13 DEF Dispatch, Once, Copies
  <2>2. /\ Found(disk, req[p].run) # {} /\ run.state = "running"
        /\ RegistryOK(disk)
    BY <2>1 DEF FlightInv, FlightOK, InFlight
  <2>3. run \in RunShape /\ RunOK(run) /\ run.id = req[p].run
    BY <2>2, NamedRun
  <2>4. /\ w.rev < run.rev
        /\ \A n \in DOMAIN dispatched :
              dispatched[n].run = run.id /\ dispatched[n].birth = run.birth =>
                  dispatched[n].wait.rev < w.rev
    BY <1>3, <2>1 DEF Once, Grants
  <2>5. run.id \in RunIds /\ RunOf(disk, run.id) = run
    BY <2>3 DEF RunShape
  <2> HIDE DEF run
  <2>7. LastAttempt(run) \in AttemptShape /\ Len(run.attempts) \in DOMAIN run.attempts
    BY <2>2, <2>3 DEF RunOK, RunsWell, IsMarkedUnknown, RunShape, LastAttempt
  <2>8. w \in WaitShape /\ w.rev \in Nat /\ \E a \in DOMAIN run.attempts : run.attempts[a].wait = w
    BY <2>7 DEF AttemptShape, WaitShape, LastAttempt
  <2> HIDE DEF w
  <2>9. d \in D /\ d.run = run.id /\ d.birth = run.birth /\ d.wait = w
    BY <2>3, <2>8 DEF RunShape
  <2>10. d.birth <= births[d.run]
    BY <1>4, <2>2, <2>3, <2>5, <2>9 DEF Born
  <2>11. RunOf(disk, d.run) = run
    BY <2>5, <2>9
  <2> HIDE DEF d
  <2>12. PastWait(run, d.wait)
    BY <2>4, <2>8, <2>9 DEF PastWait
  <2>14. Records(d)
    BY <2>10, <2>11, <2>12 DEF Records
  <2>15. dispatched \in Seq(D)
    BY <1>1 DEF TypeOK
  <2> HIDE DEF D
  <2>16. /\ DOMAIN dispatched' = DOMAIN dispatched \cup {Len(dispatched) + 1}
         /\ Len(dispatched) + 1 \notin DOMAIN dispatched
         /\ dispatched'[Len(dispatched) + 1] = d
         /\ \A n \in DOMAIN dispatched : dispatched'[n] = dispatched[n]
    BY <2>1, <2>9, <2>15
  <2>17. Born'
    BY <1>4, <2>1 DEF Born
  <2>18. Recorded'
    <3>1. ASSUME NEW x, Records(x)
          PROVE  /\ x.birth <= births'[x.run]
                 /\ Found(disk', x.run) # {} /\ RunOf(disk', x.run).birth = x.birth =>
                       PastWait(RunOf(disk', x.run), x.wait)
      BY <2>1, <3>1 DEF Records
    <3>2. \A n \in DOMAIN dispatched' : Records(dispatched'[n])
      BY <1>4, <2>14, <2>16 DEF Recorded
    <3>3. \A n \in DOMAIN dispatched' :
             /\ dispatched'[n].birth <= births'[dispatched'[n].run]
             /\ Found(disk', dispatched'[n].run) # {}
                /\ RunOf(disk', dispatched'[n].run).birth = dispatched'[n].birth =>
                      PastWait(RunOf(disk', dispatched'[n].run), dispatched'[n].wait)
      BY <3>1, <3>2
    <3> QED
      BY <3>3 DEF Recorded, Records
  <2>19. \A n \in DOMAIN dispatched : dispatched[n] # d
    <3> SUFFICES ASSUME NEW n \in DOMAIN dispatched, dispatched[n] = d
                 PROVE  FALSE
      OBVIOUS
    <3>1. dispatched[n].wait.rev < w.rev
      BY <2>4, <2>9
    <3> QED
      BY <2>8, <2>9, <3>1
  <2>20. Distinct'
    BY <1>4, <2>16, <2>19 DEF Distinct
  <2>21. ASSUME NEW q \in Procs
         PROVE  (Owns(q) /\ Copies(q) /\ Grants(q))'
    <3>1. pc[p] \in Inside /\ lock = p
      BY <1>3, <2>1 DEF Inside, Once, Owns
    <3>2. CASE q = p
      <4>1. pc'[q] = "executing"
        BY <1>1, <2>1, <3>2 DEF TypeOK
      <4> QED
        BY <2>1, <3>1, <3>2, <4>1 DEF Owns, Copies, Grants
    <3>3. CASE q # p
      <4>1. pc[q] \notin Inside /\ pc'[q] = pc[q]
        BY <1>1, <1>3, <2>1, <3>1, <3>3, Alone DEF TypeOK
      <4> QED
        BY <4>1 DEF Inside, Owns, Copies, Grants
    <3> QED
      BY <3>2, <3>3
  <2> QED
    BY <2>17, <2>18, <2>20, <2>21 DEF Once
<1> QED
  <2>1. Next =>
          \/ Publish
          \/ \E p \in Procs :
               \/ \E r \in Requests : Submit(p, r)
               \/ Acquire(p)
               \/ GiveUp(p) \/ Release(p) \/ Crash(p)
               \/ Replay(p) \/ Refuse(p) \/ WriteFails(p)
               \/ Lapse(p)
               \/ Enable(p) \/ Invoke(p) \/ Retry(p) \/ Cancel(p) \/ Decide(p) \/ Finish(p)
               \/ WriteAhead(p) \/ Dispatch(p)
    BY DEF Next, Serve
  <2> QED
    BY <1>5, <1>6, <1>7, <1>8, <1>9, <1>10, <1>11, <1>12, <1>13, <2>1

LEMMA OnceIsInvariant == Spec => []OnceInv
<1>1. Init => OnceInv
  BY OnceInit
<1>2. FlightInv /\ OnceInv /\ [Next]_vars => OnceInv'
  BY OnceNext
<1> QED
  BY <1>1, <1>2, FlightIsInvariant, PTL DEF Spec

\* While no live process has lost its lock, no execution is handed to an agent
\* twice in one birth of its run, and the run on disk records each one that was.
THEOREM Dispatched == Spec => []DispatchedOnce
<1>1. OnceInv => DispatchedOnce
  BY DEF OnceInv, Once, Distinct, Recorded, Records, PastWait, DispatchedOnce
<1> QED
  BY <1>1, OnceIsInvariant, PTL

\* While no live process has lost its lock, what has settled, and what was
\* interrupted, is not changed again in the same birth of its run.
THEOREM Settled == Spec => SettledStays
<1> DEFINE Stays(i) ==
      /\ lapses' = 0
      /\ Found(disk, i) # {}
      /\ Found(disk', i) # {}
      /\ births'[i] = births[i]
      /\ RunOf(disk, i).state \in Terminal \cup {"running"}
      /\ \A p \in Procs : pc[p] \in InFlight => req[p].run # i
      => RunOf(disk', i) = RunOf(disk, i)
<1>1. FlightInv /\ OnceInv /\ [Next]_vars => [\A i \in RunIds : Stays(i)]_vars
  <2> SUFFICES ASSUME FlightInv, OnceInv, Next, NEW i \in RunIds,
                      lapses' = 0, Found(disk, i) # {}, Found(disk', i) # {},
                      births'[i] = births[i],
                      RunOf(disk, i).state \in Terminal \cup {"running"},
                      \A p \in Procs : pc[p] \in InFlight => req[p].run # i
               PROVE  RunOf(disk', i) = RunOf(disk, i)
    OBVIOUS
  <2>1. lapses = 0
    <3>1. lapses \in Nat
      BY DEF FlightInv, TypeOK
    <3>2. lapses' = lapses \/ lapses' = lapses + 1
      BY DEF Next, Serve, Publish, Submit, Acquire, GiveUp, Release, Replay, Refuse,
             Enable, Invoke, Retry, Cancel, Decide, WriteAhead, Dispatch, Finish,
             Crash, WriteFails, Lapse
    <3> QED
      BY <3>1, <3>2
  <2>2. Once
    BY <2>1 DEF OnceInv
  <2>3. \/ disk'.runs = disk.runs
        \/ Opens
        \/ \E p \in Procs : Rewrites(p)
    <3>1. CASE disk' = disk
      BY <3>1
    <3>2. ASSUME NEW p \in Procs,
                 Enable(p) \/ Invoke(p) \/ Retry(p) \/ Cancel(p) \/ Decide(p) \/ Finish(p)
          PROVE  disk'.runs = disk.runs \/ Opens \/ Rewrites(p)
      BY <2>2, <3>2, SavingStep
    <3>3. ASSUME NEW p \in Procs, WriteAhead(p)
          PROVE  Rewrites(p)
      BY <2>2, <3>3, GrantingStep
    <3>4. \/ disk' = disk
          \/ \E p \in Procs : Enable(p) \/ Invoke(p) \/ Retry(p) \/ Cancel(p) \/ Decide(p) \/ Finish(p)
          \/ \E p \in Procs : WriteAhead(p)
      BY DEF Next, Serve, Publish, Submit, Acquire, GiveUp, Release, Replay, Refuse,
             Dispatch, Crash, WriteFails, Lapse
    <3> QED
      BY <3>1, <3>2, <3>3, <3>4
  <2>4. CASE disk'.runs = disk.runs
    BY <2>4, SameRunsFound
  <2>5. CASE Opens
    <3>1. PICK run \in RunShape :
            /\ births' = [births EXCEPT ![run.id] = @ + 1]
            /\ disk'.runs = Newest(run, disk.runs, MaxRuns)
      BY <2>5 DEF Opens
    <3>2. births \in [RunIds -> Nat] /\ disk \in Registry
      BY DEF FlightInv, TypeOK
    <3>3. run.id # i
      BY <3>1, <3>2
    <3> QED
      BY <3>1, <3>2, <3>3, RunOfNewest
  <2>6. ASSUME NEW p \in Procs, Rewrites(p)
        PROVE  RunOf(disk', i) = RunOf(disk, i)
    <3>1. PICK run \in RunShape :
            /\ run.id = req[p].run
            /\ RunOf(disk, run.id).state = "waiting" \/ pc[p] \in InFlight
            /\ Rewritten(run)
      BY <2>6 DEF Rewrites
    <3>2. run.id # i
      BY <3>1 DEF Terminal
    <3> QED
      BY <3>1, <3>2 DEF Rewritten
  <2> QED
    BY <2>3, <2>4, <2>5, <2>6
<1>2. Spec => [][\A i \in RunIds : Stays(i)]_vars
  BY <1>1, FlightIsInvariant, OnceIsInvariant, PTL DEF Spec
<1> QED
  BY <1>2 DEF SettledStays
=============================================================================
