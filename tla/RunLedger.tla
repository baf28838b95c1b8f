------------------------------ MODULE RunLedger ------------------------------
(***************************************************************************)
(* What the runtime of published workflows promises of a run, whatever the *)
(* processes that serve it do: a ledger with one entry for each run id.    *)
(*                                                                         *)
(* A run is started once, as long as the request that started it is        *)
(* remembered.  Every decision and every cancellation takes the next       *)
(* revision.  An agent execution that a decision grants is dispatched at   *)
(* most once, and a run that is finished is not opened again.  The ledger  *)
(* may forget the oldest requests and drop the oldest runs, a bounded      *)
(* registry does; nothing else about a run is ever taken back.             *)
(***************************************************************************)
EXTENDS Naturals

CONSTANT RunIds

VARIABLE entry    \* for each run id, what is known of the run

Phases == {"none", "waiting", "granted", "executing", "finished"}

Entry == [known: BOOLEAN, phase: Phases, rev: Nat, birth: Nat]

Blank == [known |-> FALSE, phase |-> "none", rev |-> 0, birth |-> 0]

LedgerInit == entry = [i \in RunIds |-> Blank]

-----------------------------------------------------------------------------
(* One operation on one run: old and new are its entry before and after.   *)

\* An accepted request starts the run; the request was not known.
Starts(old, new) ==
    /\ ~old.known
    /\ new.phase \in {"waiting", "finished"}
    /\ new.rev \in {0, 1}
    /\ new.birth > old.birth

\* An accepted decision takes the next revision.
Decides(old, new) ==
    /\ old.phase = "waiting"
    /\ new.phase \in {"waiting", "granted", "finished"}
    /\ new.rev = old.rev + 1
    /\ new.birth = old.birth

\* The granted execution is handed to the agent.
Dispatches(old, new) ==
    /\ old.phase = "granted"
    /\ new.phase = "executing"
    /\ new.rev = old.rev
    /\ new.birth = old.birth

\* The outcome of the execution is recorded, under the same revision.
Settles(old, new) ==
    /\ old.phase \in {"granted", "executing"}
    /\ new.phase \in {"waiting", "finished"}
    /\ new.rev = old.rev
    /\ new.birth = old.birth

\* A cancellation finishes a waiting run; a run of the older protocol has
\* no revisions.
Cancels(old, new) ==
    /\ old.phase = "waiting"
    /\ new.phase = "finished"
    /\ new.rev \in {old.rev, old.rev + 1}
    /\ new.birth = old.birth

Moves(old, new) ==
    \/ Starts(old, new)
    \/ Decides(old, new)
    \/ Dispatches(old, new)
    \/ Settles(old, new)
    \/ Cancels(old, new)

-----------------------------------------------------------------------------
\* A bounded registry forgets the request that started the run, or the run.
Fades(old, new) ==
    /\ new.known => old.known
    /\ \/ new = [old EXCEPT !.known = new.known]
       \/ new = [known |-> new.known, phase |-> "none", rev |-> 0, birth |-> old.birth]

\* One run moves, the others stay or fade.
LedgerNext ==
    \E i \in RunIds :
        /\ \/ Moves(entry[i], entry'[i])
           \/ Fades(entry[i], entry'[i])
        /\ \A j \in RunIds \ {i} : Fades(entry[j], entry'[j])

LedgerSpec == LedgerInit /\ [][LedgerNext]_entry
=============================================================================
