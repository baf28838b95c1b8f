--------------------------- MODULE MCPublishedRuns ---------------------------
(* One run, which its key may start with decisions or without, the decisions *)
(* and the cancellation of its life, and a retry under another id.           *)
EXTENDS PublishedRuns, TLC

CONSTANTS a, c

Kx == {"e1", "k1", "k3", "c1", "d1", "d2", "d3", "d4"}

MCFlow == <<<<"condition", "approval", "agent">>>>

Decision(key, rev, node, scope, grant) ==
    [op |-> "decide", key |-> key, version |-> 1, run |-> a, rev |-> rev,
     node |-> node, scope |-> scope, grant |-> grant]

MCRequests ==
    {[op |-> "enable", key |-> "e1", version |-> 1],
     [op |-> "invoke", key |-> "k1", version |-> 1, r12 |-> TRUE, new |-> a],
     [op |-> "invoke", key |-> "k1", version |-> 1, r12 |-> FALSE, new |-> a],
     [op |-> "cancel", key |-> "c1", version |-> 1, run |-> a, rev |-> 2],
     [op |-> "retry", key |-> "k3", version |-> 1, run |-> a, new |-> c],
     Decision("d1", 1, 2, "human_approval", TRUE),
     Decision("d2", 2, 3, "step_execution", TRUE),
     Decision("d3", 3, 3, "runtime_tool", TRUE),
     Decision("d4", 3, 3, "runtime_tool", FALSE)}

MCSymmetry == Permutations(Procs)
=============================================================================
