------------------------- MODULE MCMemoryWorkerLock -------------------------
(* Small instances of MemoryWorkerLock: three workers, or two, on one or two *)
(* hosts that share the memory directory, and an operator's repair.          *)
EXTENDS MemoryWorkerLock, TLC

CONSTANTS a, b, c, r

\* a and b share a host; c and the repairer have the other one.
TwoHosts == (a :> "x") @@ (b :> "x") @@ (c :> "y") @@ (r :> "y")
\* One host; the repairer runs there too.
OneHost == (a :> "x") @@ (b :> "x") @@ (c :> "x") @@ (r :> "x")
=============================================================================
