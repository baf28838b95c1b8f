---------------------------- MODULE MCMemoryAgent ----------------------------
(* Small instances of MemoryAgent: two events, of one session or of two.     *)
EXTENDS MemoryAgent, TLC

CONSTANTS e1, e2

TwoSessions == (e1 :> "s1") @@ (e2 :> "s2")
OneSession == (e1 :> "s1") @@ (e2 :> "s1")
=============================================================================
