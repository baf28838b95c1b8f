------------------------- MODULE MCHybridTransport -------------------------
(* The hybrid transport with a buffer of one event, for TLC. *)
EXTENDS HybridTransport, TLC

Limits == {0, 2}
=============================================================================
