--------------------------- MODULE MCPromptQueue ---------------------------
(***************************************************************************)
(* PromptQueue for TLC: three commands of any kind are enough for one that *)
(* is interrupted, one that overtakes it and one that waits for both; two  *)
(* calls at a time, for an interrupted one and one that follows it; the    *)
(* second Escape lets a refused turn meet a turn that is attaching.        *)
(***************************************************************************)
EXTENDS PromptQueue
==============================================================================
