--------------------------- MODULE MCToolExecutor ---------------------------
(* Kinds of tools for the model-checking runs of ToolExecutor.             *)
EXTENDS ToolExecutor

Tk(known, safe, bash, cancels) ==
    [known |-> known, safe |-> safe, bash |-> bash, cancels |-> cancels]

Read      == Tk(TRUE, TRUE, FALSE, FALSE)
Edit      == Tk(TRUE, FALSE, FALSE, FALSE)
BashRead  == Tk(TRUE, TRUE, TRUE, FALSE)
BashWrite == Tk(TRUE, FALSE, TRUE, FALSE)
Sleep     == Tk(TRUE, TRUE, FALSE, TRUE)
NoSuch    == Tk(FALSE, TRUE, FALSE, FALSE)

SafetyKinds == {Edit, BashRead, NoSuch}
LiveKinds   == {BashWrite, Sleep}
SpinKinds   == {Edit, NoSuch}
MixedKinds  == {Edit, Read, BashRead}
=============================================================================
