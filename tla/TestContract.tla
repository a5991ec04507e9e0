---------------------------- MODULE TestContract ----------------------------
(***************************************************************************)
(* What the run of .github/workflows/test.yml promises to the workflow     *)
(* that started it: it ends once, and it is called successful only with    *)
(* the summary of every distribution in hand.                              *)
(***************************************************************************)

CONSTANT Distros    \* the test-distro.yml calls of test.yml

VARIABLES
    over,     \* the caller has acted on the result
    reported  \* distributions whose summary it posted

vars == <<over, reported>>

Init == ~over /\ reported = {}

\* comment-on-pr, which needs a successful test, runs or is skipped.
Report ==
    /\ ~over
    /\ over' = TRUE
    /\ reported' \in {{}, Distros}

Spec == Init /\ [][Report]_vars
=============================================================================
