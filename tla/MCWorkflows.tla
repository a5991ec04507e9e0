---------------------------- MODULE MCWorkflows -----------------------------
(***************************************************************************)
(* What comes after the builds: a pull request, a test run, the check of   *)
(* rendered test jobs.  What one needs of another is in its own model      *)
(* (PrPipeline takes test runs by what TestContract promises), and beyond  *)
(* that they share no state: a behaviour is one of the part named by       *)
(* "part", while the others rest in an initial state.                      *)
(***************************************************************************)
EXTENDS PrPipeline, TestRun, SchemaCheck

CONSTANTS plain, suffixed, master, wrynose
VARIABLE part

\* qcom-distro and qcom-distro_linux-qcom-6.18: the artifact names begin alike.
MCReads == [d \in Distros |-> IF d = plain THEN {plain, suffixed} ELSE {d}]

PrIdle     == base = [c \in Commits |-> master] /\ PrInit
TestIdle   == urls = [d \in Distros |-> {}] /\ TestInit
SchemaIdle == kind = [f \in Files |-> "valid"] /\ listable = {} /\ SchemaInit

\* The branches are interchangeable: let the first event file name master.
WorkflowsInit ==
    \/ part = "pr" /\ PrInit /\ base[1] = master /\ TestIdle /\ SchemaIdle
    \/ part = "test" /\ TestInit /\ PrIdle /\ SchemaIdle
    \/ part = "schema" /\ SchemaInit /\ PrIdle /\ TestIdle

WorkflowsNext ==
    /\ part' = part
    /\ \/ part = "pr" /\ PrNext /\ UNCHANGED <<testVars, schemaVars>>
       \/ part = "test" /\ TestNext /\ UNCHANGED <<prVars, schemaVars>>
       \/ part = "schema" /\ SchemaNext /\ UNCHANGED <<prVars, testVars>>

\* GitHub starts what is ready, and timeout-minutes ends what is running.
WorkflowsSpec ==
    /\ WorkflowsInit /\ [][WorkflowsNext]_<<part, prVars, testVars, schemaVars>>
    /\ WF_prVars(part = "pr" /\ Serve)
    /\ WF_testVars(part = "test" /\ TestNext)

\* The types of the pull request, of the test run and of the schema checker.
WorkflowTypesOK == PrTypeOK /\ TestTypeOK /\ SchemaTypeOK

\* No combination of skipped, failed and lost jobs leaves a test run waiting.
TestRunEnds == part = "test" => TestsEnd
=============================================================================
