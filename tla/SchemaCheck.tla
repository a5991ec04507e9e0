----------------------------- MODULE SchemaCheck -----------------------------
(***************************************************************************)
(* ci/schemacheck.py: walk a directory of rendered test jobs, check every  *)
(* .yaml file against the LAVA schema, and exit with the number of invalid *)
(* files, of which the caller sees the low bits.  os.walk yields the files *)
(* in any order and leaves out what it cannot list, without an error.      *)
(***************************************************************************)
EXTENDS Naturals, FiniteSets

CONSTANTS
    Files,    \* the files below sys.argv[1]
    Statuses  \* how many exit statuses there are (256 on Linux)

ASSUME FilesAssumption == IsFiniteSet(Files)
ASSUME StatusesAssumption == Statuses \in Nat /\ Statuses > 1

\* What there is to say of a file: no .yaml; valid; not valid YAML for the schema
\* (voluptuous.Invalid); no YAML (MarkedYAMLError); any other exception, as for a
\* dangling link, bytes that are no text, or an error of the validator's own.
Kinds == {"other", "valid", "invalid", "no yaml", "exception"}

VARIABLES
    kind,     \* Files -> Kinds
    listable, \* the files os.walk can list
    left,     \* those it has yet to yield
    exitcode,
    status    \* has the process ended, and with which exit status

input == <<kind, listable>>
schemaVars == <<input, left, exitcode, status>>

SchemaInit ==
    /\ kind \in [Files -> Kinds]
    /\ listable \in SUBSET Files /\ left = listable
    /\ exitcode = 0 /\ status = [ended |-> FALSE, code |-> 0]

Running == ~status.ended
Exit(n) == status' = [ended |-> TRUE, code |-> n]

\* Mutant: a file that is no YAML is reported and not counted.
M_Check(f) ==
    /\ Running /\ f \in left
    /\ left' = left \ {f}
    /\ \/ kind[f] \in {"other", "valid", "no yaml"} /\ UNCHANGED <<exitcode, status>>
       \/ kind[f] = "invalid" /\ exitcode' = exitcode + 1 /\ UNCHANGED status
       \/ kind[f] = "exception" /\ Exit(1) /\ UNCHANGED exitcode
    /\ UNCHANGED input

\* One file; an exception nobody catches ends the process with status 1.
Check(f) ==
    /\ Running /\ f \in left
    /\ left' = left \ {f}
    /\ \/ kind[f] \in {"other", "valid"} /\ UNCHANGED <<exitcode, status>>
       \/ kind[f] \in {"invalid", "no yaml"}
             /\ exitcode' = exitcode + 1 /\ UNCHANGED status
       \/ kind[f] = "exception" /\ Exit(1) /\ UNCHANGED exitcode
    /\ UNCHANGED input

\* sys.exit(exitcode): the system keeps the status modulo 256.
End ==
    /\ Running /\ left = {}
    /\ Exit(exitcode % Statuses)
    /\ UNCHANGED <<input, left, exitcode>>

SchemaNext == (\E f \in Files : Check(f)) \/ End

SchemaSpec == SchemaInit /\ [][SchemaNext]_schemaVars

-----------------------------------------------------------------------------
(* Properties.                                                             *)

\* The types of the state: no more files are counted than there are.
SchemaTypeOK ==
    /\ kind \in [Files -> Kinds] /\ left \subseteq listable /\ listable \subseteq Files
    /\ exitcode \in 0 .. Cardinality(Files)
    /\ status \in [ended : BOOLEAN, code : 0 .. Statuses - 1]

Bad(S) == {f \in S : kind[f] \in {"invalid", "no yaml"}}

\* Status 0 means that every file listed was checked, in whatever order they came and
\* wherever an exception struck, and that the bad ones number a multiple of the exit
\* statuses: none, or 256 invalid jobs and more, which the script reports as success.
ZeroMeansValid ==
    status.ended /\ status.code = 0 =>
        /\ left = {} /\ \A f \in listable : kind[f] # "exception"
        /\ Cardinality(Bad(listable)) % Statuses = 0
=============================================================================
