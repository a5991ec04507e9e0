------------------------------ MODULE MCBuild -------------------------------
(***************************************************************************)
(* What happens around a build: the two tasks that assemble a file for the *)
(* boot firmware, the FIT image and the capsule, the selftest's copy of the*)
(* former, and the cleaner of the shared-state directories.  They share no *)
(* state, so that interleaving their steps shows nothing: a behaviour is   *)
(* one of the part named by "part", while the others rest in an initial    *)
(* state.                                                                  *)
(***************************************************************************)
EXTENDS MCFitImage, FitReplica, Capsule, SstateCleanup, TLC

VARIABLE part

\* The shortest and the longest months.
JanToMar == <<31, 28, 31>>

Seqs == INSTANCE SequencesExt

\* Calls of the copy: all lists of blobs, and three flags in every order of the
\* dictionary.
MCSorted == <<<<board, "dtb">>, <<cam, "dtb">>, <<cam, "dtbo">>, <<lvdsComma, "dtbo">>>>
MCCalls ==
    [listing : {SelectSeq(MCSorted, LAMBDA f : f \in S) : S \in SUBSET MCFiles},
     flags : {[i \in 1 .. 3 |-> <<order[i], combo[i]>>] :
                 order \in Seqs!SetToSeqs(MCCompats), combo \in [1 .. 3 -> MCCombos]}]

NoCall == listing = <<>> /\ dict = <<>> /\ parsed = Unparsed
FitIdle ==
    /\ files = {} /\ present = {Metadata} /\ flags = [c \in Compats |-> <<>>] /\ Init
    /\ NoCall
CapsuleIdle ==
    /\ \E c \in Certs : conf = [cert |-> c, entries |-> Unset, static |-> FALSE,
                                hasXbl |-> FALSE, byHand |-> FALSE]
    /\ CapsuleInit

BuildInit ==
    \/ part = "fit" /\ Init /\ NoCall /\ CapsuleIdle /\ CleanInit
    \/ part = "copy" /\ (\E args \in MCCalls : ReplicaInit(args)) /\ CapsuleIdle /\ CleanInit
    \/ part = "capsule" /\ CapsuleInit /\ FitIdle /\ CleanInit
    \/ part = "sstate" /\ CleanInit /\ FitIdle /\ CapsuleIdle

BuildNext ==
    /\ part' = part
    /\ \/ part = "fit" /\ Next /\ UNCHANGED <<call, parsed, capsuleVars, cleanVars>>
       \/ part = "copy" /\ ReplicaNext /\ UNCHANGED <<capsuleVars, cleanVars>>
       \/ part = "capsule" /\ CapsuleNext /\ UNCHANGED <<replicaVars, cleanVars>>
       \/ part = "sstate" /\ CleanNext /\ UNCHANGED <<replicaVars, capsuleVars>>

BuildSpec == BuildInit /\ [][BuildNext]_<<part, replicaVars, capsuleVars, cleanVars>>

Symmetry == Permutations(Certs) \cup Permutations(Layouts)

\* The types of the FIT task and of the capsule tasks.
BuildTypesOK == (part # "copy" => TypeOK) /\ CapsuleTypeOK
=============================================================================
