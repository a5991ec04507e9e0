----------------------------- MODULE MCSelftest -----------------------------
(***************************************************************************)
(* The classes of lib/oeqa/selftest/cases/qcom_fitimage.py.  oe-selftest   *)
(* runs them one after the other, and they keep their state in attributes  *)
(* of their own: a behaviour is one of the class (or helper) named by      *)
(* "part", while the others rest in an initial state and what only the     *)
(* unit tests use has some value.  Unit and integration tests both run the *)
(* task of FitImage, each with inputs of its own.                          *)
(***************************************************************************)
EXTENDS FitIntegration, ItsText, KernelMatrix, SequencesExt

VARIABLES
    part,
    listing, dict, parsed, builder, suiteVerdict  \* FitSelftest

unitOnly == <<listing, dict, parsed, builder, suiteVerdict>>

-----------------------------------------------------------------------------
(* ItsText: every tree with up to two nodes in each section, each with one *)
(* of four lists of properties, two of which share a key; names may repeat,*)
(* within a section and across the two.                                    *)

MCLists == {<<>>, <<Prop("fdt", Str("a"))>>,
            <<Prop("fdt", List(<<"a", "b">>)), Prop("compatible", Str("c"))>>,
            <<Prop("data", Raw("a")), Prop("fdt", List(<<"b">>))>>}
MCNodes == {Node(n, ps) : n \in {"x", "y"}, ps \in MCLists}
MCSections == {<<>>} \cup {<<n>> : n \in MCNodes} \cup {<<n, m>> : n, m \in MCNodes}
MCTrees == [images : MCSections, configurations : MCSections]

-----------------------------------------------------------------------------
(* FitSelftest: the twelve calls of the unit tests, the blobs and strings  *)
(* they use.                                                               *)

UnitCalls == INSTANCE FitSelftest WITH Names <- {}, Encode <- <<>>, Compats <- {},
    Files <- {}, Combos <- {}, METADATA_SUFFIXES <- {}, COMPAT_EXTENSIONS <- {},
    verdict <- suiteVerdict
Calls == UnitCalls!Calls
UnitFlags == UNION {ToSet(Calls[t].flags) : t \in DOMAIN Calls}
UnitCombos == {f[2] : f \in UnitFlags}
UnitNames == UNION {ToSet(c) : c \in UnitCombos}
UnitEncode == [n \in UnitNames |-> n]

Unit == INSTANCE FitSelftest WITH Names <- UnitNames, Encode <- UnitEncode,
    Compats <- {f[1] : f \in UnitFlags}, Combos <- UnitCombos,
    Files <- UNION {ToSet(Calls[t].listing) : t \in DOMAIN Calls},
    METADATA_SUFFIXES <- {"qcs5430", "qcs6490", "qcs9075", "evk", "idp", "iot", "subtype2"},
    COMPAT_EXTENSIONS <- {"camx", "el2kvm", "staging"},
    verdict <- suiteVerdict

-----------------------------------------------------------------------------
(* FitIntegration: three blobs, one stem built in both roles, one with a   *)
(* comma; two flags, of whose compatible strings one has a part that no    *)
(* node of the metadata has.                                               *)

MCNames == {"board", "cam,x", "cam_x"}
MCEncode == [n \in MCNames |-> IF n = "cam,x" THEN "cam_x" ELSE n]
MCCompats == {<<"qcom", "iot", "camx">>, <<"qcom", "novel">>}
MCFiles == {<<"board", "dtb">>, <<"cam,x", "dtb">>, <<"cam,x", "dtbo">>}
MCCombos == {<<>>, <<"board">>, <<"cam_x">>, <<"board", "cam_x">>}
MCMetaNodes == {"iot"}
MCSkipPatterns == {"camx"}

-----------------------------------------------------------------------------
(* KernelMatrix: two machines, of which all kernels support the first, and *)
(* three blobs: a board, an overlay and an overlay whose name has a comma. *)
(* The first family of layers varies machines and kernels, the second the  *)
(* FIT_DTB_COMPATIBLE files and the kernels.                               *)

Yocto == "linux-yocto"
QcomKernels == {"linux-qcom-next", "linux-qcom"}
Kernels == QcomKernels \cup {Yocto}
MachineNames == {"evk", "ride"}
board == <<"board", "dtb">>
cam   == <<"cam", "dtbo">>
lvds  == <<"lvds,a", "dtbo">>
Variants == [s \in {"board", "cam", "lvds_a"} |->
                IF s = "lvds_a" THEN {"lvds_a", "lvds,a"} ELSE {s}]

Pairs(S) == {<<"evk", p>> : p \in Kernels} \cup {<<"ride", p>> : p \in S}
Sources == {src \in [Kernels -> {{}, {board}, {board, cam, lvds}}] :
               /\ src[Yocto] # {board, cam, lvds}
               /\ src["linux-qcom-next"] # {} /\ src["linux-qcom"] # {board}}
Entry(v, n, c) == [key |-> <<v, n>>, combo |-> c]
BaseInc == <<Entry("qcom_", "a", <<"board">>)>>

MachineLayers ==
    {[works |-> Pairs(S), base |-> b, extra |-> [m \in MachineNames |-> x],
      appends |-> a, source |-> src, recipes |-> Kernels \ {r},
      baseInc |-> BaseInc, qcomInc |-> <<>>] :
        S \in {{}, {Yocto}, {"linux-qcom"}, Kernels},
        b \in [MachineNames -> {{board}, {board, cam}}], x \in {{}, {cam}},
        a \in {QcomKernels, {"linux-qcom"}}, r \in {"none", "linux-qcom-next"},
        src \in Sources}

Incs == {<<>>, BaseInc, <<Entry("qcom_", "a", <<"board", "cam">>)>>,
         <<Entry("qcom_", "a", <<"cam">>), Entry("qcom_", "a", <<"board">>)>>,
         <<Entry("qcom_", "a", <<"board", "lvds_a">>), Entry("qcom_", "b", <<>>)>>,
         <<Entry("arm_", "a", <<"board", "lvds_a">>)>>}

ComboLayers ==
    {[works |-> Pairs(Kernels), base |-> [m \in MachineNames |-> {board}],
      extra |-> [m \in MachineNames |-> {}], appends |-> QcomKernels,
      source |-> src, recipes |-> Kernels, baseInc |-> i, qcomInc |-> j] :
        src \in Sources, i \in Incs, j \in Incs \ {BaseInc}}

MCLayers == MachineLayers \cup ComboLayers
MCMachines == <<"evk", "ride">>

-----------------------------------------------------------------------------
\* A class that is not run rests in some initial state.
TextIdle == tree = [images |-> <<>>, configurations |-> <<>>] /\ TextInit
MatrixIdle == layer = (CHOOSE l \in ComboLayers : TRUE) /\ MatrixInit
TestsIdle ==
    /\ multiDtb = FALSE
    /\ varsRead = FALSE /\ metaRead = FALSE /\ metaNodes = {}
    /\ outcome = [t \in Tests |-> "none"]
FitIdle ==
    /\ files = {} /\ present = {Metadata} /\ flags = [c \in Compats |-> <<>>]
    /\ Start /\ TestsIdle /\ test = "none"

Off(v) == v = "off"
NoUnit == Off(listing) /\ Off(dict) /\ Off(parsed) /\ Off(builder) /\ Off(suiteVerdict)

SelftestInit ==
    \/ part = "text" /\ TextInit /\ MatrixIdle /\ FitIdle /\ NoUnit
    \/ part = "matrix" /\ MatrixInit /\ TextIdle /\ FitIdle /\ NoUnit
    \/ part = "unit" /\ Unit!SuiteInit /\ TestsIdle /\ TextIdle /\ MatrixIdle
    \/ part = "integration" /\ SuiteInit /\ NoUnit /\ TextIdle /\ MatrixIdle

SelftestNext ==
    /\ part' = part
    /\ \/ /\ part = "text" /\ TextNext
          /\ UNCHANGED <<matrixVars, suiteVars, unitOnly>>
       \/ /\ part = "matrix" /\ MatrixNext
          /\ UNCHANGED <<textVars, suiteVars, unitOnly>>
       \/ /\ part = "unit" /\ Unit!SuiteNext
          /\ UNCHANGED <<textVars, matrixVars, multiDtb, varsRead, meta, outcome>>
       \/ /\ part = "integration" /\ SuiteNext
          /\ UNCHANGED <<textVars, matrixVars, unitOnly>>

SelftestSpec ==
    SelftestInit /\ [][SelftestNext]_<<part, textVars, matrixVars, suiteVars, unitOnly>>

-----------------------------------------------------------------------------
\* The stack of _parse_its_file is as deep as the file nests, and the caches of the
\* matrix tests say nothing of a kernel that is not so.
SelftestTypesOK == TextTypeOK /\ MatrixTypeOK

\* Every unit test passes, on its own copy of the loops and on those of the task.
SuitePasses == part = "unit" => Unit!SuitePasses
=============================================================================
