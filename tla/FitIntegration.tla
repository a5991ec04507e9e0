--------------------------- MODULE FitIntegration ---------------------------
(***************************************************************************)
(* QcomFitImageIntegrationTests (lib/oeqa/selftest/cases/qcom_fitimage.py) *)
(* composed with the task it exercises: the tests build virtual/kernel, so *)
(* do_generate_qcom_fitimage of FitImage runs, and read what it deployed.  *)
(*                                                                         *)
(* The tests run one after the other in any order, in one process.  They   *)
(* share the deploy directory (a task that succeeded is not run again, one *)
(* that failed is), the BitBake variables and the names of the nodes in    *)
(* qcom-metadata.dtb, both read once and kept in class attributes.         *)
(***************************************************************************)
EXTENDS FitImage, ItsTree

CONSTANTS
    MetaNodes,            \* names of the nodes of qcom-metadata.dtb
    COMPAT_SKIP_PATTERNS  \* parts of compatible strings that need no node

Tests == {"its_structure", "dumpimage", "compatible_metadata_validation",
          "overlay_configs_fdt_list"}

VARIABLES
    multiDtb,  \* QCOM_DTB_DEFAULT = "multi-dtb"
    varsRead,  \* _cached_bb_vars is set
    metaRead,  \* _meta_nodes is set
    metaNodes, \* its value
    test,      \* the test being run, "none" between tests
    outcome    \* of each test; "error": a command failed before the assertions

meta == <<metaRead, metaNodes>>
suite == <<multiDtb, varsRead, meta, test, outcome>>
suiteVars == <<vars, suite>>

Parsed == LET tree == TreeOf(dtbs, configs)
          IN  [images |-> Reading(tree.images),
               configurations |-> Reading(tree.configurations)]

-----------------------------------------------------------------------------
SuiteInit ==
    /\ Init
    /\ multiDtb \in BOOLEAN
    /\ varsRead = FALSE /\ metaRead = FALSE /\ metaNodes = {}
    /\ test = "none" /\ outcome = [t \in Tests |-> "none"]

Finish(t, result) == test' = "none" /\ outcome' = [outcome EXCEPT ![t] = result]

\* A test starts with the variables, kept unless reading them failed; it is
\* skipped for a machine without a FIT image.
StartTest(t) ==
    /\ test = "none" /\ outcome[t] = "none"
    /\ \/ /\ varsRead' = TRUE
          /\ IF multiDtb THEN test' = t /\ UNCHANGED outcome ELSE Finish(t, "skip")
       \/ /\ ~varsRead /\ UNCHANGED varsRead
          /\ Finish(t, "error")
    /\ UNCHANGED <<vars, multiDtb, meta>>

\* bitbake('virtual/kernel'): the task runs until it has succeeded once.
BuildStep ==
    /\ test # "none" /\ pc \notin {"done", "fatal"}
    /\ Next
    /\ UNCHANGED suite

StartOver ==
    /\ pc' = "metadata" /\ todo' = {}
    /\ baseCompats' = Empty /\ overlayGroups' = Empty
    /\ overlayCompats' = Empty /\ seenCombos' = {}
    /\ dtbs' = <<>> /\ configs' = <<>> /\ counter' = 1
    /\ cursor' = [node |-> 1, group |-> 0, compat |-> 1]

\* A task that fails fails the test; BitBake starts it over for the next one.
BuildFailed ==
    /\ test # "none" /\ pc = "fatal"
    /\ Finish(test, "error")
    /\ StartOver /\ UNCHANGED inputs
    /\ UNCHANGED <<multiDtb, varsRead, meta>>

\* Mutant: the names of a machine without the blob are kept as well.
M_GetMetadataNodes ==
    /\ test = "compatible_metadata_validation" /\ pc = "done" /\ ~metaRead
    /\ \/ metaRead' = TRUE /\ metaNodes' = {} /\ UNCHANGED <<test, outcome>>
       \/ Finish(test, "error") /\ UNCHANGED meta
    /\ UNCHANGED <<vars, multiDtb, varsRead>>

\* _get_metadata_nodes: dtc is built and run; the names are kept if that works.
GetMetadataNodes ==
    /\ test = "compatible_metadata_validation" /\ pc = "done" /\ ~metaRead
    /\ \/ metaRead' = TRUE /\ metaNodes' = MetaNodes /\ UNCHANGED <<test, outcome>>
       \/ Finish(test, "error") /\ UNCHANGED meta
    /\ UNCHANGED <<vars, multiDtb, varsRead>>

-----------------------------------------------------------------------------
(* The assertions.                                                         *)

Expected == {Metadata} \cup {BlobId(f) : f \in files}

test_fitimage_its_structure ==
    /\ Expected \subseteq DOMAIN Parsed.images
    /\ Has(Parsed.images[Metadata], "type", Str("qcom_metadata"))
    /\ DOMAIN Parsed.configurations # {}
    /\ Linked(Parsed) /\ Excluded(Parsed, Metadata)

test_fitimage_dumpimage ==
    /\ \A blob \in Expected : Dumped(Parsed, blob)
    /\ DOMAIN Parsed.configurations # {}

PartsKnown(compat) ==
    /\ compat[1] = "qcom"
    /\ \A i \in 2 .. Len(compat) : compat[i] \in metaNodes \cup COMPAT_SKIP_PATTERNS

test_fitimage_compatible_metadata_validation ==
    /\ metaNodes # {}
    /\ \A conf \in ConfNodes(Parsed) :
          "compatible" \in DOMAIN conf => PartsKnown(conf.compatible.val[1])

\* A list starts with a .dtb and goes on with .dtbo; a string is a .dtb.
test_fitimage_overlay_configs_fdt_list ==
    \A conf \in ConfNodes(Parsed) : "fdt" \in DOMAIN conf =>
        \A i \in DOMAIN conf.fdt.val :
            conf.fdt.val[i][2] = IF i = 1 THEN "dtb" ELSE "dtbo"

Assertions ==
    CASE test = "its_structure" -> test_fitimage_its_structure
      [] test = "dumpimage" -> test_fitimage_dumpimage
      [] test = "compatible_metadata_validation" ->
            test_fitimage_compatible_metadata_validation
      [] test = "overlay_configs_fdt_list" -> test_fitimage_overlay_configs_fdt_list

\* dumpimage itself (u-boot-tools-native is built for it) may fail to run.
Judge ==
    /\ test # "none" /\ pc = "done"
    /\ test = "compatible_metadata_validation" => metaRead
    /\ \/ Finish(test, IF Assertions THEN "pass" ELSE "fail")
       \/ test = "dumpimage" /\ Finish(test, "error")
    /\ UNCHANGED <<vars, multiDtb, varsRead, meta>>

SuiteNext ==
    \/ \E t \in Tests : StartTest(t)
    \/ BuildStep \/ BuildFailed
    \/ GetMetadataNodes \/ Judge

SuiteSpec == SuiteInit /\ [][SuiteNext]_suiteVars

-----------------------------------------------------------------------------
(* Properties.                                                             *)

\* What each test should say, judged by the two variables of the metadata alone.
Deserved(t) ==
    LET promise == Contract!Promise
    IN  CASE t = "its_structure" ->
               /\ promise # {}
               /\ \A p \in promise : \A i \in DOMAIN p.fdt :
                     p.fdt[i] \in {BlobId(f) : f \in files}
          [] t = "dumpimage" -> promise # {}
          [] t = "compatible_metadata_validation" ->
               /\ MetaNodes # {}
               /\ \A p \in promise :
                     /\ p.compat[1] = "qcom"
                     /\ \A i \in 2 .. Len(p.compat) :
                           p.compat[i] \in MetaNodes \cup COMPAT_SKIP_PATTERNS
          [] t = "overlay_configs_fdt_list" -> TRUE

\* "Validate that dtb-fit-image.bbclass, fit-dtb-compatible.inc and QcomItsNodeRoot
\* work together end-to-end": a test that gets to its assertions passes exactly if
\* KERNEL_DEVICETREE and FIT_DTB_COMPATIBLE deserve it, whichever tests ran or
\* failed before, whatever they left in the caches and the deploy directory.
JudgedAsDeserved ==
    \A t \in Tests : outcome[t] \in {"pass", "fail"} =>
        /\ multiDtb
        /\ (outcome[t] = "pass" <=> Deserved(t))
=============================================================================
