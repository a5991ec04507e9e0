---------------------------- MODULE FitSelftest ----------------------------
(***************************************************************************)
(* The unit tests of QcomFitImageTests (lib/oeqa/selftest/cases/           *)
(* qcom_fitimage.py): the call each makes and what it asserts of the parsed*)
(* file.  The file may come from the copy the tests use, or from the task  *)
(* itself, which visits blobs and flags in any order: a test whose outcome *)
(* depends on that order says nothing about the layer.                     *)
(***************************************************************************)
EXTENDS FitReplica

CONSTANT METADATA_SUFFIXES, COMPAT_EXTENSIONS   \* parts a compatible string may have

VARIABLES
    test,     \* the test being run
    builder,  \* "copy": _build_qcom_fitimage; "task": the BitBake task
    verdict   \* "none" until the assertions have been evaluated

suite == <<test, builder, verdict>>
suiteVars == <<replicaVars, suite>>

-----------------------------------------------------------------------------
(* The calls.  A compatible string is its vendor and its dash-separated    *)
(* parts; blobs are listed as sorted() returns them.                       *)

Dtb(stem)  == <<stem, "dtb">>
Dtbo(stem) == <<stem, "dtbo">>
Q(parts) == <<"qcom">> \o parts
Call(blobs, fs) == [listing |-> blobs, flags |-> fs]

rb3 == "qcs6490-rb3gen2"
mezzanine == "qcs6490-rb3gen2-vision-mezzanine"
camxEl2 == <<"lemans-evk", "lemans-evk-camx", "lemans-el2", "lemans-camx-el2">>

call_single_dtb_single_compat ==
    Call(<<Dtb("myboard")>>, << <<Q(<<"myboard", "idp">>), <<"myboard">>>> >>)

call_single_dtb_multi_compat ==
    Call(<<Dtb(rb3)>>, << <<Q(<<"qcs5430", "iot">>), <<rb3>>>>,
                          <<Q(<<"qcs6490", "iot">>), <<rb3>>>> >>)

call_dtb_with_single_overlay ==
    Call(<<Dtbo(mezzanine), Dtb(rb3)>>,
         << <<Q(<<"qcs6490", "iot">>), <<rb3>>>>,
            <<Q(<<"qcs6490", "iot", "subtype2">>), <<rb3, mezzanine>>>> >>)

call_dtb_with_multiple_overlays ==
    Call(<<Dtbo("lemans-camx-el2"), Dtbo("lemans-el2"), Dtbo("lemans-evk-camx"),
           Dtb("lemans-evk")>>,
         << <<Q(<<"qcs9075", "iot">>), <<"lemans-evk">>>>,
            <<Q(<<"qcs9075", "iot", "camx", "el2kvm">>), camxEl2>>,
            <<Q(<<"qcs9075", "socv2.0", "iot", "camx", "el2kvm">>), camxEl2>> >>)

call_metadata_node_excluded_from_configs ==
    Call(<<Dtb("simple")>>, << <<Q(<<"simple", "evk">>), <<"simple">>>> >>)

call_overlay_filtering_by_kernel_devicetree ==
    Call(<<Dtb("base")>>,
         << <<Q(<<"base", "iot">>), <<"base">>>>,
            <<Q(<<"base", "iot", "subtype2">>), <<"base", "missing-overlay">>>> >>)

call_fdt_linkage_validity ==
    Call(<<Dtb("board"), Dtbo("camx"), Dtbo("el2")>>,
         << <<Q(<<"board", "iot">>), <<"board">>>>,
            <<Q(<<"board", "iot", "subtype2">>), <<"board", "camx">>>>,
            <<Q(<<"board", "iot", "el2kvm">>), <<"board", "camx", "el2">>>> >>)

call_compatible_string_format ==
    Call(<<Dtbo(mezzanine), Dtb(rb3)>>,
         << <<Q(<<"qcs6490", "iot">>), <<rb3>>>>,
            <<Q(<<"qcs5430", "iot">>), <<rb3>>>>,
            <<Q(<<"qcs6490", "iot", "subtype2">>), <<rb3, mezzanine>>>>,
            <<Q(<<"qcs5430", "iot", "subtype2">>), <<rb3, mezzanine>>>> >>)

call_dtbo_no_standalone_config ==
    Call(<<Dtb("base"), Dtbo("overlay1"), Dtbo("overlay2")>>,
         << <<Q(<<"base", "iot">>), <<"base">>>>,
            <<Q(<<"base", "iot", "subtype1">>), <<"base", "overlay1">>>>,
            <<Q(<<"base", "iot", "subtype2">>), <<"base", "overlay2">>>> >>)

call_multiple_base_dtbs_with_overlays ==
    Call(<<Dtbo("boardA-cam"), Dtb("boardA"), Dtbo("boardB-cam"), Dtb("boardB")>>,
         << <<Q(<<"boardA", "iot">>), <<"boardA">>>>,
            <<Q(<<"boardA", "iot", "subtype2">>), <<"boardA", "boardA-cam">>>>,
            <<Q(<<"boardB", "idp">>), <<"boardB">>>>,
            <<Q(<<"boardB", "idp", "subtype2">>), <<"boardB", "boardB-cam">>>> >>)

call_base_dtb_only_in_overlay ==
    Call(<<Dtb("base"), Dtbo("overlay")>>,
         << <<Q(<<"base", "iot", "subtype2">>), <<"base", "overlay">>>> >>)

call_mkimage_compile ==
    Call(<<Dtbo("testboard-cam"), Dtb("testboard")>>,
         << <<Q(<<"testboard", "iot">>), <<"testboard">>>>,
            <<Q(<<"testboard", "iot", "subtype2">>), <<"testboard", "testboard-cam">>>> >>)

Calls == [single_dtb_single_compat |-> call_single_dtb_single_compat,
          single_dtb_multi_compat |-> call_single_dtb_multi_compat,
          dtb_with_single_overlay |-> call_dtb_with_single_overlay,
          dtb_with_multiple_overlays |-> call_dtb_with_multiple_overlays,
          metadata_node_excluded_from_configs |-> call_metadata_node_excluded_from_configs,
          overlay_filtering_by_kernel_devicetree |-> call_overlay_filtering_by_kernel_devicetree,
          fdt_linkage_validity |-> call_fdt_linkage_validity,
          compatible_string_format |-> call_compatible_string_format,
          dtbo_no_standalone_config |-> call_dtbo_no_standalone_config,
          multiple_base_dtbs_with_overlays |-> call_multiple_base_dtbs_with_overlays,
          base_dtb_only_in_overlay |-> call_base_dtb_only_in_overlay,
          mkimage_compile |-> call_mkimage_compile]

-----------------------------------------------------------------------------
(* The assertions, on what the parser returned.                            *)

Images == DOMAIN parsed.images
Configs == ConfNodes(parsed)
HasImage(blob, type) == blob \in Images /\ Has(parsed.images[blob], "type", Str(type))
IsConf(conf, compat, fdt) == Has(conf, "compatible", Str(compat)) /\ Has(conf, "fdt", fdt)

NImages(n) == Cardinality(Images) = n
NConfs(n)  == Cardinality(DOMAIN parsed.configurations) = n
Offered(compat) == \E conf \in Configs : Has(conf, "compatible", Str(compat))

AssertFdtLinkage == Linked(parsed)
AssertMetadataExcluded == Excluded(parsed, Metadata)
AssertShape == AssertFdtLinkage /\ AssertMetadataExcluded

test_single_dtb_single_compat ==
    /\ HasImage(Metadata, "qcom_metadata") /\ HasImage(Dtb("myboard"), "flat_dt")
    /\ DOMAIN parsed.configurations = {1}
    /\ IsConf(parsed.configurations[1], Q(<<"myboard", "idp">>), Str(Dtb("myboard")))
    /\ AssertShape

test_single_dtb_multi_compat ==
    /\ NImages(2) /\ NConfs(2)
    /\ Offered(Q(<<"qcs5430", "iot">>)) /\ Offered(Q(<<"qcs6490", "iot">>))
    /\ \A conf \in Configs : Has(conf, "fdt", Str(Dtb(rb3)))
    /\ AssertShape

test_dtb_with_single_overlay ==
    /\ NImages(3) /\ Dtbo(mezzanine) \in Images
    /\ NConfs(2)
    /\ \A conf \in Configs :
          /\ conf.compatible = Str(Q(<<"qcs6490", "iot">>)) =>
                Has(conf, "fdt", Str(Dtb(rb3)))
          /\ conf.compatible = Str(Q(<<"qcs6490", "iot", "subtype2">>)) =>
                Has(conf, "fdt", List(<<Dtb(rb3), Dtbo(mezzanine)>>))
    /\ Offered(Q(<<"qcs6490", "iot">>)) /\ Offered(Q(<<"qcs6490", "iot", "subtype2">>))
    /\ AssertShape

test_dtb_with_multiple_overlays ==
    LET base == Str(Q(<<"qcs9075", "iot">>))
        stack == List(<<Dtb("lemans-evk"), Dtbo("lemans-evk-camx"),
                        Dtbo("lemans-el2"), Dtbo("lemans-camx-el2")>>)
    IN  /\ NImages(5) /\ NConfs(3)
        /\ \A c \in Configs :
              Has(c, "fdt", IF c.compatible = base THEN Str(Dtb("lemans-evk")) ELSE stack)
        /\ Offered(Q(<<"qcs9075", "iot", "camx", "el2kvm">>))
        /\ Offered(Q(<<"qcs9075", "socv2.0", "iot", "camx", "el2kvm">>))
        /\ AssertShape

test_metadata_node_excluded_from_configs ==
    /\ HasImage(Metadata, "qcom_metadata")
    /\ AssertMetadataExcluded
    /\ \A conf \in Configs : "compatible" \in DOMAIN conf

test_overlay_filtering_by_kernel_devicetree ==
    /\ NConfs(1)
    /\ \A conf \in Configs : IsConf(conf, Q(<<"base", "iot">>), Str(Dtb("base")))
    /\ NImages(2)

test_fdt_linkage_validity ==
    /\ AssertFdtLinkage
    /\ {Dtb("board"), Dtbo("camx"), Dtbo("el2")} \subseteq Images

\* "qcom," and suffixes that qcom-metadata.dts or the exception list knows.
test_compatible_string_format ==
    \A conf \in Configs :
        LET parts == conf.compatible.val[1]
        IN  /\ parts[1] = "qcom"
            /\ \A i \in 2 .. Len(parts) : parts[i] \in METADATA_SUFFIXES \cup COMPAT_EXTENSIONS

test_dtbo_no_standalone_config == \A conf \in Configs : conf.fdt.val[1][2] = "dtb"

test_multiple_base_dtbs_with_overlays ==
    /\ NImages(5) /\ NConfs(4)
    /\ Offered(Q(<<"boardA", "iot">>)) /\ Offered(Q(<<"boardA", "iot", "subtype2">>))
    /\ Offered(Q(<<"boardB", "idp">>)) /\ Offered(Q(<<"boardB", "idp", "subtype2">>))
    /\ \A conf \in Configs :
          /\ conf.compatible = Str(Q(<<"boardA", "iot", "subtype2">>)) =>
                /\ conf.fdt.type = "list"
                /\ {Dtb("boardA"), Dtbo("boardA-cam")} \subseteq Refs(conf)
                /\ Dtb("boardB") \notin Refs(conf)
          /\ conf.compatible = Str(Q(<<"boardB", "idp", "subtype2">>)) =>
                /\ conf.fdt.type = "list"
                /\ {Dtb("boardB"), Dtbo("boardB-cam")} \subseteq Refs(conf)
                /\ Dtb("boardA") \notin Refs(conf)
    /\ AssertShape

test_base_dtb_only_in_overlay ==
    /\ NConfs(1)
    /\ \A conf \in Configs : IsConf(conf, Q(<<"base", "iot", "subtype2">>),
                                  List(<<Dtb("base"), Dtbo("overlay")>>))
    /\ AssertShape

\* mkimage refuses two nodes of one name; otherwise its image is dumped.
test_mkimage_compile ==
    /\ NodeNamesDistinct
    /\ Dumped(parsed, Dtb("testboard")) /\ Dumped(parsed, Dtbo("testboard-cam"))
    /\ Dumped(parsed, Metadata)
    /\ Cardinality(DOMAIN parsed.configurations) >= 2

Assertions ==
    CASE test = "single_dtb_single_compat" -> test_single_dtb_single_compat
      [] test = "single_dtb_multi_compat" -> test_single_dtb_multi_compat
      [] test = "dtb_with_single_overlay" -> test_dtb_with_single_overlay
      [] test = "dtb_with_multiple_overlays" -> test_dtb_with_multiple_overlays
      [] test = "metadata_node_excluded_from_configs" -> test_metadata_node_excluded_from_configs
      [] test = "overlay_filtering_by_kernel_devicetree" ->
            test_overlay_filtering_by_kernel_devicetree
      [] test = "fdt_linkage_validity" -> test_fdt_linkage_validity
      [] test = "compatible_string_format" -> test_compatible_string_format
      [] test = "dtbo_no_standalone_config" -> test_dtbo_no_standalone_config
      [] test = "multiple_base_dtbs_with_overlays" -> test_multiple_base_dtbs_with_overlays
      [] test = "base_dtb_only_in_overlay" -> test_base_dtb_only_in_overlay
      [] test = "mkimage_compile" -> test_mkimage_compile

-----------------------------------------------------------------------------
SuiteInit ==
    /\ test \in DOMAIN Calls
    /\ builder \in {"copy", "task"}
    /\ verdict = "none"
    /\ ReplicaInit(Calls[test])

Build ==
    /\ \/ builder = "copy" /\ ReplicaNext
       \/ builder = "task" /\ pc # "assemble" /\ Next /\ UNCHANGED <<call, parsed>>
       \/ builder = "task" /\ ReplicaParse
    /\ UNCHANGED suite

Judge ==
    /\ pc = "parsed" /\ verdict = "none"
    /\ verdict' = IF Assertions THEN "pass" ELSE "fail"
    /\ UNCHANGED <<replicaVars, test, builder>>

SuiteNext == Build \/ Judge

SuiteSpec == SuiteInit /\ [][SuiteNext]_suiteVars

-----------------------------------------------------------------------------
(* Properties.                                                             *)

\* Every unit test passes, on its own copy of the loops and on the task's: no
\* assertion holds only because the copy sorts the blobs or because the flags
\* happen to come in the order in which the test wrote them down.
SuitePasses == verdict # "fail"
=============================================================================
