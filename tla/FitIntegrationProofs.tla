------------------------ MODULE FitIntegrationProofs -------------------------
(***************************************************************************)
(* The integration tests of the selftest, for any blobs, flags, metadata   *)
(* and encodings, however often the task fails and in whatever order the   *)
(* tests run: what they say of a deployed image is what the two variables  *)
(* of the metadata deserve.                                                *)
(*                                                                         *)
(* The task is at every moment in a state it can be in by itself, also     *)
(* when BitBake starts it over (FullInv, from FitImageProofs), the image   *)
(* it deploys has what was promised, and the file is read back as it was   *)
(* written: at the assertions, reading the file is as good as reading the  *)
(* metadata (AssertionsDeserved).                                          *)
(***************************************************************************)
EXTENDS FitIntegration, FitImageProofs

Outcomes == {"none", "skip", "error", "fail", "pass"}

\* What the task starts from is what it may start from again.
GivenInv ==
    /\ files \in SUBSET Files
    /\ present \in {files \cup {Metadata}}
                     \cup {(files \cup {Metadata}) \ {f} : f \in files \cup {Metadata}}
    /\ flags \in [Compats -> Combos]

\* The metadata is the first image node, and the only one of its type.
FirstInv ==
    /\ pc \in {"parse", "emit", "configure", "assemble", "done"} =>
          /\ 1 \in DOMAIN dtbs
          /\ dtbs[1].id = Metadata /\ dtbs[1].type = "qcom_metadata"
    /\ pc = "metadata" => dtbs = <<>>
    /\ \A i \in DOMAIN dtbs : i # 1 => dtbs[i].type = "flat_dt"

\* The test being run has no outcome yet, and what was read of the metadata is its
\* names.
TestsInv ==
    /\ multiDtb \in BOOLEAN /\ metaRead \in BOOLEAN
    /\ metaRead => metaNodes = MetaNodes
    /\ test \in Tests \cup {"none"} /\ outcome \in [Tests -> Outcomes]
    /\ test # "none" => multiDtb /\ outcome[test] = "none"

SuiteInv == FullInv /\ GivenInv /\ FirstInv /\ TestsInv /\ JudgedAsDeserved

-----------------------------------------------------------------------------
(* The invariant, apart from the verdicts.                                 *)

LEMMA NextFirst == FullInv /\ FirstInv /\ [Next]_vars => FirstInv'
<1> SUFFICES ASSUME FullInv, FirstInv, [Next]_vars PROVE FirstInv'
  OBVIOUS
<1>1. dtbs \in Seq(NodeType)
  BY DEF FullInv, IInv, NodeInv
<1>2. CASE EmitMetadata
  <2>1. CASE Metadata \in present
    BY <1>2, <2>1 DEF EmitMetadata, FirstInv, ImageNode
  <2>2. CASE Metadata \notin present
    BY <1>2, <2>2 DEF EmitMetadata, FirstInv
  <2>3. QED
    BY <2>1, <2>2
<1>3. ASSUME NEW f \in files, EmitDtb(f) PROVE FirstInv'
  <2>1. CASE f \in present
    <3> DEFINE node == ImageNode(BlobId(f), "flat_dt",
                          IF f[2] = "dtb" THEN Get(baseCompats, BlobId(f)) ELSE <<>>)
    <3>1. node.type = "flat_dt" /\ dtbs' = Append(dtbs, node) /\ pc' = pc /\ pc = "emit"
      BY <1>3, <2>1 DEF EmitDtb, ImageNode
    <3> HIDE DEF node
    <3>2. /\ DOMAIN dtbs' = 1 .. Len(dtbs) + 1 /\ dtbs'[Len(dtbs) + 1] = node
          /\ \A i \in DOMAIN dtbs : i \in DOMAIN dtbs' /\ dtbs'[i] = dtbs[i]
          /\ \A i \in DOMAIN dtbs' : i \in DOMAIN dtbs \/ i = Len(dtbs) + 1
      BY <1>1, <3>1
    <3>3. QED
      BY <3>1, <3>2 DEF FirstInv
  <2>2. CASE f \notin present
    BY <1>3, <2>2 DEF EmitDtb, FirstInv
  <2>3. QED
    BY <2>1, <2>2
<1>4. CASE dtbs' = dtbs /\ pc # "metadata" /\ pc' # "metadata"
           /\ (pc' \in {"parse", "emit", "configure", "assemble", "done"} =>
                   pc \in {"parse", "emit", "configure", "assemble", "done"})
  BY <1>4 DEF FirstInv
<1>5. CASE UNCHANGED vars
  BY <1>5 DEF vars, FirstInv
<1>6. QED
  BY <1>2, <1>3, <1>4, <1>5 DEF Next, ParseFlag, ParseDone, EmitDone, SkipNode, EmitConfig,
     NextGroup, ConfigureDone, Assemble, InLoop

LEMMA InputsStay == [Next]_vars => UNCHANGED inputs
BY DEF Next, EmitMetadata, ParseFlag, ParseDone, EmitDtb, EmitDone, SkipNode, EmitConfig,
   NextGroup, ConfigureDone, Assemble, vars

\* What a test deserves is a matter of the inputs alone.
LEMMA DeservedStays ==
    ASSUME UNCHANGED inputs, NEW t
    PROVE  Deserved(t)' <=> Deserved(t)
<1>1. files' = files /\ Contract!Promise' = Contract!Promise
  BY PromiseStays DEF inputs
<1>2. QED
  BY <1>1 DEF Deserved, BlobId

-----------------------------------------------------------------------------
(* What the tests read of a deployed image.                                *)

\* The configurations in the file are those that were promised.
LEMMA ReadsPromise ==
    ASSUME FullInv, pc = "done"
    PROVE  /\ \A conf \in ConfNodes(Parsed) :
                 /\ DOMAIN conf = {"fdt", "compatible"}
                 /\ [compat |-> conf.compatible.val[1], fdt |-> conf.fdt.val] \in Contract!Promise
           /\ \A p \in Contract!Promise : \E conf \in ConfNodes(Parsed) :
                 conf.compatible.val[1] = p.compat /\ conf.fdt.val = p.fdt
           /\ DOMAIN Parsed.configurations # {} <=> Contract!Promise # {}
<1> DEFINE nodes == TreeOf(dtbs, configs).configurations
           conf(n) == Parsed.configurations[n]
<1>1. Parsed.configurations = Reading(nodes)
  BY DEF Parsed
<1>2. /\ nodes = [i \in DOMAIN configs |->
                     ConfigNodeOf(configs[i].num, configs[i].fdt, configs[i].compat)]
      /\ \A i \in DOMAIN configs : configs[i].num = i
  BY DEF TreeOf, FullInv, NumberInv
<1>3. /\ \A i \in DOMAIN nodes : nodes[i].name = i
      /\ DOMAIN nodes = DOMAIN configs /\ DOMAIN nodes \subseteq Nat
      /\ Distinct([i \in DOMAIN nodes |-> nodes[i].name])
  <2>1. \A i \in DOMAIN nodes : nodes[i].name = i
    BY <1>2 DEF ConfigNodeOf, Node
  <2>2. configs \in Seq(ConfigNode)
    BY DEF FullInv, IInv, ConfigInv
  <2>3. QED
    BY <1>2, <2>1, <2>2 DEF Distinct
<1>4. DOMAIN Parsed.configurations = DOMAIN configs
  <2>1. DOMAIN Reading(nodes) = {nodes[i].name : i \in DOMAIN nodes}
    BY <1>3, SectionRead
  <2>2. {nodes[i].name : i \in DOMAIN nodes} = DOMAIN configs
    <3> HIDE DEF nodes
    <3> QED BY <1>3
  <2>3. QED
    BY <1>1, <2>1, <2>2
<1>5. ASSUME NEW n \in DOMAIN configs
      PROVE  /\ DOMAIN conf(n) = {"fdt", "compatible"}
             /\ conf(n)["fdt"].val = configs[n].fdt
             /\ conf(n)["compatible"].val[1] = configs[n].compat
  <2>1. configs[n].compat \in Compats /\ configs[n].fdt \in Seq(Blob)
    <3>1. configs[n] \in ConfigNode
      BY DEF FullInv, IInv, ConfigInv
    <3>2. QED
      BY <3>1 DEF ConfigNode
  <2>2. Len(configs[n].fdt) # 0
    <3>1. Usable(flags[configs[n].compat])
          /\ configs[n].fdt = Contract!Declared(flags[configs[n].compat])
      BY DEF FullInv, IInv, ConfigsDeclared
    <3>2. Len(flags[configs[n].compat]) \in Nat \ {0}
          /\ flags[configs[n].compat] \in Seq(Names)
      BY <2>1, <3>1, UsableEncoded DEF FullInv, IInv
    <3>3. 1 \in DOMAIN configs[n].fdt
      BY <3>1, <3>2 DEF Contract!Declared
    <3>4. QED
      BY <2>1, <3>3
  <2>3. conf(n) = Props(nodes[n].props)
    BY <1>1, <1>2, <1>3, SectionRead
  <2>4. nodes[n].props = ConfigNodeOf(n, configs[n].fdt, configs[n].compat).props
    BY <1>2
  <2>5. QED
    BY <2>1, <2>2, <2>3, <2>4, ConfigRead
<1> HIDE DEF nodes, conf
<1>6. ConfNodes(Parsed) = {conf(n) : n \in DOMAIN configs}
  BY <1>4 DEF ConfNodes, conf
<1>7. Deployed = Contract!Promise
  BY DeployedIsPromised
<1>8. Contract!Promise = {[compat |-> configs[n].compat, fdt |-> configs[n].fdt] :
                             n \in DOMAIN configs}
  BY <1>7 DEF Deployed
<1>9. ASSUME NEW c \in ConfNodes(Parsed)
      PROVE  /\ DOMAIN c = {"fdt", "compatible"}
             /\ [compat |-> c.compatible.val[1], fdt |-> c.fdt.val] \in Contract!Promise
  <2>1. PICK n \in DOMAIN configs : c = conf(n)
    BY <1>6
  <2>2. QED
    BY <1>5, <1>8, <2>1
<1>10. ASSUME NEW p \in Contract!Promise
       PROVE  \E c \in ConfNodes(Parsed) : c.compatible.val[1] = p.compat /\ c.fdt.val = p.fdt
  <2>1. PICK n \in DOMAIN configs : p = [compat |-> configs[n].compat, fdt |-> configs[n].fdt]
    BY <1>8
  <2>2. conf(n) \in ConfNodes(Parsed)
    BY <1>6
  <2>3. QED
    BY <1>5, <2>1, <2>2
<1>11. DOMAIN Parsed.configurations # {} <=> Contract!Promise # {}
  BY <1>4, <1>8
<1>12. QED
  BY <1>9, <1>10, <1>11

\* The first of two properties with different keys, a string, is read as it is.
LEMMA TypeRead ==
    ASSUME NEW x, NEW y
    PROVE  LET read == Props(<<Prop("type", Str(x)), Prop("data", y)>>)
           IN  "type" \in DOMAIN read /\ read["type"] = Str(x)
<1> DEFINE ps == <<Prop("type", Str(x)), Prop("data", y)>>
           keys == [i \in DOMAIN ps |-> ps[i].key]
<1>1. DOMAIN ps = 1 .. 2 /\ ps[1].key = "type" /\ ps[1].val = Str(x) /\ ps[2].key = "data"
  BY DEF Prop
<1> HIDE DEF ps
<1>2. DOMAIN keys = 1 .. 2 /\ keys[1] = "type" /\ keys[2] = "data"
  BY <1>1
<1> HIDE DEF keys
<1>3. LastWith(keys, "type") = 1
  BY <1>2 DEF LastWith
<1>4. Props(ps) = [k \in {keys[i] : i \in DOMAIN keys} |->
                      Reread(Written(ps[LastWith(keys, k)].val))]
  BY DEF Props, keys
<1>5. "type" \in DOMAIN Props(ps) /\ Props(ps)["type"] = Reread(Written(Str(x)))
  BY <1>1, <1>2, <1>3, <1>4
<1>6. Reread(Written(Str(x))) = Str(x)
  <2>1. Written(Str(x)).quoted /\ Written(Str(x)).items = <<x>>
    BY DEF Written, Str
  <2>2. ~(Len(<<x>>) >= 2) /\ <<x>>[1] = x
    OBVIOUS
  <2>3. QED
    BY <2>1, <2>2 DEF Reread
<1>7. QED
  BY <1>5, <1>6 DEF ps

\* The image nodes in the file are the metadata and the blobs of the machine, and
\* no blob is the metadata.
LEMMA ReadsImages ==
    ASSUME FullInv, FirstInv, pc = "done"
    PROVE  /\ DOMAIN Parsed.images = Expected
           /\ Has(Parsed.images[Metadata], "type", Str("qcom_metadata"))
           /\ Metadata \notin Contract!Built
<1> DEFINE nodes == TreeOf(dtbs, configs).images
<1>1. Parsed.images = Reading(nodes)
  BY DEF Parsed
<1>2. nodes = [i \in DOMAIN dtbs |-> DtbNode(dtbs[i].id, dtbs[i].type)]
  BY DEF TreeOf
<1>3. dtbs \in Seq(NodeType) /\ Distinct([i \in DOMAIN dtbs |-> dtbs[i].id])
  BY DEF FullInv, IInv, NodeInv, NumberInv, NodeNamesDistinct
<1>4. \A i \in DOMAIN nodes : nodes[i].name = dtbs[i].id
  BY <1>2 DEF DtbNode, Node
<1>5. /\ DOMAIN nodes = DOMAIN dtbs /\ DOMAIN nodes \subseteq Nat
      /\ Distinct([i \in DOMAIN nodes |-> nodes[i].name])
  BY <1>2, <1>3, <1>4 DEF Distinct
<1>6. /\ DOMAIN Reading(nodes) = {nodes[i].name : i \in DOMAIN nodes}
      /\ \A n \in DOMAIN nodes : Reading(nodes)[nodes[n].name] = Props(nodes[n].props)
  BY <1>5, SectionRead
<1>7. 1 \in DOMAIN dtbs /\ dtbs[1].id = Metadata /\ dtbs[1].type = "qcom_metadata"
      /\ \A i \in DOMAIN dtbs : i # 1 => dtbs[i].type = "flat_dt"
  BY DEF FirstInv
<1>8. \A i \in DOMAIN dtbs : i # 1 => dtbs[i].id \in Contract!Built
  BY <1>7 DEF FullInv, EmittedInv
<1>9. \A f \in files : \E i \in DOMAIN dtbs : i # 1 /\ dtbs[i].id = BlobId(f)
  BY <1>7 DEF FullInv, EmittedInv
<1>10. Contract!Built = {BlobId(f) : f \in files}
  BY DEF Contract!Built, BlobId
<1>11. DOMAIN Parsed.images = Expected
  <2> HIDE DEF nodes
  <2> QED BY <1>1, <1>4, <1>5, <1>6, <1>7, <1>8, <1>9, <1>10 DEF Expected
<1>12. Metadata \notin Contract!Built
  <2> SUFFICES ASSUME NEW f \in files, BlobId(f) = Metadata PROVE FALSE
    BY <1>10
  <2>1. PICK i \in DOMAIN dtbs : i # 1 /\ dtbs[i].id = BlobId(f)
    BY <1>9
  <2>2. i = 1
    BY <1>3, <1>7, <2>1 DEF Distinct
  <2>3. QED
    BY <2>1, <2>2
<1>13. Has(Parsed.images[Metadata], "type", Str("qcom_metadata"))
  <2>1. Parsed.images[Metadata] = Props(nodes[1].props)
    BY <1>1, <1>4, <1>5, <1>6, <1>7
  <2>2. nodes[1].props = <<Prop("type", Str("qcom_metadata")), Prop("data", Raw(Metadata))>>
    BY <1>2, <1>7 DEF DtbNode, Node
  <2>3. QED
    BY <2>1, <2>2, TypeRead DEF Has
<1>14. QED
  BY <1>11, <1>12, <1>13

\* What is promised has the shape the flags give it: a base blob of the machine,
\* then overlays.
LEMMA PromiseShape ==
    ASSUME InputInv, NEW p \in Contract!Promise
    PROVE  /\ 1 \in DOMAIN p.fdt /\ p.fdt[1] \in Contract!Built
           /\ \A i \in DOMAIN p.fdt : p.fdt[i][2] = IF i = 1 THEN "dtb" ELSE "dtbo"
<1>1. PICK c \in Compats : /\ Contract!Selected(flags[c])
                           /\ p = [compat |-> c, fdt |-> Contract!Declared(flags[c])]
  BY DEF Contract!Promise
<1>2. /\ flags[c] # <<>> /\ Contract!Declared(flags[c])[1] \in Contract!Built
      /\ p.fdt = Contract!Declared(flags[c])
  BY <1>1 DEF Contract!Selected
<1>3. flags[c] \in Seq(Names)
  BY InputAssumption DEF InputInv
<1>4. 1 \in DOMAIN flags[c]
  BY <1>2, <1>3
<1>5. QED
  BY <1>2, <1>4 DEF Contract!Declared

\* At the assertions, reading the file is as good as reading the metadata.
LEMMA AssertionsDeserved ==
    ASSUME FullInv, FirstInv, pc = "done", test \in Tests,
           test = "compatible_metadata_validation" => metaNodes = MetaNodes
    PROVE  Assertions <=> Deserved(test)
<1> DEFINE BlobIds == {BlobId(f) : f \in files}
<1>1. InputInv /\ BlobIds = Contract!Built
  BY DEF FullInv, IInv, Contract!Built, BlobId
<1>2. Expected = {Metadata} \cup BlobIds
  BY DEF Expected
<1> HIDE DEF BlobIds
<1>3. /\ DOMAIN Parsed.images = Expected /\ Metadata \notin BlobIds
      /\ Has(Parsed.images[Metadata], "type", Str("qcom_metadata"))
  BY <1>1, ReadsImages
<1>4. ASSUME NEW conf \in ConfNodes(Parsed)
      PROVE  /\ "fdt" \in DOMAIN conf /\ "compatible" \in DOMAIN conf
             /\ \E p \in Contract!Promise :
                   p.compat = conf.compatible.val[1] /\ p.fdt = conf.fdt.val
  BY ReadsPromise
<1>5. ASSUME NEW p \in Contract!Promise
      PROVE  /\ \A i \in DOMAIN p.fdt : p.fdt[i] # Metadata
             /\ \A i \in DOMAIN p.fdt : p.fdt[i][2] = IF i = 1 THEN "dtb" ELSE "dtbo"
  <2>1. /\ 1 \in DOMAIN p.fdt /\ p.fdt[1] \in BlobIds
        /\ \A i \in DOMAIN p.fdt : p.fdt[i][2] = IF i = 1 THEN "dtb" ELSE "dtbo"
    BY <1>1, PromiseShape
  <2>2. Metadata[2] = "dtb"
    BY DEF Metadata
  <2>3. QED
    BY <1>3, <2>1, <2>2
<1>6. ASSUME NEW p \in Contract!Promise
      PROVE  \E conf \in ConfNodes(Parsed) :
                 conf.compatible.val[1] = p.compat /\ conf.fdt.val = p.fdt
  BY ReadsPromise
<1>7. DOMAIN Parsed.configurations # {} <=> Contract!Promise # {}
  BY ReadsPromise
<1>8. CASE test = "its_structure"
  <2>1. Excluded(Parsed, Metadata)
    <3> SUFFICES ASSUME NEW conf \in ConfNodes(Parsed) PROVE Metadata \notin Refs(conf)
      BY DEF Excluded
    <3>1. PICK p \in Contract!Promise : p.fdt = conf.fdt.val
      BY <1>4
    <3>2. QED
      BY <1>5, <3>1 DEF Refs
  <2> DEFINE Links == \A p \in Contract!Promise : \A i \in DOMAIN p.fdt : p.fdt[i] \in BlobIds
  <2>2. ASSUME Links PROVE Linked(Parsed)
    <3> SUFFICES ASSUME NEW conf \in ConfNodes(Parsed)
                 PROVE  "fdt" \in DOMAIN conf /\ Refs(conf) \subseteq Expected
      BY <1>3 DEF Linked
    <3>1. PICK p \in Contract!Promise : p.fdt = conf.fdt.val
      BY <1>4
    <3>2. QED
      BY <1>2, <1>4, <2>2, <3>1 DEF Refs
  <2>3. ASSUME Linked(Parsed) PROVE Links
    <3> SUFFICES ASSUME NEW p \in Contract!Promise, NEW i \in DOMAIN p.fdt
                 PROVE  p.fdt[i] \in BlobIds
      OBVIOUS
    <3>1. PICK conf \in ConfNodes(Parsed) : conf.fdt.val = p.fdt
      BY <1>6
    <3>2. p.fdt[i] \in Refs(conf)
      BY <3>1 DEF Refs
    <3>3. p.fdt[i] \in Expected
      BY <1>3, <2>3, <3>2 DEF Linked
    <3>4. QED
      BY <1>2, <1>5, <3>3
  <2>4. test_fitimage_its_structure <=> Contract!Promise # {} /\ Links
    <3> HIDE DEF Links
    <3> QED BY <1>3, <1>7, <2>1, <2>2, <2>3 DEF test_fitimage_its_structure
  <2>5. Assertions <=> test_fitimage_its_structure
    BY <1>8 DEF Assertions
  <2>6. Deserved(test) <=> Contract!Promise # {} /\ Links
    BY <1>8 DEF Deserved, BlobIds
  <2>7. QED
    BY <2>4, <2>5, <2>6
<1>9. CASE test = "dumpimage"
  <2>1. \A blob \in Expected : Dumped(Parsed, blob)
    BY <1>3 DEF Dumped
  <2>2. Assertions <=> test_fitimage_dumpimage
    BY <1>9 DEF Assertions
  <2>3. Deserved(test) <=> Contract!Promise # {}
    BY <1>9 DEF Deserved
  <2>4. QED
    BY <1>7, <2>1, <2>2, <2>3 DEF test_fitimage_dumpimage
<1>10. CASE test = "compatible_metadata_validation"
  <2> DEFINE Known(compat) ==
                /\ compat[1] = "qcom"
                /\ \A i \in 2 .. Len(compat) :
                      compat[i] \in MetaNodes \cup COMPAT_SKIP_PATTERNS
  <2>1. metaNodes = MetaNodes /\ \A compat : PartsKnown(compat) <=> Known(compat)
    BY <1>10 DEF PartsKnown
  <2>2. Assertions <=> test_fitimage_compatible_metadata_validation
    BY <1>10 DEF Assertions
  <2>3. Deserved(test) <=> MetaNodes # {} /\ \A p \in Contract!Promise : Known(p.compat)
    BY <1>10 DEF Deserved
  <2> HIDE DEF Known
  <2>4. test_fitimage_compatible_metadata_validation <=>
            /\ MetaNodes # {}
            /\ \A conf \in ConfNodes(Parsed) : Known(conf.compatible.val[1])
    BY <1>4, <2>1 DEF test_fitimage_compatible_metadata_validation
  <2>5. (\A conf \in ConfNodes(Parsed) : Known(conf.compatible.val[1]))
            => \A p \in Contract!Promise : Known(p.compat)
    BY <1>6
  <2>6. (\A p \in Contract!Promise : Known(p.compat))
            => \A conf \in ConfNodes(Parsed) : Known(conf.compatible.val[1])
    BY <1>4
  <2>7. QED
    BY <2>2, <2>3, <2>4, <2>5, <2>6
<1>11. CASE test = "overlay_configs_fdt_list"
  <2>1. test_fitimage_overlay_configs_fdt_list
    BY <1>4, <1>5 DEF test_fitimage_overlay_configs_fdt_list
  <2>2. QED
    BY <1>11, <2>1 DEF Assertions, Deserved
<1>12. QED
  BY <1>8, <1>9, <1>10, <1>11 DEF Tests

-----------------------------------------------------------------------------
(* The tests.                                                              *)

LEMMA InitSuite == SuiteInit => SuiteInv
<1> SUFFICES ASSUME SuiteInit PROVE SuiteInv
  OBVIOUS
<1>1. FullInv /\ GivenInv /\ FirstInv
  <2>1. Init
    BY DEF SuiteInit
  <2>2. FullInv
    BY <2>1, InitFullInv
  <2>3. GivenInv
    BY <2>1 DEF Init, GivenInv
  <2>4. FirstInv
    BY <2>1 DEF Init, Start, FirstInv
  <2>5. QED
    BY <2>2, <2>3, <2>4
<1>2. TestsInv /\ JudgedAsDeserved
  BY DEF SuiteInit, TestsInv, JudgedAsDeserved, Outcomes
<1>3. QED
  BY <1>1, <1>2 DEF SuiteInv

\* A verdict other than pass and fail, or the one that is deserved, keeps the
\* invariant.
LEMMA VerdictKept ==
    ASSUME TestsInv, JudgedAsDeserved, UNCHANGED inputs, UNCHANGED <<multiDtb, meta>>,
           NEW t \in Tests, outcome[t] = "none", NEW result \in Outcomes, Finish(t, result),
           result \in {"pass", "fail"} => multiDtb /\ (result = "pass" <=> Deserved(t))
    PROVE  TestsInv' /\ JudgedAsDeserved'
<1>1. test' = "none" /\ outcome' = [outcome EXCEPT ![t] = result]
  BY DEF Finish
<1>2. TestsInv'
  BY <1>1 DEF TestsInv, meta
<1>3. ASSUME NEW u \in Tests, outcome'[u] \in {"pass", "fail"}
      PROVE  multiDtb' /\ (outcome'[u] = "pass" <=> Deserved(u)')
  <2>1. Deserved(u)' <=> Deserved(u)
    BY DeservedStays
  <2>2. CASE u = t
    <3>1. outcome'[u] = result
      BY <1>1, <2>2 DEF TestsInv
    <3>2. QED
      BY <1>3, <2>1, <2>2, <3>1
  <2>3. CASE u # t
    <3>1. outcome'[u] = outcome[u]
      BY <1>1, <2>3 DEF TestsInv
    <3>2. QED
      BY <1>3, <2>1, <3>1 DEF JudgedAsDeserved
  <2>4. QED
    BY <2>2, <2>3
<1>4. QED
  BY <1>2, <1>3 DEF JudgedAsDeserved

\* As long as no test ends, the verdicts stay what they are.
LEMMA VerdictsStay ==
    ASSUME JudgedAsDeserved, UNCHANGED inputs, UNCHANGED <<multiDtb, outcome>>
    PROVE  JudgedAsDeserved'
BY DeservedStays DEF JudgedAsDeserved

\* A step of the task, or none at all.
LEMMA TaskKept ==
    ASSUME FullInv, GivenInv, FirstInv, [Next]_vars
    PROVE  FullInv' /\ GivenInv' /\ FirstInv' /\ UNCHANGED inputs
<1>1. UNCHANGED inputs
  BY InputsStay
<1>2. QED
  BY <1>1, NextFullInv, NextFirst DEF GivenInv, inputs

LEMMA NextSuite == SuiteInv /\ [SuiteNext]_suiteVars => SuiteInv'
<1> SUFFICES ASSUME SuiteInv, [SuiteNext]_suiteVars PROVE SuiteInv'
  OBVIOUS
<1> USE DEF SuiteInv
<1>1. ASSUME UNCHANGED vars
      PROVE  FullInv' /\ GivenInv' /\ FirstInv' /\ UNCHANGED inputs
  BY <1>1, TaskKept
<1>2. ASSUME NEW t \in Tests, StartTest(t) PROVE SuiteInv'
  <2>1. UNCHANGED vars /\ UNCHANGED <<multiDtb, meta>> /\ outcome[t] = "none"
    BY <1>2 DEF StartTest
  <2>2. CASE multiDtb /\ test' = t /\ UNCHANGED outcome
    <3>1. TestsInv'
      BY <2>1, <2>2 DEF TestsInv, meta
    <3>2. QED
      BY <1>1, <2>1, <2>2, <3>1, VerdictsStay
  <2>3. CASE Finish(t, "skip") \/ Finish(t, "error")
    BY <1>1, <2>1, <2>3, VerdictKept DEF Outcomes
  <2>4. QED
    BY <1>2, <2>2, <2>3 DEF StartTest
<1>3. CASE BuildStep
  <2>1. Next /\ UNCHANGED suite
    BY <1>3 DEF BuildStep
  <2>2. TestsInv'
    BY <2>1 DEF TestsInv, suite, meta
  <2>3. QED
    BY <2>1, <2>2, TaskKept, VerdictsStay DEF suite
<1>4. CASE BuildFailed
  <2>1. test # "none" /\ Finish(test, "error") /\ UNCHANGED <<inputs, multiDtb, meta>>
    BY <1>4 DEF BuildFailed
  <2>2. Init'
    BY <1>4 DEF BuildFailed, StartOver, Init, Start, GivenInv, inputs
  <2>3. FullInv' /\ GivenInv' /\ FirstInv'
    <3>1. FullInv'
      BY <2>2, InitFullInv, PTL
    <3>2. QED
      BY <2>2, <3>1 DEF GivenInv, FirstInv, Init, Start
  <2>4. QED
    BY <2>1, <2>3, VerdictKept DEF TestsInv, Outcomes
<1>5. CASE GetMetadataNodes
  <2>1. UNCHANGED vars /\ UNCHANGED multiDtb /\ test \in Tests
    BY <1>5 DEF GetMetadataNodes, Tests
  <2>2. CASE metaRead' = TRUE /\ metaNodes' = MetaNodes /\ UNCHANGED <<test, outcome>>
    <3>1. TestsInv'
      BY <2>1, <2>2 DEF TestsInv
    <3>2. QED
      BY <1>1, <2>1, <2>2, <3>1, VerdictsStay
  <2>3. CASE Finish(test, "error") /\ UNCHANGED meta
    BY <1>1, <2>1, <2>3, VerdictKept DEF TestsInv, Outcomes, Tests
  <2>4. QED
    BY <1>5, <2>2, <2>3 DEF GetMetadataNodes
<1>6. CASE Judge
  <2>1. /\ UNCHANGED vars /\ UNCHANGED <<multiDtb, meta>> /\ test \in Tests /\ pc = "done"
        /\ test = "compatible_metadata_validation" => metaNodes = MetaNodes
        /\ multiDtb /\ outcome[test] = "none"
    BY <1>6 DEF Judge, TestsInv
  <2>2. CASE Finish(test, IF Assertions THEN "pass" ELSE "fail")
    <3>1. Assertions <=> Deserved(test)
      BY <2>1, AssertionsDeserved
    <3> DEFINE result == IF Assertions THEN "pass" ELSE "fail"
    <3>2. result \in Outcomes /\ (result = "pass" <=> Deserved(test)) /\ Finish(test, result)
      BY <2>2, <3>1 DEF Outcomes
    <3> HIDE DEF result
    <3>3. QED
      BY <1>1, <2>1, <3>2, VerdictKept
  <2>3. CASE Finish(test, "error")
    BY <1>1, <2>1, <2>3, VerdictKept DEF Outcomes
  <2>4. QED
    BY <1>6, <2>2, <2>3 DEF Judge
<1>7. CASE UNCHANGED suiteVars
  <2>1. UNCHANGED vars /\ UNCHANGED suite
    BY <1>7 DEF suiteVars
  <2>2. TestsInv'
    BY <2>1 DEF TestsInv, suite, meta
  <2>3. QED
    BY <1>1, <2>1, <2>2, VerdictsStay DEF suite
<1>8. QED
  BY <1>2, <1>3, <1>4, <1>5, <1>6, <1>7 DEF SuiteNext

\* A test that gets to its assertions passes exactly if the metadata deserves it,
\* whatever the tests before it left in the caches and the deploy directory.
THEOREM VerdictsDeserved == SuiteSpec => []JudgedAsDeserved
<1>1. SuiteInv => JudgedAsDeserved
  BY DEF SuiteInv
<1>2. QED
  BY <1>1, InitSuite, NextSuite, PTL DEF SuiteSpec
=============================================================================
