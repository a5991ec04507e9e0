---------------------------- MODULE KernelMatrix ----------------------------
(***************************************************************************)
(* QcomFitImageMatrixTests (lib/oeqa/selftest/cases/qcom_fitimage.py): the *)
(* tests that hold the machine metadata and the FIT_DTB_COMPATIBLE files   *)
(* against the sources of the kernels, without building any.               *)
(*                                                                         *)
(* They run one after the other, in any order, in one process, and share   *)
(* class-level caches: which kernel recipes exist, which machine stands for*)
(* a kernel, which blobs its source can produce.  All three are filled by  *)
(* calls to BitBake, and any such call may fail for a reason of its own (a *)
(* server that did not start, a download that broke); OE-Core reports that *)
(* as the same AssertionError as a machine a kernel does not support.      *)
(***************************************************************************)
EXTENDS Naturals, Sequences, FiniteSets

CONSTANTS
    Machines,     \* names of conf/machine/*.conf, sorted
    Layers,       \* the contents of the layer and of the kernels
    NameVariants, \* stem -> the stem as it is, with commas, with underscores
    MaxFaults     \* how many BitBake calls may fail (a bound)

KERNEL_PROVIDER_YOCTO == "linux-yocto"
KERNEL_PROVIDERS_QCOM == <<"linux-qcom-next", "linux-qcom">>
QcomProviders == {KERNEL_PROVIDERS_QCOM[i] : i \in DOMAIN KERNEL_PROVIDERS_QCOM}
Providers == QcomProviders \cup {KERNEL_PROVIDER_YOCTO}
MachineSet == {Machines[i] : i \in DOMAIN Machines}

ASSUME MachinesAssumption == Machines \in Seq(MachineSet) /\ "None" \notin MachineSet

\* The assignments of the FIT_DTB_COMPATIBLE files have an order.
ASSUME LayersAssumption ==
    \A l \in Layers : /\ l.recipes \subseteq Providers
                      /\ DOMAIN l.baseInc = 1 .. Len(l.baseInc)
                      /\ DOMAIN l.qcomInc = 1 .. Len(l.qcomInc)

SourceTests == {"machine_dtb_entries", "compatible_combos"}
KeyTests    == {"no_duplicate_keys", "compat_key_format"}
MatrixTests == SourceTests \cup KeyTests

VARIABLES
    layer,      \* what is being tested; never changes
    probed,     \* _available_providers_cache is set
    available,  \* its value
    machineOf,  \* _provider_machine_cache
    outputs,    \* _provider_outputs_cache
    matrixTest, \* the test being run
    stage,      \* its stage: idle, probe, fetch, machines
    need,       \* kernels whose outputs it has still to ask for
    mi,         \* index of the machine it is looking at
    errors,     \* it found an error
    verdict,    \* outcome of each test
    faults      \* BitBake calls that failed

caches == <<probed, available, machineOf, outputs>>
run    == <<matrixTest, need, mi, errors>>
matrixVars   == <<layer, caches, run, stage, verdict, faults>>

-----------------------------------------------------------------------------
(* What the layer says.                                                    *)

Supports(m, p) == <<m, p>> \in layer.works

\* KERNEL_DEVICETREE of a machine under a kernel: the qcom kernels append
\* LINUX_QCOM_KERNEL_DEVICETREE.
DtFiles(m, p) == layer.base[m] \cup IF p \in layer.appends THEN layer.extra[m] ELSE {}
DtKeys(m, p)  == {f[1] : f \in DtFiles(m, p)}

\* _parse_fit_compatible_map: of two assignments to a flag the later counts.
CompatMap(inc) ==
    [k \in {inc[i].key : i \in DOMAIN inc} |->
        inc[CHOOSE i \in DOMAIN inc : inc[i].key = k
                /\ \A j \in DOMAIN inc : inc[j].key = k => j <= i].combo]

HasDtOutput(files, stem, exts) ==
    \E v \in NameVariants[stem], e \in exts : <<v, e>> \in files

\* A single blob may be a tree or an overlay; otherwise a tree and overlays.
ComboExists(files, combo) ==
    IF Len(combo) = 1 THEN HasDtOutput(files, combo[1], {"dtb", "dtbo"})
    ELSE /\ HasDtOutput(files, combo[1], {"dtb"})
         /\ \A i \in 2 .. Len(combo) : HasDtOutput(files, combo[i], {"dtbo"})

\* No entry may be empty either: the loop takes its first part unseen.
CombosExist(files, map) ==
    \A k \in DOMAIN map : map[k] # <<>> /\ ComboExists(files, map[k])

\* Mutant: the sources of all qcom kernels together.
M_MachineErrors(m, yocto, q) ==
    LET dt == DtFiles(m, q)
        yoctoBase == DtFiles(m, KERNEL_PROVIDER_YOCTO) \ layer.extra[m]
    IN  \/ ~(dt \subseteq UNION {layer.source[p] : p \in QcomProviders})
        \/ ~(layer.extra[m] \subseteq dt)
        \/ yocto /\ ~((yoctoBase \cap layer.source[KERNEL_PROVIDER_YOCTO]) \subseteq dt)

\* What is wrong with a machine under qcom kernel q; what linux-yocto lacks is a
\* warning only, and what it has must not be lost under the qcom kernel.
MachineErrors(m, yocto, q) ==
    LET dt == DtFiles(m, q)
        yoctoBase == DtFiles(m, KERNEL_PROVIDER_YOCTO) \ layer.extra[m]
    IN  \/ ~(dt \subseteq outputs[q])
        \/ ~(layer.extra[m] \subseteq dt)
        \/ yocto /\ ~((yoctoBase \cap outputs[KERNEL_PROVIDER_YOCTO]) \subseteq dt)

NoDuplicates(inc) == \A i, j \in DOMAIN inc : inc[i].key = inc[j].key => i = j
KeysDecode(inc)   == \A i \in DOMAIN inc : inc[i].key[1] = "qcom_"

-----------------------------------------------------------------------------
NoCache == [x \in {} |-> {}]
Remember(cache, k, v) == [x \in DOMAIN cache \cup {k} |-> IF x = k THEN v ELSE cache[x]]

\* The qcom kernels that are in S, in their order.
QcomIn(S) ==
    LET In(p) == IF p \in S THEN <<p>> ELSE <<>>
    IN  In(KERNEL_PROVIDERS_QCOM[1]) \o In(KERNEL_PROVIDERS_QCOM[2])

MatrixInit ==
    /\ layer \in Layers
    /\ probed = FALSE /\ available = {}
    /\ machineOf = NoCache /\ outputs = NoCache
    /\ matrixTest = "none" /\ stage = "idle" /\ need = <<>> /\ mi = 0
    /\ errors = FALSE
    /\ verdict = [t \in MatrixTests |-> "none"]
    /\ faults = 0

\* The calls in lost fail though nothing is wrong with what they ask for.
Fail(lost) == faults' = faults + Cardinality(lost) /\ faults' <= MaxFaults

EndTest(result) ==
    /\ verdict' = [verdict EXCEPT ![matrixTest] = result]
    /\ stage' = "idle"

Begin(t) ==
    /\ stage = "idle" /\ verdict[t] = "none"
    /\ matrixTest' = t /\ stage' = "probe"
    /\ need' = <<>> /\ mi' = 0 /\ errors' = FALSE
    /\ UNCHANGED <<layer, caches, verdict, faults>>

\* The tests that read the two files only.
CheckKeys(t) ==
    /\ stage = "idle" /\ verdict[t] = "none"
    /\ LET ok == IF t = "no_duplicate_keys"
                 THEN NoDuplicates(layer.baseInc) /\ NoDuplicates(layer.qcomInc)
                 ELSE KeysDecode(layer.baseInc) /\ KeysDecode(layer.qcomInc)
       IN  verdict' = [verdict EXCEPT ![t] = IF ok THEN "pass" ELSE "fail"]
    /\ UNCHANGED <<layer, caches, run, stage, faults>>

\* _available_providers: show-recipes with ignore_status, so a call that fails is
\* a recipe that is not there.
Probe ==
    /\ stage = "probe" /\ probed' = TRUE
    /\ \/ probed /\ UNCHANGED <<available, faults>>
       \/ /\ ~probed
          /\ \E lost \in SUBSET layer.recipes :
                available' = layer.recipes \ lost /\ Fail(lost)
    /\ IF QcomIn(available') = <<>>
       THEN EndTest("fail") /\ UNCHANGED need
       ELSE /\ stage' = "fetch" /\ UNCHANGED verdict
            /\ need' = <<KERNEL_PROVIDER_YOCTO>> \o QcomIn(available')
    /\ UNCHANGED <<layer, machineOf, outputs, matrixTest, mi, errors>>

Wanted == Head(need)

\* _provider_machine: the first machine for which the kernel resolves, or None;
\* both are remembered.
FindMachine ==
    /\ stage = "fetch" /\ need # <<>>
    /\ Wanted \notin DOMAIN outputs /\ Wanted \notin DOMAIN machineOf
    /\ \E lost \in SUBSET {m \in MachineSet : Supports(m, Wanted)} :
          LET able == {i \in DOMAIN Machines : Supports(Machines[i], Wanted)
                                                 /\ Machines[i] \notin lost}
              first == CHOOSE i \in able : \A j \in able : i <= j
          IN  /\ machineOf' = Remember(machineOf, Wanted,
                                 IF able = {} THEN "None" ELSE Machines[first])
              /\ Fail(lost)
    /\ UNCHANGED <<layer, probed, available, outputs, run, stage, verdict>>

\* Mutant: the cached sets are one and the same object.
M_FetchOutputs ==
    /\ stage = "fetch" /\ need # <<>>
    /\ \/ /\ Wanted \in DOMAIN outputs
          /\ need' = Tail(need)
          /\ UNCHANGED <<outputs, stage, verdict, faults>>
       \/ /\ Wanted \notin DOMAIN outputs /\ Wanted \in DOMAIN machineOf
          /\ machineOf[Wanted] # "None"
          /\ outputs' = Remember(outputs, Wanted, layer.source[Wanted] \cup
                                UNION {outputs[p] : p \in DOMAIN outputs})
          /\ need' = Tail(need)
          /\ UNCHANGED <<stage, verdict, faults>>
       \/ /\ Wanted \notin DOMAIN outputs /\ Wanted \in DOMAIN machineOf
          /\ IF machineOf[Wanted] = "None" THEN UNCHANGED faults ELSE Fail({Wanted})
          /\ EndTest("fail")
          /\ UNCHANGED <<outputs, need>>
    /\ UNCHANGED <<layer, probed, available, machineOf, matrixTest, mi, errors>>

\* _provider_output_files: unpack the source for that machine and list the blobs
\* it can produce.  Without a machine, or when unpacking fails, the test fails and
\* nothing is remembered.
FetchOutputs ==
    /\ stage = "fetch" /\ need # <<>>
    /\ \/ /\ Wanted \in DOMAIN outputs
          /\ need' = Tail(need)
          /\ UNCHANGED <<outputs, stage, verdict, faults>>
       \/ /\ Wanted \notin DOMAIN outputs /\ Wanted \in DOMAIN machineOf
          /\ machineOf[Wanted] # "None"
          /\ outputs' = Remember(outputs, Wanted, layer.source[Wanted])
          /\ need' = Tail(need)
          /\ UNCHANGED <<stage, verdict, faults>>
       \/ /\ Wanted \notin DOMAIN outputs /\ Wanted \in DOMAIN machineOf
          /\ IF machineOf[Wanted] = "None" THEN UNCHANGED faults ELSE Fail({Wanted})
          /\ EndTest("fail")
          /\ UNCHANGED <<outputs, need>>
    /\ UNCHANGED <<layer, probed, available, machineOf, matrixTest, mi, errors>>

\* test_fit_dtb_compatible_combos_exist_in_kernel_sources, once it has the outputs:
\* base entries against all kernels, the others against the qcom kernels.
CheckCombos ==
    /\ stage = "fetch" /\ need = <<>> /\ matrixTest = "compatible_combos"
    /\ LET qcom == UNION {outputs[p] : p \in available \cap QcomProviders}
           all  == qcom \cup outputs[KERNEL_PROVIDER_YOCTO]
       IN  EndTest(IF /\ CombosExist(all, CompatMap(layer.baseInc))
                      /\ CombosExist(qcom, CompatMap(layer.qcomInc))
                   THEN "pass" ELSE "fail")
    /\ UNCHANGED <<layer, caches, run, faults>>

StartMachines ==
    /\ stage = "fetch" /\ need = <<>> /\ matrixTest = "machine_dtb_entries"
    /\ stage' = "machines" /\ mi' = 1
    /\ UNCHANGED <<layer, caches, matrixTest, need, errors, verdict, faults>>

\* One machine of test_machine_dtb_entries_exist_for_kernel_providers: linux-yocto
\* if it resolves, and the first qcom kernel that does.
CheckMachine ==
    /\ stage = "machines" /\ mi <= Len(Machines)
    /\ LET m == Machines[mi]
       IN  \E lost \in SUBSET {p \in Providers : Supports(m, p)} :
              LET yocto == Supports(m, KERNEL_PROVIDER_YOCTO) /\ KERNEL_PROVIDER_YOCTO \notin lost
                  qcom  == QcomIn({p \in available \ lost : Supports(m, p)})
              IN  /\ Fail(lost)
                  /\ IF qcom = <<>>
                     THEN EndTest("fail") /\ UNCHANGED <<mi, errors>>
                     ELSE /\ errors' = (errors \/ MachineErrors(m, yocto, qcom[1]))
                          /\ mi' = mi + 1
                          /\ UNCHANGED <<stage, verdict>>
    /\ UNCHANGED <<layer, caches, matrixTest, need>>

EndMachines ==
    /\ stage = "machines" /\ mi > Len(Machines)
    /\ EndTest(IF errors THEN "fail" ELSE "pass")
    /\ UNCHANGED <<layer, caches, run, faults>>

MatrixNext ==
    \/ \E t \in SourceTests : Begin(t)
    \/ \E t \in KeyTests : CheckKeys(t)
    \/ Probe \/ FindMachine \/ FetchOutputs
    \/ CheckCombos \/ StartMachines \/ CheckMachine \/ EndMachines

MatrixSpec == MatrixInit /\ [][MatrixNext]_matrixVars

-----------------------------------------------------------------------------
(* Properties.                                                             *)

Passed(t) == verdict[t] = "pass"

\* The caches say nothing that is not so: what they hold about a kernel is what
\* BitBake and the source of that very kernel say.
MatrixTypeOK ==
    /\ available \subseteq layer.recipes
    /\ \A p \in DOMAIN machineOf :
          machineOf[p] # "None" => machineOf[p] \in MachineSet /\ Supports(machineOf[p], p)
    /\ \A p \in DOMAIN outputs : p \in DOMAIN machineOf /\ outputs[p] = layer.source[p]
    /\ stage \in {"idle", "probe", "fetch", "machines"}
    /\ verdict \in [MatrixTests -> {"none", "pass", "fail"}]

\* A green matrix can be relied on although calls failed and caches were filled by
\* other tests: each machine has a qcom kernel whose source produces all blobs the
\* machine builds under it, and the entries of both files, the overwritten ones
\* included, name blobs that some kernel (some qcom kernel) can produce.
PassSound ==
    /\ Passed("machine_dtb_entries") =>
          \A m \in MachineSet : \E q \in QcomProviders \cap layer.recipes :
              /\ Supports(m, q)
              /\ layer.extra[m] \subseteq DtFiles(m, q)
              /\ DtFiles(m, q) \subseteq layer.source[q]
    /\ Passed("compatible_combos") /\ Passed("no_duplicate_keys") =>
          /\ \A i \in DOMAIN layer.baseInc :
                ComboExists(UNION {layer.source[p] : p \in Providers}, layer.baseInc[i].combo)
          /\ \A i \in DOMAIN layer.qcomInc :
                ComboExists(UNION {layer.source[p] : p \in QcomProviders}, layer.qcomInc[i].combo)

\* What the test of the machines says of a layer when every call goes through.
MachinesFine ==
    /\ \A p \in {KERNEL_PROVIDER_YOCTO} \cup (QcomProviders \cap layer.recipes) :
          \E m \in MachineSet : Supports(m, p)
    /\ \A m \in MachineSet :
          LET q == QcomIn({p \in layer.recipes : Supports(m, p)})
          IN  /\ q # <<>>
              /\ layer.extra[m] \subseteq DtFiles(m, q[1])
              /\ DtFiles(m, q[1]) \subseteq layer.source[q[1]]
              /\ Supports(m, KERNEL_PROVIDER_YOCTO) =>
                    \A f \in DtFiles(m, KERNEL_PROVIDER_YOCTO) \ layer.extra[m] :
                        f \in layer.source[KERNEL_PROVIDER_YOCTO] => f \in DtFiles(m, q[1])

\* Neither the order of the tests nor what an earlier one left in the caches has
\* any influence on the outcome, as long as no call fails.
OrderIrrelevant ==
    faults = 0 /\ verdict["machine_dtb_entries"] # "none" =>
        (Passed("machine_dtb_entries") <=> MachinesFine)

\* A green matrix can be relied on although calls to BitBake failed and caches were
\* filled by other tests, and while no call fails neither the order of the tests nor
\* the caches decide about the outcome.
MatrixSound == PassSound /\ OrderIrrelevant
=============================================================================
