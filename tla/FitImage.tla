------------------------------ MODULE FitImage ------------------------------
(***************************************************************************)
(* One run of do_generate_qcom_fitimage (classes-recipe/dtb-fit-image      *)
(* .bbclass) together with the ITS writer it drives, QcomItsNodeRoot       *)
(* (lib/qcom/dtb_only_fitimage.py).                                        *)
(*                                                                         *)
(* The task reads two inputs that are maintained in different files:       *)
(* KERNEL_DEVICETREE, the blobs a machine builds, and FIT_DTB_COMPATIBLE,  *)
(* which maps a compatible string to a base device tree and the overlays   *)
(* stacked on it.  It regroups the second by base blob, emits one image    *)
(* node per blob and one configuration node per usable compatible string,  *)
(* and hands the result to mkimage.  UEFI picks a configuration by its     *)
(* compatible string.                                                      *)
(*                                                                         *)
(* files_set is a Python set, so blobs come out in any order; the flags    *)
(* come in the order the metadata declared them, which no rule fixes.      *)
(***************************************************************************)
EXTENDS Naturals, Sequences, FiniteSets

CONSTANTS
    Names,    \* stems of device tree blobs, with and without commas
    Compats,  \* compatible strings, one per FIT_DTB_COMPATIBLE flag
    Combos,   \* the values a flag may have: sequences of stems
    Files,    \* the blobs KERNEL_DEVICETREE may name
    Encode    \* stem.replace(',', '_')

Exts == {"dtb", "dtbo"}
Blob == Names \X Exts

ASSUME EncodeAssumption ==
    /\ Encode \in [Names -> Names]
    /\ \A n \in Names : Encode[Encode[n]] = Encode[n]

ASSUME InputAssumption ==
    /\ Combos \subseteq Seq(Names)
    /\ Files \subseteq Blob

\* " ".join(p.replace(',', '_') for p in parts): the key of overlay_compats.
ComboKey(parts) == [i \in DOMAIN parts |-> Encode[parts[i]]]

\* qcom-metadata.dtb: no stem of KERNEL_DEVICETREE, so a name of its own.
Metadata == <<"qcom-metadata", "dtb">>

VARIABLES
    files,          \* KERNEL_DEVICETREE, as base names
    present,        \* the blobs that exist in dtb_dir
    flags,          \* FIT_DTB_COMPATIBLE
    pc,             \* the part of the task being executed
    todo,           \* what the current loop has still to visit
    baseCompats,    \* base blob  -> compatible strings of the bare base
    overlayGroups,  \* base blob  -> overlay lists stacked on it
    overlayCompats, \* combo key  -> compatible strings of the combo
    seenCombos,     \* combo keys already in overlayGroups
    dtbs,           \* image nodes, in the order they were emitted
    cursor,         \* position of the configuration loops
    counter,        \* number of the next configuration node
    configs         \* configuration nodes, in the order they were emitted

inputs == <<files, present, flags>>
tables == <<baseCompats, overlayGroups, overlayCompats, seenCombos>>
output == <<cursor, counter, configs>>
vars   == <<inputs, pc, todo, tables, dtbs, output>>

-----------------------------------------------------------------------------
(* What the code reads off its inputs.                                     *)

BlobId(f) == <<Encode[f[1]], f[2]>>

\* Mutant: the keys keep the commas of the file names.
M_Keys == {f[1] : f \in files}

\* dtb_keys_list: the encoded stems, whatever the extension.
Keys == {Encode[f[1]] : f \in files}

\* A flag is used when it names something and all of it is in the keys.
Usable(parts) == parts # <<>> /\ \A i \in DOMAIN parts : parts[i] \in Keys

Overlays(parts) == [i \in 1 .. Len(parts) - 1 |-> <<parts[i + 1], "dtbo">>]

ImageNode(id, type, compats) == [id |-> id, type |-> type, compats |-> compats]

\* Python's d.get(k, empty), and d[k] = d.get(k, empty) with v at the end.
Get(d, k) == IF k \in DOMAIN d THEN d[k] ELSE <<>>
Extend(d, k, v) ==
    [x \in DOMAIN d \cup {k} |-> IF x = k THEN Append(Get(d, k), v) ELSE d[x]]
Empty == [x \in {} |-> <<>>]

Start ==
    /\ pc = "metadata"
    /\ todo = {}
    /\ baseCompats = Empty /\ overlayGroups = Empty
    /\ overlayCompats = Empty /\ seenCombos = {}
    /\ dtbs = <<>>
    /\ cursor = [node |-> 1, group |-> 0, compat |-> 1]
    /\ counter = 1 /\ configs = <<>>

Init ==
    /\ files \in SUBSET Files
    /\ present \in {files \cup {Metadata}}
                     \cup {(files \cup {Metadata}) \ {f} : f \in files \cup {Metadata}}
    /\ flags \in [Compats -> Combos]
    /\ Start

-----------------------------------------------------------------------------
(* do_generate_qcom_fitimage                                               *)

\* The metadata blob is copied in and emitted before everything else.
EmitMetadata ==
    /\ pc = "metadata"
    /\ IF Metadata \in present
       THEN /\ pc' = "parse" /\ todo' = DOMAIN flags
            /\ dtbs' = <<ImageNode(Metadata, "qcom_metadata", <<>>)>>
       ELSE pc' = "fatal" /\ UNCHANGED <<todo, dtbs>>
    /\ UNCHANGED <<inputs, tables, output>>

\* Mutant: seen_combos is never consulted.
M_StackAgain(c, parts, base, key) ==
    /\ overlayGroups' = Extend(overlayGroups, base, Overlays(parts))
    /\ seenCombos' = seenCombos \cup {key}
    /\ overlayCompats' = Extend(overlayCompats, key, c)
    /\ UNCHANGED baseCompats

\* Mutant: seen_combos records the overlays alone, not the combination.
M_StackSeen(c, parts, base, key) ==
    /\ overlayGroups' = IF Tail(key) \in seenCombos THEN overlayGroups
                        ELSE Extend(overlayGroups, base, Overlays(parts))
    /\ seenCombos' = seenCombos \cup {Tail(key)}
    /\ overlayCompats' = Extend(overlayCompats, key, c)
    /\ UNCHANGED baseCompats

\* A combination joins its base once, however many flags declare it.
StackOverlays(c, parts, base, key) ==
    /\ overlayGroups' = IF key \in seenCombos THEN overlayGroups
                        ELSE Extend(overlayGroups, base, Overlays(parts))
    /\ seenCombos' = seenCombos \cup {key}
    /\ overlayCompats' = Extend(overlayCompats, key, c)
    /\ UNCHANGED baseCompats

BareBase(c, base) ==
    /\ baseCompats' = Extend(baseCompats, base, c)
    /\ UNCHANGED <<overlayGroups, overlayCompats, seenCombos>>

\* One iteration over FIT_DTB_COMPATIBLE, with its two ways of skipping.
ParseFlag(c) ==
    LET parts == flags[c]
        base  == <<Encode[Head(parts)], "dtb">>
    IN  /\ pc = "parse" /\ c \in todo
        /\ todo' = todo \ {c}
        /\ \/ ~Usable(parts) /\ UNCHANGED tables
           \/ Usable(parts) /\ Len(parts) = 1 /\ BareBase(c, base)
           \/ Usable(parts) /\ Len(parts) > 1
                 /\ StackOverlays(c, parts, base, ComboKey(parts))
        /\ UNCHANGED <<inputs, pc, dtbs, output>>

ParseDone ==
    /\ pc = "parse" /\ todo = {}
    /\ pc' = "emit" /\ todo' = files
    /\ UNCHANGED <<inputs, tables, dtbs, output>>

\* Mutant: an overlay the kernel did not build is left out with a warning.
M_EmitDtb(f) ==
    /\ pc = "emit" /\ f \in todo
    /\ \/ /\ f \in present
          /\ todo' = todo \ {f}
          /\ dtbs' = Append(dtbs, ImageNode(BlobId(f), "flat_dt",
                           IF f[2] = "dtb" THEN Get(baseCompats, BlobId(f)) ELSE <<>>))
          /\ UNCHANGED pc
       \/ /\ f \notin present /\ f[2] = "dtbo"
          /\ todo' = todo \ {f} /\ UNCHANGED <<pc, dtbs>>
       \/ /\ f \notin present /\ f[2] = "dtb"
          /\ pc' = "fatal" /\ UNCHANGED <<todo, dtbs>>
    /\ UNCHANGED <<inputs, tables, output>>

\* One iteration over files_set; a blob the kernel did not build is fatal.
EmitDtb(f) ==
    /\ pc = "emit" /\ f \in todo
    /\ IF f \in present
       THEN /\ todo' = todo \ {f}
            /\ dtbs' = Append(dtbs, ImageNode(BlobId(f), "flat_dt",
                             IF f[2] = "dtb" THEN Get(baseCompats, BlobId(f)) ELSE <<>>))
            /\ UNCHANGED pc
       ELSE pc' = "fatal" /\ UNCHANGED <<todo, dtbs>>
    /\ UNCHANGED <<inputs, tables, output>>

EmitDone ==
    /\ pc = "emit" /\ todo = {}
    /\ pc' = "configure"
    /\ UNCHANGED <<inputs, todo, tables, dtbs, output>>

-----------------------------------------------------------------------------
(* fitimage_emit_section_qcomconfig: for each base blob, one configuration *)
(* per compatible string of the bare base (group 0), then one per          *)
(* compatible string of each overlay list stacked on it (groups 1, 2, ..). *)

InLoop == pc = "configure" /\ cursor.node <= Len(dtbs)
ThisNode == dtbs[cursor.node]

\* Only base blobs get configurations, and the metadata is none.
HasConfigs(node) == node.type # "qcom_metadata" /\ node.id[2] = "dtb"

Groups == Get(overlayGroups, ThisNode.id)
FdtList == <<ThisNode.id>> \o
             (IF cursor.group = 0 THEN <<>> ELSE Groups[cursor.group])
LookupKey == [i \in DOMAIN FdtList |-> Encode[FdtList[i][1]]]
GroupCompats == IF cursor.group = 0 THEN ThisNode.compats
                ELSE Get(overlayCompats, LookupKey)

SkipNode ==
    /\ InLoop /\ ~HasConfigs(ThisNode)
    /\ cursor' = [cursor EXCEPT !.node = @ + 1]
    /\ UNCHANGED <<inputs, pc, todo, tables, dtbs, counter, configs>>

EmitConfig ==
    /\ InLoop /\ HasConfigs(ThisNode)
    /\ cursor.compat <= Len(GroupCompats)
    /\ configs' = Append(configs, [num |-> counter, fdt |-> FdtList,
                                   compat |-> GroupCompats[cursor.compat]])
    /\ counter' = counter + 1
    /\ cursor' = [cursor EXCEPT !.compat = @ + 1]
    /\ UNCHANGED <<inputs, pc, todo, tables, dtbs>>

\* Mutant: the last overlay list of a base blob is left out.
M_NextGroup ==
    /\ InLoop /\ HasConfigs(ThisNode)
    /\ cursor.compat > Len(GroupCompats)
    /\ cursor' = IF cursor.group + 1 < Len(Groups)
                 THEN [cursor EXCEPT !.group = @ + 1, !.compat = 1]
                 ELSE [node |-> cursor.node + 1, group |-> 0, compat |-> 1]
    /\ UNCHANGED <<inputs, pc, todo, tables, dtbs, counter, configs>>

NextGroup ==
    /\ InLoop /\ HasConfigs(ThisNode)
    /\ cursor.compat > Len(GroupCompats)
    /\ cursor' = IF cursor.group < Len(Groups)
                 THEN [cursor EXCEPT !.group = @ + 1, !.compat = 1]
                 ELSE [node |-> cursor.node + 1, group |-> 0, compat |-> 1]
    /\ UNCHANGED <<inputs, pc, todo, tables, dtbs, counter, configs>>

ConfigureDone ==
    /\ pc = "configure" /\ cursor.node > Len(dtbs)
    /\ pc' = "assemble"
    /\ UNCHANGED <<inputs, todo, tables, dtbs, output>>

-----------------------------------------------------------------------------
(* write_its_file and run_mkimage_assemble.  The device tree compiler      *)
(* behind mkimage rejects two nodes of the same name; any other failure of *)
(* it ends the task as well.                                               *)

Distinct(s) == \A i, j \in DOMAIN s : s[i] = s[j] => i = j
NodeNamesDistinct ==
    /\ Distinct([i \in DOMAIN dtbs |-> dtbs[i].id])
    /\ Distinct([i \in DOMAIN configs |-> configs[i].num])

Assemble ==
    /\ pc = "assemble"
    /\ \/ NodeNamesDistinct /\ pc' = "done"
       \/ pc' = "fatal"
    /\ UNCHANGED <<inputs, todo, tables, dtbs, output>>

Next ==
    \/ EmitMetadata
    \/ \E c \in Compats : ParseFlag(c)
    \/ ParseDone
    \/ \E f \in files : EmitDtb(f)
    \/ EmitDone
    \/ SkipNode \/ EmitConfig \/ NextGroup \/ ConfigureDone
    \/ Assemble

Spec == Init /\ [][Next]_vars

-----------------------------------------------------------------------------
(* Properties.                                                             *)

ConfigNode == [num : Nat, fdt : Seq(Blob), compat : Compats]
Dict(K, V) == UNION {[D -> V] : D \in SUBSET K}

\* The state's types: the accumulators are dictionaries over what was seen.
TypeOK ==
    /\ files \subseteq Files /\ present \subseteq files \cup {Metadata}
    /\ flags \in [Compats -> Combos]
    /\ pc \in {"metadata", "parse", "emit", "configure", "assemble", "done", "fatal"}
    /\ todo \subseteq Compats \/ todo \subseteq files
    /\ DOMAIN baseCompats \subseteq Blob /\ DOMAIN overlayGroups \subseteq Blob
    /\ DOMAIN overlayCompats = seenCombos
    /\ cursor.node \in Nat /\ cursor.group \in Nat /\ cursor.compat \in Nat
    /\ counter \in Nat
    /\ configs \in Seq(ConfigNode)

ImageIds == {dtbs[i].id : i \in DOMAIN dtbs}

Contract == INSTANCE FitContract WITH result <-
    [status  |-> CASE pc = "done" -> "deployed"
                   [] pc = "fatal" -> "failed"
                   [] OTHER -> "pending",
     configs |-> IF pc = "done" THEN {[compat |-> configs[i].compat,
                                       fdt |-> configs[i].fdt] : i \in DOMAIN configs}
                 ELSE {}]

\* The image that reaches the deploy directory has exactly the configurations
\* FIT_DTB_COMPATIBLE declares for the blobs at hand, in whatever order the
\* two loops of do_generate_qcom_fitimage visit them.
ImplementsContract == Contract!Spec

\* A configuration node never names other blobs than the ones declared for its
\* compatible string ("Overlay configs must not mix boards"): the grouping by
\* base blob, the comma encoding and the lookup by combo key agree.
ConfigsDeclared ==
    \A i \in DOMAIN configs :
        LET parts == flags[configs[i].compat]
        IN  Usable(parts) /\ configs[i].fdt = Contract!Declared(parts)

\* The counter shared by the two loops of fitimage_emit_section_qcomconfig
\* numbers the nodes without gap or repetition, and in a finished image no
\* compatible string selects two configurations, even when several entries
\* share a combination of blobs.
ConfigsUnique ==
    /\ \A i \in DOMAIN configs : configs[i].num = i
    /\ pc = "done" => Distinct([i \in DOMAIN configs |-> configs[i].compat])

\* "Every ``fdt`` ref in every config must name an existing image."
FdtLinkage ==
    pc = "done" => \A i \in DOMAIN configs : \A k \in DOMAIN configs[i].fdt :
                       configs[i].fdt[k] \in ImageIds

\* Each stem is built for one role: as .dtb when flags use it as a base, as
\* .dtbo when they use it as an overlay.
StemsKeepTheirRole ==
    \A f \in files, c \in Compats : \A i \in DOMAIN flags[c] :
        flags[c][i] = Encode[f[1]] => f[2] = IF i = 1 THEN "dtb" ELSE "dtbo"

\* The linkage the selftest asserts does hold as long as no stem changes role:
\* the filter on FIT_DTB_COMPATIBLE compares stems only.
LinkedWhenRolesKept == StemsKeepTheirRole => FdtLinkage
=============================================================================
