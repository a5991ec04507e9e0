----------------------------- MODULE FitReplica -----------------------------
(***************************************************************************)
(* QcomFitImageTests._build_qcom_fitimage (lib/oeqa/selftest/cases/        *)
(* qcom_fitimage.py).  The selftest cannot run the BitBake task, so it     *)
(* "replicates dtb-fit-image.bbclass logic": a second copy of the loops of *)
(* do_generate_qcom_fitimage, which feeds the same QcomItsNodeRoot and     *)
(* parses the ITS it writes.  What the unit tests say of the layer is      *)
(* worth what this copy is: it must do nothing the task could not do.      *)
(*                                                                         *)
(* The variables are those of FitImage; the copy visits the blobs sorted   *)
(* by name and the flags in the order of a dictionary, creates every blob  *)
(* it needs, and ends with the parsed file where the task runs mkimage.    *)
(***************************************************************************)
EXTENDS FitImage, ItsTree

VARIABLES
    listing,  \* kernel_devicetree, sorted
    dict,     \* keys of fit_dtb_compatible, in the order of the dictionary
    parsed    \* what _parse_its_file returned

call == <<listing, dict>>
replicaVars == <<vars, call, parsed>>

Unparsed == [images |-> NoEntry, configurations |-> NoEntry]

\* The element of S that comes first in seq.
First(seq, S) ==
    seq[CHOOSE i \in DOMAIN seq : seq[i] \in S /\ \A j \in 1 .. i - 1 : seq[j] \notin S]

\* A call has a list of blobs and a list of pairs of compatible string and combo.
ReplicaInit(args) ==
    /\ listing = args.listing
    /\ files = {args.listing[i] : i \in DOMAIN args.listing}
    /\ present = files \cup {Metadata}
    /\ dict = [i \in DOMAIN args.flags |-> args.flags[i][1]]
    /\ flags = [c \in {args.flags[i][1] : i \in DOMAIN args.flags} |->
                    LET i == CHOOSE i \in DOMAIN args.flags : args.flags[i][1] = c
                    IN  args.flags[i][2]]
    /\ parsed = Unparsed
    /\ Start

ReplicaMetadata ==
    /\ pc = "metadata" /\ pc' = "parse"
    /\ todo' = DOMAIN flags
    /\ dtbs' = <<ImageNode(Metadata, "qcom_metadata", <<>>)>>
    /\ UNCHANGED <<inputs, tables, output, call, parsed>>

\* Mutant: the keys keep the commas of the file names.
M_ReplicaKeys == {f[1] : f \in files}

ReplicaKeys == {Encode[f[1]] : f \in files}

\* "Mirror the bbclass: encode commas".
ReplicaKey(parts) == [i \in DOMAIN parts |-> Encode[parts[i]]]

\* One iteration over the dictionary.
ReplicaEntry ==
    LET c     == First(dict, todo)
        parts == flags[c]
        base  == <<Encode[parts[1]], "dtb">>
        key   == ReplicaKey(parts)
        used  == parts # <<>> /\ \A i \in DOMAIN parts : parts[i] \in ReplicaKeys
    IN  /\ pc = "parse" /\ todo # {}
        /\ todo' = todo \ {c}
        /\ \/ ~used /\ UNCHANGED tables
           \/ /\ used /\ Len(parts) > 1
              /\ overlayGroups' =
                    IF key \in seenCombos THEN overlayGroups
                    ELSE Extend(overlayGroups, base,
                                [i \in 1 .. Len(parts) - 1 |-> <<parts[i + 1], "dtbo">>])
              /\ seenCombos' = seenCombos \cup {key}
              /\ overlayCompats' = Extend(overlayCompats, key, c)
              /\ UNCHANGED baseCompats
           \/ /\ used /\ Len(parts) = 1
              /\ baseCompats' = Extend(baseCompats, base, c)
              /\ UNCHANGED <<overlayGroups, overlayCompats, seenCombos>>
        /\ UNCHANGED <<inputs, pc, dtbs, output, call, parsed>>

ReplicaParsed ==
    /\ pc = "parse" /\ todo = {}
    /\ pc' = "emit" /\ todo' = files
    /\ UNCHANGED <<inputs, tables, dtbs, output, call, parsed>>

\* One iteration over sorted(files_set).
ReplicaEmit ==
    LET f == First(listing, todo)
    IN  /\ pc = "emit" /\ todo # {}
        /\ todo' = todo \ {f}
        /\ dtbs' = Append(dtbs, ImageNode(BlobId(f), "flat_dt",
                         IF f[2] = "dtb" THEN Get(baseCompats, BlobId(f)) ELSE <<>>))
        /\ UNCHANGED <<inputs, pc, tables, output, call, parsed>>

ReplicaEmitted ==
    /\ pc = "emit" /\ todo = {}
    /\ pc' = "configure"
    /\ UNCHANGED <<inputs, todo, tables, dtbs, output, call, parsed>>

\* fitimage_emit_section_qcomconfig is the one the task calls.
ReplicaConfigure ==
    /\ SkipNode \/ EmitConfig \/ NextGroup \/ ConfigureDone
    /\ UNCHANGED <<call, parsed>>

Tree == TreeOf(dtbs, configs)

\* write_its_file and _parse_its_file, in place of mkimage.
ReplicaParse ==
    /\ pc = "assemble" /\ pc' = "parsed"
    /\ parsed' = [images |-> Reading(Tree.images),
                  configurations |-> Reading(Tree.configurations)]
    /\ UNCHANGED <<inputs, todo, tables, dtbs, output, call>>

ReplicaNext ==
    \/ ReplicaMetadata \/ ReplicaEntry \/ ReplicaParsed
    \/ ReplicaEmit \/ ReplicaEmitted \/ ReplicaConfigure \/ ReplicaParse

-----------------------------------------------------------------------------
(* Properties.                                                             *)

Bbclass == INSTANCE FitImage WITH pc <- IF pc = "parsed" THEN "assemble" ELSE pc

\* "Replicate dtb-fit-image.bbclass logic": every step of the copy is a step the
\* task can take on the same inputs, up to mkimage, so that a unit test never
\* passes on behaviour the task does not have.
ReplicaIsTheTask == Bbclass!Init /\ [][Bbclass!Next]_Bbclass!vars

\* The property p of a parsed configuration, as a list of what it holds.
Held(n, p) == parsed.configurations[n][p].val

\* From the metadata through both loops, the writer and the parser: what the
\* assertions get to see are the configurations FIT_DTB_COMPATIBLE declares, no
\* more and no fewer, each with the blobs declared for it in their order.
ParsedAsDeclared ==
    pc = "parsed" =>
        {[compat |-> Held(n, "compatible")[1], fdt |-> Held(n, "fdt")] :
            n \in DOMAIN parsed.configurations} = Contract!Promise

\* What a unit test judges is the layer: the copy behaves like the task, and its
\* assertions get to see what the metadata declares.
CopyFaithful == ReplicaIsTheTask /\ []ParsedAsDeclared
=============================================================================
