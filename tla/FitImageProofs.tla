--------------------------- MODULE FitImageProofs ---------------------------
(***************************************************************************)
(* Theorems about FitImage, for every set of blobs, flags and encodings.   *)
(*                                                                         *)
(* The argument follows the task.  While flags are parsed, the three       *)
(* tables only ever hold what some usable flag declares (BareInv,          *)
(* GroupInv, ComboInv); image nodes inherit their compatible strings from  *)
(* the first (NodeInv); the configuration loops stay inside the tables     *)
(* (CursorInv).  A configuration is then assembled from one flag's         *)
(* overlays and another flag's compatible string, and the two agree        *)
(* because the combo key determines the whole list (FdtDeclared).          *)
(*                                                                         *)
(* That the image is complete as well takes a second invariant: each       *)
(* usable flag the parsing loop has seen is in the tables, once            *)
(* (TablesInv); each blob has its node (EmittedInv); and the loops pass    *)
(* the positions in the tables one by one, leaving a configuration at each *)
(* (VisitedInv).  From there the task implements FitContract.              *)
(*                                                                         *)
(* Last, the copy of those loops in the selftest (FitReplica): each of its *)
(* steps is one of the task, so that all of this holds of it as well, and  *)
(* the parser of the tests gives back what it wrote.                       *)
(***************************************************************************)
EXTENDS FitReplica, WellFoundedInduction, TLAPS

\* c is a flag for the bare base blob b.
BareFlag(c, b) ==
    /\ c \in Compats /\ Usable(flags[c]) /\ Len(flags[c]) = 1
    /\ b = <<Encode[flags[c][1]], "dtb">>

\* ovls are the overlays some flag stacks on the base blob b.
StackedFlag(ovls, b) ==
    \E c \in Compats : /\ Usable(flags[c]) /\ Len(flags[c]) > 1
                       /\ b = <<Encode[flags[c][1]], "dtb">>
                       /\ ovls = Overlays(flags[c])

\* c is a flag for the combination with this key.
ComboFlag(c, key) ==
    /\ c \in Compats /\ Usable(flags[c]) /\ ComboKey(flags[c]) = key

NodeType == [id : Blob \cup {Metadata}, type : {"qcom_metadata", "flat_dt"},
             compats : Seq(Compats)]

InputInv ==
    /\ files \subseteq Files /\ present \subseteq files \cup {Metadata}
    /\ flags \in [Compats -> Combos]

BareInv ==
    \A b \in DOMAIN baseCompats :
        /\ b \in Blob /\ baseCompats[b] \in Seq(Compats)
        /\ \A k \in DOMAIN baseCompats[b] : BareFlag(baseCompats[b][k], b)

GroupInv ==
    \A b \in DOMAIN overlayGroups :
        /\ b \in Blob /\ overlayGroups[b] \in Seq(Seq(Blob))
        /\ \A g \in DOMAIN overlayGroups[b] : StackedFlag(overlayGroups[b][g], b)

ComboInv ==
    /\ DOMAIN overlayCompats = seenCombos
    /\ \A key \in DOMAIN overlayCompats :
        /\ overlayCompats[key] \in Seq(Compats)
        /\ \A k \in DOMAIN overlayCompats[key] : ComboFlag(overlayCompats[key][k], key)

NodeInv ==
    /\ dtbs \in Seq(NodeType)
    /\ \A i \in DOMAIN dtbs : dtbs[i].type = "flat_dt" =>
          /\ dtbs[i].id \in Blob
          /\ \A k \in DOMAIN dtbs[i].compats : BareFlag(dtbs[i].compats[k], dtbs[i].id)

CursorInv ==
    /\ cursor \in [node : Nat \ {0}, group : Nat, compat : Nat \ {0}]
    /\ pc \in {"metadata", "parse", "emit"} => cursor.group = 0
    /\ pc = "configure" /\ cursor.group # 0 =>
          /\ cursor.node <= Len(dtbs) /\ HasConfigs(ThisNode)
          /\ cursor.group <= Len(Groups)

ConfigInv == configs \in Seq(ConfigNode) /\ counter \in Nat

TodoInv ==
    /\ pc \in {"metadata", "parse", "emit", "configure", "assemble", "done", "fatal"}
    /\ pc = "parse" => todo \subseteq Compats
    /\ pc = "emit" => todo \subseteq files
    /\ todo \subseteq Compats \/ todo \subseteq files

IInv ==
    /\ InputInv /\ TodoInv
    /\ BareInv /\ GroupInv /\ ComboInv
    /\ NodeInv /\ CursorInv /\ ConfigInv
    /\ ConfigsDeclared

-----------------------------------------------------------------------------
(* The dictionaries.                                                       *)

\* d[k] = d.get(k, empty) + [v] adds v at k and changes nothing else.
LEMMA ExtendEntries ==
    ASSUME NEW S, NEW d, NEW k, NEW v \in S,
           \A x \in DOMAIN d : d[x] \in Seq(S)
    PROVE  /\ \A x : x \in DOMAIN Extend(d, k, v) <=> x \in DOMAIN d \/ x = k
           /\ \A x \in DOMAIN Extend(d, k, v) :
                 /\ Extend(d, k, v)[x] \in Seq(S)
                 /\ \A i \in DOMAIN Extend(d, k, v)[x] :
                       \/ x \in DOMAIN d /\ i \in DOMAIN d[x]
                             /\ Extend(d, k, v)[x][i] = d[x][i]
                       \/ x = k /\ Extend(d, k, v)[x][i] = v
<1>1. DOMAIN Extend(d, k, v) = DOMAIN d \cup {k}
  BY DEF Extend
<1>2. ASSUME NEW x \in DOMAIN d, x # k
      PROVE  Extend(d, k, v)[x] = d[x]
  BY <1>2 DEF Extend, Get
<1>3. Extend(d, k, v)[k] = Append(Get(d, k), v)
  BY DEF Extend
<1>4. Get(d, k) \in Seq(S) /\ (k \in DOMAIN d => Get(d, k) = d[k])
  BY DEF Get
<1>5. /\ Append(Get(d, k), v) \in Seq(S)
      /\ Len(Append(Get(d, k), v)) = Len(Get(d, k)) + 1
      /\ \A i \in DOMAIN Append(Get(d, k), v) :
            \/ i \in DOMAIN Get(d, k) /\ Append(Get(d, k), v)[i] = Get(d, k)[i]
            \/ i = Len(Get(d, k)) + 1 /\ Append(Get(d, k), v)[i] = v
  BY <1>4
<1>6. k \notin DOMAIN d => DOMAIN Get(d, k) = {}
  BY DEF Get
<1>7. Len(Get(d, k)) \in Nat
  BY <1>4
<1>8. QED
  BY <1>1, <1>2, <1>3, <1>4, <1>5, <1>6, <1>7

-----------------------------------------------------------------------------
(* The configuration a flag's overlays and another flag's compatible       *)
(* string are put together to.                                             *)

LEMMA UsableEncoded ==
    ASSUME InputInv, NEW c \in Compats, Usable(flags[c])
    PROVE  /\ flags[c] \in Seq(Names) /\ Len(flags[c]) \in Nat \ {0}
           /\ \A i \in DOMAIN flags[c] :
                 flags[c][i] \in Names /\ Encode[flags[c][i]] = flags[c][i]
<1>1. flags[c] \in Seq(Names)
  BY InputAssumption DEF InputInv
<1>2. \A i \in DOMAIN flags[c] : flags[c][i] \in Keys
  BY DEF Usable
<1>3. \A n \in Keys : n \in Names /\ Encode[n] = n
  BY InputAssumption, EncodeAssumption DEF Keys, InputInv, Blob
<1>4. Len(flags[c]) # 0
  BY <1>1 DEF Usable
<1>5. QED
  BY <1>1, <1>2, <1>3, <1>4

\* Equal combo keys declare equal lists of blobs, so the compatible string
\* found under the key of a list belongs to that list.
LEMMA FdtDeclared ==
    ASSUME InputInv, NEW c \in Compats, NEW d \in Compats,
           Usable(flags[c]), Usable(flags[d]),
           NEW fdt, fdt = <<<<Encode[flags[d][1]], "dtb">>>> \o Overlays(flags[d]),
           ComboKey(flags[c]) = [i \in DOMAIN fdt |-> Encode[fdt[i][1]]]
    PROVE  fdt = Contract!Declared(flags[c]) /\ fdt \in Seq(Blob)
<1> DEFINE n == Len(flags[d])
<1>1. /\ flags[d] \in Seq(Names) /\ n \in Nat \ {0}
      /\ \A i \in 1 .. n : flags[d][i] \in Names /\ Encode[flags[d][i]] = flags[d][i]
  BY UsableEncoded
<1>2. /\ flags[c] \in Seq(Names)
      /\ \A i \in DOMAIN flags[c] : Encode[flags[c][i]] = flags[c][i]
  BY UsableEncoded
<1>3. /\ Overlays(flags[d]) \in Seq(Blob) /\ Len(Overlays(flags[d])) = n - 1
      /\ \A i \in 1 .. n - 1 : Overlays(flags[d])[i] = <<flags[d][i + 1], "dtbo">>
  BY <1>1 DEF Overlays, Blob, Exts
<1>4. <<Encode[flags[d][1]], "dtb">> \in Blob
  BY <1>1 DEF Blob, Exts
<1>5. /\ fdt \in Seq(Blob) /\ Len(fdt) = n /\ DOMAIN fdt = 1 .. n
      /\ fdt[1] = <<flags[d][1], "dtb">>
      /\ \A i \in 2 .. n : fdt[i] = <<flags[d][i], "dtbo">>
  BY <1>1, <1>3, <1>4
<1>6. DOMAIN flags[c] = 1 .. n
  BY <1>5 DEF ComboKey
<1>7. \A i \in 1 .. n : flags[c][i] = flags[d][i]
  <2> SUFFICES ASSUME NEW i \in 1 .. n PROVE flags[c][i] = flags[d][i]
    OBVIOUS
  <2>1. ComboKey(flags[c])[i] = Encode[fdt[i][1]]
    BY <1>5
  <2>2. ComboKey(flags[c])[i] = flags[c][i]
    BY <1>2, <1>6 DEF ComboKey
  <2>3. fdt[i][1] = flags[d][i]
    <3>1. CASE i = 1
      BY <1>5, <3>1
    <3>2. CASE i # 1
      <4>1. i \in 2 .. n
        BY <1>1, <3>2
      <4>2. fdt[i] = <<flags[d][i], "dtbo">>
        BY <1>5, <4>1
      <4>3. <<flags[d][i], "dtbo">>[1] = flags[d][i]
        OBVIOUS
      <4>4. QED
        BY <4>2, <4>3, Zenon
    <3>3. QED
      BY <3>1, <3>2
  <2>4. QED
    BY <2>1, <2>2, <2>3, <1>1
<1>8. Contract!Declared(flags[c]) =
          [i \in 1 .. n |-> <<flags[d][i], IF i = 1 THEN "dtb" ELSE "dtbo">>]
  BY <1>1, <1>6, <1>7 DEF Contract!Declared
<1>9. fdt = [i \in 1 .. n |-> <<flags[d][i], IF i = 1 THEN "dtb" ELSE "dtbo">>]
  <2> DEFINE m == [i \in 1 .. n |-> <<flags[d][i], IF i = 1 THEN "dtb" ELSE "dtbo">>]
  <2>1. fdt = [i \in 1 .. n |-> fdt[i]]
    BY <1>5
  <2>2. \A i \in 1 .. n : fdt[i] = <<flags[d][i], IF i = 1 THEN "dtb" ELSE "dtbo">>
    <3> SUFFICES ASSUME NEW i \in 1 .. n
                 PROVE  fdt[i] = <<flags[d][i], IF i = 1 THEN "dtb" ELSE "dtbo">>
      OBVIOUS
    <3>1. CASE i = 1
      BY <1>5, <3>1
    <3>2. CASE i # 1
      <4>1. i \in 2 .. n
        BY <1>1, <3>2
      <4>2. QED
        BY <1>5, <3>2, <4>1
    <3>3. QED
      BY <3>1, <3>2
  <2>3. QED
    BY <2>1, <2>2
<1>10. QED
  BY <1>5, <1>8, <1>9

-----------------------------------------------------------------------------
(* The inductive invariant.                                                *)

LEMMA InitIInv == Init => IInv
<1> SUFFICES ASSUME Init PROVE IInv
  OBVIOUS
<1> USE DEF Init, Start
<1>1. InputInv
  BY InputAssumption DEF InputInv
<1>2. TodoInv
  BY DEF TodoInv
<1>3. BareInv /\ GroupInv /\ ComboInv
  BY DEF BareInv, GroupInv, ComboInv, Empty
<1>4. NodeInv
  BY DEF NodeInv
<1>5. CursorInv
  BY DEF CursorInv
<1>6. ConfigInv /\ ConfigsDeclared
  BY DEF ConfigInv, ConfigsDeclared
<1>7. QED
  BY <1>1, <1>2, <1>3, <1>4, <1>5, <1>6 DEF IInv

\* What the invariants say does not change while their variables do not.
LEMMA TablesUnchanged ==
    ASSUME IInv, UNCHANGED <<inputs, tables>>
    PROVE  InputInv' /\ BareInv' /\ GroupInv' /\ ComboInv'
<1> USE DEF IInv, inputs, tables
<1>1. InputInv'
  BY DEF InputInv
<1>2. BareInv'
  BY DEF BareInv, BareFlag, Usable, Keys
<1>3. GroupInv'
  BY DEF GroupInv, StackedFlag, Usable, Keys
<1>4. ComboInv'
  BY DEF ComboInv, ComboFlag, Usable, Keys
<1>5. QED
  BY <1>1, <1>2, <1>3, <1>4

LEMMA NodesUnchanged ==
    ASSUME IInv, UNCHANGED <<inputs, dtbs>>
    PROVE  NodeInv'
BY DEF IInv, NodeInv, BareFlag, Usable, Keys, inputs

LEMMA ConfigsUnchanged ==
    ASSUME IInv, UNCHANGED <<inputs, output>>
    PROVE  ConfigInv' /\ ConfigsDeclared'
BY DEF IInv, ConfigInv, ConfigsDeclared, Usable, Keys, inputs, output

-----------------------------------------------------------------------------
(* One lemma per action that does more than move on.                       *)

LEMMA EmitMetadataIInv ==
    ASSUME IInv, EmitMetadata
    PROVE  IInv'
<1> USE DEF IInv, EmitMetadata
<1>1. InputInv' /\ BareInv' /\ GroupInv' /\ ComboInv'
  BY TablesUnchanged
<1>2. ConfigInv' /\ ConfigsDeclared'
  BY ConfigsUnchanged
<1>3. NodeInv'
  <2>1. CASE Metadata \in present
    <3>1. ImageNode(Metadata, "qcom_metadata", <<>>) \in NodeType
      BY DEF ImageNode, NodeType
    <3>2. ImageNode(Metadata, "qcom_metadata", <<>>).type = "qcom_metadata"
      BY DEF ImageNode
    <3>3. dtbs' = <<ImageNode(Metadata, "qcom_metadata", <<>>)>>
      BY <2>1
    <3> HIDE DEF EmitMetadata
    <3>4. QED
      BY <3>1, <3>2, <3>3 DEF NodeInv
  <2>2. CASE Metadata \notin present
    BY <2>2, NodesUnchanged
  <2>3. QED
    BY <2>1, <2>2
<1>4. TodoInv'
  <2>1. flags \in [Compats -> Combos]
    BY DEF InputInv
  <2>2. DOMAIN flags = Compats
    BY <2>1
  <2>3. QED
    BY <2>2 DEF TodoInv, inputs
<1>5. CursorInv'
  BY DEF CursorInv, output
<1>6. QED
  BY <1>1, <1>2, <1>3, <1>4, <1>5

LEMMA ParseFlagIInv ==
    ASSUME IInv, NEW c \in Compats, ParseFlag(c)
    PROVE  IInv'
<1> USE DEF IInv
<1> DEFINE parts == flags[c]
           base  == <<Encode[Head(parts)], "dtb">>
           key   == ComboKey(parts)
<1>1. /\ pc = "parse" /\ pc' = pc /\ todo' = todo \ {c}
      /\ UNCHANGED <<inputs, dtbs, output>>
  BY DEF ParseFlag
<1>2. NodeInv' /\ ConfigInv' /\ ConfigsDeclared'
  BY <1>1, NodesUnchanged, ConfigsUnchanged
<1>3. TodoInv' /\ InputInv'
  BY <1>1 DEF TodoInv, InputInv, inputs
<1>4. CursorInv'
  BY <1>1 DEF CursorInv, output
<1>5. flags' = flags /\ Keys' = Keys
  BY <1>1 DEF Keys, inputs
<1>6. BareInv' /\ GroupInv' /\ ComboInv'
  <2>1. CASE ~Usable(parts) /\ UNCHANGED tables
    BY <2>1, <1>1, TablesUnchanged
  <2>2. ASSUME Usable(parts)
        PROVE  /\ parts \in Seq(Names) /\ Len(parts) \in Nat \ {0}
               /\ Head(parts) = parts[1] /\ base \in Blob
    <3>1. parts \in Seq(Names) /\ Len(parts) \in Nat \ {0}
      BY <2>2, UsableEncoded
    <3>2. Head(parts) = parts[1] /\ parts[1] \in Names
      BY <3>1
    <3>3. base \in Blob
      BY <3>2, EncodeAssumption DEF Blob, Exts
    <3>4. QED
      BY <3>1, <3>2, <3>3
  <2>3. CASE Usable(parts) /\ Len(parts) = 1 /\ BareBase(c, base)
    <3>1. BareFlag(c, base)
      BY <2>2, <2>3 DEF BareFlag
    <3>2. baseCompats' = Extend(baseCompats, base, c)
          /\ UNCHANGED <<overlayGroups, overlayCompats, seenCombos>>
      BY <2>3 DEF BareBase
    <3>3. \A b \in DOMAIN baseCompats : baseCompats[b] \in Seq(Compats)
      BY DEF BareInv
    <3>4. BareInv'
      <4> DEFINE e == Extend(baseCompats, base, c)
      <4>1. /\ \A b : b \in DOMAIN e <=> b \in DOMAIN baseCompats \/ b = base
            /\ \A b \in DOMAIN e :
                  /\ e[b] \in Seq(Compats)
                  /\ \A k \in DOMAIN e[b] :
                        \/ b \in DOMAIN baseCompats /\ k \in DOMAIN baseCompats[b]
                              /\ e[b][k] = baseCompats[b][k]
                        \/ b = base /\ e[b][k] = c
        BY <3>3, ExtendEntries
      <4> HIDE DEF e
      <4>2. \A b \in DOMAIN e : b \in Blob /\ \A k \in DOMAIN e[b] : BareFlag(e[b][k], b)
        BY <4>1, <3>1, <2>2, <2>3 DEF BareInv
      <4>3. baseCompats' = e
        BY <3>2 DEF e
      <4>4. QED
        BY <4>1, <4>2, <4>3, <1>5 DEF BareInv, BareFlag, Usable
    <3>5. GroupInv'
      BY <3>2, <1>5 DEF GroupInv, StackedFlag, Usable
    <3>6. ComboInv'
      BY <3>2, <1>5 DEF ComboInv, ComboFlag, Usable
    <3>7. QED
      BY <3>4, <3>5, <3>6
  <2>4. CASE Usable(parts) /\ Len(parts) > 1 /\ StackOverlays(c, parts, base, key)
    <3>1. StackedFlag(Overlays(parts), base)
      BY <2>2, <2>4 DEF StackedFlag
    <3>2. ComboFlag(c, key)
      BY <2>4 DEF ComboFlag
    <3>3. Overlays(parts) \in Seq(Blob)
      BY <2>2, <2>4 DEF Overlays, Blob, Exts
    <3>4. /\ \/ overlayGroups' = overlayGroups
             \/ overlayGroups' = Extend(overlayGroups, base, Overlays(parts))
          /\ seenCombos' = seenCombos \cup {key}
          /\ overlayCompats' = Extend(overlayCompats, key, c)
          /\ UNCHANGED baseCompats
      BY <2>4 DEF StackOverlays
    <3>5. BareInv'
      BY <3>4, <1>5 DEF BareInv, BareFlag, Usable
    <3>6. GroupInv'
      <4>1. CASE overlayGroups' = overlayGroups
        BY <4>1, <1>5 DEF GroupInv, StackedFlag, Usable
      <4>2. CASE overlayGroups' = Extend(overlayGroups, base, Overlays(parts))
        <5>1. \A b \in DOMAIN overlayGroups : overlayGroups[b] \in Seq(Seq(Blob))
          BY DEF GroupInv
        <5> DEFINE ovls == Overlays(parts)
                   e == Extend(overlayGroups, base, ovls)
        <5> HIDE DEF ovls, base
        <5>2. /\ \A b : b \in DOMAIN e <=> b \in DOMAIN overlayGroups \/ b = base
              /\ \A b \in DOMAIN e :
                    /\ e[b] \in Seq(Seq(Blob))
                    /\ \A g \in DOMAIN e[b] :
                          \/ b \in DOMAIN overlayGroups /\ g \in DOMAIN overlayGroups[b]
                                /\ e[b][g] = overlayGroups[b][g]
                          \/ b = base /\ e[b][g] = ovls
          <6>1. ovls \in Seq(Blob)
            BY <3>3 DEF ovls
          <6>2. QED
            BY <5>1, <6>1, ExtendEntries
        <5> HIDE DEF e
        <5>3. \A b \in DOMAIN e : b \in Blob /\ \A g \in DOMAIN e[b] : StackedFlag(e[b][g], b)
          BY <5>2, <3>1, <2>2, <2>4 DEF GroupInv, ovls
        <5>4. overlayGroups' = e
          BY <4>2 DEF e, ovls
        <5>5. QED
          BY <5>2, <5>3, <5>4, <1>5 DEF GroupInv, StackedFlag, Usable
      <4>3. QED
        BY <3>4, <4>1, <4>2
    <3>7. ComboInv'
      <4>1. \A k \in DOMAIN overlayCompats : overlayCompats[k] \in Seq(Compats)
        BY DEF ComboInv
      <4> DEFINE e == Extend(overlayCompats, key, c)
      <4>2. /\ \A x : x \in DOMAIN e <=> x \in DOMAIN overlayCompats \/ x = key
            /\ \A x \in DOMAIN e :
                  /\ e[x] \in Seq(Compats)
                  /\ \A k \in DOMAIN e[x] :
                        \/ x \in DOMAIN overlayCompats /\ k \in DOMAIN overlayCompats[x]
                              /\ e[x][k] = overlayCompats[x][k]
                        \/ x = key /\ e[x][k] = c
        BY <4>1, ExtendEntries
      <4> HIDE DEF e
      <4>3. \A x \in DOMAIN e : \A k \in DOMAIN e[x] : ComboFlag(e[x][k], x)
        BY <4>2, <3>2 DEF ComboInv
      <4>4. overlayCompats' = e /\ DOMAIN e = seenCombos'
        BY <3>4, <4>2 DEF e, ComboInv
      <4>5. QED
        BY <4>2, <4>3, <4>4, <1>5 DEF ComboInv, ComboFlag, Usable
    <3>8. QED
      BY <3>5, <3>6, <3>7
  <2>5. QED
    BY <2>1, <2>3, <2>4 DEF ParseFlag
<1>7. QED
  BY <1>2, <1>3, <1>4, <1>6

LEMMA EmitDtbIInv ==
    ASSUME IInv, NEW f \in files, EmitDtb(f)
    PROVE  IInv'
<1> USE DEF IInv
<1>1. pc = "emit" /\ UNCHANGED <<inputs, tables, output>>
  BY DEF EmitDtb
<1>2. /\ InputInv' /\ BareInv' /\ GroupInv' /\ ComboInv'
      /\ ConfigInv' /\ ConfigsDeclared'
  BY <1>1, TablesUnchanged, ConfigsUnchanged
<1>3. TodoInv'
  BY <1>1 DEF TodoInv, EmitDtb, inputs
<1>4. CursorInv'
  BY <1>1 DEF CursorInv, EmitDtb, output
<1>5. NodeInv'
  <2>1. CASE f \notin present
    BY <1>1, <2>1, NodesUnchanged DEF EmitDtb
  <2>2. CASE f \in present
    <3> DEFINE compats == IF f[2] = "dtb" THEN Get(baseCompats, BlobId(f)) ELSE <<>>
               node    == ImageNode(BlobId(f), "flat_dt", compats)
    <3>1. dtbs' = Append(dtbs, node)
      BY <2>2 DEF EmitDtb
    <3>2. BlobId(f) \in Blob
      BY InputAssumption, EncodeAssumption DEF InputInv, BlobId, Blob, Exts
    <3>3. /\ compats \in Seq(Compats)
          /\ \A k \in DOMAIN compats : BareFlag(compats[k], BlobId(f))
      BY DEF Get, BareInv
    <3>4. /\ node \in NodeType /\ node.type = "flat_dt"
          /\ node.id = BlobId(f) /\ node.compats = compats
      BY <3>2, <3>3 DEF ImageNode, NodeType
    <3>5. flags' = flags /\ Keys' = Keys
      BY <1>1 DEF Keys, inputs
    <3> HIDE DEF node, compats
    <3>6. /\ dtbs' \in Seq(NodeType)
          /\ \A i \in DOMAIN dtbs' : \/ i \in DOMAIN dtbs /\ dtbs'[i] = dtbs[i]
                                     \/ dtbs'[i] = node
      BY <3>1, <3>4 DEF NodeInv
    <3>7. \A i \in DOMAIN dtbs' : dtbs'[i].type = "flat_dt" =>
             /\ dtbs'[i].id \in Blob
             /\ \A k \in DOMAIN dtbs'[i].compats : BareFlag(dtbs'[i].compats[k], dtbs'[i].id)
      BY <3>2, <3>3, <3>4, <3>6 DEF NodeInv
    <3>8. QED
      BY <3>5, <3>6, <3>7 DEF NodeInv, BareFlag, Usable
  <2>3. QED
    BY <2>1, <2>2
<1>6. QED
  BY <1>2, <1>3, <1>4, <1>5

-----------------------------------------------------------------------------
(* The positions the configuration loops go through: a node, group 0 or    *)
(* one of its overlay lists, a compatible string.                          *)

GroupsAt(i) == Get(overlayGroups, dtbs[i].id)
FdtAt(i, g) == <<dtbs[i].id>> \o (IF g = 0 THEN <<>> ELSE GroupsAt(i)[g])
KeyAt(i, g) == [n \in DOMAIN FdtAt(i, g) |-> Encode[FdtAt(i, g)[n][1]]]
CompatsAt(i, g) == IF g = 0 THEN dtbs[i].compats ELSE Get(overlayCompats, KeyAt(i, g))

Position(i, g, k) ==
    /\ i \in DOMAIN dtbs /\ HasConfigs(dtbs[i])
    /\ g \in 0 .. Len(GroupsAt(i))
    /\ k \in 1 .. Len(CompatsAt(i, g))

\* What is put together at a position is what its compatible string declares.
LEMMA PositionDeclared ==
    ASSUME IInv, NEW i \in Nat, NEW g \in Nat, NEW k \in Nat, Position(i, g, k)
    PROVE  LET c == CompatsAt(i, g)[k]
           IN  /\ c \in Compats /\ Usable(flags[c])
               /\ FdtAt(i, g) \in Seq(Blob) /\ FdtAt(i, g) = Contract!Declared(flags[c])
               /\ g = 0 <=> Len(flags[c]) = 1
               /\ dtbs[i].type = "flat_dt"
<1> USE DEF IInv
<1> DEFINE id == dtbs[i].id
           c  == CompatsAt(i, g)[k]
<1>1. i \in DOMAIN dtbs /\ k \in Nat \ {0}
  BY DEF Position
<1>2. dtbs[i] \in NodeType /\ dtbs[i].type = "flat_dt"
  <2>1. dtbs[i] \in NodeType
    BY <1>1 DEF NodeInv
  <2>2. dtbs[i].type \in {"qcom_metadata", "flat_dt"}
    BY <2>1 DEF NodeType
  <2>3. dtbs[i].type # "qcom_metadata"
    BY DEF Position, HasConfigs
  <2>4. QED
    BY <2>1, <2>2, <2>3
<1>3. /\ id \in Blob /\ dtbs[i].compats \in Seq(Compats)
      /\ \A n \in DOMAIN dtbs[i].compats : BareFlag(dtbs[i].compats[n], id)
  BY <1>1, <1>2 DEF NodeInv, NodeType
<1>4. CASE g = 0
  <2>1. k \in DOMAIN dtbs[i].compats /\ c = dtbs[i].compats[k]
    BY <1>1, <1>3, <1>4 DEF Position, CompatsAt
  <2>2. BareFlag(c, id)
    BY <2>1, <1>3
  <2> HIDE DEF c, id
  <2>3. /\ c \in Compats /\ Usable(flags[c]) /\ Len(flags[c]) = 1
        /\ id = <<Encode[flags[c][1]], "dtb">>
    BY <2>2 DEF BareFlag
  <2>4. DOMAIN flags[c] = {1}
    BY <2>3, UsableEncoded
  <2>5. FdtAt(i, g) = <<id>> \o <<>>
    BY <1>4 DEF FdtAt, id
  <2>6. FdtAt(i, g) = <<id>>
    BY <2>5
  <2>7. Contract!Declared(flags[c]) = [n \in {1} |-> id]
    BY <2>3, <2>4 DEF Contract!Declared
  <2>8. <<id>> = [n \in {1} |-> id] /\ <<id>> \in Seq(Blob)
    BY <1>3 DEF id
  <2>9. QED
    BY <1>2, <1>4, <2>3, <2>6, <2>7, <2>8 DEF c
<1>5. CASE g # 0
  <2>1. g <= Len(GroupsAt(i))
    BY <1>5 DEF Position
  <2>2. id \in DOMAIN overlayGroups /\ GroupsAt(i) = overlayGroups[id]
    BY <2>1, <1>5 DEF GroupsAt, Get
  <2>3. g \in DOMAIN GroupsAt(i) /\ StackedFlag(GroupsAt(i)[g], id)
    BY <2>1, <2>2, <1>5 DEF GroupInv
  <2>4. PICK d \in Compats : /\ Usable(flags[d]) /\ Len(flags[d]) > 1
                             /\ id = <<Encode[flags[d][1]], "dtb">>
                             /\ GroupsAt(i)[g] = Overlays(flags[d])
    BY <2>3 DEF StackedFlag
  <2>5. FdtAt(i, g) = <<<<Encode[flags[d][1]], "dtb">>>> \o Overlays(flags[d])
    BY <2>4, <1>5 DEF FdtAt
  <2>6. CompatsAt(i, g) = Get(overlayCompats, KeyAt(i, g))
    BY <1>5 DEF CompatsAt
  <2>7. KeyAt(i, g) \in DOMAIN overlayCompats /\ CompatsAt(i, g) = overlayCompats[KeyAt(i, g)]
    BY <2>6 DEF Get, Position
  <2>8. k \in DOMAIN CompatsAt(i, g) /\ ComboFlag(c, KeyAt(i, g))
    BY <2>7 DEF ComboInv, Position
  <2> HIDE DEF c
  <2>9. c \in Compats /\ Usable(flags[c])
        /\ ComboKey(flags[c]) = [n \in DOMAIN FdtAt(i, g) |-> Encode[FdtAt(i, g)[n][1]]]
    BY <2>8 DEF ComboFlag, KeyAt
  <2>10. FdtAt(i, g) = Contract!Declared(flags[c]) /\ FdtAt(i, g) \in Seq(Blob)
    <3>1. InputInv /\ Usable(flags[d])
      BY <2>4
    <3> HIDE DEF IInv, id
    <3>2. QED
      BY <3>1, <2>5, <2>9, FdtDeclared, Zenon
  <2>11. Len(flags[c]) # 1
    <3>1. InputInv
      OBVIOUS
    <3>2. flags[c] \in Seq(Names) /\ flags[d] \in Seq(Names)
      BY <2>4, <2>9, <3>1, UsableEncoded
    <3>3. DOMAIN flags[c] = DOMAIN FdtAt(i, g)
      BY <2>10 DEF Contract!Declared
    <3>4. Len(Overlays(flags[d])) = Len(flags[d]) - 1 /\ Overlays(flags[d]) \in Seq(Names \X {"dtbo"})
      BY <3>2, <2>4 DEF Overlays
    <3>5. Len(FdtAt(i, g)) = Len(flags[d])
      BY <2>5, <3>2, <3>4
    <3>6. 2 \in 1 .. Len(flags[d])
      BY <2>4, <3>2
    <3>7. 2 \in DOMAIN flags[c]
      BY <2>10, <3>3, <3>5, <3>6
    <3>8. QED
      BY <3>2, <3>7
  <2> HIDE DEF IInv
  <2>12. QED
    BY <1>2, <1>5, <2>9, <2>10, <2>11, Zenon DEF c
<1>6. QED
  BY <1>4, <1>5

\* The cursor of the loops is at a position when there is a string to emit.
LEMMA CursorPosition ==
    ASSUME IInv, InLoop, HasConfigs(ThisNode), cursor.compat <= Len(GroupCompats)
    PROVE  /\ Position(cursor.node, cursor.group, cursor.compat)
           /\ cursor.node \in Nat /\ cursor.group \in Nat /\ cursor.compat \in Nat
           /\ FdtList = FdtAt(cursor.node, cursor.group)
           /\ GroupCompats = CompatsAt(cursor.node, cursor.group)
<1>1. /\ FdtList = FdtAt(cursor.node, cursor.group)
      /\ GroupCompats = CompatsAt(cursor.node, cursor.group)
      /\ Groups = GroupsAt(cursor.node)
  BY DEF FdtList, FdtAt, GroupCompats, CompatsAt, LookupKey, KeyAt, Groups, GroupsAt, ThisNode
<1>2. cursor.node \in DOMAIN dtbs /\ cursor.group \in Nat /\ cursor.compat \in Nat \ {0}
  BY DEF IInv, CursorInv, NodeInv, InLoop
<1>3. Groups \in Seq(Seq(Blob))
  BY DEF IInv, GroupInv, Groups, Get
<1>4. cursor.group \in 0 .. Len(Groups)
  BY <1>2, <1>3 DEF IInv, CursorInv, InLoop
<1>5. GroupCompats \in Seq(Compats)
  <2>1. dtbs[cursor.node] \in NodeType
    BY <1>2 DEF IInv, NodeInv
  <2>2. ThisNode.compats \in Seq(Compats)
    BY <2>1 DEF ThisNode, NodeType
  <2>3. QED
    BY <2>2 DEF IInv, ComboInv, GroupCompats, Get
<1>6. cursor.compat \in 1 .. Len(GroupCompats)
  BY <1>2, <1>5
<1>7. QED
  BY <1>1, <1>2, <1>4, <1>6 DEF Position, ThisNode

LEMMA ConfigDeclared ==
    ASSUME IInv, InLoop, HasConfigs(ThisNode), cursor.compat <= Len(GroupCompats)
    PROVE  LET c == GroupCompats[cursor.compat]
           IN  /\ c \in Compats /\ Usable(flags[c])
               /\ FdtList \in Seq(Blob) /\ FdtList = Contract!Declared(flags[c])
BY CursorPosition, PositionDeclared

LEMMA EmitConfigIInv ==
    ASSUME IInv, EmitConfig
    PROVE  IInv'
<1> USE DEF IInv
<1>1. /\ pc = "configure" /\ UNCHANGED <<inputs, pc, todo, tables, dtbs>>
      /\ counter' = counter + 1 /\ cursor' = [cursor EXCEPT !.compat = @ + 1]
  BY DEF EmitConfig, InLoop
<1>2. InputInv' /\ BareInv' /\ GroupInv' /\ ComboInv' /\ NodeInv'
  BY <1>1, TablesUnchanged, NodesUnchanged
<1>3. TodoInv'
  BY <1>1 DEF TodoInv, inputs
<1>4. CursorInv'
  <2>1. /\ cursor'.node = cursor.node /\ cursor'.group = cursor.group
        /\ cursor' \in [node : Nat \ {0}, group : Nat, compat : Nat \ {0}]
    BY <1>1 DEF CursorInv
  <2>2. QED
    BY <1>1, <2>1 DEF CursorInv, HasConfigs, ThisNode, Groups, Get, tables
<1>5. ConfigInv' /\ ConfigsDeclared'
  <2> DEFINE c == GroupCompats[cursor.compat]
             new == [num |-> counter, fdt |-> FdtList, compat |-> c]
  <2>1. /\ c \in Compats /\ Usable(flags[c])
        /\ FdtList \in Seq(Blob) /\ FdtList = Contract!Declared(flags[c])
    BY ConfigDeclared DEF EmitConfig
  <2>2. configs' = Append(configs, new)
    BY DEF EmitConfig
  <2>3. new \in ConfigNode /\ new.compat = c /\ new.fdt = FdtList
    BY <2>1 DEF ConfigNode, ConfigInv
  <2> HIDE DEF new, c
  <2>4. /\ configs' \in Seq(ConfigNode)
        /\ \A i \in DOMAIN configs' : \/ i \in DOMAIN configs /\ configs'[i] = configs[i]
                                      \/ configs'[i] = new
    BY <2>2, <2>3 DEF ConfigInv
  <2>5. \A i \in DOMAIN configs' :
            /\ Usable(flags[configs'[i].compat])
            /\ configs'[i].fdt = Contract!Declared(flags[configs'[i].compat])
    BY <2>1, <2>3, <2>4 DEF ConfigsDeclared
  <2>6. flags' = flags /\ Keys' = Keys
    BY <1>1 DEF Keys, inputs
  <2>7. ConfigsDeclared'
    BY <2>5, <2>6 DEF ConfigsDeclared, Usable, Contract!Declared
  <2>8. QED
    BY <2>4, <2>7, <1>1 DEF ConfigInv
<1>6. QED
  BY <1>2, <1>3, <1>4, <1>5

\* Moving the cursor on keeps it inside the tables.
LEMMA MoveIInv ==
    ASSUME IInv, SkipNode \/ NextGroup
    PROVE  IInv'
<1> USE DEF IInv
<1>1. /\ pc = "configure" /\ InLoop
      /\ UNCHANGED <<inputs, pc, todo, tables, dtbs, counter, configs>>
  BY DEF SkipNode, NextGroup, InLoop
<1>2. InputInv' /\ BareInv' /\ GroupInv' /\ ComboInv' /\ NodeInv'
  BY <1>1, TablesUnchanged, NodesUnchanged
<1>3. TodoInv' /\ ConfigInv' /\ ConfigsDeclared'
  BY <1>1 DEF TodoInv, ConfigInv, ConfigsDeclared, Usable, Keys, inputs
<1>4. CursorInv'
  <2>1. CASE SkipNode
    <3>1. cursor.group = 0
      BY <2>1, <1>1 DEF CursorInv, SkipNode
    <3>2. cursor' \in [node : Nat \ {0}, group : Nat, compat : Nat \ {0}] /\ cursor'.group = 0
      BY <2>1, <3>1 DEF CursorInv, SkipNode
    <3>3. QED
      BY <3>2, <1>1 DEF CursorInv
  <2>2. CASE NextGroup /\ cursor.group < Len(Groups)
    <3>1. /\ cursor' \in [node : Nat \ {0}, group : Nat, compat : Nat \ {0}]
          /\ cursor'.node = cursor.node /\ cursor'.group = cursor.group + 1
      <4>1. cursor' = [cursor EXCEPT !.group = cursor.group + 1, !.compat = 1]
        BY <2>2 DEF NextGroup
      <4>2. /\ cursor \in [node : Nat \ {0}, group : Nat, compat : Nat \ {0}]
            /\ cursor.group + 1 \in Nat /\ 1 \in Nat \ {0}
        BY DEF CursorInv
      <4>3. QED
        BY <4>1, <4>2
    <3>2. Len(Groups) \in Nat
      BY DEF Groups, Get, GroupInv
    <3>3. cursor'.group <= Len(Groups) /\ cursor'.node <= Len(dtbs)
      BY <2>2, <3>1, <3>2, <1>1 DEF CursorInv, InLoop
    <3>4. HasConfigs(ThisNode)' /\ Groups' = Groups
      BY <2>2, <3>1, <1>1 DEF NextGroup, HasConfigs, ThisNode, Groups, Get, tables
    <3>5. QED
      BY <3>1, <3>3, <3>4, <1>1 DEF CursorInv
  <2>3. CASE NextGroup /\ ~(cursor.group < Len(Groups))
    <3>1. cursor' \in [node : Nat \ {0}, group : Nat, compat : Nat \ {0}] /\ cursor'.group = 0
      BY <2>3 DEF CursorInv, NextGroup
    <3>2. QED
      BY <3>1, <1>1 DEF CursorInv
  <2>4. QED
    BY <2>1, <2>2, <2>3
<1>5. QED
  BY <1>2, <1>3, <1>4

\* The steps between the loops, the call of mkimage and stuttering.
LEMMA PassIInv ==
    ASSUME IInv, ParseDone \/ EmitDone \/ ConfigureDone \/ Assemble \/ UNCHANGED vars
    PROVE  IInv'
<1> USE DEF IInv
<1>1. UNCHANGED <<inputs, tables, dtbs, output>>
  BY DEF ParseDone, EmitDone, ConfigureDone, Assemble, vars
<1>2. /\ InputInv' /\ BareInv' /\ GroupInv' /\ ComboInv' /\ NodeInv'
      /\ ConfigInv' /\ ConfigsDeclared'
  BY <1>1, TablesUnchanged, NodesUnchanged, ConfigsUnchanged
<1>3. TodoInv'
  BY DEF TodoInv, inputs, ParseDone, EmitDone, ConfigureDone, Assemble, vars
<1>4. CursorInv'
  <2>1. pc' = "configure" => pc \in {"emit", "configure"}
    BY DEF ParseDone, EmitDone, ConfigureDone, Assemble, vars
  <2>2. pc' \in {"metadata", "parse", "emit"} => pc \in {"metadata", "parse", "emit"}
    BY DEF ParseDone, EmitDone, ConfigureDone, Assemble, vars
  <2>3. QED
    BY <1>1, <2>1, <2>2 DEF CursorInv, HasConfigs, ThisNode, Groups, Get, output, tables
<1>5. QED
  BY <1>2, <1>3, <1>4

LEMMA NextIInv == IInv /\ [Next]_vars => IInv'
<1> SUFFICES ASSUME IInv, [Next]_vars PROVE IInv'
  OBVIOUS
<1>1. CASE EmitMetadata
  BY <1>1, EmitMetadataIInv
<1>2. ASSUME NEW c \in Compats, ParseFlag(c) PROVE IInv'
  BY <1>2, ParseFlagIInv
<1>3. ASSUME NEW f \in files, EmitDtb(f) PROVE IInv'
  BY <1>3, EmitDtbIInv
<1>4. CASE EmitConfig
  BY <1>4, EmitConfigIInv
<1>5. CASE SkipNode \/ NextGroup
  BY <1>5, MoveIInv
<1>6. CASE ParseDone \/ EmitDone \/ ConfigureDone \/ Assemble \/ UNCHANGED vars
  BY <1>6, PassIInv
<1>7. QED
  BY <1>1, <1>2, <1>3, <1>4, <1>5, <1>6 DEF Next

-----------------------------------------------------------------------------
(* Types, and the soundness of the configurations.                         *)

LEMMA Inductive == Spec => []IInv
<1>1. QED
  BY InitIInv, NextIInv, PTL DEF Spec

\* Every reachable state of the task is well typed.
THEOREM TypeCorrect == Spec => []TypeOK
<1>1. IInv => TypeOK
  BY DEF IInv, InputInv, TodoInv, BareInv, GroupInv, ComboInv, CursorInv,
         ConfigInv, TypeOK
<1>2. QED
  BY <1>1, Inductive, PTL

\* Whatever the machine builds and the metadata declares, a configuration node
\* names exactly the blobs declared for its compatible string, in their order.
THEOREM DeclaredOnly == Spec => []ConfigsDeclared
<1>1. IInv => ConfigsDeclared
  BY DEF IInv
<1>2. QED
  BY <1>1, Inductive, PTL

-----------------------------------------------------------------------------
(* The second invariant: nothing that was declared is lost on the way, and *)
(* nothing is taken twice.                                                 *)

\* The base blob of a flag.
BaseOf(c) == <<Encode[flags[c][1]], "dtb">>

\* What the parsing loop leaves of a flag it has used.
BareDone(c) ==
    /\ BaseOf(c) \in DOMAIN baseCompats
    /\ \E k \in DOMAIN baseCompats[BaseOf(c)] : baseCompats[BaseOf(c)][k] = c
StackDone(c) ==
    /\ BaseOf(c) \in DOMAIN overlayGroups
    /\ \E g \in DOMAIN overlayGroups[BaseOf(c)] :
          overlayGroups[BaseOf(c)][g] = Overlays(flags[c])
ComboDone(c) ==
    /\ ComboKey(flags[c]) \in DOMAIN overlayCompats
    /\ \E k \in DOMAIN overlayCompats[ComboKey(flags[c])] :
          overlayCompats[ComboKey(flags[c])][k] = c

AfterParse == {"emit", "configure", "assemble", "done"}

\* A flag whose turn has been is in the tables, if it is usable.
ParsedInv ==
    \A c \in Compats :
        (pc \in AfterParse \/ (pc = "parse" /\ c \notin todo)) /\ Usable(flags[c])
        => (IF Len(flags[c]) = 1 THEN BareDone(c) ELSE StackDone(c) /\ ComboDone(c))

\* seen_combos and the overlay lists agree, so that no list is stacked twice.
StackInv ==
    /\ \A key \in seenCombos : \E d \in Compats :
          /\ Usable(flags[d]) /\ Len(flags[d]) > 1
          /\ ComboKey(flags[d]) = key /\ StackDone(d)
    /\ \A b \in DOMAIN overlayGroups :
          /\ Distinct(overlayGroups[b])
          /\ \A g \in DOMAIN overlayGroups[b] : \E d \in Compats :
                /\ Usable(flags[d]) /\ Len(flags[d]) > 1
                /\ b = BaseOf(d) /\ overlayGroups[b][g] = Overlays(flags[d])
                /\ ComboKey(flags[d]) \in seenCombos

\* No compatible string is entered twice, and none before its turn.
OnceInv ==
    /\ \A b \in DOMAIN baseCompats :
          /\ Distinct(baseCompats[b])
          /\ pc = "parse" => \A k \in DOMAIN baseCompats[b] : baseCompats[b][k] \notin todo
    /\ \A key \in DOMAIN overlayCompats :
          /\ Distinct(overlayCompats[key])
          /\ pc = "parse" => \A k \in DOMAIN overlayCompats[key] : overlayCompats[key][k] \notin todo
    /\ pc = "metadata" => baseCompats = Empty /\ overlayCompats = Empty

\* Image nodes are the blobs emitted so far, with the strings of their base.
EmittedInv ==
    /\ \A i \in DOMAIN dtbs : dtbs[i].type = "flat_dt" =>
          /\ dtbs[i].id \in Contract!Built
          /\ dtbs[i].compats = IF dtbs[i].id[2] = "dtb" THEN Get(baseCompats, dtbs[i].id) ELSE <<>>
    /\ pc \in {"metadata", "parse"} => \A i \in DOMAIN dtbs : dtbs[i].type = "qcom_metadata"
    /\ \A f \in files :
          pc \in {"configure", "assemble", "done"} \/ (pc = "emit" /\ f \notin todo) =>
              \E i \in DOMAIN dtbs : dtbs[i].type = "flat_dt" /\ dtbs[i].id = BlobId(f)

\* The cursor has passed this position.
Before(i, g, k) ==
    \/ i < cursor.node
    \/ i = cursor.node /\ g < cursor.group
    \/ i = cursor.node /\ g = cursor.group /\ k < cursor.compat

\* The compatible strings at the positions the loops have passed.
Passed(c) ==
    \E i, g, k \in Nat : Position(i, g, k) /\ Before(i, g, k) /\ CompatsAt(i, g)[k] = c
Configured(c) == \E m \in DOMAIN configs : configs[m].compat = c

\* The configurations are those of the positions passed.
VisitedInv ==
    /\ pc \in {"metadata", "parse", "emit"} =>
          configs = <<>> /\ cursor = [node |-> 1, group |-> 0, compat |-> 1]
    /\ pc = "configure" /\ cursor.compat # 1 => InLoop /\ HasConfigs(ThisNode)
    /\ pc \in {"assemble", "done"} => cursor.node > Len(dtbs)
    /\ \A c \in Compats : Configured(c) => Passed(c)
    /\ pc \in {"configure", "assemble", "done"} => \A c \in Compats : Passed(c) => Configured(c)

\* Numbers follow the positions, and strings repeat only when nodes do.
NumberInv ==
    /\ counter = Len(configs) + 1
    /\ \A i \in DOMAIN configs : configs[i].num = i
    /\ Distinct([i \in DOMAIN dtbs |-> dtbs[i].id])
          => Distinct([i \in DOMAIN configs |-> configs[i].compat])
    /\ pc = "done" => NodeNamesDistinct

-----------------------------------------------------------------------------
(* The dictionaries and the flags, once more.                              *)

\* Extend keeps what is there, adds v, and keeps the lists free of repetition
\* when v is new.
LEMMA ExtendKeeps ==
    ASSUME NEW S, NEW d, NEW k, NEW v \in S,
           \A x \in DOMAIN d : d[x] \in Seq(S)
    PROVE  /\ k \in DOMAIN Extend(d, k, v)
           /\ \E i \in DOMAIN Extend(d, k, v)[k] : Extend(d, k, v)[k][i] = v
           /\ \A x \in DOMAIN d :
                 /\ x \in DOMAIN Extend(d, k, v)
                 /\ \A i \in DOMAIN d[x] : /\ i \in DOMAIN Extend(d, k, v)[x]
                                           /\ Extend(d, k, v)[x][i] = d[x][i]
           /\ /\ \A x \in DOMAIN d : Distinct(d[x])
              /\ k \in DOMAIN d => \A i \in DOMAIN d[k] : d[k][i] # v
              => \A x \in DOMAIN Extend(d, k, v) : Distinct(Extend(d, k, v)[x])
<1> DEFINE e == Extend(d, k, v)
           old == Get(d, k)
<1>1. DOMAIN e = DOMAIN d \cup {k} /\ e[k] = Append(old, v)
  BY DEF Extend
<1>2. \A x \in DOMAIN d : x # k => e[x] = d[x]
  BY DEF Extend
<1>3. old \in Seq(S) /\ (k \in DOMAIN d => old = d[k]) /\ (k \notin DOMAIN d => old = <<>>)
  BY DEF Get
<1> HIDE DEF e, old
<1>4. /\ e[k] \in Seq(S) /\ Len(e[k]) = Len(old) + 1 /\ e[k][Len(old) + 1] = v
      /\ \A i \in DOMAIN old : i \in DOMAIN e[k] /\ e[k][i] = old[i]
      /\ \A i \in DOMAIN e[k] : i \in DOMAIN old \/ i = Len(old) + 1
  BY <1>1, <1>3
<1>5. Len(old) + 1 \in DOMAIN e[k]
  BY <1>3, <1>4
<1>6. \A x \in DOMAIN d : x \in DOMAIN e
                          /\ \A i \in DOMAIN d[x] : i \in DOMAIN e[x] /\ e[x][i] = d[x][i]
  BY <1>1, <1>2, <1>3, <1>4
<1>7. ASSUME \A x \in DOMAIN d : Distinct(d[x]),
             k \in DOMAIN d => \A i \in DOMAIN d[k] : d[k][i] # v,
             NEW x \in DOMAIN e
      PROVE  Distinct(e[x])
  <2>1. CASE x # k
    BY <1>1, <1>2, <1>7, <2>1
  <2>2. CASE x = k
    <3>1. Distinct(old) /\ \A i \in DOMAIN old : old[i] # v
      BY <1>3, <1>7 DEF Distinct
    <3>2. QED
      BY <1>4, <2>2, <3>1 DEF Distinct
  <2>3. QED
    BY <2>1, <2>2
<1>8. QED
  BY <1>1, <1>4, <1>5, <1>6, <1>7 DEF e

\* Usable flags are the lists their combo key spells.
LEMMA SameKey ==
    ASSUME InputInv, NEW c \in Compats, NEW d \in Compats,
           Usable(flags[c]), Usable(flags[d]),
           ComboKey(flags[c]) = ComboKey(flags[d])
    PROVE  flags[c] = flags[d]
<1>1. /\ flags[c] \in Seq(Names) /\ flags[d] \in Seq(Names)
      /\ \A i \in DOMAIN flags[c] : Encode[flags[c][i]] = flags[c][i]
      /\ \A i \in DOMAIN flags[d] : Encode[flags[d][i]] = flags[d][i]
  BY UsableEncoded
<1>2. ComboKey(flags[c]) = [i \in DOMAIN flags[c] |-> flags[c][i]]
  BY <1>1 DEF ComboKey
<1>3. ComboKey(flags[d]) = [i \in DOMAIN flags[d] |-> flags[d][i]]
  BY <1>1 DEF ComboKey
<1>4. flags[c] = [i \in DOMAIN flags[c] |-> flags[c][i]]
      /\ flags[d] = [i \in DOMAIN flags[d] |-> flags[d][i]]
  BY <1>1
<1>5. QED
  BY <1>2, <1>3, <1>4

\* A usable flag is also given by its base and its overlays.
LEMMA SameStack ==
    ASSUME InputInv, NEW c \in Compats, NEW d \in Compats,
           Usable(flags[c]), Usable(flags[d]),
           BaseOf(c) = BaseOf(d), Overlays(flags[c]) = Overlays(flags[d])
    PROVE  flags[c] = flags[d]
<1> DEFINE n == Len(flags[c])
           m == Len(flags[d])
<1>1. /\ flags[c] \in Seq(Names) /\ flags[d] \in Seq(Names)
      /\ n \in Nat \ {0} /\ m \in Nat \ {0}
      /\ \A i \in DOMAIN flags[c] : Encode[flags[c][i]] = flags[c][i]
      /\ \A i \in DOMAIN flags[d] : Encode[flags[d][i]] = flags[d][i]
  BY UsableEncoded
<1>2. DOMAIN Overlays(flags[c]) = 1 .. n - 1 /\ DOMAIN Overlays(flags[d]) = 1 .. m - 1
  BY DEF Overlays
<1>3. n = m
  BY <1>1, <1>2
<1>4. flags[c][1] = flags[d][1]
  BY <1>1 DEF BaseOf
<1>5. ASSUME NEW i \in 2 .. n
      PROVE  flags[c][i] = flags[d][i]
  <2>1. i - 1 \in 1 .. n - 1 /\ (i - 1) + 1 = i
    BY <1>1
  <2>2. /\ Overlays(flags[c])[i - 1] = <<flags[c][(i - 1) + 1], "dtbo">>
        /\ Overlays(flags[d])[i - 1] = <<flags[d][(i - 1) + 1], "dtbo">>
    BY <2>1, <1>3 DEF Overlays
  <2>3. QED
    BY <2>1, <2>2
<1>6. \A i \in 1 .. n : flags[c][i] = flags[d][i]
  BY <1>1, <1>4, <1>5
<1>7. QED
  BY <1>1, <1>3, <1>6

\* No compatible string is at two positions of nodes with names of their own.
LEMMA PositionUnique ==
    ASSUME IInv, StackInv, OnceInv, EmittedInv,
           Distinct([i \in DOMAIN dtbs |-> dtbs[i].id]),
           NEW i \in Nat, NEW g \in Nat, NEW k \in Nat, Position(i, g, k),
           NEW j \in Nat, NEW h \in Nat, NEW l \in Nat, Position(j, h, l),
           CompatsAt(i, g)[k] = CompatsAt(j, h)[l]
    PROVE  i = j /\ g = h /\ k = l
<1> DEFINE c == CompatsAt(i, g)[k]
<1>1. /\ FdtAt(i, g) = FdtAt(j, h) /\ (g = 0 <=> h = 0)
      /\ dtbs[i].type = "flat_dt" /\ dtbs[j].type = "flat_dt"
      /\ FdtAt(i, g) \in Seq(Blob)
  BY PositionDeclared
<1>t. /\ g # 0 => GroupsAt(i)[g] \in Seq(Blob)
      /\ h # 0 => GroupsAt(j)[h] \in Seq(Blob)
      /\ dtbs[i].id \in Blob /\ dtbs[j].id \in Blob
  <2>1. dtbs[i].id \in Blob /\ dtbs[j].id \in Blob
    BY <1>1 DEF IInv, NodeInv, Position
  <2>2. GroupsAt(i) \in Seq(Seq(Blob)) /\ GroupsAt(j) \in Seq(Seq(Blob))
    BY DEF IInv, GroupInv, GroupsAt, Get
  <2>3. QED
    BY <2>1, <2>2 DEF Position
<1>2. dtbs[i].id = dtbs[j].id /\ (g # 0 => GroupsAt(i)[g] = GroupsAt(j)[h])
  <2>1. CASE g = 0
    BY <1>1, <1>t, <2>1 DEF FdtAt
  <2>2. CASE g # 0
    <3> DEFINE a == GroupsAt(i)[g]
               b == GroupsAt(j)[h]
    <3>1. <<dtbs[i].id>> \o a = <<dtbs[j].id>> \o b /\ a \in Seq(Blob) /\ b \in Seq(Blob)
      BY <1>1, <1>t, <2>2 DEF FdtAt
    <3> HIDE DEF a, b
    <3>2. /\ Len(<<dtbs[i].id>> \o a) = Len(a) + 1 /\ Len(<<dtbs[j].id>> \o b) = Len(b) + 1
          /\ Len(a) \in Nat /\ Len(b) \in Nat
          /\ (<<dtbs[i].id>> \o a)[1] = dtbs[i].id /\ (<<dtbs[j].id>> \o b)[1] = dtbs[j].id
          /\ \A n \in 1 .. Len(a) : (<<dtbs[i].id>> \o a)[n + 1] = a[n]
          /\ \A n \in 1 .. Len(b) : (<<dtbs[j].id>> \o b)[n + 1] = b[n]
      BY <3>1
    <3>3. Len(a) = Len(b) /\ \A n \in 1 .. Len(a) : a[n] = b[n]
      BY <3>1, <3>2
    <3>4. a = b
      BY <3>1, <3>3
    <3>5. QED
      BY <3>1, <3>2, <3>4 DEF a, b
  <2>3. QED
    BY <2>1, <2>2
<1>3. i = j
  BY <1>2 DEF Position, Distinct
<1>4. g = h
  <2>1. CASE g = 0
    BY <1>1, <2>1
  <2>2. CASE g # 0
    <3>1. g \in 1 .. Len(GroupsAt(i)) /\ h \in 1 .. Len(GroupsAt(i)) /\ GroupsAt(i)[g] = GroupsAt(i)[h]
      BY <1>1, <1>2, <1>3, <2>2 DEF Position
    <3>2. dtbs[i].id \in DOMAIN overlayGroups /\ GroupsAt(i) = overlayGroups[dtbs[i].id]
      BY <3>1 DEF GroupsAt, Get
    <3>3. overlayGroups[dtbs[i].id] \in Seq(Seq(Blob))
      BY <3>2 DEF IInv, GroupInv
    <3>4. QED
      BY <3>1, <3>2, <3>3 DEF StackInv, Distinct
  <2>3. QED
    BY <2>1, <2>2
<1>5. k = l
  <2>1. k \in 1 .. Len(CompatsAt(i, g)) /\ l \in 1 .. Len(CompatsAt(i, g))
        /\ CompatsAt(i, g)[k] = CompatsAt(i, g)[l]
    BY <1>3, <1>4 DEF Position
  <2>2. Distinct(CompatsAt(i, g)) /\ CompatsAt(i, g) \in Seq(Compats)
    <3>1. CASE g = 0
      <4>1. dtbs[i].compats = Get(baseCompats, dtbs[i].id)
        BY <1>1 DEF EmittedInv, Position, HasConfigs
      <4>2. QED
        BY <4>1, <3>1, <2>1 DEF CompatsAt, Get, OnceInv, IInv, BareInv
    <3>2. CASE g # 0
      BY <3>2, <2>1 DEF CompatsAt, Get, OnceInv, IInv, ComboInv
    <3>3. QED
      BY <3>1, <3>2
  <2>3. QED
    BY <2>1, <2>2 DEF Distinct
<1>6. QED
  BY <1>3, <1>4, <1>5

-----------------------------------------------------------------------------
(* The parsing loop loses no flag and takes none twice.                    *)

TablesInv == ParsedInv /\ StackInv /\ OnceInv

\* The steps that read the tables only.
LEMMA StillTables ==
    ASSUME IInv, TablesInv, UNCHANGED <<inputs, tables>>,
           \A c \in Compats : pc' \in AfterParse \/ (pc' = "parse" /\ c \notin todo')
               => pc \in AfterParse \/ (pc = "parse" /\ c \notin todo),
           pc' = "parse" => pc \in {"metadata", "parse"} /\ (pc = "parse" => todo' = todo),
           pc' = "metadata" => pc = "metadata"
    PROVE  TablesInv'
<1> USE DEF inputs, tables, TablesInv
<1>1. \A c \in Compats : /\ Usable(flags[c])' <=> Usable(flags[c])
                         /\ BareDone(c)' <=> BareDone(c)
                         /\ StackDone(c)' <=> StackDone(c)
                         /\ ComboDone(c)' <=> ComboDone(c)
                         /\ BaseOf(c)' = BaseOf(c)
  BY DEF Usable, Keys, BareDone, StackDone, ComboDone, BaseOf
<1>2. ParsedInv'
  BY <1>1 DEF ParsedInv
<1>3. StackInv'
  BY <1>1 DEF StackInv, Distinct
<1>4. OnceInv'
  BY DEF OnceInv, Distinct, Empty
<1>5. QED
  BY <1>2, <1>3, <1>4

LEMMA ParseFlagTables ==
    ASSUME IInv, TablesInv, NEW c \in Compats, ParseFlag(c)
    PROVE  TablesInv'
<1> DEFINE parts == flags[c]
           base  == BaseOf(c)
           key   == ComboKey(parts)
<1>1. /\ pc = "parse" /\ pc' = "parse" /\ c \in todo /\ todo' = todo \ {c}
      /\ UNCHANGED inputs
  BY DEF ParseFlag
<1>2. /\ flags' = flags /\ \A d \in Compats : Usable(flags[d])' <=> Usable(flags[d])
      /\ \A d \in Compats : BaseOf(d)' = BaseOf(d)
  BY <1>1 DEF inputs, Usable, Keys, BaseOf
<1>h. Usable(parts) => <<Encode[Head(parts)], "dtb">> = base
  <2>1. Usable(parts) => parts \in Seq(Names) /\ Len(parts) # 0
    BY UsableEncoded DEF IInv
  <2>2. QED
    BY <2>1 DEF BaseOf
<1>i. InputInv
  BY DEF IInv
<1>3. CASE ~Usable(parts) /\ UNCHANGED tables
  <2>1. \A d \in Compats : /\ BareDone(d)' <=> BareDone(d)
                           /\ StackDone(d)' <=> StackDone(d)
                           /\ ComboDone(d)' <=> ComboDone(d)
    BY <1>1, <1>3 DEF tables, inputs, BareDone, StackDone, ComboDone, BaseOf
  <2>2. ParsedInv'
    BY <1>1, <1>2, <1>3, <2>1 DEF TablesInv, ParsedInv, AfterParse
  <2>3. StackInv'
    BY <1>2, <1>3, <2>1 DEF TablesInv, StackInv, Distinct, tables
  <2>4. OnceInv'
    BY <1>1, <1>3 DEF TablesInv, OnceInv, Distinct, tables
  <2>5. QED
    BY <2>2, <2>3, <2>4 DEF TablesInv
<1>4. CASE Usable(parts) /\ Len(parts) = 1 /\ BareBase(c, base)
  <2> DEFINE e == Extend(baseCompats, base, c)
  <2>1. /\ baseCompats' = e
        /\ UNCHANGED <<overlayGroups, overlayCompats, seenCombos>>
    BY <1>4 DEF BareBase
  <2>2. \A b \in DOMAIN baseCompats : baseCompats[b] \in Seq(Compats)
    BY DEF IInv, BareInv
  <2>3. /\ base \in DOMAIN e /\ \E i \in DOMAIN e[base] : e[base][i] = c
        /\ \A x \in DOMAIN baseCompats :
              /\ x \in DOMAIN e
              /\ \A i \in DOMAIN baseCompats[x] : i \in DOMAIN e[x] /\ e[x][i] = baseCompats[x][i]
        /\ /\ \A x \in DOMAIN baseCompats : Distinct(baseCompats[x])
           /\ base \in DOMAIN baseCompats =>
                 \A i \in DOMAIN baseCompats[base] : baseCompats[base][i] # c
           => \A x \in DOMAIN e : Distinct(e[x])
    BY <2>2, ExtendKeeps
  <2>4. \A x \in DOMAIN e : \A i \in DOMAIN e[x] :
            \/ x \in DOMAIN baseCompats /\ i \in DOMAIN baseCompats[x]
                  /\ e[x][i] = baseCompats[x][i]
            \/ e[x][i] = c
    BY <2>2, ExtendEntries
  <2> HIDE DEF e
  <2>5. /\ \A d \in Compats : BareDone(d) => BareDone(d)'
        /\ \A d \in Compats : (StackDone(d)' <=> StackDone(d)) /\ (ComboDone(d)' <=> ComboDone(d))
        /\ BareDone(c)'
    BY <1>2, <2>1, <2>3 DEF BareDone, StackDone, ComboDone, BaseOf
  <2>6. ParsedInv'
    BY <1>1, <1>2, <1>4, <2>5 DEF TablesInv, ParsedInv, AfterParse
  <2>7. StackInv'
    BY <1>2, <2>1, <2>5 DEF TablesInv, StackInv, Distinct
  <2>8. \A x \in DOMAIN e : /\ Distinct(e[x])
                            /\ \A k \in DOMAIN e[x] : e[x][k] \notin todo'
    BY <1>1, <2>3, <2>4 DEF TablesInv, OnceInv
  <2>9. OnceInv'
    BY <1>1, <2>1, <2>8 DEF TablesInv, OnceInv, Distinct
  <2>10. QED
    BY <2>6, <2>7, <2>9 DEF TablesInv
<1>5. CASE Usable(parts) /\ Len(parts) > 1 /\ StackOverlays(c, parts, base, key)
  <2> DEFINE ovls == Overlays(parts)
             e == Extend(overlayCompats, key, c)
             g == Extend(overlayGroups, base, ovls)
  <2>1. /\ overlayGroups' = IF key \in seenCombos THEN overlayGroups ELSE g
        /\ seenCombos' = seenCombos \cup {key}
        /\ overlayCompats' = e /\ UNCHANGED baseCompats
    BY <1>5 DEF StackOverlays
  <2>2. /\ \A k \in DOMAIN overlayCompats : overlayCompats[k] \in Seq(Compats)
        /\ \A b \in DOMAIN overlayGroups : overlayGroups[b] \in Seq(Seq(Blob))
    BY DEF IInv, ComboInv, GroupInv
  <2>3. ovls \in Seq(Blob)
    <3>1. parts \in Seq(Names) /\ Len(parts) \in Nat \ {0}
      BY <1>5, <1>i, UsableEncoded
    <3>2. QED
      BY <3>1 DEF Overlays, Blob, Exts
  <2>4. /\ key \in DOMAIN e /\ \E i \in DOMAIN e[key] : e[key][i] = c
        /\ \A x \in DOMAIN overlayCompats :
              /\ x \in DOMAIN e
              /\ \A i \in DOMAIN overlayCompats[x] :
                    i \in DOMAIN e[x] /\ e[x][i] = overlayCompats[x][i]
        /\ /\ \A x \in DOMAIN overlayCompats : Distinct(overlayCompats[x])
           /\ key \in DOMAIN overlayCompats =>
                 \A i \in DOMAIN overlayCompats[key] : overlayCompats[key][i] # c
           => \A x \in DOMAIN e : Distinct(e[x])
    BY <2>2, ExtendKeeps
  <2>5. \A x \in DOMAIN e : \A i \in DOMAIN e[x] :
            \/ x \in DOMAIN overlayCompats /\ i \in DOMAIN overlayCompats[x]
                  /\ e[x][i] = overlayCompats[x][i]
            \/ e[x][i] = c
    BY <2>2, ExtendEntries
  <2> HIDE DEF ovls
  <2>6. /\ base \in DOMAIN g /\ \E i \in DOMAIN g[base] : g[base][i] = ovls
        /\ \A x \in DOMAIN overlayGroups :
              /\ x \in DOMAIN g
              /\ \A i \in DOMAIN overlayGroups[x] :
                    i \in DOMAIN g[x] /\ g[x][i] = overlayGroups[x][i]
        /\ /\ \A x \in DOMAIN overlayGroups : Distinct(overlayGroups[x])
           /\ base \in DOMAIN overlayGroups =>
                 \A i \in DOMAIN overlayGroups[base] : overlayGroups[base][i] # ovls
           => \A x \in DOMAIN g : Distinct(g[x])
    BY <2>2, <2>3, ExtendKeeps
  <2>7. \A x \in DOMAIN g : \A i \in DOMAIN g[x] :
            \/ x \in DOMAIN overlayGroups /\ i \in DOMAIN overlayGroups[x]
                  /\ g[x][i] = overlayGroups[x][i]
            \/ x = base /\ g[x][i] = ovls
    BY <2>2, <2>3, ExtendEntries
  <2> HIDE DEF e, g
  <2>8. /\ \A d \in Compats : /\ BareDone(d)' <=> BareDone(d)
                              /\ StackDone(d) => StackDone(d)'
                              /\ ComboDone(d) => ComboDone(d)'
        /\ ComboDone(c)'
    BY <1>2, <2>1, <2>4, <2>6 DEF BareDone, StackDone, ComboDone, BaseOf
  <2>9. StackDone(c)'
    <3>1. CASE key \in seenCombos
      <4>1. PICK d \in Compats : /\ Usable(flags[d]) /\ ComboKey(flags[d]) = key
                                 /\ StackDone(d)
        BY <3>1 DEF TablesInv, StackInv
      <4>2. flags[c] = flags[d]
        BY <1>5, <1>i, <4>1, SameKey
      <4>3. StackDone(c)
        BY <4>1, <4>2 DEF StackDone, BaseOf
      <4>4. QED
        BY <2>8, <4>3
    <3>2. CASE key \notin seenCombos
      BY <1>2, <2>1, <2>6, <3>2 DEF StackDone, BaseOf, ovls
    <3>3. QED
      BY <3>1, <3>2
  <2>10. ParsedInv'
    <3>1. Len(flags[c]) # 1
      <4>1. Len(flags[c]) \in Nat
        BY <1>5, <1>i, UsableEncoded
      <4>2. \A n \in Nat : n > 1 => n # 1
        OBVIOUS
      <4>3. QED
        BY <1>5, <4>1, <4>2, Zenon
    <3>2. QED
      BY <1>1, <1>2, <1>5, <2>8, <2>9, <3>1 DEF TablesInv, ParsedInv, AfterParse
  <2>11. StackInv'
    <3>1. \A k \in seenCombos' : \E d \in Compats :
             /\ Usable(flags[d])' /\ Len(flags'[d]) > 1
             /\ ComboKey(flags'[d]) = k /\ StackDone(d)'
      BY <1>2, <1>5, <2>1, <2>8, <2>9 DEF TablesInv, StackInv
    <3>2. CASE key \in seenCombos
      BY <1>2, <2>1, <3>1, <3>2 DEF TablesInv, StackInv
    <3>3. CASE key \notin seenCombos
      <4>1. overlayGroups' = g
        BY <2>1, <3>3
      <4>2. base \in DOMAIN overlayGroups =>
                 \A i \in DOMAIN overlayGroups[base] : overlayGroups[base][i] # ovls
        <5> SUFFICES ASSUME base \in DOMAIN overlayGroups, NEW i \in DOMAIN overlayGroups[base],
                            overlayGroups[base][i] = ovls
                     PROVE  FALSE
          OBVIOUS
        <5>1. PICK d \in Compats :
                /\ Usable(flags[d]) /\ base = BaseOf(d) /\ overlayGroups[base][i] = Overlays(flags[d])
                /\ ComboKey(flags[d]) \in seenCombos
          BY DEF TablesInv, StackInv
        <5>2. flags[c] = flags[d]
          BY <1>5, <1>i, <5>1, SameStack DEF ovls
        <5>3. QED
          BY <3>3, <5>1, <5>2
      <4>3. \A x \in DOMAIN g : Distinct(g[x])
        BY <2>6, <4>2 DEF TablesInv, StackInv
      <4>4. ASSUME NEW x \in DOMAIN g, NEW i \in DOMAIN g[x]
            PROVE  \E d \in Compats :
                /\ Usable(flags[d]) /\ Len(flags[d]) > 1
                /\ x = BaseOf(d) /\ g[x][i] = Overlays(flags[d])
                /\ ComboKey(flags[d]) \in seenCombos \cup {key}
        <5>1. CASE x \in DOMAIN overlayGroups /\ i \in DOMAIN overlayGroups[x]
                   /\ g[x][i] = overlayGroups[x][i]
          BY <5>1 DEF TablesInv, StackInv
        <5>2. CASE x = base /\ g[x][i] = ovls
          BY <1>5, <5>2 DEF ovls
        <5>3. QED
          BY <2>7, <5>1, <5>2
      <4>5. QED
        BY <1>2, <2>1, <3>1, <4>1, <4>3, <4>4 DEF StackInv, Distinct
    <3>4. QED
      BY <3>2, <3>3
  <2>12. \A x \in DOMAIN e : /\ Distinct(e[x])
                             /\ \A k \in DOMAIN e[x] : e[x][k] \notin todo'
    BY <1>1, <2>4, <2>5 DEF TablesInv, OnceInv
  <2>13. OnceInv'
    BY <1>1, <2>1, <2>12 DEF TablesInv, OnceInv, Distinct
  <2>14. QED
    BY <2>10, <2>11, <2>13 DEF TablesInv
<1>6. QED
  BY <1>h, <1>3, <1>4, <1>5 DEF ParseFlag

LEMMA NextTables ==
    ASSUME IInv, TablesInv, [Next]_vars
    PROVE  TablesInv'
<1>1. CASE EmitMetadata
  <2>1. pc' = "parse" => todo' = Compats
    BY <1>1 DEF EmitMetadata, IInv, InputInv
  <2>2. pc = "metadata" /\ pc' \in {"parse", "fatal"} /\ UNCHANGED <<inputs, tables>>
    BY <1>1 DEF EmitMetadata
  <2>3. QED
    BY <2>1, <2>2, StillTables DEF AfterParse
<1>2. ASSUME NEW c \in Compats, ParseFlag(c) PROVE TablesInv'
  BY <1>2, ParseFlagTables
<1>3. CASE ParseDone
  BY <1>3, StillTables DEF ParseDone, AfterParse
<1>4. ASSUME NEW f \in files, EmitDtb(f) PROVE TablesInv'
  BY <1>4, StillTables DEF EmitDtb, AfterParse
<1>5. CASE EmitDone \/ SkipNode \/ EmitConfig \/ NextGroup \/ ConfigureDone \/ Assemble
  BY <1>5, StillTables DEF EmitDone, SkipNode, EmitConfig, NextGroup, ConfigureDone,
     Assemble, InLoop, AfterParse
<1>6. CASE UNCHANGED vars
  BY <1>6, StillTables DEF vars, AfterParse
<1>7. QED
  BY <1>1, <1>2, <1>3, <1>4, <1>5, <1>6 DEF Next

-----------------------------------------------------------------------------
(* Every blob gets a node, and a node is what its blob and flags say.      *)

LEMMA NextEmitted ==
    ASSUME IInv, EmittedInv, [Next]_vars
    PROVE  EmittedInv'
<1> USE DEF EmittedInv
<1>1. CASE EmitMetadata
  <2>1. dtbs' = dtbs \/ dtbs' = <<ImageNode(Metadata, "qcom_metadata", <<>>)>>
    BY <1>1 DEF EmitMetadata
  <2>2. \A i \in DOMAIN dtbs' : dtbs'[i].type = "qcom_metadata"
    BY <1>1, <2>1 DEF EmitMetadata, ImageNode
  <2>3. pc' \in {"parse", "fatal"}
    BY <1>1 DEF EmitMetadata
  <2>4. QED
    BY <2>2, <2>3
<1>2. ASSUME NEW c \in Compats, ParseFlag(c) PROVE EmittedInv'
  BY <1>2 DEF ParseFlag, inputs
<1>3. ASSUME UNCHANGED <<inputs, tables, dtbs>>,
             pc' \in {"metadata", "parse"} => pc \in {"metadata", "parse"},
             pc' = "emit" => (pc = "emit" /\ todo' = todo) \/ todo' = files,
             pc' \in {"configure", "assemble", "done"} =>
                 pc \in {"configure", "assemble", "done"} \/ (pc = "emit" /\ todo = {})
      PROVE  EmittedInv'
  BY <1>3 DEF inputs, tables, Contract!Built, BlobId
<1>4. ASSUME NEW f \in files, EmitDtb(f) PROVE EmittedInv'
  <2>1. pc = "emit" /\ UNCHANGED <<inputs, tables>>
    BY <1>4 DEF EmitDtb
  <2>2. CASE f \in present
    <3> DEFINE compats == IF f[2] = "dtb" THEN Get(baseCompats, BlobId(f)) ELSE <<>>
               node    == ImageNode(BlobId(f), "flat_dt", compats)
    <3>1. pc' = "emit" /\ todo' = todo \ {f} /\ dtbs' = Append(dtbs, node)
      BY <1>4, <2>1, <2>2 DEF EmitDtb
    <3>2. BlobId(f) \in Contract!Built /\ BlobId(f)[2] = f[2]
      BY DEF BlobId, Contract!Built
    <3>3. /\ node.type = "flat_dt" /\ node.id = BlobId(f)
          /\ node.compats = IF node.id[2] = "dtb" THEN Get(baseCompats, node.id) ELSE <<>>
      BY <3>2 DEF ImageNode
    <3> HIDE DEF node, compats
    <3>4. dtbs \in Seq(NodeType)
      BY DEF IInv, NodeInv
    <3>5. /\ \A i \in DOMAIN dtbs : i \in DOMAIN dtbs' /\ dtbs'[i] = dtbs[i]
          /\ \A i \in DOMAIN dtbs' : dtbs'[i] = node \/ (i \in DOMAIN dtbs /\ dtbs'[i] = dtbs[i])
          /\ \E i \in DOMAIN dtbs' : dtbs'[i] = node
      <4>1. /\ DOMAIN dtbs' = 1 .. Len(dtbs) + 1 /\ DOMAIN dtbs = 1 .. Len(dtbs)
            /\ Len(dtbs) \in Nat /\ dtbs'[Len(dtbs) + 1] = node
            /\ \A i \in 1 .. Len(dtbs) : dtbs'[i] = dtbs[i]
        BY <3>1, <3>4
      <4>2. QED
        BY <4>1
    <3>6. Contract!Built' = Contract!Built /\ files' = files /\ baseCompats' = baseCompats
          /\ \A x : BlobId(x)' = BlobId(x)
      BY <2>1 DEF inputs, tables, Contract!Built, BlobId
    <3>7. \A i \in DOMAIN dtbs' : dtbs'[i].type = "flat_dt" =>
            /\ dtbs'[i].id \in Contract!Built
            /\ dtbs'[i].compats = IF dtbs'[i].id[2] = "dtb"
                                  THEN Get(baseCompats, dtbs'[i].id) ELSE <<>>
      BY <3>2, <3>3, <3>5
    <3>8. \A x \in files : x \notin todo' =>
             \E i \in DOMAIN dtbs' : dtbs'[i].type = "flat_dt" /\ dtbs'[i].id = BlobId(x)
      BY <2>1, <3>1, <3>3, <3>5
    <3>9. QED
      BY <3>1, <3>6, <3>7, <3>8 DEF Get
  <2>3. CASE f \notin present
    BY <1>3, <1>4, <2>1, <2>3 DEF EmitDtb
  <2>4. QED
    BY <2>2, <2>3
<1>5. QED
  BY <1>1, <1>2, <1>3, <1>4 DEF Next, ParseDone, EmitDone, SkipNode, EmitConfig, NextGroup,
     ConfigureDone, Assemble, InLoop, vars

-----------------------------------------------------------------------------
(* The configuration loops pass each position once and stop at none.       *)

\* Where the cursor is, and what moves it.
LEMMA CursorMoves ==
    ASSUME IInv, VisitedInv, SkipNode \/ EmitConfig \/ NextGroup,
           NEW i \in Nat, NEW g \in Nat, NEW k \in Nat, Position(i, g, k)
    PROVE  Before(i, g, k)' <=>
              \/ Before(i, g, k)
              \/ EmitConfig /\ i = cursor.node /\ g = cursor.group /\ k = cursor.compat
<1>1. /\ cursor \in [node : Nat \ {0}, group : Nat, compat : Nat \ {0}]
      /\ InLoop /\ pc = "configure"
  BY DEF IInv, CursorInv, SkipNode, EmitConfig, NextGroup, InLoop
<1>2. CASE SkipNode
  <2>1. cursor.group = 0 /\ cursor.compat = 1
    BY <1>1, <1>2 DEF IInv, CursorInv, VisitedInv, SkipNode
  <2>2. i # cursor.node
    BY <1>2 DEF SkipNode, Position, ThisNode
  <2>3. cursor'.node = cursor.node + 1 /\ cursor'.group = 0 /\ cursor'.compat = 1
    BY <1>1, <1>2, <2>1 DEF SkipNode
  <2>4. k # 0
    BY DEF Position
  <2>5. ~EmitConfig
    BY <1>2 DEF SkipNode, EmitConfig
  <2>6. QED
    BY <1>1, <2>1, <2>2, <2>3, <2>4, <2>5 DEF Before
<1>3. CASE EmitConfig
  <2>1. cursor'.node = cursor.node /\ cursor'.group = cursor.group
        /\ cursor'.compat = cursor.compat + 1
    BY <1>1, <1>3 DEF EmitConfig
  <2>2. QED
    BY <1>1, <1>3, <2>1 DEF Before
<1>4. CASE NextGroup
  <2>1. /\ GroupCompats = CompatsAt(cursor.node, cursor.group)
        /\ Groups = GroupsAt(cursor.node)
    BY DEF FdtList, FdtAt, GroupCompats, CompatsAt, LookupKey, KeyAt, Groups, GroupsAt, ThisNode
  <2>2. /\ i = cursor.node => g <= Len(Groups)
        /\ i = cursor.node /\ g = cursor.group => k <= Len(GroupCompats)
        /\ k # 0
    BY <2>1 DEF Position
  <2>3. cursor.compat > Len(GroupCompats)
    BY <1>4 DEF NextGroup
  <2>t. Len(Groups) \in Nat /\ (i = cursor.node /\ g = cursor.group => Len(GroupCompats) \in Nat)
    <3>1. Len(Groups) \in Nat
      BY DEF IInv, GroupInv, Groups, Get
    <3>2. CompatsAt(i, g) \in Seq(Compats)
      <4>1. dtbs[i] \in NodeType
        BY DEF Position, IInv, NodeInv
      <4>2. dtbs[i].compats \in Seq(Compats)
        BY <4>1 DEF NodeType
      <4>3. QED
        BY <4>2 DEF CompatsAt, Get, IInv, ComboInv
    <3>3. QED
      BY <2>1, <3>1, <3>2
  <2>4. ~EmitConfig
    BY <1>4 DEF NextGroup, EmitConfig, InLoop
  <2>5. CASE cursor.group < Len(Groups)
    <3>1. cursor'.node = cursor.node /\ cursor'.group = cursor.group + 1 /\ cursor'.compat = 1
      BY <1>1, <1>4, <2>5 DEF NextGroup
    <3>2. QED
      BY <1>1, <2>2, <2>3, <2>t, <2>4, <3>1 DEF Before
  <2>6. CASE ~(cursor.group < Len(Groups))
    <3>1. cursor'.node = cursor.node + 1 /\ cursor'.group = 0 /\ cursor'.compat = 1
      BY <1>4, <2>6 DEF NextGroup
    <3>2. QED
      BY <1>1, <2>2, <2>3, <2>t, <2>4, <2>6, <3>1 DEF Before
  <2>7. QED
    BY <2>5, <2>6
<1>5. QED
  BY <1>2, <1>3, <1>4

\* The positions are given by the tables and the nodes.
LEMMA StillPositions ==
    ASSUME UNCHANGED <<tables, dtbs>>
    PROVE  \A i, g, k \in Nat : /\ Position(i, g, k)' <=> Position(i, g, k)
                                /\ CompatsAt(i, g)' = CompatsAt(i, g)
BY DEF tables, Position, CompatsAt, KeyAt, FdtAt, GroupsAt, HasConfigs, Get

\* A step of the loops emits the string at the cursor or none.
LEMMA LoopVisits ==
    ASSUME IInv, VisitedInv, SkipNode \/ EmitConfig \/ NextGroup, NEW c \in Compats
    PROVE  /\ Passed(c)' <=> Passed(c) \/ (EmitConfig /\ c = GroupCompats[cursor.compat])
           /\ Configured(c)' <=> Configured(c)
                                 \/ (EmitConfig /\ c = GroupCompats[cursor.compat])
<1>1. UNCHANGED <<inputs, pc, todo, tables, dtbs>>
  BY DEF SkipNode, EmitConfig, NextGroup
<1>2. \A i, g, k \in Nat : /\ Position(i, g, k)' <=> Position(i, g, k)
                           /\ CompatsAt(i, g)' = CompatsAt(i, g)
  BY <1>1, StillPositions
<1>3. ASSUME EmitConfig
      PROVE  /\ Position(cursor.node, cursor.group, cursor.compat)
             /\ cursor.node \in Nat /\ cursor.group \in Nat /\ cursor.compat \in Nat
             /\ GroupCompats = CompatsAt(cursor.node, cursor.group)
  BY <1>3, CursorPosition DEF EmitConfig
<1>4. \A i, g, k \in Nat : Position(i, g, k) =>
          (Before(i, g, k)' <=>
              \/ Before(i, g, k)
              \/ EmitConfig /\ i = cursor.node /\ g = cursor.group /\ k = cursor.compat)
  BY CursorMoves
<1>5. Passed(c)' <=> Passed(c) \/ (EmitConfig /\ c = GroupCompats[cursor.compat])
  BY <1>2, <1>3, <1>4 DEF Passed
<1>6. CASE EmitConfig
  <2> DEFINE new == [num |-> counter, fdt |-> FdtList, compat |-> GroupCompats[cursor.compat]]
  <2>1. configs' = Append(configs, new) /\ new.compat = GroupCompats[cursor.compat]
    BY <1>6 DEF EmitConfig
  <2> HIDE DEF new
  <2>2. configs \in Seq(ConfigNode)
    BY DEF IInv, ConfigInv
  <2>3. /\ \A m \in DOMAIN configs : m \in DOMAIN configs' /\ configs'[m] = configs[m]
        /\ \A m \in DOMAIN configs' :
              configs'[m] = new \/ (m \in DOMAIN configs /\ configs'[m] = configs[m])
        /\ \E m \in DOMAIN configs' : configs'[m] = new
    <3>1. /\ DOMAIN configs' = 1 .. Len(configs) + 1 /\ DOMAIN configs = 1 .. Len(configs)
          /\ Len(configs) \in Nat /\ configs'[Len(configs) + 1] = new
          /\ \A m \in 1 .. Len(configs) : configs'[m] = configs[m]
      BY <2>1, <2>2
    <3>2. QED
      BY <3>1
  <2>4. QED
    BY <1>5, <1>6, <2>1, <2>3 DEF Configured
<1>7. CASE ~EmitConfig
  <2>1. configs' = configs
    BY <1>7 DEF SkipNode, NextGroup
  <2>2. QED
    BY <1>5, <1>7, <2>1 DEF Configured
<1>8. QED
  BY <1>6, <1>7

LEMMA NextVisited ==
    ASSUME IInv, VisitedInv, [Next]_vars
    PROVE  VisitedInv'
<1>1. CASE SkipNode \/ EmitConfig \/ NextGroup
  <2>1. pc = "configure" /\ pc' = pc /\ InLoop /\ dtbs' = dtbs
    BY <1>1 DEF SkipNode, EmitConfig, NextGroup, InLoop
  <2>2. /\ \A c \in Compats : Configured(c)' => Passed(c)'
        /\ \A c \in Compats : Passed(c)' => Configured(c)'
    BY <1>1, <2>1, LoopVisits DEF VisitedInv
  <2>3. cursor'.compat # 1 => InLoop' /\ HasConfigs(ThisNode)'
    <3>1. cursor \in [node : Nat \ {0}, group : Nat, compat : Nat \ {0}]
      BY DEF IInv, CursorInv
    <3>2. CASE SkipNode
      <4>1. cursor'.compat = cursor.compat /\ cursor.compat = 1
        BY <3>1, <3>2, <2>1 DEF SkipNode, VisitedInv
      <4>2. QED
        BY <4>1
    <3>3. CASE EmitConfig
      <4>1. cursor'.node = cursor.node /\ HasConfigs(ThisNode)
        BY <3>1, <3>3 DEF EmitConfig
      <4>2. QED
        BY <2>1, <4>1 DEF InLoop, HasConfigs, ThisNode
    <3>4. CASE NextGroup
      <4>1. cursor'.compat = 1
        BY <3>1, <3>4 DEF NextGroup
      <4>2. QED
        BY <4>1
    <3>5. QED
      BY <1>1, <3>2, <3>3, <3>4
  <2>4. QED
    BY <2>1, <2>2, <2>3 DEF VisitedInv
<1>2. CASE EmitMetadata \/ (\E c \in Compats : ParseFlag(c)) \/ ParseDone
            \/ (\E f \in files : EmitDtb(f))
  <2>1. /\ pc' \in {"metadata", "parse", "emit", "fatal"} /\ UNCHANGED output
        /\ pc \in {"metadata", "parse", "emit"}
    BY <1>2 DEF EmitMetadata, ParseFlag, ParseDone, EmitDtb
  <2>2. \A c \in Compats : ~Configured(c)'
    BY <2>1 DEF VisitedInv, Configured, output
  <2>3. QED
    BY <2>1, <2>2 DEF VisitedInv, output
<1>3. CASE EmitDone
  <2>1. /\ pc = "emit" /\ pc' = "configure" /\ UNCHANGED <<tables, dtbs, output>>
        /\ configs = <<>> /\ cursor = [node |-> 1, group |-> 0, compat |-> 1]
    BY <1>3 DEF EmitDone, VisitedInv
  <2>2. cursor.node = 1 /\ cursor.group = 0 /\ cursor.compat = 1
    BY <2>1
  <2>3. dtbs \in Seq(NodeType)
    BY DEF IInv, NodeInv
  <2>4. \A i, g, k \in Nat : ~(Position(i, g, k) /\ Before(i, g, k))
    BY <2>2, <2>3 DEF Position, Before
  <2>5. \A i, g, k \in Nat : ~(Position(i, g, k)' /\ Before(i, g, k)')
    BY <2>1, <2>4, StillPositions DEF Before, output
  <2>6. \A c \in Compats : ~Passed(c)' /\ ~Configured(c)'
    BY <2>1, <2>5 DEF Passed, Configured, output
  <2>7. QED
    BY <2>1, <2>2, <2>6 DEF VisitedInv, output
<1>4. CASE ConfigureDone \/ Assemble \/ UNCHANGED vars
  <2>1. /\ UNCHANGED <<tables, dtbs, output>>
        /\ pc' = pc \/ pc' \in {"assemble", "done", "fatal"}
        /\ pc' \in {"assemble", "done"} =>
              pc \in {"configure", "assemble", "done"} /\ cursor.node > Len(dtbs)
    BY <1>4 DEF ConfigureDone, Assemble, vars, VisitedInv
  <2>2. \A c \in Compats : (Passed(c)' <=> Passed(c)) /\ (Configured(c)' <=> Configured(c))
    BY <2>1, StillPositions DEF Passed, Configured, Before, output
  <2>3. QED
    BY <2>1, <2>2 DEF VisitedInv, InLoop, HasConfigs, ThisNode, output
<1>5. QED
  BY <1>1, <1>2, <1>3, <1>4 DEF Next

LEMMA NextNumber ==
    ASSUME IInv, TablesInv, EmittedInv, VisitedInv, NumberInv, [Next]_vars
    PROVE  NumberInv'
<1> DEFINE Ids == [i \in DOMAIN dtbs |-> dtbs[i].id]
           Strings == [i \in DOMAIN configs |-> configs[i].compat]
<1>1. CASE EmitConfig
  <2> DEFINE c == GroupCompats[cursor.compat]
             new == [num |-> counter, fdt |-> FdtList, compat |-> c]
  <2>1. /\ configs' = Append(configs, new) /\ new.compat = c /\ new.num = counter
        /\ counter' = counter + 1 /\ dtbs' = dtbs /\ pc' = pc /\ pc = "configure"
    BY <1>1 DEF EmitConfig, InLoop
  <2>2. configs \in Seq(ConfigNode)
    BY DEF IInv, ConfigInv
  <2>c. c \in Compats
    BY <1>1, ConfigDeclared DEF EmitConfig
  <2> HIDE DEF new, c
  <2>3. /\ DOMAIN configs' = 1 .. Len(configs) + 1 /\ DOMAIN configs = 1 .. Len(configs)
        /\ Len(configs) \in Nat /\ configs'[Len(configs) + 1] = new
        /\ \A m \in 1 .. Len(configs) : configs'[m] = configs[m]
        /\ Len(configs') = Len(configs) + 1
    BY <2>1, <2>2
  <2>4. counter' = Len(configs') + 1 /\ \A m \in DOMAIN configs' : configs'[m].num = m
    BY <2>1, <2>3 DEF NumberInv
  <2>5. ASSUME Distinct(Ids)
        PROVE  ~Configured(c)
    <3> SUFFICES ASSUME Configured(c) PROVE FALSE
      OBVIOUS
    <3>1. Passed(c)
      BY <2>c DEF VisitedInv
    <3>2. PICK i, g, k \in Nat : Position(i, g, k) /\ Before(i, g, k) /\ CompatsAt(i, g)[k] = c
      BY <3>1 DEF Passed
    <3>3. /\ Position(cursor.node, cursor.group, cursor.compat)
          /\ cursor.node \in Nat /\ cursor.group \in Nat /\ cursor.compat \in Nat
          /\ CompatsAt(cursor.node, cursor.group)[cursor.compat] = c
      BY <1>1, CursorPosition DEF EmitConfig, c
    <3>4. i = cursor.node /\ g = cursor.group /\ k = cursor.compat
      BY <2>5, <3>2, <3>3, PositionUnique DEF TablesInv
    <3>5. QED
      BY <3>2, <3>3, <3>4 DEF Before
  <2>6. ASSUME Distinct(Ids)
        PROVE  Distinct(Strings')
    <3>1. \A m, n \in 1 .. Len(configs) : configs[m].compat = configs[n].compat => m = n
      BY <2>3, <2>6 DEF NumberInv, Distinct
    <3>2. \A m \in 1 .. Len(configs) : configs[m].compat # c
      BY <2>3, <2>5, <2>6 DEF Configured
    <3>3. ASSUME NEW m \in DOMAIN configs', NEW n \in DOMAIN configs',
                 configs'[m].compat = configs'[n].compat
          PROVE  m = n
      BY <2>1, <2>3, <3>1, <3>2, <3>3
    <3>4. QED
      BY <3>3 DEF Distinct
  <2>7. QED
    BY <2>1, <2>4, <2>6 DEF NumberInv
<1>2. CASE UNCHANGED <<dtbs, counter, configs>> /\ (pc' = "done" => pc = "done" \/ NodeNamesDistinct)
  BY <1>2 DEF NumberInv, NodeNamesDistinct, Distinct
<1>3. CASE UNCHANGED <<counter, configs>> /\ configs = <<>> /\ pc' # "done"
  BY <1>3 DEF NumberInv, Distinct
<1>4. QED
  <2>1. CASE EmitMetadata
    BY <1>3, <2>1 DEF EmitMetadata, output, VisitedInv
  <2>2. ASSUME NEW f \in files, EmitDtb(f) PROVE NumberInv'
    BY <1>3, <2>2 DEF EmitDtb, output, VisitedInv
  <2>3. QED
    BY <1>1, <1>2, <2>1, <2>2 DEF Next, ParseFlag, ParseDone, EmitDone, SkipNode, NextGroup,
       ConfigureDone, Assemble, InLoop, output, vars

FullInv == IInv /\ TablesInv /\ EmittedInv /\ VisitedInv /\ NumberInv

LEMMA InitFullInv == Init => FullInv
<1> SUFFICES ASSUME Init PROVE FullInv
  OBVIOUS
<1>1. IInv
  BY InitIInv
<1> USE DEF Init, Start
<1>2. ParsedInv /\ StackInv /\ OnceInv
  BY DEF ParsedInv, StackInv, OnceInv, AfterParse, Empty
<1>3. EmittedInv
  BY DEF EmittedInv
<1>4. VisitedInv
  BY DEF VisitedInv, Configured
<1>5. NumberInv
  BY DEF NumberInv, Distinct
<1>6. QED
  BY <1>1, <1>2, <1>3, <1>4, <1>5 DEF FullInv, TablesInv

LEMMA NextFullInv == FullInv /\ [Next]_vars => FullInv'
BY NextIInv, NextTables, NextEmitted, NextVisited, NextNumber DEF FullInv

LEMMA FullInductive == Spec => []FullInv
BY InitFullInv, NextFullInv, PTL DEF Spec

-----------------------------------------------------------------------------
(* The image is what the flags promise.                                    *)

LEMMA StemsAreKeys == Contract!Stems = Keys
<1>1. \A f \in files : <<Encode[f[1]], f[2]>>[1] = Encode[f[1]]
  OBVIOUS
<1>2. Contract!Stems \subseteq Keys
  BY <1>1 DEF Contract!Stems, Contract!Built, Keys
<1>3. Keys \subseteq Contract!Stems
  <2> SUFFICES ASSUME NEW f \in files PROVE Encode[f[1]] \in Contract!Stems
    BY DEF Keys
  <2>1. <<Encode[f[1]], f[2]>> \in Contract!Built
    BY DEF Contract!Built
  <2>2. QED
    BY <1>1, <2>1 DEF Contract!Stems
<1>4. QED
  BY <1>2, <1>3

Deployed == {[compat |-> configs[i].compat, fdt |-> configs[i].fdt] : i \in DOMAIN configs}

\* A configuration in the image is one that was promised.
LEMMA DeployedWasPromised ==
    ASSUME FullInv, NEW m \in DOMAIN configs
    PROVE  [compat |-> configs[m].compat, fdt |-> configs[m].fdt] \in Contract!Promise
<1> DEFINE c == configs[m].compat
<1>1. c \in Compats /\ Configured(c)
  <2>1. configs[m] \in ConfigNode
    BY DEF FullInv, IInv, ConfigInv
  <2>2. QED
    BY <2>1 DEF ConfigNode, Configured
<1>2. Usable(flags[c]) /\ configs[m].fdt = Contract!Declared(flags[c])
  BY DEF FullInv, IInv, ConfigsDeclared
<1> HIDE DEF c
<1>3. Passed(c)
  BY <1>1 DEF FullInv, VisitedInv
<1>4. PICK i, g, k \in Nat : Position(i, g, k) /\ CompatsAt(i, g)[k] = c
  BY <1>3 DEF Passed
<1>5. FdtAt(i, g) = Contract!Declared(flags[c]) /\ FdtAt(i, g) \in Seq(Blob)
      /\ dtbs[i].type = "flat_dt"
  BY <1>4, PositionDeclared DEF FullInv
<1>6. dtbs[i].id \in Contract!Built
  BY <1>4, <1>5 DEF FullInv, EmittedInv, Position
<1>7. FdtAt(i, g)[1] = dtbs[i].id
  <2>1. CASE g = 0
    BY <2>1 DEF FdtAt
  <2>2. CASE g # 0
    <3>1. GroupsAt(i)[g] \in Seq(Blob)
      BY <1>4, <2>2 DEF FullInv, IInv, GroupInv, GroupsAt, Get, Position
    <3>2. QED
      BY <2>2, <3>1 DEF FdtAt
  <2>3. QED
    BY <2>1, <2>2
<1>8. Contract!Selected(flags[c])
  BY <1>2, <1>5, <1>6, <1>7, StemsAreKeys DEF Contract!Selected, Usable
<1>9. QED
  BY <1>1, <1>2, <1>8 DEF Contract!Promise, c

\* Nothing that was promised is missing once the loops are through.
LEMMA PromisedIsDeployed ==
    ASSUME FullInv, pc \in {"assemble", "done"}, NEW c \in Compats, Contract!Selected(flags[c])
    PROVE  [compat |-> c, fdt |-> Contract!Declared(flags[c])] \in Deployed
<1> USE DEF FullInv
<1>i. InputInv
  BY DEF IInv
<1>1. Usable(flags[c]) /\ Contract!Declared(flags[c])[1] \in Contract!Built
  BY StemsAreKeys DEF Contract!Selected, Usable
<1>2. /\ flags[c] \in Seq(Names) /\ Len(flags[c]) \in Nat \ {0}
      /\ \A i \in DOMAIN flags[c] :
            flags[c][i] \in Names /\ Encode[flags[c][i]] = flags[c][i]
  BY <1>1, <1>i, UsableEncoded
<1>3. Contract!Declared(flags[c])[1] = BaseOf(c) /\ 1 \in DOMAIN flags[c]
  BY <1>2 DEF Contract!Declared, BaseOf
<1>4. PICK f \in files : BlobId(f) = BaseOf(c)
  BY <1>1, <1>3 DEF Contract!Built, BlobId
<1>5. PICK i \in DOMAIN dtbs : dtbs[i].type = "flat_dt" /\ dtbs[i].id = BaseOf(c)
  BY <1>4 DEF EmittedInv
<1>6. /\ HasConfigs(dtbs[i]) /\ i \in Nat /\ dtbs[i].compats = Get(baseCompats, BaseOf(c))
      /\ i < cursor.node
  <2>1. BaseOf(c)[2] = "dtb"
    BY DEF BaseOf
  <2>2. dtbs \in Seq(NodeType) /\ cursor.node > Len(dtbs) /\ cursor.node \in Nat
    BY DEF IInv, NodeInv, CursorInv, VisitedInv
  <2>3. QED
    BY <1>5, <2>1, <2>2 DEF HasConfigs, EmittedInv
<1>7. \E g, k \in Nat : Position(i, g, k) /\ CompatsAt(i, g)[k] = c
  <2>1. CASE Len(flags[c]) = 1
    <3>1. BareDone(c)
      BY <1>1, <2>1 DEF TablesInv, ParsedInv, AfterParse
    <3>2. PICK k \in DOMAIN CompatsAt(i, 0) : CompatsAt(i, 0)[k] = c
      BY <1>6, <3>1 DEF BareDone, CompatsAt, Get
    <3>3. CompatsAt(i, 0) \in Seq(Compats) /\ Len(GroupsAt(i)) \in Nat
      BY <1>6 DEF CompatsAt, GroupsAt, Get, IInv, BareInv, GroupInv
    <3>4. k \in Nat /\ k \in 1 .. Len(CompatsAt(i, 0)) /\ 0 \in 0 .. Len(GroupsAt(i))
      BY <3>2, <3>3
    <3>5. Position(i, 0, k)
      BY <1>5, <1>6, <3>4 DEF Position
    <3>6. QED
      BY <3>2, <3>4, <3>5
  <2>2. CASE Len(flags[c]) # 1
    <3>1. StackDone(c) /\ ComboDone(c)
      BY <1>1, <2>2 DEF TablesInv, ParsedInv, AfterParse
    <3>2. PICK g \in DOMAIN GroupsAt(i) : GroupsAt(i)[g] = Overlays(flags[c])
      BY <1>5, <3>1 DEF StackDone, GroupsAt, Get
    <3>3. GroupsAt(i) \in Seq(Seq(Blob))
      BY DEF GroupsAt, Get, IInv, GroupInv
    <3>4. g \in Nat /\ g # 0 /\ g \in 0 .. Len(GroupsAt(i))
      BY <3>2, <3>3
    <3>5. FdtAt(i, g) = <<BaseOf(c)>> \o Overlays(flags[c])
      BY <1>5, <3>2, <3>4 DEF FdtAt
    <3>6. KeyAt(i, g) = ComboKey(flags[c])
      <4> DEFINE n == Len(flags[c])
      <4>1. /\ Overlays(flags[c]) \in Seq(Names \X {"dtbo"}) /\ Len(Overlays(flags[c])) = n - 1
            /\ \A x \in 1 .. n - 1 : Overlays(flags[c])[x] = <<flags[c][x + 1], "dtbo">>
        BY <1>2 DEF Overlays
      <4>2. /\ DOMAIN FdtAt(i, g) = 1 .. n /\ FdtAt(i, g)[1] = BaseOf(c)
            /\ \A x \in 2 .. n : FdtAt(i, g)[x] = <<flags[c][x], "dtbo">>
        BY <1>2, <3>5, <4>1
      <4>3. \A x \in 1 .. n : FdtAt(i, g)[x][1] = Encode[flags[c][x]]
        <5> SUFFICES ASSUME NEW x \in 1 .. n
                     PROVE  FdtAt(i, g)[x][1] = Encode[flags[c][x]]
          OBVIOUS
        <5>1. CASE x = 1
          BY <4>2, <5>1 DEF BaseOf
        <5>2. CASE x # 1
          <6>1. x \in 2 .. n
            BY <1>2, <5>2
          <6>2. FdtAt(i, g)[x] = <<flags[c][x], "dtbo">>
            BY <4>2, <6>1
          <6>3. <<flags[c][x], "dtbo">>[1] = flags[c][x]
            OBVIOUS
          <6>4. flags[c][x] = Encode[flags[c][x]]
            BY <1>2
          <6>5. QED
            BY <6>2, <6>3, <6>4, Zenon
        <5>3. QED
          BY <5>1, <5>2
      <4>4. \A x \in 1 .. n : Encode[FdtAt(i, g)[x][1]] = Encode[flags[c][x]]
        BY <1>2, <4>3
      <4>5. DOMAIN flags[c] = 1 .. n
        BY <1>2
      <4>6. QED
        BY <4>2, <4>4, <4>5 DEF KeyAt, ComboKey
    <3>7. PICK k \in DOMAIN CompatsAt(i, g) : CompatsAt(i, g)[k] = c
      BY <3>1, <3>4, <3>6 DEF ComboDone, CompatsAt, Get
    <3>8. CompatsAt(i, g) \in Seq(Compats)
      BY <3>4 DEF CompatsAt, Get, IInv, ComboInv
    <3>9. k \in Nat /\ k \in 1 .. Len(CompatsAt(i, g))
      BY <3>7, <3>8
    <3>10. Position(i, g, k)
      BY <1>5, <1>6, <3>4, <3>9 DEF Position
    <3>11. QED
      BY <3>4, <3>7, <3>9, <3>10
  <2>3. QED
    BY <2>1, <2>2
<1>8. Configured(c)
  BY <1>6, <1>7 DEF VisitedInv, Passed, Before
<1>9. PICK m \in DOMAIN configs : configs[m].compat = c
  BY <1>8 DEF Configured
<1>10. configs[m].fdt = Contract!Declared(flags[c])
  BY <1>9 DEF IInv, ConfigsDeclared
<1>11. QED
  BY <1>9, <1>10 DEF Deployed

LEMMA DeployedIsPromised ==
    ASSUME FullInv, pc \in {"assemble", "done"}
    PROVE  Deployed = Contract!Promise
BY DeployedWasPromised, PromisedIsDeployed DEF Deployed, Contract!Promise

-----------------------------------------------------------------------------
(* The refinement, step by step.                                           *)

\* While the task is at work, nothing has been left; then everything.
LEMMA StepRefines ==
    ASSUME FullInv, [Next]_vars
    PROVE  [Contract!Finish]_(Contract!vars)
<1>1. CASE UNCHANGED vars
  BY <1>1 DEF vars, inputs, output, Contract!vars
<1>2. CASE Next /\ pc' \notin {"done", "fatal"}
  <2>1. pc \notin {"done", "fatal"} /\ UNCHANGED inputs
    BY <1>2 DEF Next, EmitMetadata, ParseFlag, ParseDone, EmitDtb, EmitDone, SkipNode,
       EmitConfig, NextGroup, ConfigureDone, Assemble, InLoop
  <2>2. QED
    BY <1>2, <2>1 DEF Contract!vars, inputs
<1>3. CASE Next /\ pc' = "fatal"
  <2>1. pc \notin {"done", "fatal"} /\ UNCHANGED inputs
    BY <1>3 DEF Next, EmitMetadata, ParseFlag, ParseDone, EmitDtb, EmitDone, SkipNode,
       EmitConfig, NextGroup, ConfigureDone, Assemble, InLoop
  <2>2. QED
    BY <1>3, <2>1 DEF Contract!Finish, Contract!Pending, Contract!Failed, inputs
<1>4. CASE Next /\ pc' = "done"
  <2>1. pc = "assemble" /\ UNCHANGED <<inputs, output>>
    BY <1>4 DEF Next, EmitMetadata, ParseFlag, ParseDone, EmitDtb, EmitDone, SkipNode,
       EmitConfig, NextGroup, ConfigureDone, Assemble, InLoop
  <2>2. Deployed' = Contract!Promise
    BY <2>1, DeployedIsPromised DEF Deployed, output
  <2>3. QED
    BY <1>4, <2>1, <2>2 DEF Contract!Finish, Contract!Pending, Deployed, inputs
<1>5. QED
  BY <1>1, <1>2, <1>3, <1>4

\* The task implements its contract: for all blobs, flags and encodings the image
\* it leaves has exactly the promised configurations, or it leaves none.
THEOREM Refinement == Spec => ImplementsContract
<1>1. Init => Contract!Init
  BY DEF Init, Start, Contract!Init, Contract!Pending
<1>2. FullInv /\ [Next]_vars => [Contract!Finish]_(Contract!vars)
  BY StepRefines
<1>3. QED
  BY <1>1, <1>2, FullInductive, PTL DEF Spec, ImplementsContract, Contract!Spec

\* Configuration nodes are numbered without gap or repetition, and no compatible
\* string selects two configurations of a finished image.
THEOREM UniqueConfigs == Spec => []ConfigsUnique
<1>1. FullInv => ConfigsUnique
  BY DEF FullInv, NumberInv, NodeNamesDistinct, ConfigsUnique
<1>2. QED
  BY <1>1, FullInductive, PTL

\* As long as no stem changes its role between the machine and the flags, every
\* fdt reference of a finished image names an image of it.
THEOREM RolesKeepLinks == Spec => []LinkedWhenRolesKept
<1>1. FullInv => LinkedWhenRolesKept
  <2> SUFFICES ASSUME FullInv, StemsKeepTheirRole, pc = "done",
                      NEW m \in DOMAIN configs, NEW k \in DOMAIN configs[m].fdt
               PROVE  configs[m].fdt[k] \in ImageIds
    BY DEF LinkedWhenRolesKept, FdtLinkage
  <2> DEFINE c == configs[m].compat
             role == IF k = 1 THEN "dtb" ELSE "dtbo"
  <2>1. c \in Compats
    <3>1. configs[m] \in ConfigNode
      BY DEF FullInv, IInv, ConfigInv
    <3>2. QED
      BY <3>1 DEF ConfigNode
  <2>2. Usable(flags[c]) /\ configs[m].fdt = Contract!Declared(flags[c])
    BY DEF FullInv, IInv, ConfigsDeclared
  <2> HIDE DEF c
  <2>3. k \in DOMAIN flags[c] /\ configs[m].fdt[k] = <<Encode[flags[c][k]], role>>
    BY <2>2 DEF Contract!Declared
  <2>4. Encode[flags[c][k]] = flags[c][k]
    BY <2>1, <2>2, <2>3, UsableEncoded DEF FullInv, IInv
  <2>5. PICK f \in files : flags[c][k] = Encode[f[1]]
    BY <2>2, <2>3 DEF Usable, Keys
  <2>6. f[2] = role
    BY <2>1, <2>3, <2>5 DEF StemsKeepTheirRole
  <2>7. configs[m].fdt[k] = BlobId(f)
    BY <2>3, <2>4, <2>5, <2>6 DEF BlobId
  <2>8. \E i \in DOMAIN dtbs : dtbs[i].id = BlobId(f)
    BY DEF FullInv, EmittedInv
  <2>9. QED
    BY <2>7, <2>8 DEF ImageIds
<1>2. QED
  BY <1>1, FullInductive, PTL

-----------------------------------------------------------------------------
(* FitReplica: the copy of the loops that the unit tests call, for any     *)
(* call, and what the parser makes of the file.                            *)

\* A call of the builder: blobs, and a dictionary of compatible strings.
IsCall(args) ==
    /\ args.listing \in Seq(Files)
    /\ args.flags \in Seq(Compats \X Combos)
    /\ {args.flags[i][1] : i \in DOMAIN args.flags} = Compats

CallInv ==
    /\ listing \in Seq(Files) /\ files = {listing[i] : i \in DOMAIN listing}
    /\ dict \in Seq(Compats) /\ {dict[i] : i \in DOMAIN dict} = Compats
    /\ present = files \cup {Metadata}

\* Up to the parser, the invariants of the task are those of the copy.
CopyInv == CallInv /\ (pc # "parsed" => FullInv) /\ ParsedAsDeclared

LEMMA LeastNat ==
    ASSUME NEW T, T \subseteq Nat, T # {}
    PROVE  \E x \in T : \A y \in T : ~(y < x)
<1>1. PICK x \in T : \A y \in T : ~(<<y, x>> \in OpToRel(<, Nat))
  BY NatLessThanWellFounded, WFMin
<1>2. QED
  BY <1>1 DEF OpToRel

\* The loops of the copy visit what they have still to visit.
LEMMA FirstIn ==
    ASSUME NEW V, NEW seq \in Seq(V), NEW S, S # {}, S \subseteq {seq[i] : i \in DOMAIN seq}
    PROVE  First(seq, S) \in S
<1> DEFINE T == {i \in DOMAIN seq : seq[i] \in S}
           Min(i) == seq[i] \in S /\ \A j \in 1 .. i - 1 : seq[j] \notin S
<1>1. T \subseteq Nat /\ T # {} /\ DOMAIN seq = 1 .. Len(seq) /\ Len(seq) \in Nat
  OBVIOUS
<1>2. PICK i \in T : \A j \in T : ~(j < i)
  BY <1>1, LeastNat
<1>3. i \in DOMAIN seq /\ seq[i] \in S
  BY <1>2
<1>4. \A j \in 1 .. i - 1 : seq[j] \notin S
  <2> SUFFICES ASSUME NEW j \in 1 .. i - 1, seq[j] \in S PROVE FALSE
    OBVIOUS
  <2>1. j \in DOMAIN seq /\ j < i
    BY <1>1, <1>3
  <2>2. QED
    BY <1>2, <2>1
<1>5. Min(i)
  BY <1>3, <1>4
<1>6. First(seq, S) = seq[CHOOSE k \in DOMAIN seq : Min(k)]
  BY DEF First
<1> HIDE DEF Min
<1>7. Min(CHOOSE k \in DOMAIN seq : Min(k))
  BY <1>3, <1>5
<1>8. QED
  BY <1>6, <1>7 DEF Min

\* What the copy starts from is a state in which the task may start.
LEMMA CopyInit ==
    ASSUME NEW args, IsCall(args), ReplicaInit(args)
    PROVE  Init /\ CallInv /\ parsed = Unparsed
<1> USE DEF IsCall, ReplicaInit
<1>1. listing \in Seq(Files) /\ files = {listing[i] : i \in DOMAIN listing}
  OBVIOUS
<1>2. \A i \in DOMAIN args.flags : args.flags[i][1] \in Compats /\ args.flags[i][2] \in Combos
  OBVIOUS
<1>3. dict \in Seq(Compats) /\ {dict[i] : i \in DOMAIN dict} = Compats
  <2>1. /\ Len(args.flags) \in Nat /\ DOMAIN args.flags = 1 .. Len(args.flags)
        /\ dict = [i \in DOMAIN args.flags |-> args.flags[i][1]]
    OBVIOUS
  <2>2. dict \in Seq(Compats)
    BY <1>2, <2>1
  <2>3. QED
    BY <2>1, <2>2
<1>4. flags \in [Compats -> Combos]
  <2>1. ASSUME NEW c \in Compats
        PROVE  flags[c] \in Combos
    <3> DEFINE k == CHOOSE i \in DOMAIN args.flags : args.flags[i][1] = c
    <3>1. k \in DOMAIN args.flags
      OBVIOUS
    <3>2. flags[c] = args.flags[k][2]
      OBVIOUS
    <3>3. QED
      BY <1>2, <3>1, <3>2
  <2>2. DOMAIN flags = Compats /\ flags = [c \in Compats |-> flags[c]]
    OBVIOUS
  <2>3. QED
    BY <2>1, <2>2
<1>5. files \in SUBSET Files
  BY <1>1
<1>6. QED
  BY <1>1, <1>3, <1>4, <1>5 DEF Init, CallInv

\* Every step of the copy up to the parser is one of the task.
LEMMA CopyStep ==
    ASSUME CallInv, FullInv, ReplicaNext, ~ReplicaParse
    PROVE  /\ Next /\ pc # "parsed" /\ pc' # "parsed"
           /\ UNCHANGED <<inputs, call, parsed>>
<1>1. /\ flags \in [Compats -> Combos] /\ Combos \subseteq Seq(Names)
      /\ pc = "parse" => todo \subseteq Compats
      /\ pc = "emit" => todo \subseteq files
  BY InputAssumption DEF FullInv, IInv, InputInv, TodoInv
<1>2. CASE ReplicaMetadata
  BY <1>2 DEF ReplicaMetadata, Next, EmitMetadata, CallInv
<1>3. CASE ReplicaEntry
  <2> DEFINE c == First(dict, todo)
             parts == flags[c]
  <2>1. pc = "parse" /\ todo # {} /\ c \in todo /\ c \in Compats
    <3>1. pc = "parse" /\ todo # {} /\ todo \subseteq {dict[i] : i \in DOMAIN dict}
      BY <1>1, <1>3 DEF ReplicaEntry, CallInv
    <3>2. c \in todo
      BY <3>1, FirstIn DEF CallInv
    <3>3. QED
      BY <1>1, <3>1, <3>2
  <2>2. /\ parts \in Seq(Names) /\ ReplicaKeys = Keys /\ ReplicaKey(parts) = ComboKey(parts)
        /\ (parts # <<>> /\ \A i \in DOMAIN parts : parts[i] \in ReplicaKeys) <=> Usable(parts)
        /\ Usable(parts) => Head(parts) = parts[1]
        /\ Overlays(parts) = [i \in 1 .. Len(parts) - 1 |-> <<parts[i + 1], "dtbo">>]
    BY <1>1, <2>1 DEF ReplicaKeys, Keys, ReplicaKey, ComboKey, Usable, Overlays
  <2>3. /\ todo' = todo \ {c}
        /\ UNCHANGED <<inputs, pc, dtbs, output, call, parsed>>
    BY <1>3 DEF ReplicaEntry
  <2>4. \/ ~Usable(parts) /\ UNCHANGED tables
        \/ Usable(parts) /\ Len(parts) = 1 /\ BareBase(c, <<Encode[Head(parts)], "dtb">>)
        \/ Usable(parts) /\ Len(parts) > 1
              /\ StackOverlays(c, parts, <<Encode[Head(parts)], "dtb">>, ComboKey(parts))
    BY <1>3, <2>2 DEF ReplicaEntry, BareBase, StackOverlays
  <2>5. ParseFlag(c)
    BY <2>1, <2>3, <2>4 DEF ParseFlag
  <2>6. QED
    BY <2>1, <2>3, <2>5 DEF Next
<1>4. CASE ReplicaParsed
  BY <1>4 DEF ReplicaParsed, Next, ParseDone
<1>5. CASE ReplicaEmit
  <2> DEFINE f == First(listing, todo)
  <2>1. pc = "emit" /\ todo # {} /\ todo \subseteq {listing[i] : i \in DOMAIN listing}
    BY <1>1, <1>5 DEF ReplicaEmit, CallInv
  <2>2. f \in todo
    BY <2>1, FirstIn DEF CallInv
  <2>3. f \in files /\ f \in present
    BY <1>1, <2>1, <2>2 DEF CallInv
  <2>4. EmitDtb(f)
    BY <1>5, <2>1, <2>2, <2>3 DEF ReplicaEmit, EmitDtb
  <2>5. QED
    BY <1>5, <2>1, <2>3, <2>4 DEF ReplicaEmit, Next
<1>6. CASE ReplicaEmitted
  BY <1>6 DEF ReplicaEmitted, Next, EmitDone
<1>7. CASE ReplicaConfigure
  BY <1>7 DEF ReplicaConfigure, Next, SkipNode, EmitConfig, NextGroup, ConfigureDone, InLoop
<1>8. QED
  BY <1>2, <1>3, <1>4, <1>5, <1>6, <1>7 DEF ReplicaNext

\* The writer and the parser give a configuration node back as it was emitted.
LEMMA ConfigRead ==
    ASSUME NEW num, NEW fdt \in Seq(Blob), Len(fdt) # 0, NEW compat
    PROVE  LET read == Props(ConfigNodeOf(num, fdt, compat).props)
           IN  /\ DOMAIN read = {"fdt", "compatible"}
               /\ read["fdt"].val = fdt /\ read["compatible"].val[1] = compat
<1> DEFINE V == IF Len(fdt) = 1 THEN Str(fdt[1]) ELSE List(fdt)
           ps == <<Prop("fdt", V), Prop("compatible", Str(compat))>>
           keys == [i \in DOMAIN ps |-> ps[i].key]
           read == Props(ps)
<1>1. ConfigNodeOf(num, fdt, compat).props = ps
  BY DEF ConfigNodeOf, Node
<1>2. /\ DOMAIN ps = 1 .. 2 /\ ps[1] = Prop("fdt", V) /\ ps[2] = Prop("compatible", Str(compat))
  OBVIOUS
<1>3. ps[1].key = "fdt" /\ ps[1].val = V /\ ps[2].key = "compatible" /\ ps[2].val = Str(compat)
  BY <1>2 DEF Prop
<1> HIDE DEF V, ps
<1>4. DOMAIN keys = 1 .. 2 /\ keys[1] = "fdt" /\ keys[2] = "compatible"
  BY <1>2, <1>3
<1> HIDE DEF keys
<1>5. LastWith(keys, "fdt") = 1 /\ LastWith(keys, "compatible") = 2
  BY <1>4 DEF LastWith
<1>6. read = [k \in {keys[i] : i \in DOMAIN keys} |-> Reread(Written(ps[LastWith(keys, k)].val))]
  BY DEF Props, keys
<1>7. read["fdt"] = Reread(Written(V)) /\ read["compatible"] = Reread(Written(Str(compat)))
  BY <1>3, <1>4, <1>5, <1>6
<1>8. ASSUME NEW x PROVE Reread(Written(Str(x))) = Str(x)
  <2>1. Written(Str(x)).quoted /\ Written(Str(x)).items = <<x>>
    BY DEF Written, Str
  <2>2. ~(Len(<<x>>) >= 2) /\ <<x>>[1] = x
    OBVIOUS
  <2>3. QED
    BY <2>1, <2>2 DEF Reread
<1>9. Reread(Written(V)) = V
  <2>1. CASE Len(fdt) = 1
    BY <1>8, <2>1 DEF V
  <2>2. CASE Len(fdt) # 1
    <3>1. V = List(fdt)
      BY <2>2 DEF V
    <3>2. Len(fdt) \in Nat /\ Len(fdt) >= 2
      <4>1. Len(fdt) \in Nat
        OBVIOUS
      <4>2. QED
        BY <2>2, <4>1
    <3>3. Written(V).quoted /\ Written(V).items = fdt
      BY <3>1 DEF Written, List
    <3>4. QED
      BY <3>1, <3>2, <3>3 DEF Reread
  <2>3. QED
    BY <2>1, <2>2
<1>10. V.val = fdt
  <2>1. CASE Len(fdt) = 1
    <3>1. fdt = <<fdt[1]>>
      BY <2>1
    <3>2. QED
      BY <2>1, <3>1 DEF V, Str
  <2>2. CASE Len(fdt) # 1
    BY <2>2 DEF V, List
  <2>3. QED
    BY <2>1, <2>2
<1>11. Str(compat).val[1] = compat
  BY DEF Str
<1>12. DOMAIN read = {"fdt", "compatible"}
  BY <1>4, <1>6
<1>13. QED
  BY <1>1, <1>7, <1>8, <1>9, <1>10, <1>11, <1>12 DEF read

\* As long as no two nodes of a section have the same name, the parser files each
\* under its own.
LEMMA SectionRead ==
    ASSUME NEW nodes, DOMAIN nodes \subseteq Nat,
           Distinct([i \in DOMAIN nodes |-> nodes[i].name])
    PROVE  /\ DOMAIN Reading(nodes) = {nodes[i].name : i \in DOMAIN nodes}
           /\ \A n \in DOMAIN nodes : Reading(nodes)[nodes[n].name] = Props(nodes[n].props)
<1> DEFINE names == [i \in DOMAIN nodes |-> nodes[i].name]
<1>1. /\ DOMAIN names = DOMAIN nodes /\ \A i \in DOMAIN nodes : names[i] = nodes[i].name
      /\ Distinct(names)
  OBVIOUS
<1>2. Reading(nodes) = [k \in {names[i] : i \in DOMAIN names} |->
                           Props(nodes[LastWith(names, k)].props)]
  BY DEF Reading
<1> HIDE DEF names
<1>3. {names[i] : i \in DOMAIN names} = {nodes[i].name : i \in DOMAIN nodes}
  BY <1>1
<1>4. ASSUME NEW n \in DOMAIN nodes PROVE LastWith(names, names[n]) = n
  <2> DEFINE Last(i) == names[i] = names[n] /\ \A j \in DOMAIN names : j > i => names[j] # names[n]
  <2>1. \A i \in DOMAIN names : Last(i) => i = n
    BY <1>1 DEF Distinct
  <2>2. Last(n)
    <3> SUFFICES ASSUME NEW j \in DOMAIN names, j > n, names[j] = names[n] PROVE FALSE
      OBVIOUS
    <3>1. j = n
      BY <1>1 DEF Distinct
    <3>2. QED
      BY <3>1
  <2>3. LastWith(names, names[n]) = CHOOSE i \in DOMAIN names : Last(i)
    BY DEF LastWith
  <2> HIDE DEF Last
  <2>4. QED
    BY <1>1, <2>1, <2>2, <2>3
<1>5. QED
  BY <1>1, <1>2, <1>3, <1>4

LEMMA PromiseStays == UNCHANGED <<files, flags>> => Contract!Promise' = Contract!Promise
BY DEF Contract!Promise, Contract!Selected, Contract!Stems, Contract!Built, Contract!Declared

\* What the parser returns is what was promised.
LEMMA ParseReads ==
    ASSUME FullInv, ReplicaParse
    PROVE  ParsedAsDeclared'
<1> DEFINE nodes == Tree.configurations
           held(n) == [compat |-> parsed'.configurations[n]["compatible"].val[1],
                       fdt |-> parsed'.configurations[n]["fdt"].val]
<1>1. pc = "assemble" /\ parsed'.configurations = Reading(nodes) /\ UNCHANGED <<inputs, output>>
  BY DEF ReplicaParse
<1>2. /\ nodes = [i \in DOMAIN configs |->
                     ConfigNodeOf(configs[i].num, configs[i].fdt, configs[i].compat)]
      /\ \A i \in DOMAIN configs : configs[i].num = i
  BY DEF Tree, TreeOf, FullInv, NumberInv
<1>3. /\ \A i \in DOMAIN nodes : nodes[i].name = i
      /\ DOMAIN nodes = DOMAIN configs /\ DOMAIN nodes \subseteq Nat
      /\ Distinct([i \in DOMAIN nodes |-> nodes[i].name])
  <2>1. \A i \in DOMAIN nodes : nodes[i].name = i
    BY <1>2 DEF ConfigNodeOf, Node
  <2>2. configs \in Seq(ConfigNode)
    BY DEF FullInv, IInv, ConfigInv
  <2>3. QED
    BY <1>2, <2>1, <2>2 DEF Distinct
<1>4. ASSUME NEW n \in DOMAIN configs
      PROVE  held(n) = [compat |-> configs[n].compat, fdt |-> configs[n].fdt]
  <2>1. configs[n].compat \in Compats /\ configs[n].fdt \in Seq(Blob)
    <3>1. configs[n] \in ConfigNode
      BY DEF FullInv, IInv, ConfigInv
    <3>2. QED
      BY <3>1 DEF ConfigNode
  <2>2. Len(configs[n].fdt) # 0
    <3>1. Usable(flags[configs[n].compat])
          /\ configs[n].fdt = Contract!Declared(flags[configs[n].compat])
      BY DEF FullInv, IInv, ConfigsDeclared
    <3>2. Len(flags[configs[n].compat]) \in Nat \ {0}
          /\ flags[configs[n].compat] \in Seq(Names)
      BY <2>1, <3>1, UsableEncoded DEF FullInv, IInv
    <3>3. 1 \in DOMAIN configs[n].fdt
      BY <3>1, <3>2 DEF Contract!Declared
    <3>4. QED
      BY <2>1, <3>3
  <2>3. parsed'.configurations[n] = Props(nodes[n].props)
    BY <1>1, <1>2, <1>3, SectionRead
  <2>4. nodes[n].props = ConfigNodeOf(n, configs[n].fdt, configs[n].compat).props
    BY <1>2
  <2>5. QED
    BY <2>1, <2>2, <2>3, <2>4, ConfigRead
<1>5. DOMAIN parsed'.configurations = DOMAIN configs
  <2>1. DOMAIN Reading(nodes) = {nodes[i].name : i \in DOMAIN nodes}
    BY <1>3, SectionRead
  <2>2. {nodes[i].name : i \in DOMAIN nodes} = DOMAIN configs
    <3> HIDE DEF nodes
    <3> QED BY <1>3
  <2>3. QED
    BY <1>1, <2>1, <2>2
<1> HIDE DEF held
<1>6. {held(n) : n \in DOMAIN parsed'.configurations} = Deployed
  BY <1>4, <1>5 DEF Deployed
<1>7. Deployed = Contract!Promise /\ Contract!Promise' = Contract!Promise
  <2>1. UNCHANGED <<files, flags>>
    BY <1>1 DEF inputs
  <2>2. QED
    BY <1>1, <2>1, PromiseStays, DeployedIsPromised
<1>8. QED
  BY <1>6, <1>7 DEF ParsedAsDeclared, Held, held

LEMMA NextCopy == CopyInv /\ [ReplicaNext]_replicaVars => CopyInv'
<1> SUFFICES ASSUME CopyInv, [ReplicaNext]_replicaVars PROVE CopyInv'
  OBVIOUS
<1>1. CASE UNCHANGED replicaVars
  <2>1. UNCHANGED <<vars, inputs, listing, dict, parsed, pc>>
    BY <1>1 DEF replicaVars, call, vars
  <2>2. CallInv'
    BY <2>1 DEF CopyInv, CallInv, inputs
  <2>3. pc' # "parsed" => FullInv'
    BY <2>1, NextFullInv DEF CopyInv
  <2>4. ParsedAsDeclared'
    <3>1. Contract!Promise' = Contract!Promise
      BY <2>1, PromiseStays DEF inputs
    <3>2. QED
      BY <2>1, <3>1 DEF CopyInv, ParsedAsDeclared, Held
  <2>5. QED
    BY <2>2, <2>3, <2>4 DEF CopyInv
<1>2. CASE ReplicaNext /\ ~ReplicaParse
  <2>1. FullInv
    BY <1>2 DEF CopyInv, ReplicaNext, ReplicaMetadata, ReplicaEntry, ReplicaParsed, ReplicaEmit,
                ReplicaEmitted, ReplicaConfigure, SkipNode, EmitConfig, NextGroup, ConfigureDone,
                InLoop
  <2>2. Next /\ pc' # "parsed" /\ UNCHANGED <<inputs, call, parsed>>
    BY <1>2, <2>1, CopyStep DEF CopyInv
  <2>3. FullInv'
    BY <2>1, <2>2, NextFullInv
  <2>4. CallInv'
    BY <2>2 DEF CopyInv, CallInv, inputs, call
  <2>5. QED
    BY <2>2, <2>3, <2>4 DEF CopyInv, ParsedAsDeclared
<1>3. CASE ReplicaParse
  <2>1. FullInv /\ pc' = "parsed" /\ UNCHANGED <<inputs, call>>
    BY <1>3 DEF CopyInv, ReplicaParse
  <2>2. ParsedAsDeclared'
    BY <1>3, <2>1, ParseReads
  <2>3. CallInv'
    BY <2>1 DEF CopyInv, CallInv, inputs, call
  <2>4. QED
    BY <2>1, <2>2, <2>3 DEF CopyInv
<1>4. QED
  BY <1>1, <1>2, <1>3

\* A step of the task that is not its last is one of the copy's task, too: what
\* the copy does besides is to rename the end of it.
LEMMA SameStep ==
    ASSUME Next, ~Assemble, pc # "parsed", pc' # "parsed"
    PROVE  Bbclass!Next
<1>1. CASE EmitMetadata
  <2>1. Bbclass!EmitMetadata
    BY <1>1 DEF EmitMetadata, Bbclass!EmitMetadata, Bbclass!ImageNode, ImageNode, Bbclass!Metadata,
       Metadata, inputs, tables, output, Bbclass!inputs, Bbclass!tables, Bbclass!output
  <2>2. QED
    BY <2>1 DEF Bbclass!Next
<1>2. ASSUME NEW c \in Compats, ParseFlag(c) PROVE Bbclass!Next
  <2>1. Bbclass!ParseFlag(c)
    BY <1>2 DEF ParseFlag, Usable, Keys, BareBase, StackOverlays, ComboKey, Overlays, Extend, Get,
       inputs, tables, output, Bbclass!inputs, Bbclass!tables, Bbclass!output,
       Bbclass!ParseFlag, Bbclass!Usable, Bbclass!Keys, Bbclass!BareBase,
       Bbclass!StackOverlays, Bbclass!ComboKey, Bbclass!Overlays, Bbclass!Extend, Bbclass!Get
  <2>2. QED
    BY <2>1 DEF Bbclass!Next
<1>3. CASE ParseDone
  BY <1>3 DEF ParseDone, Bbclass!Next, Bbclass!ParseDone, inputs, tables, output,
     Bbclass!inputs, Bbclass!tables, Bbclass!output
<1>4. ASSUME NEW f \in files, EmitDtb(f) PROVE Bbclass!Next
  <2>1. Bbclass!EmitDtb(f)
    BY <1>4 DEF EmitDtb, Bbclass!EmitDtb, ImageNode, Bbclass!ImageNode, BlobId, Bbclass!BlobId,
       Get, Bbclass!Get, inputs, tables, output, Bbclass!inputs, Bbclass!tables, Bbclass!output
  <2>2. QED
    BY <2>1 DEF Bbclass!Next
<1>5. CASE EmitDone
  BY <1>5 DEF EmitDone, Bbclass!Next, Bbclass!EmitDone, inputs, tables, output,
     Bbclass!inputs, Bbclass!tables, Bbclass!output
<1>6. /\ Bbclass!InLoop = InLoop /\ Bbclass!ThisNode = ThisNode
      /\ Bbclass!HasConfigs(ThisNode) = HasConfigs(ThisNode)
      /\ Bbclass!Groups = Groups /\ Bbclass!FdtList = FdtList
      /\ Bbclass!GroupCompats = GroupCompats
  BY DEF InLoop, Bbclass!InLoop, ThisNode, Bbclass!ThisNode, HasConfigs, Bbclass!HasConfigs,
     Groups, Bbclass!Groups, FdtList, Bbclass!FdtList, GroupCompats, Bbclass!GroupCompats,
     LookupKey, Bbclass!LookupKey, Get, Bbclass!Get
<1>7. CASE SkipNode
  BY <1>6, <1>7 DEF SkipNode, Bbclass!Next, Bbclass!SkipNode, inputs, tables,
     Bbclass!inputs, Bbclass!tables
<1>8. CASE EmitConfig
  BY <1>6, <1>8 DEF EmitConfig, Bbclass!Next, Bbclass!EmitConfig, inputs, tables,
     Bbclass!inputs, Bbclass!tables
<1>9. CASE NextGroup
  BY <1>6, <1>9 DEF NextGroup, Bbclass!Next, Bbclass!NextGroup, inputs, tables,
     Bbclass!inputs, Bbclass!tables
<1>10. CASE ConfigureDone
  BY <1>10 DEF ConfigureDone, Bbclass!Next, Bbclass!ConfigureDone, inputs, tables, output,
     Bbclass!inputs, Bbclass!tables, Bbclass!output
<1>11. QED
  BY <1>1, <1>2, <1>3, <1>4, <1>5, <1>7, <1>8, <1>9, <1>10 DEF Next

LEMMA CopyRefines ==
    ASSUME CopyInv, [ReplicaNext]_replicaVars
    PROVE  [Bbclass!Next]_(Bbclass!vars)
<1> USE DEF Bbclass!vars, Bbclass!inputs, Bbclass!tables, Bbclass!output
<1>1. CASE UNCHANGED replicaVars
  BY <1>1 DEF replicaVars, vars, inputs, tables, output
<1>2. CASE ReplicaNext /\ ~ReplicaParse
  <2>1. pc # "parsed" /\ ~Assemble
    BY <1>2 DEF ReplicaNext, ReplicaMetadata, ReplicaEntry, ReplicaParsed, ReplicaEmit,
       ReplicaEmitted, ReplicaConfigure, SkipNode, EmitConfig, NextGroup, ConfigureDone,
       InLoop, Assemble
  <2>2. Next /\ pc' # "parsed"
    BY <1>2, <2>1, CopyStep DEF CopyInv
  <2>3. QED
    BY <2>1, <2>2, SameStep
<1>3. CASE ReplicaParse
  BY <1>3 DEF ReplicaParse, inputs, tables, output
<1>4. QED
  BY <1>1, <1>2, <1>3

\* A call starts as the task does.
LEMMA CallStarts ==
    ASSUME NEW CONSTANT args, IsCall(args), ReplicaInit(args)
    PROVE  CopyInv /\ Bbclass!Init
<1>1. Init /\ CallInv /\ pc = "metadata"
  BY CopyInit DEF Init, Start
<1>2. CopyInv
  BY <1>1, InitFullInv DEF CopyInv, ParsedAsDeclared
<1>3. Bbclass!Init
  BY <1>1 DEF Init, Start, Bbclass!Init, Bbclass!Start, Empty, Bbclass!Empty, Metadata,
     Bbclass!Metadata
<1>4. QED
  BY <1>2, <1>3

\* The copy of the loops that the unit tests call does nothing the task could not
\* do: for any call of it, each of its steps up to the parser is one of the task.
\* And what the assertions get to see is what FIT_DTB_COMPATIBLE declares, no
\* configuration more and none fewer, each with its blobs in their order, whatever
\* the writer and the parser did to them.
THEOREM CopyIsFaithful ==
    ASSUME NEW CONSTANT args, IsCall(args)
    PROVE  ReplicaInit(args) /\ [][ReplicaNext]_replicaVars => CopyFaithful
<1>1. ReplicaInit(args) => CopyInv /\ Bbclass!Init
  BY CallStarts
<1>2. CopyInv => ParsedAsDeclared
  BY DEF CopyInv
<1>3. QED
  BY <1>1, <1>2, NextCopy, CopyRefines, PTL DEF CopyFaithful, ReplicaIsTheTask
=============================================================================
