------------------------------ MODULE ItsText ------------------------------
(***************************************************************************)
(* QcomFitImageTests._parse_its_file (lib/oeqa/selftest/cases/qcom_fitimage*)
(* .py): the selftest reads an ITS file line by line and keeps a stack of  *)
(* open nodes and the properties of the innermost one.  All tests of the   *)
(* FIT generator judge the result, never the file.                         *)
(*                                                                         *)
(* The file is what write_its_file of OE-Core makes of a tree: one line per*)
(* opening brace, property and closing brace, depth first, properties      *)
(* before children.  "at" is the position of the next line.                *)
(***************************************************************************)
EXTENDS ItsTree

CONSTANT Trees   \* the trees that are written: a sequence of nodes per section

IsSequence(s) == s \in Seq({s[i] : i \in DOMAIN s})

ASSUME TreesAssumption ==
    \A t \in Trees : \A nodes \in {t.images, t.configurations} :
        IsSequence(nodes) /\ \A i \in DOMAIN nodes : IsSequence(nodes[i].props)

VARIABLES
    tree,           \* what was written
    at,             \* position of the next line
    path,           \* names of the open nodes
    props,          \* properties seen in the innermost one
    images,         \* node name -> properties
    configurations  \* node name -> properties

file == <<tree, at>>
result == <<images, configurations>>
textVars == <<file, path, props, result>>

Sections == <<"images", "configurations">>

-----------------------------------------------------------------------------
(* The lines of the file.                                                  *)

Header == <<[kind |-> "skip"], [kind |-> "open", name |-> "/"],
            [kind |-> "prop", key |-> "description", text |-> Written(Str("/"))]>>
Open(name) == [kind |-> "open", name |-> name]
Close == [kind |-> "close"]

Nodes(sec) == tree[Sections[sec]]
AtNode == Nodes(at.sec)[at.node]

\* Sections 1 and 2 hold nodes 1 .. n; node 0 and n + 1 are the section's braces.
Line ==
    CASE at.sec = 0 -> Header[at.line]
      [] at.sec = 3 -> Close
      [] at.sec \in 1 .. 2 /\ at.node = 0 -> Open(Sections[at.sec])
      [] at.sec \in 1 .. 2 /\ at.node > Len(Nodes(at.sec)) -> Close
      [] at.sec \in 1 .. 2 /\ at.node \in 1 .. Len(Nodes(at.sec)) ->
            IF at.line = 0 THEN Open(AtNode.name)
            ELSE IF at.line > Len(AtNode.props) THEN Close
            ELSE [kind |-> "prop", key |-> AtNode.props[at.line].key,
                  text |-> Written(AtNode.props[at.line].val)]

AtEnd == at.sec = 4

LastLineHere ==
    CASE at.sec = 0 -> at.line = Len(Header)
      [] at.sec = 3 -> TRUE
      [] OTHER -> at.node \in 1 .. Len(Nodes(at.sec)) => at.line > Len(AtNode.props)

NextLine ==
    at' = IF ~LastLineHere THEN [at EXCEPT !.line = @ + 1]
          ELSE IF at.sec \in 1 .. 2 /\ at.node <= Len(Nodes(at.sec))
          THEN [sec |-> at.sec, node |-> at.node + 1, line |-> 0]
          ELSE [sec |-> at.sec + 1, node |-> 0, line |-> 0]

TextInit ==
    /\ tree \in Trees
    /\ at = [sec |-> 0, node |-> 0, line |-> 1]
    /\ path = <<>> /\ props = NoEntry
    /\ images = NoEntry /\ configurations = NoEntry

-----------------------------------------------------------------------------
(* One iteration of the loop over the lines.                               *)

\* An empty line or the version tag.
SkipLine ==
    /\ ~AtEnd /\ Line.kind = "skip"
    /\ NextLine
    /\ UNCHANGED <<tree, path, props, result>>

\* Mutant: the properties of the node before are kept.
M_OpenNode ==
    /\ ~AtEnd /\ Line.kind = "open"
    /\ path' = Append(path, Line.name)
    /\ NextLine
    /\ UNCHANGED <<tree, props, result>>

OpenNode ==
    /\ ~AtEnd /\ Line.kind = "open"
    /\ path' = Append(path, Line.name)
    /\ props' = IF Len(path') >= 3 THEN NoEntry ELSE props
    /\ NextLine
    /\ UNCHANGED <<tree, result>>

\* A node at depth 3 is filed under the section it closes in.
CloseNode ==
    /\ ~AtEnd /\ Line.kind = "close"
    /\ images' = IF Len(path) = 3 /\ path[2] = "images"
                 THEN Put(images, path[3], props) ELSE images
    /\ configurations' = IF Len(path) = 3 /\ path[2] = "configurations"
                         THEN Put(configurations, path[3], props) ELSE configurations
    /\ path' = IF path = <<>> THEN path ELSE SubSeq(path, 1, Len(path) - 1)
    /\ NextLine
    /\ UNCHANGED <<tree, props>>

ReadProp ==
    /\ ~AtEnd /\ Line.kind = "prop"
    /\ props' = IF Len(path) >= 3 THEN Put(props, Line.key, Reread(Line.text)) ELSE props
    /\ NextLine
    /\ UNCHANGED <<tree, path, result>>

TextNext == SkipLine \/ OpenNode \/ CloseNode \/ ReadProp

TextSpec == TextInit /\ [][TextNext]_textVars

-----------------------------------------------------------------------------
(* Properties.                                                             *)

\* The stack is as deep as the file nests: three levels, as nothing that
\* QcomItsNodeRoot writes has sub-nodes of its own.
TextTypeOK ==
    /\ tree \in Trees
    /\ at.sec \in 0 .. 4 /\ at.node \in Nat /\ at.line \in Nat
    /\ Len(path) <= 3
    /\ \A k \in DOMAIN props : props[k].type \in {"str", "list", "raw"}
    /\ AtEnd => path = <<>>

\* "Only properties of depth-3 nodes ... are captured", and they are captured in
\* full: a node is filed with its own properties, whatever nodes came before it
\* and in whichever section, so a test never judges a property of another node.
ParsedIsTree ==
    AtEnd => /\ images = Reading(tree.images)
             /\ configurations = Reading(tree.configurations)
=============================================================================
