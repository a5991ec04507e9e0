------------------------------ MODULE Capsule -------------------------------
(***************************************************************************)
(* Builds of a capsule recipe with classes-recipe/qcom-capsule.bbclass in  *)
(* one work directory: BitBake runs generate_fvupdate, do_compile and      *)
(* do_deploy again whenever the configuration has changed or the last run  *)
(* did not get through.  do_compile starts in an empty CAPSULE_DIR; what   *)
(* generate_fvupdate wrote to B stays.                                     *)
(***************************************************************************)
EXTENDS Naturals

CONSTANTS
    Certs,       \* values of CAPSULE_ROOT_CER
    Layouts,     \* values of CAPSULE_ENTRIES, but for the empty one
    MaxChanges,  \* bound: changes of the configuration
    MaxFailures  \* bound: runs that fail or are interrupted

Unset == "unset"
ASSUME NamesAssumption ==
    {Unset, "original", "static", "default", "torn"} \cap (Certs \cup Layouts) = {}
ASSUME LimitsAssumption == MaxChanges \in Nat /\ MaxFailures \in Nat

VARIABLES
    conf,      \* the configuration BitBake runs with
    task,      \* next step of the tasks, "idle" between two runs of BitBake
    xmlInB,    \* FvUpdate.xml in B
    xml,       \* FVUPDATE_XML of the running do_compile
    dir,       \* contents of CAPSULE_DIR
    stamp,     \* the last task with a valid stamp: "none", "compile" or "deploy"
    deployed,  \* what do_deploy installed last
    changes, failures

capsuleVars == <<conf, task, xmlInB, xml, dir, stamp, deployed, changes, failures>>

\* hasXbl: the boot binaries contain xbl_config.elf; byHand: XBLCONFIG_DTB is set.
Confs == [cert : Certs, entries : Layouts \cup {Unset}, static : BOOLEAN,
          hasXbl : BOOLEAN, byHand : BOOLEAN]

\* named: a post-ddr DTB is in the log; dtb: it was dumped; updated: the
\* certificate in the updated DTB; xbl: the certificate in xbl_config.elf.
NoCap == [xml |-> Unset, cert |-> Unset, xbl |-> Unset]
EmptyDir == [inc |-> Unset, named |-> FALSE, dtb |-> FALSE, updated |-> Unset,
             xbl |-> Unset, marker |-> FALSE, cap |-> NoCap]

CapsuleInit ==
    /\ conf \in Confs /\ task = "idle"
    /\ xmlInB = Unset /\ xml = Unset /\ dir = EmptyDir
    /\ stamp = "none" /\ deployed = [cap |-> NoCap, xbl |-> Unset]
    /\ changes = 0 /\ failures = 0

-----------------------------------------------------------------------------

Reconfigure ==
    /\ task = "idle" /\ changes < MaxChanges
    /\ conf' \in Confs \ {conf}
    /\ stamp' = "none" /\ changes' = changes + 1
    /\ UNCHANGED <<task, xmlInB, xml, dir, deployed, failures>>

\* The tool of the step exits with an error, or the build is interrupted there.
Fail ==
    /\ task # "idle" /\ failures < MaxFailures
    /\ task' = "idle" /\ failures' = failures + 1
    /\ xmlInB' \in {xmlInB} \cup (IF task = "generate" /\ conf.entries # Unset
                                  THEN {"torn"} ELSE {})
    /\ UNCHANGED <<conf, xml, dir, stamp, deployed, changes>>

Go(from, to) == task = from /\ task' = to

\* BitBake starts: what has a stamp is not run again.
Build ==
    /\ stamp # "deploy" /\ Go("idle", IF stamp = "compile" THEN "deploy" ELSE "generate")
    /\ UNCHANGED <<conf, xmlInB, xml, dir, stamp, deployed, changes, failures>>

\* generate_fvupdate, which leaves B alone when there are no entries.
GenerateFvUpdate ==
    /\ Go("generate", "stage")
    /\ xmlInB' = IF conf.entries = Unset THEN xmlInB ELSE conf.entries
    /\ UNCHANGED <<conf, xml, dir, stamp, deployed, changes, failures>>

FvUpdateXml ==
    IF xmlInB # Unset THEN xmlInB ELSE IF conf.static THEN "static" ELSE "default"

Xbl == IF conf.hasXbl THEN "original" ELSE Unset

\* Mutant: CAPSULE_DIR is not among the cleandirs.
M_Stage ==
    /\ Go("stage", IF conf.hasXbl THEN "dump" ELSE "create")
    /\ xml' = FvUpdateXml
    /\ dir' = [dir EXCEPT !.inc = conf.cert, !.xbl = Xbl]
    /\ UNCHANGED <<conf, xmlInB, stamp, deployed, changes, failures>>

\* do_compile up to patch_xblconfig_cert, in a directory BitBake has emptied.
Stage ==
    /\ Go("stage", IF conf.hasXbl THEN "dump" ELSE "create")
    /\ xml' = FvUpdateXml
    /\ dir' = [EmptyDir EXCEPT !.inc = conf.cert, !.xbl = Xbl]
    /\ UNCHANGED <<conf, xmlInB, stamp, deployed, changes, failures>>

\* parse-config dump.  Its status is lost in the pipe to tee: when it fails the
\* log and the dumped files are what they are.
Dump ==
    /\ \E named, dtb \in BOOLEAN :
           /\ Go("dump", IF named \/ conf.byHand THEN "set" ELSE "create")
           /\ dir' = [dir EXCEPT !.named = named, !.dtb = dtb]
    /\ UNCHANGED <<conf, xmlInB, xml, stamp, deployed, changes, failures>>

\* set-dtb-property and parse-config replace.
SetDtbProperty ==
    /\ Go("set", "move") /\ dir.dtb
    /\ dir' = [dir EXCEPT !.updated = dir.inc]
    /\ UNCHANGED <<conf, xmlInB, xml, stamp, deployed, changes, failures>>

\* Without the dumped file set-dtb-property ends the task.
NoDtb ==
    /\ Go("set", "idle") /\ ~dir.dtb
    /\ UNCHANGED <<conf, xmlInB, xml, dir, stamp, deployed, changes, failures>>

\* mv xbl_config_patched.elf xbl_config.elf
Move ==
    /\ Go("move", "mark")
    /\ dir' = [dir EXCEPT !.xbl = dir.updated]
    /\ UNCHANGED <<conf, xmlInB, xml, stamp, deployed, changes, failures>>

\* touch .xbl_with_oem_cert
Mark ==
    /\ Go("mark", "create")
    /\ dir' = [dir EXCEPT !.marker = TRUE]
    /\ UNCHANGED <<conf, xmlInB, xml, stamp, deployed, changes, failures>>

\* fv-create, update-json and GenerateCapsule.py.
Create ==
    /\ Go("create", "deploy")
    /\ dir' = [dir EXCEPT !.cap = [xml |-> xml, cert |-> conf.cert, xbl |-> dir.xbl]]
    /\ stamp' = "compile"
    /\ UNCHANGED <<conf, xmlInB, xml, deployed, changes, failures>>

\* do_deploy: the patched file is deployed when the marker is there.
Deploy ==
    /\ Go("deploy", "idle")
    /\ deployed' = [cap |-> dir.cap, xbl |-> IF dir.marker THEN dir.xbl ELSE Unset]
    /\ stamp' = "deploy"
    /\ UNCHANGED <<conf, xmlInB, xml, dir, changes, failures>>

CapsuleNext ==
    \/ Reconfigure \/ Fail \/ Build \/ GenerateFvUpdate \/ Stage \/ Dump
    \/ SetDtbProperty \/ NoDtb \/ Move \/ Mark \/ Create \/ Deploy

CapsuleSpec == CapsuleInit /\ [][CapsuleNext]_capsuleVars

-----------------------------------------------------------------------------
(* Properties.                                                             *)

XmlFiles == Layouts \cup {Unset, "static", "default", "torn"}
XblFiles == Certs \cup {Unset, "original"}
Caps == [xml : XmlFiles, cert : Certs \cup {Unset}, xbl : XblFiles]
Dirs == [inc : Certs \cup {Unset}, named : BOOLEAN, dtb : BOOLEAN,
         updated : Certs \cup {Unset}, xbl : XblFiles, marker : BOOLEAN, cap : Caps]

\* The types of the state; a capsule is always made from some layout.
CapsuleTypeOK ==
    /\ conf \in Confs
    /\ task \in {"idle", "generate", "stage", "dump", "set", "move", "mark", "create", "deploy"}
    /\ xmlInB \in XmlFiles /\ xml \in XmlFiles
    /\ dir \in Dirs
    /\ stamp \in {"none", "compile", "deploy"} /\ deployed \in [cap : Caps, xbl : XblFiles]
    /\ task \in {"dump", "set", "move", "mark", "create", "deploy"} => xml # Unset
    /\ changes \in 0 .. MaxChanges /\ failures \in 0 .. MaxFailures

\* Wherever a build fails or is cut off and whatever was built before it, the
\* marker .xbl_with_oem_cert stands beside an xbl_config.elf that holds the
\* certificate this do_compile works with.
MarkerMeansCert == dir.marker => dir.xbl \in Certs /\ dir.xbl = dir.inc

\* A deployed xbl_config-with-oem-cert.elf is the file inside the deployed
\* capsule and holds the certificate that capsule was made for.
DeployedTogether ==
    deployed.xbl # Unset =>
        deployed.xbl = deployed.cap.cert /\ deployed.cap.xbl = deployed.xbl

\* With CAPSULE_ENTRIES set a build that gets through has the layout of those
\* entries, though B holds one of another configuration or half of one.
LayoutAsConfigured ==
    stamp = "deploy" /\ conf.entries # Unset => deployed.cap.xml = conf.entries

\* Over failures, interruptions and changes of the configuration in one work
\* directory: marker, certificate, capsule and what do_deploy installs belong
\* together, and to the configuration they were built for.
CapsuleConsistent == MarkerMeansCert /\ DeployedTogether /\ LayoutAsConfigured
=============================================================================
