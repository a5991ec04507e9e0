---------------------------- MODULE BuildProofs -----------------------------
(***************************************************************************)
(* What happens around a build, as in MCBuild: the capsule tasks, for any  *)
(* certificates and layouts and any number of changes and failures, and the*)
(* cleaner of the shared-state directories, for any calendar.              *)
(***************************************************************************)
EXTENDS MCBuild, FitImageProofs

-----------------------------------------------------------------------------
(* Capsule.  The inductive invariant says, for each step of the tasks, what*)
(* the steps before it have left in CAPSULE_DIR and B.                     *)

\* The steps between the staging of CAPSULE_DIR and the capsule.
Compiling == {"dump", "set", "move", "mark", "create"}

\* Which stamp there is at which step.
StampInv ==
    /\ task \in {"generate", "stage"} \cup Compiling => stamp = "none"
    /\ task = "deploy" => stamp = "compile"
    /\ stamp = "compile" => xml # Unset

\* The certificate on its way into xbl_config.elf; the marker comes last.
CertInv ==
    /\ task \in Compiling => dir.inc = conf.cert
    /\ task \in {"dump", "set", "move", "mark"} => ~dir.marker
    /\ task = "move" => dir.updated = dir.inc
    /\ task = "mark" => dir.xbl = dir.inc

\* The layout on its way into the capsule.
LayoutInv ==
    conf.entries # Unset =>
        /\ task = "stage" => xmlInB = conf.entries
        /\ task \in Compiling => xml = conf.entries
        /\ stamp = "compile" => dir.cap.xml = conf.entries

\* A finished do_compile has left the capsule beside the file in it.
CapInv ==
    stamp = "compile" => dir.cap.cert = dir.inc /\ dir.cap.xbl = dir.xbl

CapsuleInv ==
    /\ CapsuleTypeOK /\ StampInv /\ CertInv /\ LayoutInv /\ CapInv
    /\ CapsuleConsistent

LEMMA InitCapsule == CapsuleInit => CapsuleInv
<1> SUFFICES ASSUME CapsuleInit PROVE CapsuleInv
  OBVIOUS
<1> USE DEF CapsuleInit
<1>1. conf \in Confs /\ CapsuleTypeOK
  BY LimitsAssumption DEF CapsuleTypeOK, EmptyDir, NoCap, XmlFiles, XblFiles, Caps, Dirs, Unset
<1>2. StampInv /\ CertInv /\ LayoutInv /\ CapInv
  BY DEF StampInv, CertInv, LayoutInv, CapInv, Compiling, Unset
<1>3. CapsuleConsistent
  BY DEF CapsuleConsistent, MarkerMeansCert, DeployedTogether, LayoutAsConfigured,
         EmptyDir, NoCap, Unset
<1>4. QED
  BY <1>1, <1>2, <1>3 DEF CapsuleInv

\* The stamps of the old configuration are not valid for the new one.
LEMMA ReconfigureCapsule == CapsuleInv /\ Reconfigure => CapsuleInv'
<1> SUFFICES ASSUME CapsuleInv, Reconfigure PROVE CapsuleInv'
  OBVIOUS
<1> USE DEF CapsuleInv, Reconfigure, Go
<1>1. CapsuleTypeOK'
  BY LimitsAssumption DEF CapsuleTypeOK, XmlFiles, XblFiles, Caps, Dirs, Unset
<1>2. (StampInv /\ CertInv /\ LayoutInv /\ CapInv)'
  BY DEF StampInv, CertInv, LayoutInv, CapInv, Compiling, CapsuleTypeOK
<1>3. CapsuleConsistent'
  BY DEF CapsuleConsistent, MarkerMeansCert, DeployedTogether, LayoutAsConfigured,
         StampInv, CertInv, LayoutInv, CapInv, Compiling, CapsuleTypeOK
<1>4. QED
  BY <1>1, <1>2, <1>3

\* What a failed step has left is looked at by no later one.
LEMMA FailCapsule == CapsuleInv /\ Fail => CapsuleInv'
<1> SUFFICES ASSUME CapsuleInv, Fail PROVE CapsuleInv'
  OBVIOUS
<1> USE DEF CapsuleInv, Fail, Go
<1>1. CapsuleTypeOK'
  BY LimitsAssumption DEF CapsuleTypeOK, XmlFiles, XblFiles, Caps, Dirs, Unset
<1>2. (StampInv /\ CertInv /\ LayoutInv /\ CapInv)'
  BY DEF StampInv, CertInv, LayoutInv, CapInv, Compiling, CapsuleTypeOK
<1>3. CapsuleConsistent'
  BY DEF CapsuleConsistent, MarkerMeansCert, DeployedTogether, LayoutAsConfigured,
         StampInv, CertInv, LayoutInv, CapInv, Compiling, CapsuleTypeOK
<1>4. QED
  BY <1>1, <1>2, <1>3

\* What has a stamp is skipped, and finds what it had left.
LEMMA BuildCapsule == CapsuleInv /\ Build => CapsuleInv'
<1> SUFFICES ASSUME CapsuleInv, Build PROVE CapsuleInv'
  OBVIOUS
<1> USE DEF CapsuleInv, Build, Go
<1>1. CapsuleTypeOK'
  BY DEF CapsuleTypeOK, StampInv
<1>2. (StampInv /\ CertInv /\ LayoutInv /\ CapInv)'
  BY DEF StampInv, CertInv, LayoutInv, CapInv, Compiling, CapsuleTypeOK
<1>3. CapsuleConsistent'
  BY DEF CapsuleConsistent, MarkerMeansCert, DeployedTogether, LayoutAsConfigured,
         StampInv, CertInv, LayoutInv, CapInv, Compiling, CapsuleTypeOK
<1>4. QED
  BY <1>1, <1>2, <1>3

\* The layout is in B when there are entries; what was there is overwritten.
LEMMA GenerateFvUpdateCapsule == CapsuleInv /\ GenerateFvUpdate => CapsuleInv'
<1> SUFFICES ASSUME CapsuleInv, GenerateFvUpdate PROVE CapsuleInv'
  OBVIOUS
<1> USE DEF CapsuleInv, GenerateFvUpdate, Go
<1>1. CapsuleTypeOK'
  BY DEF CapsuleTypeOK, Confs, XmlFiles
<1>2. (StampInv /\ CertInv /\ LayoutInv /\ CapInv)'
  BY DEF StampInv, CertInv, LayoutInv, CapInv, Compiling, CapsuleTypeOK
<1>3. CapsuleConsistent'
  BY DEF CapsuleConsistent, MarkerMeansCert, DeployedTogether, LayoutAsConfigured,
         StampInv, CertInv, LayoutInv, CapInv, Compiling, CapsuleTypeOK
<1>4. QED
  BY <1>1, <1>2, <1>3

\* CAPSULE_DIR after the staging of the binaries.
LEMMA StagedDir ==
    ASSUME NEW c \in Certs, NEW x \in XblFiles, NEW k \in Caps
    PROVE  [inc |-> c, named |-> FALSE, dtb |-> FALSE, updated |-> Unset,
            xbl |-> x, marker |-> FALSE, cap |-> k] \in Dirs
BY DEF Dirs

\* CAPSULE_DIR begins empty.
LEMMA StageCapsule == CapsuleInv /\ Stage => CapsuleInv'
<1> SUFFICES ASSUME CapsuleInv, Stage PROVE CapsuleInv'
  OBVIOUS
<1> USE DEF CapsuleInv, Stage, Go
<1>1. CapsuleTypeOK'
  <2>1. dir' \in Dirs
    <3>1. conf.cert \in Certs
      BY DEF CapsuleTypeOK, Confs
    <3>2. Xbl \in XblFiles
      BY DEF Xbl, XblFiles
    <3>3. NoCap \in Caps
      BY DEF NoCap, Caps, XmlFiles, XblFiles
    <3>4. dir' = [inc |-> conf.cert, named |-> FALSE, dtb |-> FALSE, updated |-> Unset,
                  xbl |-> Xbl, marker |-> FALSE, cap |-> NoCap]
      BY DEF EmptyDir
    <3>5. QED
      BY <3>1, <3>2, <3>3, <3>4, StagedDir
  <2>2. xml' \in XmlFiles /\ xml' # Unset
    BY DEF CapsuleTypeOK, FvUpdateXml, XmlFiles, Unset
  <2>3. QED
    BY <2>1, <2>2 DEF CapsuleTypeOK
<1>2. (StampInv /\ CertInv /\ LayoutInv /\ CapInv)'
  BY DEF StampInv, CertInv, LayoutInv, CapInv, Compiling, CapsuleTypeOK, EmptyDir,
         NoCap, FvUpdateXml, Xbl, Unset
<1>3. CapsuleConsistent'
  BY DEF CapsuleConsistent, MarkerMeansCert, DeployedTogether, LayoutAsConfigured,
         StampInv, CertInv, LayoutInv, CapInv, Compiling, CapsuleTypeOK, EmptyDir
<1>4. QED
  BY <1>1, <1>2, <1>3

\* Whatever the tool dumps, the marker is not there yet.
LEMMA DumpCapsule == CapsuleInv /\ Dump => CapsuleInv'
<1> SUFFICES ASSUME CapsuleInv, Dump PROVE CapsuleInv'
  OBVIOUS
<1> USE DEF CapsuleInv, Dump, Go
<1>1. CapsuleTypeOK'
  <2>1. dir' \in Dirs
    BY Zenon DEF CapsuleTypeOK, Dirs
  <2>2. QED
    BY <2>1 DEF CapsuleTypeOK
<1>2. (StampInv /\ CertInv /\ LayoutInv /\ CapInv)'
  BY DEF StampInv, CertInv, LayoutInv, CapInv, Compiling, CapsuleTypeOK
<1>3. CapsuleConsistent'
  BY DEF CapsuleConsistent, MarkerMeansCert, DeployedTogether, LayoutAsConfigured,
         StampInv, CertInv, LayoutInv, CapInv, Compiling, CapsuleTypeOK
<1>4. QED
  BY <1>1, <1>2, <1>3

\* The certificate is in the updated DTB.
LEMMA SetDtbPropertyCapsule == CapsuleInv /\ SetDtbProperty => CapsuleInv'
<1> SUFFICES ASSUME CapsuleInv, SetDtbProperty PROVE CapsuleInv'
  OBVIOUS
<1> USE DEF CapsuleInv, SetDtbProperty, Go
<1>1. CapsuleTypeOK'
  BY DEF CapsuleTypeOK, XmlFiles, XblFiles, Caps, Dirs, Unset
<1>2. (StampInv /\ CertInv /\ LayoutInv /\ CapInv)'
  BY DEF StampInv, CertInv, LayoutInv, CapInv, Compiling, CapsuleTypeOK
<1>3. CapsuleConsistent'
  BY DEF CapsuleConsistent, MarkerMeansCert, DeployedTogether, LayoutAsConfigured,
         StampInv, CertInv, LayoutInv, CapInv, Compiling, CapsuleTypeOK
<1>4. QED
  BY <1>1, <1>2, <1>3

\* The task ends before anything has moved.
LEMMA NoDtbCapsule == CapsuleInv /\ NoDtb => CapsuleInv'
<1> SUFFICES ASSUME CapsuleInv, NoDtb PROVE CapsuleInv'
  OBVIOUS
<1> USE DEF CapsuleInv, NoDtb, Go
<1>1. CapsuleTypeOK'
  BY DEF CapsuleTypeOK, XmlFiles, XblFiles, Caps, Dirs, Unset
<1>2. (StampInv /\ CertInv /\ LayoutInv /\ CapInv)'
  BY DEF StampInv, CertInv, LayoutInv, CapInv, Compiling, CapsuleTypeOK
<1>3. CapsuleConsistent'
  BY DEF CapsuleConsistent, MarkerMeansCert, DeployedTogether, LayoutAsConfigured,
         StampInv, CertInv, LayoutInv, CapInv, Compiling, CapsuleTypeOK
<1>4. QED
  BY <1>1, <1>2, <1>3

\* The certificate is in xbl_config.elf.
LEMMA MoveCapsule == CapsuleInv /\ Move => CapsuleInv'
<1> SUFFICES ASSUME CapsuleInv, Move PROVE CapsuleInv'
  OBVIOUS
<1> USE DEF CapsuleInv, Move, Go
<1>1. CapsuleTypeOK'
  BY DEF CapsuleTypeOK, XmlFiles, XblFiles, Caps, Dirs, Unset
<1>2. (StampInv /\ CertInv /\ LayoutInv /\ CapInv)'
  BY DEF StampInv, CertInv, LayoutInv, CapInv, Compiling, CapsuleTypeOK
<1>3. CapsuleConsistent'
  BY DEF CapsuleConsistent, MarkerMeansCert, DeployedTogether, LayoutAsConfigured,
         StampInv, CertInv, LayoutInv, CapInv, Compiling, CapsuleTypeOK
<1>4. QED
  BY <1>1, <1>2, <1>3

\* The marker follows the file.
LEMMA MarkCapsule == CapsuleInv /\ Mark => CapsuleInv'
<1> SUFFICES ASSUME CapsuleInv, Mark PROVE CapsuleInv'
  OBVIOUS
<1> USE DEF CapsuleInv, Mark, Go
<1>1. CapsuleTypeOK'
  <2>1. dir' \in Dirs
    BY Zenon DEF CapsuleTypeOK, Dirs
  <2>2. QED
    BY <2>1 DEF CapsuleTypeOK
<1>2. (StampInv /\ CertInv /\ LayoutInv /\ CapInv)'
  BY DEF StampInv, CertInv, LayoutInv, CapInv, Compiling, CapsuleTypeOK
<1>3. CapsuleConsistent'
  <2>1. dir'.xbl = conf.cert /\ dir'.inc = conf.cert /\ conf.cert \in Certs
    BY DEF CertInv, Compiling, CapsuleTypeOK, Confs, Dirs
  <2>2. MarkerMeansCert'
    BY <2>1 DEF MarkerMeansCert
  <2>3. (DeployedTogether /\ LayoutAsConfigured)'
    BY DEF CapsuleConsistent, DeployedTogether, LayoutAsConfigured
  <2>4. QED
    BY <2>2, <2>3 DEF CapsuleConsistent
<1>4. QED
  BY <1>1, <1>2, <1>3

\* The capsule is made of what lies in CAPSULE_DIR.
LEMMA CreateCapsule == CapsuleInv /\ Create => CapsuleInv'
<1> SUFFICES ASSUME CapsuleInv, Create PROVE CapsuleInv'
  OBVIOUS
<1> USE DEF CapsuleInv, Create, Go
<1>1. CapsuleTypeOK'
  BY DEF CapsuleTypeOK, XmlFiles, XblFiles, Caps, Dirs, Unset, Confs
<1>2. (StampInv /\ CertInv /\ LayoutInv /\ CapInv)'
  BY DEF StampInv, CertInv, LayoutInv, CapInv, Compiling, CapsuleTypeOK
<1>3. CapsuleConsistent'
  BY DEF CapsuleConsistent, MarkerMeansCert, DeployedTogether, LayoutAsConfigured,
         StampInv, CertInv, LayoutInv, CapInv, Compiling, CapsuleTypeOK
<1>4. QED
  BY <1>1, <1>2, <1>3

\* The patched file goes out with the capsule it is in.
LEMMA DeployCapsule == CapsuleInv /\ Deploy => CapsuleInv'
<1> SUFFICES ASSUME CapsuleInv, Deploy PROVE CapsuleInv'
  OBVIOUS
<1> USE DEF CapsuleInv, Deploy, Go
<1>1. CapsuleTypeOK'
  BY DEF CapsuleTypeOK, XmlFiles, XblFiles, Caps, Dirs, Unset
<1>2. (StampInv /\ CertInv /\ LayoutInv /\ CapInv)'
  BY DEF StampInv, CertInv, LayoutInv, CapInv, Compiling, CapsuleTypeOK
<1>3. MarkerMeansCert /\ MarkerMeansCert'
  BY DEF CapsuleConsistent, MarkerMeansCert
<1>4. DeployedTogether'
  <2>1. dir.cap.cert = dir.inc /\ dir.cap.xbl = dir.xbl
    BY DEF StampInv, CapInv
  <2>2. deployed'.cap = dir.cap /\ (deployed'.xbl # Unset => dir.marker /\ deployed'.xbl = dir.xbl)
    OBVIOUS
  <2>3. QED
    BY <2>1, <2>2, <1>3 DEF DeployedTogether, MarkerMeansCert
<1>5. LayoutAsConfigured'
  BY DEF LayoutAsConfigured, LayoutInv, StampInv
<1>6. QED
  BY <1>1, <1>2, <1>3, <1>4, <1>5 DEF CapsuleConsistent

\* Every step of BitBake and of the tasks keeps the invariant.
LEMMA NextCapsule == CapsuleInv /\ [CapsuleNext]_capsuleVars => CapsuleInv'
<1> SUFFICES ASSUME CapsuleInv, [CapsuleNext]_capsuleVars PROVE CapsuleInv'
  OBVIOUS
<1>1. CASE CapsuleNext
  BY <1>1, ReconfigureCapsule, FailCapsule, BuildCapsule, GenerateFvUpdateCapsule, StageCapsule, DumpCapsule,
     SetDtbPropertyCapsule, NoDtbCapsule, MoveCapsule, MarkCapsule, CreateCapsule, DeployCapsule
     DEF CapsuleNext
<1>2. CASE UNCHANGED capsuleVars
  BY <1>2 DEF capsuleVars, CapsuleInv, CapsuleTypeOK, StampInv, CertInv, LayoutInv, CapInv, Compiling,
     CapsuleConsistent, MarkerMeansCert, DeployedTogether, LayoutAsConfigured
<1>3. QED
  BY <1>1, <1>2

\* The state of the capsule tasks keeps its types for any certificates, layouts and
\* number of changes and failures.
THEOREM CapsuleTypes == CapsuleSpec => []CapsuleTypeOK
<1>1. CapsuleInv => CapsuleTypeOK
  BY DEF CapsuleInv
<1>2. QED
  BY InitCapsule, NextCapsule, <1>1, PTL DEF CapsuleSpec

\* However often the configuration changes and builds fail or are interrupted, what
\* do_deploy installs (qcom-capsule.bbclass:345) belongs together and to the
\* configuration, and the marker stands for the certificate.
THEOREM Consistent == CapsuleSpec => []CapsuleConsistent
<1>1. CapsuleInv => CapsuleConsistent
  BY DEF CapsuleInv
<1>2. QED
  BY InitCapsule, NextCapsule, <1>1, PTL DEF CapsuleSpec
-----------------------------------------------------------------------------
(* SstateCleanup.  As long as builds end within four days the cleaner      *)
(* leaves them their directory.  When they end by the next day it also     *)
(* removes all it should.                                                  *)

TypeInv ==
    /\ today \in Nat /\ month \in Months /\ day \in 1 .. 31
    /\ dirs \subseteq 1 .. month /\ ctime \in [Months -> Nat]
    /\ builds \subseteq [dir : Months, began : Nat]
    /\ doomed \subseteq Months

\* A build runs for a few days at most; in the directory of an earlier month it
\* works only if it began before the first day of this one.
BuildInv ==
    \A b \in builds :
        /\ b.began <= today /\ today - b.began <= MaxDays
        /\ b.dir # month => day <= today - b.began

\* The directory of this month is not older than the month and not on its way
\* out; what is, goes the day it was found.
DirInv ==
    /\ month \in dirs => today - ctime[month] < day
    /\ month \notin doomed
    /\ doomed # {} => day = CleanDay

CleanInv == TypeInv /\ BuildInv /\ DirInv /\ UsedKept

\* The months of the calendar are counted from 1.
LEMMA MonthsRange ==
    /\ Months = 1 .. Len(Lengths) /\ Len(Lengths) \in Nat \ {0}
    /\ \A m \in Months : Lengths[m] \in 28 .. 31
<1>1. Lengths \in Seq(28 .. 31) /\ Lengths # <<>>
  BY CalendarAssumption
<1>2. QED
  BY <1>1 DEF Months

LEMMA InitClean == CleanInit => CleanInv
BY MonthsRange DEF CleanInit, CleanInv, TypeInv, BuildInv, DirInv, UsedKept

\* A new build begins today, in the directory of this month.
LEMMA StartBuildClean == CleanInv /\ StartBuild => CleanInv'
<1> SUFFICES ASSUME CleanInv, StartBuild PROVE CleanInv'
  OBVIOUS
<1> USE CalendarAssumption, MonthsRange DEF CleanInv, TypeInv, StartBuild
<1>1. TypeInv'
  OBVIOUS
<1>2. BuildInv'
  BY DEF BuildInv
<1>3. DirInv'
  BY DEF DirInv, CleanDay
<1>4. UsedKept'
  BY DEF UsedKept, DirInv
<1>5. QED
  BY <1>1, <1>2, <1>3, <1>4

\* A directory only gets younger.
LEMMA AddEntryClean ==
    ASSUME CleanInv, NEW b \in builds, AddEntry(b)
    PROVE  CleanInv'
<1> USE CalendarAssumption, MonthsRange DEF CleanInv, TypeInv, AddEntry
<1>1. TypeInv'
  OBVIOUS
<1>2. BuildInv'
  BY DEF BuildInv
<1>3. DirInv'
  BY DEF DirInv, CleanDay
<1>4. UsedKept'
  BY DEF UsedKept
<1>5. QED
  BY <1>1, <1>2, <1>3, <1>4

LEMMA EndBuildClean ==
    ASSUME CleanInv, NEW b \in builds, FinishBuild(b)
    PROVE  CleanInv'
BY DEF CleanInv, TypeInv, FinishBuild, BuildInv, DirInv, UsedKept

\* What is found on the fifth is not of this month, whose directory is at most
\* four days old, nor in use from an earlier one, for such a build would have
\* run for five days.
LEMMA FindClean == CleanInv /\ Find => CleanInv'
<1> SUFFICES ASSUME CleanInv, Find PROVE CleanInv'
  OBVIOUS
<1> USE CalendarAssumption, MonthsRange DEF CleanInv, TypeInv, Find
<1>1. \A m \in doomed' : m \in Months /\ m \in dirs /\ today - ctime[m] > 30
  BY DEF MayBeOld, MaxAge
<1>2. month \notin doomed'
  BY <1>1 DEF DirInv, CleanDay
<1>3. \A b \in builds : b.dir = month
  BY DEF BuildInv, CleanDay
<1>4. TypeInv'
  BY <1>1
<1>5. BuildInv'
  BY DEF BuildInv
<1>6. DirInv'
  BY <1>2 DEF DirInv, CleanDay
<1>7. UsedKept'
  BY <1>2, <1>3 DEF UsedKept
<1>8. QED
  BY <1>4, <1>5, <1>6, <1>7

\* rm works on what find named, which no build uses.
LEMMA RemoveClean ==
    ASSUME CleanInv, NEW m \in Months, Remove(m)
    PROVE  CleanInv'
<1> USE CalendarAssumption, MonthsRange DEF CleanInv, TypeInv, Remove
<1>1. m # month
  BY DEF DirInv
<1>2. TypeInv'
  OBVIOUS
<1>3. BuildInv'
  BY DEF BuildInv
<1>4. DirInv'
  BY <1>1 DEF DirInv, CleanDay
<1>5. UsedKept'
  BY DEF UsedKept
<1>6. QED
  BY <1>2, <1>3, <1>4, <1>5

\* A new month begins without a directory of its own.
LEMMA MidnightClean == CleanInv /\ Midnight => CleanInv'
<1> SUFFICES ASSUME CleanInv, Midnight PROVE CleanInv'
  OBVIOUS
<1> USE CalendarAssumption, MonthsRange DEF CleanInv, TypeInv, Midnight
<1>1. CASE day < Lengths[month] /\ day' = day + 1 /\ month' = month
  <2>1. Lengths[month] \in 28 .. 31
    OBVIOUS
  <2>2. TypeInv'
    BY <1>1, <2>1
  <2>3. BuildInv'
    BY <1>1 DEF BuildInv
  <2>4. DirInv' /\ UsedKept'
    BY <1>1 DEF DirInv, UsedKept, CleanDay
  <2>5. QED
    BY <2>2, <2>3, <2>4
<1>2. CASE month < Len(Lengths) /\ day' = 1 /\ month' = month + 1
  <2>1. TypeInv'
    BY <1>2
  <2>2. BuildInv'
    BY <1>2 DEF BuildInv
  <2>3. month' \notin dirs'
    BY <1>2
  <2>4. DirInv' /\ UsedKept'
    BY <1>2, <2>3 DEF DirInv, UsedKept, CleanDay
  <2>5. QED
    BY <2>1, <2>2, <2>4
<1>3. QED
  BY <1>1, <1>2

LEMMA NextClean == CleanInv /\ [CleanNext]_cleanVars => CleanInv'
<1> SUFFICES ASSUME CleanInv, [CleanNext]_cleanVars PROVE CleanInv'
  OBVIOUS
<1>1. CASE StartBuild
  BY <1>1, StartBuildClean
<1>2. CASE \E b \in builds : AddEntry(b) \/ FinishBuild(b)
  BY <1>2, AddEntryClean, EndBuildClean
<1>3. CASE Find
  BY <1>3, FindClean
<1>4. CASE \E m \in Months : Remove(m)
  BY <1>4, RemoveClean
<1>5. CASE Midnight
  BY <1>5, MidnightClean
<1>6. CASE UNCHANGED cleanVars
  BY <1>6 DEF CleanInv, TypeInv, BuildInv, DirInv, UsedKept, cleanVars
<1>7. QED
  BY <1>1, <1>2, <1>3, <1>4, <1>5, <1>6 DEF CleanNext

\* monthly.yml never removes, nor is about to remove, the shared-state directory
\* a build works in, in any calendar, when builds end within four days.
THEOREM CleanerSafe == CleanSpec => []UsedKept
<1>1. CleanInit => CleanInv
  BY InitClean
<1>2. CleanInv /\ [CleanNext]_cleanVars => CleanInv'
  BY NextClean
<1>3. CleanInv => UsedKept
  BY DEF CleanInv
<1>4. QED
  BY <1>1, <1>2, <1>3, PTL DEF CleanSpec
-----------------------------------------------------------------------------
(* What the cleaner leaves.  Nothing renews the directory of a month once  *)
(* the builds that began in it are through, so on the fifth that of the    *)
(* month before last is at least 28 + 5 - MaxDays days old.  find is sure  *)
(* to name what is older than 31 days: that is enough when builds end by   *)
(* the day after they began, as GitHub has them do with its limit of six   *)
(* hours, and not enough, after a February, when they take two days.       *)

AgeInv ==
    \A m \in dirs :
        /\ ctime[m] <= today
        /\ m = month - 1 => today - ctime[m] >= day - MaxDays
        /\ m < month - 1 => today - ctime[m] >= 28 + day - MaxDays

\* No build is older than the month before.
LateInv == \A b \in builds : b.dir >= month - 1

\* Having run, the cleaner has removed, or is about to, all it should.
DoneInv ==
    /\ listed <= month /\ listed \in Nat
    /\ listed = month => \A m \in dirs : m < month - 1 => m \in doomed

DiskInv == CleanInv /\ AgeInv /\ LateInv /\ DoneInv

\* A build that uses the directory of another month began in the month before,
\* and it is one of the first days of this one.
LEMMA LateBuild ==
    ASSUME CleanInv, LateInv, NEW b \in builds, b.dir # month
    PROVE  b.dir = month - 1 /\ day <= MaxDays
<1> USE CalendarAssumption, MonthsRange DEF CleanInv, TypeInv
<1>1. b.dir <= month /\ b.dir \in Nat
  BY DEF UsedKept
<1>2. b.dir >= month - 1
  BY DEF LateInv
<1>3. day <= today - b.began /\ today - b.began <= MaxDays
  BY DEF BuildInv
<1>4. b.began \in Nat
  OBVIOUS
<1>5. QED
  BY <1>1, <1>2, <1>3, <1>4

\* Ages only grow, but for an entry added by a build.
LEMMA NextAge == CleanInv /\ AgeInv /\ LateInv /\ CleanNext => AgeInv' /\ LateInv'
<1> SUFFICES ASSUME CleanInv, AgeInv, LateInv, CleanNext PROVE AgeInv' /\ LateInv'
  OBVIOUS
<1>0. \A b \in builds : b.dir # month => b.dir = month - 1 /\ day <= MaxDays
  BY LateBuild
<1> USE CalendarAssumption, MonthsRange DEF CleanInv, TypeInv
<1>1. CASE StartBuild
  BY <1>1 DEF StartBuild, AgeInv, LateInv
<1>2. ASSUME NEW b \in builds, AddEntry(b) PROVE AgeInv' /\ LateInv'
  <2>1. LateInv'
    BY <1>2 DEF AddEntry, LateInv
  <2>2. ASSUME NEW m \in dirs, m # b.dir PROVE ctime'[m] = ctime[m]
    BY <1>2, <2>2 DEF AddEntry
  <2>3. ctime'[b.dir] = today /\ UNCHANGED <<today, month, day, dirs>>
    BY <1>2 DEF AddEntry
  <2>4. QED
    BY <1>0, <2>1, <2>2, <2>3 DEF AgeInv
<1>3. ASSUME NEW b \in builds, FinishBuild(b) PROVE AgeInv' /\ LateInv'
  BY <1>3 DEF FinishBuild, AgeInv, LateInv
<1>4. CASE Find
  BY <1>4 DEF Find, AgeInv, LateInv
<1>5. ASSUME NEW m \in Months, Remove(m) PROVE AgeInv' /\ LateInv'
  BY <1>5 DEF Remove, AgeInv, LateInv
<1>6. CASE Midnight
  <2>1. CASE day' = day + 1 /\ month' = month
    <3>1. UNCHANGED <<dirs, ctime, builds>> /\ today' = today + 1
      BY <1>6 DEF Midnight
    <3>2. \A m \in dirs : m \in Nat /\ ctime[m] \in Nat
      OBVIOUS
    <3>3. AgeInv'
      BY <2>1, <3>1, <3>2 DEF AgeInv
    <3>4. QED
      BY <2>1, <3>1, <3>3 DEF LateInv
  <2>2. CASE day = Lengths[month] /\ day' = 1 /\ month' = month + 1
    <3>1. day >= 28 /\ UNCHANGED <<dirs, ctime, builds>> /\ today' = today + 1
      BY <1>6, <2>2 DEF Midnight
    <3>2. LateInv'
      <4>1. ASSUME NEW b \in builds PROVE b.dir = month
        BY <1>0, <3>1
      <4>2. QED
        BY <2>2, <3>1, <4>1 DEF LateInv
    <3>3. AgeInv'
      <4>1. ASSUME NEW m \in dirs
            PROVE  /\ ctime[m] <= today + 1
                   /\ m = month => today + 1 - ctime[m] >= 1 - MaxDays
                   /\ m < month => today + 1 - ctime[m] >= 28 + 1 - MaxDays
        <5>1. m \in Nat /\ m <= month /\ ctime[m] \in Nat
          OBVIOUS
        <5>2. QED
          BY <3>1, <5>1 DEF AgeInv
      <4>2. ASSUME NEW m \in dirs'
            PROVE  /\ ctime'[m] <= today'
                   /\ m = month' - 1 => today' - ctime'[m] >= day' - MaxDays
                   /\ m < month' - 1 => today' - ctime'[m] >= 28 + day' - MaxDays
        <5>1. m \in dirs /\ ctime'[m] = ctime[m] /\ month' - 1 = month
          BY <2>2, <3>1
        <5>2. day' = 1 /\ today' = today + 1
          BY <2>2, <3>1
        <5>3. ctime[m] \in Nat /\ m \in Nat /\ today \in Nat /\ MaxDays \in Nat /\ month \in Nat
          BY <5>1
        <5>4. QED
          BY ONLY <4>1, <5>1, <5>2, <5>3
      <4>3. QED
        BY <4>2 DEF AgeInv
    <3>4. QED
      BY <3>2, <3>3
  <2>3. QED
    BY <1>6, <2>1, <2>2 DEF Midnight
<1>7. QED
  BY <1>1, <1>2, <1>3, <1>4, <1>5, <1>6 DEF CleanNext

\* The work of the fifth is not undone before the next month.
LEMMA NextDone ==
    ASSUME MaxDays <= 1, DiskInv, CleanNext
    PROVE  DoneInv'
<1> USE CalendarAssumption, MonthsRange DEF DiskInv, CleanInv, TypeInv
<1>1. CASE StartBuild
  BY <1>1 DEF StartBuild, DoneInv
<1>2. ASSUME NEW b \in builds, AddEntry(b) \/ FinishBuild(b) PROVE DoneInv'
  BY <1>2 DEF AddEntry, FinishBuild, DoneInv
<1>3. CASE Find
  <2>1. ASSUME NEW m \in dirs, m < month - 1 PROVE Old(m)
    <3>1. today - ctime[m] >= 28 + day - MaxDays /\ ctime[m] \in Nat /\ day = 5
      BY <1>3, <2>1 DEF AgeInv, Find, CleanDay
    <3>2. QED
      BY <3>1 DEF Old, MaxAge
  <2>2. \A m \in Months : Old(m) => m \in doomed'
    BY <1>3 DEF Find
  <2>3. QED
    BY <1>3, <2>1, <2>2 DEF Find, DoneInv
<1>4. ASSUME NEW m \in Months, Remove(m) PROVE DoneInv'
  BY <1>4 DEF Remove, DoneInv
<1>5. CASE Midnight
  BY <1>5 DEF Midnight, DoneInv
<1>6. QED
  BY <1>1, <1>2, <1>3, <1>4, <1>5 DEF CleanNext

\* TwoMonthsKept: once the cleaner has run, no directory older than that of the
\* month before is left, in any calendar, when builds end by the next day.
THEOREM DiskBounded ==
    ASSUME MaxDays <= 1
    PROVE  CleanSpec => []TwoMonthsKept
<1>1. CleanInit => DiskInv
  BY InitClean DEF CleanInit, DiskInv, AgeInv, LateInv, DoneInv
<1>2. DiskInv /\ [CleanNext]_cleanVars => DiskInv'
  <2> SUFFICES ASSUME DiskInv, [CleanNext]_cleanVars PROVE DiskInv'
    OBVIOUS
  <2>1. CleanInv'
    BY NextClean DEF DiskInv
  <2>2. CASE CleanNext
    BY <2>1, <2>2, NextAge, NextDone DEF DiskInv
  <2>3. CASE UNCHANGED cleanVars
    BY <2>1, <2>3 DEF DiskInv, AgeInv, LateInv, DoneInv, cleanVars
  <2>4. QED
    BY <2>2, <2>3
<1>3. DiskInv => TwoMonthsKept
  BY CalendarAssumption, MonthsRange DEF DiskInv, DoneInv, CleanInv, TypeInv, TwoMonthsKept
<1>4. QED
  BY <1>1, <1>2, <1>3, PTL DEF CleanSpec

-----------------------------------------------------------------------------
(* The parts together.                                                     *)

\* Each behaviour of the model is one of the capsule and of the cleaner, and one
\* of the FIT task unless it is one of the selftest's copy of it.
THEOREM BuildParts ==
    BuildSpec => CapsuleSpec /\ CleanSpec /\ (part # "copy" => Spec)
<1>1. BuildInit => CapsuleInit /\ CleanInit /\ (part # "copy" => Init)
  BY DEF BuildInit, FitIdle, CapsuleIdle
<1>2. [BuildNext]_<<part, replicaVars, capsuleVars, cleanVars>> =>
          /\ [CapsuleNext]_capsuleVars /\ [CleanNext]_cleanVars
          /\ part # "copy" => [Next]_vars /\ (part # "copy")'
  BY DEF BuildNext, replicaVars
<1>3. QED
  BY <1>1, <1>2, PTL DEF BuildSpec, CapsuleSpec, CleanSpec, Spec

\* The types of the FIT task and of the capsule tasks, for any blobs, flags,
\* certificates and layouts.
THEOREM BuildTypes == BuildSpec => []BuildTypesOK
<1>1. BuildSpec => (part = "copy" => [](part = "copy"))
  <2>1. part = "copy" /\ [BuildNext]_<<part, replicaVars, capsuleVars, cleanVars>> =>
            (part = "copy")'
    BY DEF BuildNext
  <2>2. QED
    BY <2>1, PTL DEF BuildSpec
<1>2. CapsuleTypeOK /\ part = "copy" => BuildTypesOK
  BY DEF BuildTypesOK
<1>3. CapsuleTypeOK /\ TypeOK => BuildTypesOK
  BY DEF BuildTypesOK
<1>4. part = "copy" \/ part # "copy"
  OBVIOUS
<1>5. QED
  BY <1>1, <1>2, <1>3, <1>4, BuildParts, TypeCorrect, CapsuleTypes, PTL
=============================================================================
