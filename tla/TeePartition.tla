---------------------------- MODULE TeePartition ----------------------------
(***************************************************************************)
(* /var/lib/tee, where trusted applications keep their encrypted objects,  *)
(* over any number of boots (recipes-bsp/partition/mount-tee-partition).   *)
(*                                                                         *)
(* A udev rule asks for var-lib-tee.mount when the partition appears; the  *)
(* mount requires format-tee-partition.service, a oneshot that runs        *)
(* check-tee-partition-fs.sh under "set -e" and stays active afterwards.   *)
(* The power may go at any time: in the middle of mkfs, between the check  *)
(* and the mount, or while the partition is mounted.                       *)
(*                                                                         *)
(* systemd, e2fsprogs and the kernel are modelled from how these files use *)
(* them.                                                                   *)
(***************************************************************************)
EXTENDS Naturals

CONSTANT MaxCuts   \* bound: power cuts

ASSUME CutsAssumption == MaxCuts \in Nat

VARIABLES
    up,       \* the system is running
    dev,      \* /dev/disk/by-partlabel/persist exists
    type,     \* what blkid reports of the partition
    status,   \* what e2fsck -n exits with on it
    svc,      \* format-tee-partition.service, with the line it executes
    job,      \* a start job of var-lib-tee.mount is queued
    mounted,  \* /var/lib/tee is a mount point
    stored,   \* objects a trusted application was told are stored
    intact,   \* of which these are still readable
    cuts      \* power cuts so far

disk  == <<type, status>>
files == <<stored, intact>>
teeVars  == <<up, dev, disk, svc, job, mounted, files, cuts>>

Scripts == {"probe", "mkfs", "fsck"}

TeeInit ==
    /\ up = FALSE /\ dev = FALSE /\ svc = "inactive"
    /\ job = FALSE /\ mounted = FALSE
    /\ type \in {"none", "ext4"} /\ status = IF type = "ext4" THEN 0 ELSE 8
    /\ stored = 0 /\ intact = 0 /\ cuts = 0

Boot ==
    /\ ~up /\ up' = TRUE
    /\ UNCHANGED <<dev, disk, svc, job, mounted, files, cuts>>

\* 99-persist.rules: an add event wants the mount, and a service that failed is
\* tried again for it; a mounted partition is left alone.
DeviceAdd ==
    /\ up
    /\ dev' = TRUE /\ job' = ~mounted
    /\ svc' = IF svc = "failed" THEN "inactive" ELSE svc
    /\ UNCHANGED <<up, disk, mounted, files, cuts>>

\* Mutant: no condition on the mount point and no RemainAfterExit.
M_StartService ==
    /\ up /\ dev /\ svc \notin Scripts
    /\ svc' = "probe"
    /\ UNCHANGED <<up, dev, disk, job, mounted, files, cuts>>

\* Mutant: no ConditionPathExists.
M_StartEarly ==
    /\ up /\ ~mounted /\ svc = "inactive"
    /\ svc' = "probe"
    /\ UNCHANGED <<up, dev, disk, job, mounted, files, cuts>>

\* The job for the mount pulls in the service unless it is active already, or
\* somebody starts it by hand.  Both of its conditions are checked first.
StartService ==
    /\ up /\ dev /\ ~mounted /\ svc = "inactive"
    /\ svc' = "probe"
    /\ UNCHANGED <<up, dev, disk, job, mounted, files, cuts>>

\* blkid decides between a new file system and a check of the old one.
Probe ==
    /\ svc = "probe"
    /\ \/ /\ type # "ext4"
          /\ svc' = "mkfs" /\ intact' = 0 /\ UNCHANGED stored
       \/ /\ type = "ext4"
          /\ svc' = "fsck" /\ UNCHANGED files
    /\ UNCHANGED <<up, dev, disk, job, mounted, cuts>>

\* A failing mkfs ends the script as well.
Mkfs ==
    /\ svc = "mkfs"
    /\ \/ svc' = "active" /\ type' = "ext4" /\ status' = 0
       \/ svc' = "failed" /\ type' = "none" /\ status' = 8
    /\ UNCHANGED <<up, dev, job, mounted, files, cuts>>

\* Mutant: a file system with errors of any kind is recreated.
M_FsckWipe ==
    /\ svc = "fsck"
    /\ \/ status = 0 /\ svc' = "active" /\ UNCHANGED files
       \/ status # 0 /\ svc' = "mkfs" /\ intact' = 0 /\ UNCHANGED stored
    /\ UNCHANGED <<up, dev, disk, job, mounted, cuts>>

\* Mutant: e2fsck -n ... || true.
M_Fsck ==
    /\ svc = "fsck" /\ svc' = "active"
    /\ UNCHANGED <<up, dev, disk, job, mounted, files, cuts>>

\* Under set -e any status but 0 ends the script before it is looked at.
Fsck ==
    /\ svc = "fsck"
    /\ svc' = IF status = 0 THEN "active" ELSE "failed"
    /\ UNCHANGED <<up, dev, disk, job, mounted, files, cuts>>

\* Mutant: Requisite= instead of Requires=, which starts nothing.
M_Mount ==
    /\ job /\ ~mounted
    /\ \/ svc = "active" /\ mounted' = TRUE
       \/ svc \in {"inactive", "failed"} /\ UNCHANGED mounted
    /\ job' = FALSE
    /\ UNCHANGED <<up, dev, disk, svc, files, cuts>>

\* Requires= and After=: the job runs once the service is active and is
\* dropped when the service failed.
Mount ==
    /\ job /\ ~mounted
    /\ \/ svc = "active" /\ mounted' = TRUE
       \/ svc = "failed" /\ UNCHANGED mounted
    /\ job' = FALSE
    /\ UNCHANGED <<up, dev, disk, svc, files, cuts>>

\* Everything the application has stored is on the disk, or nothing of it.
Store ==
    /\ mounted /\ stored = intact /\ stored < 1
    /\ stored' = stored + 1 /\ intact' = intact + 1
    /\ UNCHANGED <<up, dev, disk, svc, job, mounted, cuts>>

Off ==
    /\ up' = FALSE /\ dev' = FALSE /\ svc' = "inactive"
    /\ job' = FALSE /\ mounted' = FALSE

\* systemd unmounts the partition; a shutdown during mkfs amounts to a cut.
Shutdown ==
    /\ up /\ svc # "mkfs" /\ Off
    /\ UNCHANGED <<disk, files, cuts>>

\* A cut leaves a mounted file system with a journal to replay, which e2fsck
\* -n counts as errors or not, or worse; and half a new one in mkfs.
PowerCut ==
    /\ up /\ cuts < MaxCuts /\ Off
    /\ cuts' = cuts + 1
    /\ UNCHANGED files
    /\ \/ mounted /\ status' \in {0, 4, 8} /\ UNCHANGED type
       \/ svc = "mkfs" /\ type' \in {"none", "ext4"} /\ status' = 8
       \/ ~mounted /\ svc # "mkfs" /\ UNCHANGED disk

TeeNext ==
    \/ Boot \/ DeviceAdd \/ StartService
    \/ Probe \/ Mkfs \/ Fsck
    \/ Mount \/ Store
    \/ Shutdown \/ PowerCut

TeeSpec == TeeInit /\ [][TeeNext]_teeVars

\* udev and systemd run what is due; nothing is said about the power, about
\* objects, or about events and starts that nobody has to ask for.
TeeFairness ==
    /\ WF_teeVars(~dev /\ DeviceAdd) /\ WF_teeVars(job /\ StartService)
    /\ WF_teeVars(Probe) /\ WF_teeVars(Mkfs) /\ WF_teeVars(Fsck) /\ WF_teeVars(Mount)

-----------------------------------------------------------------------------
(* Properties.                                                             *)

\* The types of the state; what is not there is neither checked nor mounted.
TeeTypeOK ==
    /\ up \in BOOLEAN /\ dev \in BOOLEAN /\ job \in BOOLEAN /\ mounted \in BOOLEAN
    /\ type \in {"none", "ext4"} /\ status \in {0, 4, 8}
    /\ svc \in Scripts \cup {"inactive", "active", "failed"}
    /\ stored \in {0, 1} /\ intact \in {0, 1} /\ cuts \in 0 .. MaxCuts
    /\ ~up => ~dev
    /\ ~dev => ~job /\ ~mounted /\ svc = "inactive"

\* mkfs and e2fsck never run on the partition while it is mounted, however
\* often udev and the administrator ask for the two units: no step lets
\* check-tee-partition-fs.sh and the mount overlap.
ScriptAlone == svc \in Scripts => ~mounted

\* What is mounted passed the check of this boot: a power cut while mounted,
\* or in the middle of mkfs, never leads to a mount of a damaged file system.
MountedClean == mounted => type = "ext4" /\ status = 0

\* Objects a trusted application has stored outlive every sequence of boots
\* and power cuts: check-tee-partition-fs.sh makes a new file system only
\* where none has ever been finished.
StoredKept == intact = stored

\* A partition with no file system, fresh from the factory or cut off in
\* mkfs, ends up mounted unless the power goes or mkfs itself fails.
BlankGetsMounted == up /\ type = "none" ~> mounted \/ ~up \/ svc = "failed"

\* Lines 22-27 of the script: above 4 "recreating", otherwise "filesystem is
\* OK".  So whatever e2fsck reports, only a failing mkfs fails the service.
OnlyMkfsFails == svc = "failed" => type = "none"
=============================================================================
