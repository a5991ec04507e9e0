---------------------------- MODULE SstateCleanup ---------------------------
(***************************************************************************)
(* The shared-state directories of the build runners, one per month, and   *)
(* the job of .github/workflows/monthly.yml that removes old ones while    *)
(* builds on other runners use the directory of the month they began in.   *)
(* Time is counted in days.                                                *)
(***************************************************************************)
EXTENDS Integers, Sequences

CONSTANTS
    Lengths,  \* days of the months, in order
    MaxDays,  \* a job ends at most this many days after the day it began: below 5,
              \* the day of the month the cleaner runs on
    Horizon   \* bound: days

ASSUME CalendarAssumption ==
    Lengths \in Seq(28 .. 31) \ {<<>>} /\ MaxDays \in 0 .. 4 /\ Horizon \in Nat

Months == DOMAIN Lengths

VARIABLES
    today,   \* days gone by
    month, day,
    dirs,    \* months whose sstate-cache-YYYY-MM is there
    ctime,   \* when an entry of the directory itself last changed
    builds,  \* running builds, by SSTATE_DIR and first day
    doomed,  \* directories find has named to the rm that is running
    listed   \* the last month in which the cleaner ran, 0 for none

cleanVars == <<today, month, day, dirs, ctime, builds, doomed, listed>>

CleanInit ==
    /\ today = 0 /\ month = 1 /\ day = 1
    /\ dirs = {} /\ ctime = [m \in Months |-> 0]
    /\ builds = {} /\ doomed = {} /\ listed = 0

\* SSTATE_DIR=.../sstate-cache-$(date '+%Y-%m'), computed once, at the start.
StartBuild ==
    /\ builds' = builds \cup {[dir |-> month, began |-> today]}
    /\ dirs' = dirs \cup {month}
    /\ ctime' = [ctime EXCEPT ![month] = IF month \in dirs THEN @ ELSE today]
    /\ UNCHANGED <<today, month, day, doomed, listed>>

\* A build adds an entry to the directory itself; most go further down.
AddEntry(b) ==
    /\ b.dir \in dirs
    /\ ctime' = [ctime EXCEPT ![b.dir] = today]
    /\ UNCHANGED <<today, month, day, dirs, builds, doomed, listed>>

FinishBuild(b) ==
    /\ builds' = builds \ {b}
    /\ UNCHANGED <<today, month, day, dirs, ctime, doomed, listed>>

\* Mutant: the first day of the month.
M_CleanDay == 1

\* cron: "22 10 5 * *"
CleanDay == 5

\* Mutant: a few days more.
M_MaxAge == 33

\* -ctime +30
MaxAge == 30

\* find counts whole periods of 24 hours: between two days there may be one less.
Old(m) == m \in dirs /\ today - ctime[m] > MaxAge + 1
MayBeOld(m) == m \in dirs /\ today - ctime[m] > MaxAge

\* The command substitution; the runner may also miss its month.
Find ==
    /\ day = CleanDay /\ listed # month
    /\ listed' = month
    /\ \E D \in SUBSET {m \in Months : MayBeOld(m)} :
           /\ {m \in Months : Old(m)} \subseteq D
           /\ doomed' = D
    /\ UNCHANGED <<today, month, day, dirs, ctime, builds>>

\* rm -rf, within the 12 hours of timeout-minutes.
Remove(m) ==
    /\ m \in doomed
    /\ doomed' = doomed \ {m} /\ dirs' = dirs \ {m}
    /\ ctime' = [ctime EXCEPT ![m] = 0]
    /\ UNCHANGED <<today, month, day, builds, listed>>

Midnight ==
    /\ today < Horizon /\ doomed = {}
    /\ \A b \in builds : today - b.began < MaxDays
    /\ \/ /\ day < Lengths[month]
          /\ day' = day + 1 /\ UNCHANGED month
       \/ /\ day = Lengths[month] /\ month < Len(Lengths)
          /\ day' = 1 /\ month' = month + 1
    /\ today' = today + 1
    /\ UNCHANGED <<dirs, ctime, builds, doomed, listed>>

CleanNext ==
    \/ StartBuild \/ Find \/ Midnight
    \/ \E b \in builds : AddEntry(b) \/ FinishBuild(b)
    \/ \E m \in Months : Remove(m)

CleanSpec == CleanInit /\ [][CleanNext]_cleanVars

-----------------------------------------------------------------------------
(* Properties.                                                             *)

\* A directory is never removed, nor about to be, while a build works in it,
\* though its age is that of the last new entry at its top and may be counted
\* from the first day of the month, and builds run on past the last.
UsedKept == \A b \in builds : b.dir \in dirs \ doomed

\* Once the cleaner has done its work in a month, nothing older than the month
\* before is left: the shared disk holds two months, be they short or long.
TwoMonthsKept ==
    listed = month /\ doomed = {} => \A m \in dirs : m >= month - 1
=============================================================================
