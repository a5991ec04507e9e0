------------------------- MODULE NightlyBuildProofs -------------------------
(***************************************************************************)
(* Theorems about NightlyBuild, for every set of runs, revisions, lock     *)
(* files and matrix legs and for every bound.                              *)
(*                                                                         *)
(* The argument follows the job graph.  A job that ran found its needs     *)
(* succeeded (RanInv), a skipped job found one that had not, or a cache    *)
(* hit (SkippedInv), and a success is for good; so what a job saw of its   *)
(* needs stays true through re-runs and cancelled groups.  From there a    *)
(* saved marker, a hit and a started test each point at a build that is    *)
(* complete and whose inputs no longer move.                               *)
(***************************************************************************)
EXTENDS NightlyBuild, TLAPS

Ran(r, u) == st[r][u] \in {"success", "failure"}

\* A unit that ended without success and without a result of its own.
Bad(r, u) == st[r][u] \in {"failure", "cancelled", "skipped"}

\* Jobs of the called workflow whose if: keeps the implicit success().
ImplicitJobs == BuildJobs \ {"publish_summary"}

\* Jobs whose if: asks for a cache miss, beside success().
MissJobs == {"yocto-run-checks", "compile_warm_up", "compile_sdk", "compile",
             "github-cache-save"}

IdleInv ==
    \A r \in Runs : phase[r] = "idle" =>
        attempt[r] = 0 /\ \A u \in Units : st[r][u] = "waiting"

LockInv == \A r \in Runs : Succeeded(r, "kas-setup") => lock[r] \in Locks

HitInv == \A r \in Runs : hit[r] => Succeeded(r, "github-cache-check")

RanInv ==
    \A r \in Runs : \A u \in Units :
        u[1] \in ImplicitJobs /\ Ran(r, u) =>
            /\ \A n \in Needs(u[1]) : Succeeded(r, n)
            /\ u[1] \in MissJobs => ~hit[r]

SkippedInv ==
    \A r \in Runs : \A u \in Units :
        u[1] \in BuildJobs /\ st[r][u] = "skipped" =>
            \/ hit[r]
            \/ /\ u[1] # "publish_summary"
               /\ \E v \in Units : v[1] \in Needs(u[1]) /\ Bad(r, v)

IInv ==
    /\ TypeOK /\ IdleInv /\ LockInv /\ HitInv /\ RanInv /\ SkippedInv
    /\ MarkerSound /\ SkipSound /\ TestedBuildComplete

-----------------------------------------------------------------------------
(* Jobs and their matrix legs.                                             *)

LEMMA UnitOfItsJob ==
    ASSUME NEW u \in Units
    PROVE  u[1] \in Jobs /\ u \in UnitsOf(u[1])
BY DEF Units, UnitsOf

\* Every job has a leg.
LEMMA JobHasUnit ==
    ASSUME NEW j \in Jobs
    PROVE  \E u \in Units : u[1] = j
<1>1. PICK l \in WarmLegs \cup CompileLegs \cup {"single"} : l \in Legs(j)
  BY LegsAssumption DEF Legs
<1>2. <<j, l>> \in Units
  BY <1>1 DEF Units
<1>3. QED
  BY <1>2

\* A job without a matrix is one unit.
LEMMA SingleUnit ==
    ASSUME NEW j \in Jobs \ {"compile_warm_up", "compile"}
    PROVE  <<j, "single">> \in Units /\ UnitsOf(j) = {<<j, "single">>}
<1>1. Legs(j) = {"single"}
  BY DEF Legs
<1>2. <<j, "single">> \in Units
  BY <1>1 DEF Units
<1>3. ASSUME NEW u \in Units, u[1] = j
      PROVE  u = <<j, "single">>
  BY <1>1, <1>3 DEF Units
<1>4. QED
  BY <1>2, <1>3 DEF UnitsOf

-----------------------------------------------------------------------------
(* What a step does.                                                       *)

\* A re-run with the build not ok leaves no build job failed or skipped.
Restarted(r) ==
    \A v \in Units : v[1] \in BuildJobs => st'[r][v] \in {"waiting", "success"}

\* The ways a unit's state moves: its job runs, is cancelled or is skipped,
\* or a re-run puts it back.
Moves(r, u) ==
    \/ st'[r][u] = st[r][u]
    \/ /\ Ready(r, u) /\ Condition(r, u[1])
       /\ st'[r][u] \in {"success", "failure"}
    \/ phase[r] # "idle" /\ st[r][u] = "waiting" /\ st'[r][u] = "cancelled"
    \/ /\ Ready(r, u) /\ ~Condition(r, u[1])
       /\ st'[r][u] = "skipped"
    \/ /\ Again(r, u) /\ st'[r][u] = "waiting"
       /\ u[1] \in BuildJobs => Restarted(r)

\* Cancelling a run touches waiting units only.
LEMMA CancelMoves ==
    ASSUME NEW r \in Runs, NEW u \in Units
    PROVE  \/ Cancelled(r)[u] = st[r][u]
           \/ st[r][u] = "waiting" /\ Cancelled(r)[u] = "cancelled"
BY DEF Cancelled

LEMMA SetUnitMoves ==
    ASSUME TypeOK, NEW q \in Runs, NEW v \in Units, NEW o \in {"success", "failure"},
           SetUnit(q, v, o), Ready(q, v), Condition(q, v[1]),
           NEW r \in Runs, NEW u \in Units
    PROVE  Moves(r, u)
BY DEF TypeOK, SetUnit, Moves

LEMMA StepMoves ==
    ASSUME TypeOK, Next, NEW r \in Runs, NEW u \in Units
    PROVE  Moves(r, u)
<1>1. ASSUME NEW q \in Runs, Trigger(q) PROVE Moves(r, u)
  BY <1>1, CancelMoves DEF Trigger, Enter, InGroup, Moves
<1>2. ASSUME NEW q \in Runs, Activate(q) PROVE Moves(r, u)
  BY <1>2 DEF Activate, Moves
<1>3. ASSUME NEW q \in Runs, KasSetup(q) PROVE Moves(r, u)
  <2>1. <<"kas-setup", "single">> \in Units
    BY SingleUnit DEF Jobs, BuildJobs
  <2>2. QED
    BY <1>3, <2>1, SetUnitMoves DEF KasSetup, Pass, Fail
<1>4. ASSUME NEW q \in Runs, CacheCheck(q) PROVE Moves(r, u)
  <2>1. <<"github-cache-check", "single">> \in Units
    BY SingleUnit DEF Jobs, BuildJobs
  <2>2. QED
    BY <1>4, <2>1, SetUnitMoves DEF CacheCheck, Pass, Fail
<1>5. ASSUME NEW q \in Runs, CacheSave(q) PROVE Moves(r, u)
  <2>1. <<"github-cache-save", "single">> \in Units
    BY SingleUnit DEF Jobs, BuildJobs
  <2>2. QED
    BY <1>5, <2>1, SetUnitMoves DEF CacheSave, Pass, Fail
<1>6. ASSUME NEW q \in Runs, NEW l \in WarmLegs, WarmUpLeg(q, l) PROVE Moves(r, u)
  <2> DEFINE w == <<"compile_warm_up", l>>
  <2>1. w \in Units
    BY DEF Units, Legs, Jobs, BuildJobs
  <2>2. Ready(q, w) /\ Condition(q, w[1])
    BY <1>6 DEF WarmUpLeg
  <2>3. CASE Pass(q, w)
    BY <2>1, <2>2, <2>3, SetUnitMoves DEF Pass
  <2>4. CASE st' = [st EXCEPT ![q] = [v \in Units |->
                    IF v = w THEN "failure"
                    ELSE IF v[1] = w[1] /\ @[v] = "waiting" THEN "cancelled" ELSE @[v]]]
    BY <2>2, <2>4 DEF TypeOK, Moves, Ready
  <2>5. QED
    BY <1>6, <2>3, <2>4 DEF WarmUpLeg
<1>7. ASSUME NEW q \in Runs, Skip(q) PROVE Moves(r, u)
  BY <1>7 DEF TypeOK, Skip, Skipped, Moves
<1>8. ASSUME NEW q \in Runs, NEW v \in Units, RunJob(q, v) PROVE Moves(r, u)
  BY <1>8, SetUnitMoves DEF RunJob, Pass, Fail
<1>9. ASSUME NEW q \in Runs, Cancel(q) PROVE Moves(r, u)
  BY <1>9, CancelMoves DEF TypeOK, Cancel, Moves
<1>10. ASSUME NEW q \in Runs, Rerun(q) PROVE Moves(r, u)
  <2> DEFINE s == [v \in Units |-> IF Again(q, v) THEN "waiting" ELSE st[q][v]]
  <2>1. CASE Enter(q, s)
    <3>1. CASE r # q
      BY <2>1, <3>1, CancelMoves DEF Enter, InGroup, Moves
    <3>2. CASE r = q
      <4>1. st'[r] = s
        BY <2>1, <3>2 DEF Enter
      <4>2. \A v \in Units : s[v] \in {"waiting", "success"}
        BY DEF Again
      <4>3. Restarted(r)
        BY <4>1, <4>2 DEF Restarted
      <4>4. QED
        BY <3>2, <4>1, <4>3 DEF Moves
    <3>3. QED
      BY <3>1, <3>2
  <2>2. CASE st' = [st EXCEPT ![q] = [v \in Units |->
                     IF v[1] \in CallerJobs THEN s[v] ELSE @[v]]]
    <3>1. CallerJobs \cap BuildJobs = {}
      BY DEF CallerJobs, BuildJobs
    <3>2. QED
      BY <2>2, <3>1 DEF TypeOK, Moves
  <2>3. QED
    BY <1>10, <2>1, <2>2 DEF Rerun
<1>11. ASSUME NEW k \in markers, Evict(k) PROVE Moves(r, u)
  BY <1>11 DEF Evict, Moves
<1>12. QED
  BY <1>1, <1>2, <1>3, <1>4, <1>5, <1>6, <1>7, <1>8, <1>9, <1>10, <1>11 DEF Next, Progress

KasUnit == <<"kas-setup", "single">>
CheckUnit == <<"github-cache-check", "single">>

LEMMA NamedUnits ==
    /\ KasUnit \in Units /\ CheckUnit \in Units
    /\ \A r \in Runs : /\ Succeeded(r, "kas-setup") <=> st[r][KasUnit] = "success"
                       /\ Succeeded(r, "github-cache-check") <=> st[r][CheckUnit] = "success"
BY SingleUnit DEF Jobs, BuildJobs, Succeeded, KasUnit, CheckUnit

\* Setting another unit leaves these two alone.
LEMMA SetUnitElsewhere ==
    ASSUME TypeOK, NEW q \in Runs, NEW v \in Units, NEW o,
           SetUnit(q, v, o), NEW r \in Runs, NEW u \in Units
    PROVE  /\ <<r, u>> # <<q, v>> => st'[r][u] = st[r][u]
           /\ st'[q][v] = o
BY DEF TypeOK, SetUnit

\* The lock file is set by kas-setup and by nothing else; the hit is what the
\* lookup finds, and no other job settles it.
InputMoves(r) ==
    /\ sha' = sha
    /\ \/ lock'[r] = lock[r]
       \/ st[r][KasUnit] = "waiting" /\ lock'[r] \in Locks
    /\ st[r][KasUnit] # "success" /\ st'[r][KasUnit] = "success" => lock'[r] \in Locks
    /\ \/ hit'[r] = hit[r]
       \/ /\ Ready(r, CheckUnit) /\ Condition(r, "github-cache-check")
          /\ st'[r][CheckUnit] = "success"
          /\ hit'[r] = (Key(r) \in markers) /\ lock'[r] = lock[r]

\* A step that sets no inputs, and brings no kas-setup through, is fine.
LEMMA StillInputs ==
    ASSUME NEW r \in Runs, UNCHANGED <<sha, lock, hit>>,
           st'[r][KasUnit] = "success" => st[r][KasUnit] = "success"
    PROVE  InputMoves(r)
BY DEF InputMoves

LEMMA StepInputs ==
    ASSUME TypeOK, Next, NEW r \in Runs
    PROVE  InputMoves(r)
<1>u. KasUnit \in Units /\ CheckUnit \in Units /\ KasUnit # CheckUnit
  BY NamedUnits DEF KasUnit, CheckUnit
<1>1. ASSUME NEW q \in Runs, Trigger(q) PROVE InputMoves(r)
  BY <1>1, <1>u, StillInputs, CancelMoves DEF Trigger, Enter
<1>2. ASSUME NEW q \in Runs, Activate(q) PROVE InputMoves(r)
  BY <1>2, StillInputs DEF Activate
<1>3. ASSUME NEW q \in Runs, KasSetup(q) PROVE InputMoves(r)
  <2>1. st[q][KasUnit] = "waiting" /\ sha' = sha /\ hit' = hit
    BY <1>3 DEF KasSetup, Ready, KasUnit
  <2>2. CASE SetUnit(q, KasUnit, "success") /\ \E l \in Locks : lock' = [lock EXCEPT ![q] = l]
    BY <2>1, <2>2, <1>u, SetUnitElsewhere DEF TypeOK, InputMoves
  <2>3. CASE SetUnit(q, KasUnit, "failure") /\ lock' = lock
    BY <2>1, <2>3, <1>u, SetUnitElsewhere DEF InputMoves
  <2>4. QED
    BY <1>3, <2>2, <2>3 DEF KasSetup, Pass, Fail, KasUnit
<1>4. ASSUME NEW q \in Runs, CacheCheck(q) PROVE InputMoves(r)
  <2>1. Ready(q, CheckUnit) /\ Condition(q, "github-cache-check") /\ sha' = sha /\ lock' = lock
    BY <1>4 DEF CacheCheck, CheckUnit
  <2>2. CASE /\ SetUnit(q, CheckUnit, "success")
             /\ hit' = [hit EXCEPT ![q] = Key(q) \in markers]
    BY <2>1, <2>2, <1>u, SetUnitElsewhere DEF TypeOK, InputMoves
  <2>3. CASE SetUnit(q, CheckUnit, "failure") /\ hit' = hit
    BY <2>1, <2>3, <1>u, SetUnitElsewhere DEF InputMoves
  <2>4. QED
    BY <1>4, <2>2, <2>3 DEF CacheCheck, Pass, Fail, CheckUnit
<1>5. ASSUME NEW q \in Runs, CacheSave(q) PROVE InputMoves(r)
  <2> DEFINE w == <<"github-cache-save", "single">>
  <2>1. w \in Units /\ w # KasUnit
    BY SingleUnit DEF Jobs, BuildJobs, KasUnit
  <2>2. SetUnit(q, w, "success") \/ SetUnit(q, w, "failure")
    BY <1>5 DEF CacheSave, Pass, Fail
  <2>3. QED
    BY <1>5, <1>u, <2>1, <2>2, SetUnitElsewhere, StillInputs DEF CacheSave
<1>6. ASSUME NEW q \in Runs, NEW l \in WarmLegs, WarmUpLeg(q, l) PROVE InputMoves(r)
  <2> DEFINE w == <<"compile_warm_up", l>>
  <2>1. w \in Units /\ KasUnit[1] # w[1]
    BY DEF Units, Legs, Jobs, BuildJobs, KasUnit
  <2>2. CASE Pass(q, w)
    BY <1>6, <1>u, <2>1, <2>2, SetUnitElsewhere, StillInputs DEF WarmUpLeg, Pass
  <2>3. CASE st' = [st EXCEPT ![q] = [v \in Units |->
                    IF v = w THEN "failure"
                    ELSE IF v[1] = w[1] /\ @[v] = "waiting" THEN "cancelled" ELSE @[v]]]
    <3>1. st'[r][KasUnit] = st[r][KasUnit]
      BY <2>1, <2>3, <1>u DEF TypeOK
    <3>2. QED
      BY <1>6, <3>1, StillInputs DEF WarmUpLeg
  <2>4. QED
    BY <1>6, <2>2, <2>3 DEF WarmUpLeg
<1>7. ASSUME NEW q \in Runs, Skip(q) PROVE InputMoves(r)
  <2>1. st'[r][KasUnit] = "success" => st[r][KasUnit] = "success"
    BY <1>7, <1>u DEF TypeOK, Skip
  <2>2. QED
    BY <1>7, <2>1, StillInputs DEF Skip
<1>8. ASSUME NEW q \in Runs, NEW v \in Units, RunJob(q, v) PROVE InputMoves(r)
  <2>1. v # KasUnit
    BY <1>8 DEF RunJob, PlainJobs, KasUnit
  <2>2. SetUnit(q, v, "success") \/ SetUnit(q, v, "failure")
    BY <1>8 DEF RunJob, Pass, Fail
  <2>3. QED
    BY <1>8, <1>u, <2>1, <2>2, SetUnitElsewhere, StillInputs DEF RunJob
<1>9. ASSUME NEW q \in Runs, Cancel(q) PROVE InputMoves(r)
  <2>1. st'[r][KasUnit] = "success" => st[r][KasUnit] = "success"
    BY <1>9, <1>u, CancelMoves DEF TypeOK, Cancel
  <2>2. QED
    BY <1>9, <2>1, StillInputs DEF Cancel
<1>10. ASSUME NEW q \in Runs, Rerun(q) PROVE InputMoves(r)
  <2> DEFINE s == [v \in Units |-> IF Again(q, v) THEN "waiting" ELSE st[q][v]]
  <2>2. CASE Enter(q, s)
    BY <1>10, <1>u, <2>2, CancelMoves, StillInputs DEF Enter, Rerun
  <2>3. CASE st' = [st EXCEPT ![q] = [v \in Units |->
                     IF v[1] \in CallerJobs THEN s[v] ELSE @[v]]]
    <3>1. st'[r][KasUnit] = "success" => st[r][KasUnit] = "success"
      BY <1>u, <2>3 DEF TypeOK
    <3>2. QED
      BY <1>10, <3>1, StillInputs DEF Rerun
  <2>4. QED
    BY <1>10, <2>2, <2>3 DEF Rerun
<1>11. ASSUME NEW k \in markers, Evict(k) PROVE InputMoves(r)
  BY <1>11, StillInputs DEF Evict
<1>12. QED
  BY <1>1, <1>2, <1>3, <1>4, <1>5, <1>6, <1>7, <1>8, <1>9, <1>10, <1>11 DEF Next, Progress

LEMMA StepStates ==
    ASSUME TypeOK, Next
    PROVE  st' \in [Runs -> [Units -> Outcomes \cup {"waiting"}]]
<1> DEFINE States == [Units -> Outcomes \cup {"waiting"}]
<1>0. st \in [Runs -> States]
  BY DEF TypeOK
<1>c. \A q \in Runs : Cancelled(q) \in States
  BY <1>0 DEF Cancelled, Outcomes
<1>s. ASSUME NEW q \in Runs, NEW v \in Units, NEW o \in {"success", "failure"},
             SetUnit(q, v, o)
      PROVE  st' \in [Runs -> States]
  BY <1>0, <1>s DEF SetUnit, Outcomes
<1>1. ASSUME NEW q \in Runs, NEW s \in States, Enter(q, s)
      PROVE  st' \in [Runs -> States]
  BY <1>0, <1>c, <1>1 DEF Enter
<1>2. ASSUME NEW q \in Runs, Trigger(q) PROVE st' \in [Runs -> States]
  BY <1>0, <1>1, <1>2 DEF Trigger
<1>3. ASSUME NEW q \in Runs, KasSetup(q) \/ CacheCheck(q) PROVE st' \in [Runs -> States]
  BY <1>3, <1>s, NamedUnits DEF KasSetup, CacheCheck, Pass, Fail, KasUnit, CheckUnit
<1>4. ASSUME NEW q \in Runs, CacheSave(q) PROVE st' \in [Runs -> States]
  <2>1. <<"github-cache-save", "single">> \in Units
    BY SingleUnit DEF Jobs, BuildJobs
  <2>2. QED
    BY <1>4, <1>s, <2>1 DEF CacheSave, Pass, Fail
<1>5. ASSUME NEW q \in Runs, NEW l \in WarmLegs, WarmUpLeg(q, l)
      PROVE  st' \in [Runs -> States]
  <2> DEFINE w == <<"compile_warm_up", l>>
  <2>1. w \in Units
    BY DEF Units, Legs, Jobs, BuildJobs
  <2>2. CASE Pass(q, w)
    BY <1>s, <2>1, <2>2 DEF Pass
  <2>3. CASE st' = [st EXCEPT ![q] = [v \in Units |->
                    IF v = w THEN "failure"
                    ELSE IF v[1] = w[1] /\ @[v] = "waiting" THEN "cancelled" ELSE @[v]]]
    BY <1>0, <2>3 DEF Outcomes
  <2>4. QED
    BY <1>5, <2>2, <2>3 DEF WarmUpLeg
<1>6. ASSUME NEW q \in Runs, Skip(q) PROVE st' \in [Runs -> States]
  BY <1>0, <1>6 DEF Skip, Outcomes
<1>7. ASSUME NEW q \in Runs, NEW v \in Units, RunJob(q, v) PROVE st' \in [Runs -> States]
  BY <1>7, <1>s DEF RunJob, Pass, Fail
<1>8. ASSUME NEW q \in Runs, Cancel(q) PROVE st' \in [Runs -> States]
  BY <1>0, <1>c, <1>8 DEF Cancel
<1>9. ASSUME NEW q \in Runs, Rerun(q) PROVE st' \in [Runs -> States]
  <2> DEFINE s == [v \in Units |-> IF Again(q, v) THEN "waiting" ELSE st[q][v]]
  <2>1. s \in States
    BY <1>0
  <2>2. CASE Enter(q, s)
    BY <1>1, <2>1, <2>2
  <2>3. CASE st' = [st EXCEPT ![q] = [v \in Units |->
                     IF v[1] \in CallerJobs THEN s[v] ELSE @[v]]]
    BY <1>0, <2>1, <2>3
  <2>4. QED
    BY <1>9, <2>2, <2>3 DEF Rerun
<1>10. CASE UNCHANGED st
  BY <1>0, <1>10
<1>11. QED
  BY <1>2, <1>3, <1>4, <1>5, <1>6, <1>7, <1>8, <1>9, <1>10
     DEF Next, Progress, Activate, Evict

\* Only github-cache-save adds a marker, and only its run's key.
LEMMA StepMarkers ==
    ASSUME Next, NEW k \in markers', k \notin markers
    PROVE  \E r \in Runs : k = Key(r) /\ Condition(r, "github-cache-save") /\ UNCHANGED lock
BY DEF Next, Trigger, Enter, Progress, Activate, KasSetup, CacheCheck, WarmUpLeg, Skip,
       RunJob, CacheSave, Cancel, Rerun, Evict

-----------------------------------------------------------------------------
(* What stays.                                                             *)

\* A success is for good; only publish_summary repeats one.
LEMMA SuccessStays ==
    ASSUME TypeOK, Next, NEW r \in Runs, NEW j \in Jobs \ {"publish_summary"},
           Succeeded(r, j)
    PROVE  Succeeded(r, j)'
<1>1. ASSUME NEW u \in UnitsOf(j)
      PROVE  st'[r][u] = "success"
  <2>1. u \in Units /\ u[1] = j /\ st[r][u] = "success"
    BY <1>1 DEF UnitsOf, Succeeded
  <2>2. ~Again(r, u) /\ st[r][u] # "waiting"
    BY <2>1 DEF Again
  <2>3. QED
    BY <2>1, <2>2, StepMoves DEF Moves, Ready
<1>2. QED
  BY <1>1 DEF Succeeded, UnitsOf

\* No job needs publish_summary for its own if:.
LEMMA NeedsAreImplicit ==
    ASSUME NEW j \in ImplicitJobs, NEW n \in Needs(j)
    PROVE  n \in ImplicitJobs /\ n \in Jobs
BY DEF ImplicitJobs, BuildJobs, Needs, Jobs

\* What a job with a success() of its own found when it started.
LEMMA ConditionMeans ==
    ASSUME NEW r \in Runs, NEW j \in ImplicitJobs, Condition(r, j)
    PROVE  /\ \A n \in Needs(j) : Succeeded(r, n)
           /\ j \in MissJobs => ~hit[r]
BY DEF ImplicitJobs, MissJobs, BuildJobs, Condition, NeedsOk, MustBuild

\* Every build job that ran stands on a lookup, and that on a lock file.
LEMMA MissJobsNeed ==
    ASSUME NEW j \in MissJobs
    PROVE  "github-cache-check" \in Needs(j) /\ j \in ImplicitJobs
BY DEF MissJobs, ImplicitJobs, BuildJobs, Needs

\* A lookup that is through has a lock file, and neither is settled again.
LEMMA LookupStays ==
    ASSUME TypeOK, RanInv, Next, NEW r \in Runs, Succeeded(r, "github-cache-check")
    PROVE  /\ Succeeded(r, "kas-setup")
           /\ lock'[r] = lock[r] /\ hit'[r] = hit[r]
           /\ Inputs(r)' = Inputs(r)
<1>1. Succeeded(r, "kas-setup")
  <2>1. CheckUnit[1] \in ImplicitJobs /\ "kas-setup" \in Needs(CheckUnit[1])
    BY DEF CheckUnit, ImplicitJobs, BuildJobs, Needs
  <2>2. Ran(r, CheckUnit)
    BY NamedUnits DEF Ran
  <2>3. QED
    BY <2>1, <2>2, NamedUnits DEF RanInv
<1>2. st[r][KasUnit] = "success" /\ st[r][CheckUnit] = "success"
  BY <1>1, NamedUnits
<1>3. InputMoves(r)
  BY StepInputs
<1>4. QED
  BY <1>1, <1>2, <1>3 DEF InputMoves, Ready, Inputs

\* A complete build stands on a lookup that missed.
LEMMA BuiltMissed ==
    ASSUME RanInv, NEW r \in Runs, Built(r)
    PROVE  Succeeded(r, "github-cache-check") /\ ~hit[r]
<1>1. PICK u \in Units : u[1] = "compile"
  BY JobHasUnit DEF Jobs, BuildJobs
<1>2. Ran(r, u)
  BY <1>1 DEF Built, Succeeded, UnitsOf, Ran
<1>3. "compile" \in MissJobs
  BY DEF MissJobs
<1>4. QED
  BY <1>1, <1>2, <1>3, MissJobsNeed DEF RanInv

\* So is a complete build, and the inputs it was made from.
LEMMA BuiltStays ==
    ASSUME TypeOK, RanInv, Next, NEW r \in Runs, Built(r)
    PROVE  Built(r)' /\ Inputs(r)' = Inputs(r)
<1>1. Inputs(r)' = Inputs(r)
  BY BuiltMissed, LookupStays
<1>2. \A j \in {"compile_warm_up", "compile_sdk", "compile"} : Succeeded(r, j)'
  BY SuccessStays DEF Built, Jobs, BuildJobs
<1>3. QED
  BY <1>1, <1>2 DEF Built

-----------------------------------------------------------------------------
(* The invariant holds at first and through every step.                    *)

LEMMA InitIInv == Init => IInv
<1> SUFFICES ASSUME Init PROVE IInv
  OBVIOUS
<1>1. \A r \in Runs, j \in Jobs : ~Succeeded(r, j)
  BY JobHasUnit DEF Init, Succeeded, UnitsOf
<1>2. TypeOK
  BY <1>1, BoundsAssumption DEF Init, TypeOK, Outcomes, Jobs, BuildJobs
<1>3. IdleInv /\ LockInv /\ HitInv /\ RanInv /\ SkippedInv
  <2>1. "kas-setup" \in Jobs
    BY DEF Jobs, BuildJobs
  <2>2. QED
    BY <1>1, <2>1 DEF Init, IdleInv, LockInv, HitInv, RanInv, SkippedInv, Ran
<1>4. MarkerSound /\ SkipSound
  BY DEF Init, MarkerSound, SkipSound
<1>5. <<"test-nightly", "single">> \in Units
  BY SingleUnit DEF Jobs, CallerJobs
<1>6. TestedBuildComplete
  BY <1>5 DEF Init, TestedBuildComplete
<1>7. QED
  BY <1>2, <1>3, <1>4, <1>6 DEF IInv

LEMMA NextType ==
    ASSUME IInv, Next
    PROVE  TypeOK'
<1>0. TypeOK /\ IdleInv /\ LockInv /\ RanInv
  BY DEF IInv
<1>1. phase' \in [Runs -> {"idle", "pending", "active"}]
  BY <1>0 DEF TypeOK, Next, Trigger, Enter, Progress, Activate, KasSetup, CacheCheck,
              WarmUpLeg, Skip, RunJob, CacheSave, Cancel, Rerun, Evict
<1>2. attempt' \in [Runs -> 0 .. MaxAttempts]
  <2>1. ASSUME NEW q \in Runs, Trigger(q)
        PROVE  attempt' \in [Runs -> 0 .. MaxAttempts]
    BY <1>0, <2>1, BoundsAssumption DEF TypeOK, IdleInv, Trigger, Enter
  <2>2. ASSUME NEW q \in Runs, Rerun(q)
        PROVE  attempt' \in [Runs -> 0 .. MaxAttempts]
    BY <1>0, <2>2, BoundsAssumption DEF TypeOK, Rerun, Enter
  <2>3. QED
    BY <1>0, <2>1, <2>2 DEF TypeOK, Next, Progress, Activate, KasSetup, CacheCheck,
              WarmUpLeg, Skip, RunJob, CacheSave, Cancel, Evict
<1>3. \A r \in Runs : InputMoves(r)
  BY <1>0, StepInputs
<1>4. sha' \in [Runs -> Shas]
  BY <1>0, <1>3 DEF TypeOK, InputMoves, Next, Trigger, Enter, Progress, Activate, KasSetup,
       CacheCheck, WarmUpLeg, Skip, RunJob, CacheSave, Cancel, Rerun, Evict
<1>5. lock' \in [Runs -> Locks \cup {"none"}]
  BY <1>0 DEF TypeOK, Next, Trigger, Enter, Progress, Activate, KasSetup, CacheCheck,
              WarmUpLeg, Skip, RunJob, CacheSave, Cancel, Rerun, Evict
<1>6. hit' \in [Runs -> BOOLEAN]
  <2>1. ASSUME NEW q \in Runs, CacheCheck(q)
        PROVE  hit' \in [Runs -> BOOLEAN]
    <3>1. (Key(q) \in markers) \in BOOLEAN
      OBVIOUS
    <3>2. \/ \E b \in BOOLEAN : hit' = [hit EXCEPT ![q] = b]
          \/ hit' = hit
      BY <2>1, <3>1, Zenon DEF CacheCheck
    <3>3. QED
      BY <1>0, <3>2 DEF TypeOK
  <2>2. CASE UNCHANGED hit
    BY <1>0, <2>2 DEF TypeOK
  <2>3. QED
    BY <2>1, <2>2 DEF Next, Trigger, Enter, Progress, Activate, KasSetup,
                      WarmUpLeg, Skip, RunJob, CacheSave, Cancel, Rerun, Evict
<1>7. st' \in [Runs -> [Units -> Outcomes \cup {"waiting"}]]
  BY <1>0, StepStates
<1>8. markers' \subseteq Shas \X Locks
  <2>1. ASSUME NEW k \in markers', k \notin markers
        PROVE  k \in Shas \X Locks
    <3>1. PICK r \in Runs : k = Key(r) /\ Condition(r, "github-cache-save")
      BY <2>1, StepMarkers
    <3>2. "github-cache-save" \in MissJobs
      BY DEF MissJobs
    <3>3. Succeeded(r, "github-cache-check")
      BY <3>1, <3>2, MissJobsNeed, ConditionMeans
    <3>4. QED
      BY <1>0, <3>1, <3>3 DEF TypeOK, Key, Inputs
  <2>2. QED
    BY <1>0, <2>1 DEF TypeOK
<1>9. ASSUME NEW r \in Runs, Succeeded(r, "github-cache-check")'
      PROVE  lock'[r] \in Locks
  <2>1. Succeeded(r, "kas-setup")
    <3>1. CASE Succeeded(r, "github-cache-check")
      BY <1>0, <3>1, LookupStays
    <3>2. CASE ~Succeeded(r, "github-cache-check")
      <4>1. CheckUnit \in Units /\ st'[r][CheckUnit] = "success" /\ st[r][CheckUnit] # "success"
        BY <1>9, <3>2, NamedUnits DEF Succeeded, UnitsOf, CheckUnit
      <4>2. Condition(r, "github-cache-check")
        BY <1>0, <4>1, StepMoves DEF Moves, CheckUnit
      <4>3. "kas-setup" \in Needs("github-cache-check")
            /\ "github-cache-check" \in ImplicitJobs
        BY DEF Needs, ImplicitJobs, BuildJobs
      <4>4. QED
        BY <4>2, <4>3, ConditionMeans
    <3>3. QED
      BY <3>1, <3>2
  <2>2. st[r][KasUnit] = "success" /\ lock[r] \in Locks
    BY <1>0, <2>1, NamedUnits DEF LockInv
  <2>3. QED
    BY <1>3, <2>2 DEF InputMoves
<1>10. QED
  BY <1>1, <1>2, <1>4, <1>5, <1>6, <1>7, <1>8, <1>9 DEF TypeOK

LEMMA NextIdle ==
    ASSUME IInv, Next
    PROVE  IdleInv'
<1>0. TypeOK /\ IdleInv
  BY DEF IInv
<1> SUFFICES ASSUME NEW r \in Runs, phase'[r] = "idle"
             PROVE  attempt'[r] = 0 /\ \A u \in Units : st'[r][u] = "waiting"
  BY DEF IdleInv
<1>1. phase[r] = "idle"
  BY <1>0 DEF TypeOK, Next, Trigger, Enter, Progress, Activate, KasSetup, CacheCheck,
              WarmUpLeg, Skip, RunJob, CacheSave, Cancel, Rerun, Evict
<1>2. attempt[r] = 0 /\ \A u \in Units : st[r][u] = "waiting"
  BY <1>0, <1>1 DEF IdleInv
<1>3. KasUnit \in Units
  BY NamedUnits
<1>4. ~RunFinished(r)
  BY <1>2, <1>3 DEF RunFinished
<1>5. attempt'[r] = attempt[r]
  BY <1>0, <1>1, <1>4 DEF TypeOK, Next, Trigger, Enter, Progress, Activate, KasSetup,
       CacheCheck, WarmUpLeg, Skip, RunJob, CacheSave, Cancel, Rerun, Evict
<1>6. ASSUME NEW u \in Units
      PROVE  st'[r][u] = "waiting"
  BY <1>0, <1>1, <1>2, <1>6, StepMoves DEF Moves, Ready, Again
<1>7. QED
  BY <1>2, <1>5, <1>6

LEMMA NextLock ==
    ASSUME IInv, Next
    PROVE  LockInv'
<1> SUFFICES ASSUME NEW r \in Runs, Succeeded(r, "kas-setup")'
             PROVE  lock'[r] \in Locks
  BY DEF LockInv
<1>1. st'[r][KasUnit] = "success"
  BY NamedUnits DEF Succeeded, UnitsOf, KasUnit
<1>2. InputMoves(r)
  BY StepInputs DEF IInv
<1>3. st[r][KasUnit] = "success" => lock[r] \in Locks
  BY NamedUnits DEF IInv, LockInv
<1>4. QED
  BY <1>1, <1>2, <1>3 DEF InputMoves

\* The lookup that just came through is the one unit of its job.
LEMMA CheckPassed ==
    ASSUME NEW r \in Runs, st'[r][CheckUnit] = "success"
    PROVE  Succeeded(r, "github-cache-check")'
<1>1. UnitsOf("github-cache-check") = {CheckUnit}
  BY SingleUnit DEF Jobs, BuildJobs, CheckUnit
<1>2. QED
  BY <1>1 DEF Succeeded

LEMMA NextHit ==
    ASSUME IInv, Next
    PROVE  HitInv'
<1> SUFFICES ASSUME NEW r \in Runs, hit'[r]
             PROVE  Succeeded(r, "github-cache-check")'
  BY DEF HitInv
<1>1. CASE hit[r]
  <2>1. Succeeded(r, "github-cache-check")
    BY <1>1 DEF IInv, HitInv
  <2>2. QED
    BY <2>1, SuccessStays DEF IInv, Jobs, BuildJobs
<1>2. CASE ~hit[r]
  <2>1. InputMoves(r)
    BY StepInputs DEF IInv
  <2>2. QED
    BY <1>2, <2>1, CheckPassed DEF InputMoves
<1>3. QED
  BY <1>1, <1>2

LEMMA NextRan ==
    ASSUME IInv, Next
    PROVE  RanInv'
<1>0. TypeOK /\ RanInv
  BY DEF IInv
<1> SUFFICES ASSUME NEW r \in Runs, NEW u \in Units, u[1] \in ImplicitJobs, Ran(r, u)'
             PROVE  /\ \A n \in Needs(u[1]) : Succeeded(r, n)'
                    /\ u[1] \in MissJobs => ~hit'[r]
  BY DEF RanInv
<1>1. /\ \A n \in Needs(u[1]) : Succeeded(r, n)
      /\ u[1] \in MissJobs => ~hit[r]
  <2>1. CASE st'[r][u] = st[r][u]
    BY <1>0, <2>1 DEF RanInv, Ran
  <2>2. CASE Condition(r, u[1])
    BY <2>2, ConditionMeans
  <2>3. QED
    BY <1>0, <2>1, <2>2, StepMoves DEF Moves, Ran
<1>2. \A n \in Needs(u[1]) : Succeeded(r, n)'
  BY <1>0, <1>1, NeedsAreImplicit, SuccessStays DEF ImplicitJobs
<1>3. ASSUME u[1] \in MissJobs
      PROVE  hit'[r] = hit[r]
  BY <1>0, <1>1, <1>3, MissJobsNeed, LookupStays
<1>4. QED
  BY <1>1, <1>2, <1>3

\* Why a job is skipped whose needs are settled.
LEMMA NotCondition ==
    ASSUME NEW r \in Runs, NEW u \in Units, u[1] \in BuildJobs,
           Ready(r, u), ~Condition(r, u[1]),
           st[r] \in [Units -> Outcomes \cup {"waiting"}]
    PROVE  \/ hit[r]
           \/ /\ u[1] # "publish_summary"
              /\ \E v \in Units : v[1] \in Needs(u[1]) /\ Bad(r, v)
<1> SUFFICES ASSUME ~hit[r]
             PROVE  /\ u[1] # "publish_summary"
                    /\ \E v \in Units : v[1] \in Needs(u[1]) /\ Bad(r, v)
  OBVIOUS
<1>1. u[1] # "publish_summary"
  BY DEF Condition, MustBuild
<1>2. ~NeedsOk(r, u[1])
  BY <1>1 DEF Condition, MustBuild
<1>3. PICK n \in Needs(u[1]) : ~Succeeded(r, n)
  BY <1>2 DEF NeedsOk, BuildJobs
<1>4. PICK v \in Units : v[1] = n /\ st[r][v] # "success"
  BY <1>3 DEF Succeeded, UnitsOf
<1>5. st[r][v] # "waiting"
  BY <1>3, <1>4 DEF Ready, Finished, UnitsOf
<1>6. Bad(r, v)
  BY <1>4, <1>5 DEF Bad, Outcomes
<1>7. QED
  BY <1>1, <1>3, <1>4, <1>6

LEMMA NeedsAreBuildJobs ==
    ASSUME NEW j \in BuildJobs
    PROVE  Needs(j) \subseteq BuildJobs
BY DEF BuildJobs, Needs

LEMMA NextSkipped ==
    ASSUME IInv, Next
    PROVE  SkippedInv'
<1>0. TypeOK /\ HitInv /\ RanInv /\ SkippedInv
  BY DEF IInv
<1> SUFFICES ASSUME NEW r \in Runs, NEW u \in Units, u[1] \in BuildJobs,
                    st'[r][u] = "skipped", ~hit'[r]
             PROVE  /\ u[1] # "publish_summary"
                    /\ \E v \in Units : v[1] \in Needs(u[1]) /\ Bad(r, v)'
  BY DEF SkippedInv
<1>1. ~hit[r]
  <2>1. hit[r] => Succeeded(r, "github-cache-check")
    BY <1>0 DEF HitInv
  <2>2. QED
    BY <1>0, <2>1, LookupStays
<1>2. PICK v \in Units : u[1] # "publish_summary" /\ v[1] \in Needs(u[1]) /\ Bad(r, v)
  <2>1. CASE st'[r][u] = st[r][u]
    BY <1>0, <1>1, <2>1 DEF SkippedInv
  <2>2. CASE Ready(r, u) /\ ~Condition(r, u[1])
    BY <1>0, <1>1, <2>2, NotCondition DEF TypeOK
  <2>3. QED
    BY <1>0, <2>1, <2>2, StepMoves DEF Moves
<1>3. ~Restarted(r)
  BY DEF Restarted
<1>4. v[1] \in BuildJobs
  BY <1>2, NeedsAreBuildJobs
<1>5. Bad(r, v)'
  BY <1>0, <1>2, <1>3, <1>4, StepMoves DEF Moves, Bad, Ready
<1>6. QED
  BY <1>2, <1>5

LEMMA NextMarkers ==
    ASSUME IInv, Next
    PROVE  MarkerSound'
<1>0. TypeOK /\ RanInv /\ MarkerSound
  BY DEF IInv
<1> SUFFICES ASSUME NEW k \in markers'
             PROVE  \E r \in Runs : Inputs(r)' = k /\ Built(r)'
  BY DEF MarkerSound
<1>1. PICK r \in Runs : Inputs(r) = k /\ Built(r)
  <2>1. CASE k \in markers
    BY <1>0, <2>1 DEF MarkerSound
  <2>2. CASE k \notin markers
    <3>1. PICK r \in Runs : k = Key(r) /\ Condition(r, "github-cache-save")
      BY <2>2, StepMarkers
    <3>2. Succeeded(r, "compile") /\ Succeeded(r, "compile_sdk")
      BY <3>1, ConditionMeans DEF ImplicitJobs, BuildJobs, Needs
    <3>3. PICK u \in Units : u[1] = "compile"
      BY JobHasUnit DEF Jobs, BuildJobs
    <3>4. Ran(r, u)
      BY <3>2, <3>3 DEF Ran, Succeeded, UnitsOf
    <3>5. Succeeded(r, "compile_warm_up")
      BY <1>0, <3>3, <3>4 DEF RanInv, ImplicitJobs, BuildJobs, Needs
    <3>6. QED
      BY <3>1, <3>2, <3>5 DEF Built, Key
  <2>3. QED
    BY <2>1, <2>2
<1>2. QED
  BY <1>0, <1>1, BuiltStays

LEMMA NextSkips ==
    ASSUME IInv, Next
    PROVE  SkipSound'
<1>0. TypeOK /\ RanInv /\ HitInv /\ MarkerSound /\ SkipSound
  BY DEF IInv
<1> SUFFICES ASSUME NEW r \in Runs, hit'[r]
             PROVE  \E q \in Runs \ {r} : Inputs(q)' = Inputs(r)' /\ Built(q)'
  BY DEF SkipSound
<1>1. PICK q \in Runs \ {r} : Inputs(q) = Inputs(r) /\ Built(q) /\ Inputs(r)' = Inputs(r)
  <2>1. CASE hit[r]
    BY <1>0, <2>1, LookupStays DEF SkipSound, HitInv
  <2>2. CASE ~hit[r]
    <3>1. /\ st[r][CheckUnit] = "waiting" /\ Key(r) \in markers
          /\ lock'[r] = lock[r] /\ sha' = sha
      BY <1>0, <2>2, StepInputs DEF InputMoves, Ready
    <3>2. PICK q \in Runs : Inputs(q) = Inputs(r) /\ Built(q)
      BY <1>0, <3>1 DEF MarkerSound, Key
    <3>3. q # r
      BY <1>0, <3>1, <3>2, BuiltMissed, NamedUnits
    <3>4. QED
      BY <3>1, <3>2, <3>3 DEF Inputs
  <2>3. QED
    BY <2>1, <2>2
<1>2. QED
  BY <1>0, <1>1, BuiltStays

\* A build that is through, missed the cache and has no failed or cancelled job
\* skipped none: along the needs, the first skip has nothing to point at.
LEMMA OkBuildSucceeded ==
    ASSUME TypeOK, SkippedInv, NEW r \in Runs, BuildOk(r), BuildFinished(r), ~hit[r]
    PROVE  \A j \in ImplicitJobs : Succeeded(r, j)
<1>1. \A u \in Units : u[1] \in BuildJobs => st[r][u] \in {"success", "skipped"}
  BY DEF BuildOk
<1>2. ASSUME NEW j \in BuildJobs, \A n \in Needs(j) : Succeeded(r, n)
      PROVE  Succeeded(r, j)
  <2> SUFFICES ASSUME NEW u \in Units, u[1] = j, st[r][u] = "skipped"
               PROVE  FALSE
    BY <1>1 DEF Succeeded, UnitsOf
  <2>1. PICK v \in Units : v[1] \in Needs(u[1]) /\ Bad(r, v)
    BY DEF SkippedInv
  <2>2. st[r][v] = "success"
    BY <1>2, <2>1 DEF Succeeded, UnitsOf
  <2>3. QED
    BY <2>1, <2>2 DEF Bad
<1>3. Succeeded(r, "kas-setup") /\ Succeeded(r, "compile-env")
  BY <1>2 DEF BuildJobs, Needs
<1>4. Succeeded(r, "github-cache-check")
  BY <1>2, <1>3 DEF BuildJobs, Needs
<1>5. Succeeded(r, "yocto-run-checks") /\ Succeeded(r, "compile_warm_up")
  BY <1>2, <1>3, <1>4 DEF BuildJobs, Needs
<1>6. Succeeded(r, "compile") /\ Succeeded(r, "compile_sdk")
  BY <1>2, <1>3, <1>4, <1>5 DEF BuildJobs, Needs
<1>7. Succeeded(r, "github-cache-save") /\ Succeeded(r, "build_successful")
  BY <1>2, <1>4, <1>6 DEF BuildJobs, Needs
<1>8. QED
  BY <1>3, <1>4, <1>5, <1>6, <1>7 DEF ImplicitJobs, BuildJobs

LEMMA NextTested ==
    ASSUME IInv, Next
    PROVE  TestedBuildComplete'
<1>0. TypeOK /\ RanInv /\ SkippedInv /\ TestedBuildComplete
  BY DEF IInv
<1> DEFINE t == <<"test-nightly", "single">>
<1> SUFFICES ASSUME NEW r \in Runs, st'[r][t] \in {"success", "failure"}
             PROVE  Built(r)' /\ Succeeded(r, "yocto-run-checks")'
  BY DEF TestedBuildComplete
<1>1. t \in Units /\ t[1] = "test-nightly"
  BY SingleUnit DEF Jobs, CallerJobs
<1>2. Built(r) /\ Succeeded(r, "yocto-run-checks")
  <2>1. CASE st'[r][t] = st[r][t]
    BY <1>0, <2>1 DEF TestedBuildComplete
  <2>2. CASE Ready(r, t) /\ Condition(r, t[1])
    <3>1. BuildOk(r) /\ ~hit[r]
      BY <1>1, <2>2 DEF Condition, NeedsOk, MustBuild
    <3>2. BuildFinished(r)
      BY <1>1, <2>2 DEF Ready, Needs, BuildFinished
    <3>3. \A j \in ImplicitJobs : Succeeded(r, j)
      BY <1>0, <3>1, <3>2, OkBuildSucceeded
    <3>4. QED
      BY <3>3 DEF ImplicitJobs, BuildJobs, Built
  <2>3. QED
    BY <1>0, <1>1, <2>1, <2>2, StepMoves DEF Moves
<1>3. QED
  BY <1>0, <1>2, BuiltStays, SuccessStays DEF Jobs, BuildJobs

LEMMA StutterIInv ==
    ASSUME IInv, UNCHANGED vars
    PROVE  IInv'
<1>1. TypeOK'
  BY DEF IInv, vars, TypeOK, Succeeded
<1>2. IdleInv' /\ LockInv' /\ HitInv'
  BY DEF IInv, vars, IdleInv, LockInv, HitInv, Succeeded
<1>3. RanInv' /\ SkippedInv'
  BY DEF IInv, vars, RanInv, SkippedInv, Ran, Bad, Succeeded
<1>4. MarkerSound' /\ SkipSound' /\ TestedBuildComplete'
  BY DEF IInv, vars, MarkerSound, SkipSound, TestedBuildComplete, Built, Inputs, Succeeded
<1>5. QED
  BY <1>1, <1>2, <1>3, <1>4 DEF IInv

\* The invariant of a nightly: what the jobs, the markers and the lookups of all
\* runs agree on, through overlaps, cancelled groups, evictions and re-runs.
THEOREM Invariance == Spec => []IInv
<1>1. Init => IInv
  BY InitIInv
<1>2. IInv /\ [Next]_vars => IInv'
  <2>1. ASSUME IInv, Next PROVE IInv'
    BY <2>1, NextType, NextIdle, NextLock, NextHit, NextRan, NextSkipped, NextMarkers,
       NextSkips, NextTested DEF IInv
  <2>2. QED
    BY <2>1, StutterIInv
<1>3. QED
  BY <1>1, <1>2, PTL DEF Spec

\* The state keeps its types: in particular no run looks up a key before it has
\* a lock file, and no run is attempted more often than the bound.
THEOREM TypeCorrect == Spec => []TypeOK
<1>1. IInv => TypeOK
  BY DEF IInv
<1>2. QED
  BY <1>1, Invariance, PTL

\* A marker in the GitHub cache stands for a complete build of exactly the
\* revision and lock file in its key.
THEOREM MarkersStandForBuilds == Spec => []MarkerSound
<1>1. IInv => MarkerSound
  BY DEF IInv
<1>2. QED
  BY <1>1, Invariance, PTL

\* A run that skips its matrix for a cache hit is covered by another run's
\* complete build of the same inputs.
THEOREM SkipsAreCovered == Spec => []SkipSound
<1>1. IInv => SkipSound
  BY DEF IInv
<1>2. QED
  BY <1>1, Invariance, PTL

\* Tests start only on a build whose compile jobs and layer checks succeeded.
THEOREM TestsNeedCompleteBuild == Spec => []TestedBuildComplete
<1>1. IInv => TestedBuildComplete
  BY DEF IInv
<1>2. QED
  BY <1>1, Invariance, PTL

\* The lock file and the verdict of the lookup are settled once per run, for all
\* of its attempts.
THEOREM InputsAreFrozen == Spec => InputsFrozen
<1>1. ASSUME IInv, [Next]_vars, NEW r \in Runs, Succeeded(r, "github-cache-check")
      PROVE  lock'[r] = lock[r] /\ hit'[r] = hit[r]
  <2>1. CASE Next
    BY <1>1, <2>1, LookupStays DEF IInv
  <2>2. CASE UNCHANGED vars
    BY <2>2 DEF vars
  <2>3. QED
    BY <1>1, <2>1, <2>2
<1>2. IInv /\ [Next]_vars => [\A r \in Runs : Succeeded(r, "github-cache-check")
          => lock'[r] = lock[r] /\ hit'[r] = hit[r]]_vars
  BY <1>1
<1>3. QED
  BY <1>2, Invariance, PTL DEF Spec, InputsFrozen
-----------------------------------------------------------------------------
(* That a triggered run ends, but for the fairness of GitHub's runners: as *)
(* long as one has jobs to come, some run can take a step of Progress, and *)
(* each such step brings it closer to its end.                             *)

\* Guards of Progress: the turn of a pending run, or a job whose needs are
\* settled; of that job, Skip is due when its if: is false, otherwise the job,
\* which may succeed whatever the bounds.
Due(r) ==
    \/ phase[r] = "pending" /\ \A q \in Runs : ~(InGroup(r, q) /\ phase[q] = "active")
    \/ \E u \in Units : Ready(r, u)

Waits(r) == {u \in Units : st[r][u] = "waiting"}

Closer(r) ==
    \/ phase[r] = "pending" /\ phase'[r] = "active" /\ Waits(r)' = Waits(r)
    \/ phase'[r] = phase[r] /\ Waits(r)' \subseteq Waits(r) /\ Waits(r)' # Waits(r)

\* A job is through or ready when all it needs is through.
LEMMA NextInLine ==
    ASSUME NEW r \in Runs, phase[r] = "active", \A u \in Units : ~Ready(r, u),
           NEW j \in Jobs, \A n \in Needs(j) : Finished(r, n)
    PROVE  Finished(r, j)
BY DEF Ready, Finished, UnitsOf

\* The job graph has no cycle: while a job of an active run waits, one is ready.
LEMMA SomeJobReady ==
    ASSUME NEW r \in Runs, phase[r] = "active", \A u \in Units : ~Ready(r, u)
    PROVE  RunFinished(r)
<1>1. Finished(r, "kas-setup") /\ Finished(r, "compile-env")
  BY NextInLine DEF Needs, Jobs, BuildJobs
<1>2. Finished(r, "github-cache-check")
  BY <1>1, NextInLine DEF Needs, Jobs, BuildJobs
<1>3. Finished(r, "yocto-run-checks") /\ Finished(r, "compile_warm_up")
  BY <1>1, <1>2, NextInLine DEF Needs, Jobs, BuildJobs
<1>4. Finished(r, "compile_sdk") /\ Finished(r, "compile")
  BY <1>1, <1>2, <1>3, NextInLine DEF Needs, Jobs, BuildJobs
<1>5. /\ Finished(r, "publish_summary") /\ Finished(r, "github-cache-save")
      /\ Finished(r, "build_successful")
  BY <1>2, <1>4, NextInLine DEF Needs, Jobs, BuildJobs
<1>6. \A j \in BuildJobs : Finished(r, j)
  BY <1>1, <1>2, <1>3, <1>4, <1>5 DEF BuildJobs
<1>7. Finished(r, "test-nightly")
  BY <1>6, NextInLine DEF Needs, Jobs, CallerJobs
<1>8. Finished(r, "publish-test-results")
  BY <1>6, <1>7, NextInLine DEF Needs, Jobs, CallerJobs
<1>9. \A j \in Jobs : Finished(r, j)
  BY <1>6, <1>7, <1>8 DEF Jobs, CallerJobs
<1>10. QED
  BY <1>9, UnitOfItsJob DEF RunFinished, Finished

\* Nobody waits on everybody: while a triggered run is not through, some run has
\* its turn or a job that is ready, however groups, caches and re-runs fall.
THEOREM NeverStuck ==
    Spec => [](\A r \in Runs : phase[r] # "idle" /\ ~RunFinished(r) => \E q \in Runs : Due(q))
<1>1. ASSUME TypeOK, NEW r \in Runs, phase[r] # "idle", ~RunFinished(r)
      PROVE  \E q \in Runs : Due(q)
  <2>1. CASE phase[r] = "active"
    BY <1>1, <2>1, SomeJobReady DEF Due
  <2>2. CASE phase[r] = "pending"
    <3>1. ASSUME NEW q \in Runs, InGroup(r, q), phase[q] = "active"
          PROVE  Due(q)
      <4>1. ~RunFinished(q)
        BY <3>1 DEF InGroup, BuildFinished, RunFinished, Finished, UnitsOf
      <4>2. QED
        BY <3>1, <4>1, SomeJobReady DEF Due
    <3>2. QED
      BY <2>2, <3>1 DEF Due
  <2>3. QED
    BY <1>1, <2>1, <2>2 DEF TypeOK
<1>2. TypeOK => \A r \in Runs : phase[r] # "idle" /\ ~RunFinished(r) => \E q \in Runs : Due(q)
  BY <1>1
<1>3. QED
  BY <1>2, TypeCorrect, PTL

\* The outcome of one job, with or without that of others of its matrix.
LEMMA OutcomeCloser ==
    ASSUME TypeOK, NEW r \in Runs, NEW u \in Units, st[r][u] = "waiting",
           phase' = phase, DOMAIN st' = Runs, st'[r][u] \in Outcomes,
           \A v \in Units : st[r][v] # "waiting" => st'[r][v] = st[r][v]
    PROVE  Closer(r)
<1>1. u \in Waits(r) /\ u \notin Waits(r)'
  BY DEF Waits, Outcomes
<1>2. Waits(r)' \subseteq Waits(r)
  BY DEF Waits
<1>3. QED
  BY <1>1, <1>2 DEF Closer

\* Every step of a run's own brings it closer to its end: the run gets its turn
\* in the group, or jobs are through that were not and none goes back.  Only a
\* re-run puts jobs back, and MaxAttempts bounds those.
THEOREM ProgressIsMade == Spec => [][\A r \in Runs : Progress(r) => Closer(r)]_vars
<1>1. ASSUME TypeOK, NEW r \in Runs, Activate(r) PROVE Closer(r)
  BY <1>1 DEF Activate, Closer, Waits, TypeOK
<1>2. ASSUME TypeOK, NEW r \in Runs, NEW u \in Units, NEW o \in {"success", "failure"},
             SetUnit(r, u, o), Ready(r, u), phase' = phase
      PROVE  Closer(r)
  <2>1. /\ st[r][u] = "waiting" /\ DOMAIN st' = Runs /\ st'[r][u] = o
        /\ \A v \in Units : v # u => st'[r][v] = st[r][v]
    BY <1>2 DEF SetUnit, Ready, TypeOK
  <2>2. QED
    BY <1>2, <2>1, OutcomeCloser DEF Outcomes
<1>3. ASSUME TypeOK, NEW r \in Runs, NEW u \in Units, Ready(r, u), Pass(r, u) \/ Fail(r, u),
             phase' = phase
      PROVE  Closer(r)
  BY <1>2, <1>3 DEF Pass, Fail
<1>4. ASSUME TypeOK, NEW r \in Runs, KasSetup(r) \/ CacheCheck(r) \/ CacheSave(r)
      PROVE  Closer(r)
  <2>1. \A j \in {"kas-setup", "github-cache-check", "github-cache-save"} :
            <<j, "single">> \in Units
    BY SingleUnit DEF Jobs, BuildJobs
  <2>2. \E u \in Units : Ready(r, u) /\ (Pass(r, u) \/ Fail(r, u)) /\ phase' = phase
    BY <1>4, <2>1 DEF KasSetup, CacheCheck, CacheSave
  <2>3. QED
    BY <1>3, <1>4, <2>2
<1>5. ASSUME TypeOK, NEW r \in Runs, NEW u \in Units, RunJob(r, u) PROVE Closer(r)
  BY <1>3, <1>5 DEF RunJob
<1>6. ASSUME TypeOK, NEW r \in Runs, NEW l \in WarmLegs, WarmUpLeg(r, l) PROVE Closer(r)
  <2> DEFINE u == <<"compile_warm_up", l>>
  <2>1. u \in Units
    BY DEF Units, Legs, Jobs, BuildJobs
  <2>2. Ready(r, u) /\ phase' = phase
    BY <1>6 DEF WarmUpLeg
  <2>3. CASE Pass(r, u)
    BY <1>3, <1>6, <2>1, <2>2, <2>3
  <2>4. CASE st' = [st EXCEPT ![r] = [v \in Units |->
                    IF v = u THEN "failure"
                    ELSE IF v[1] = u[1] /\ @[v] = "waiting" THEN "cancelled" ELSE @[v]]]
    <3>1. st[r][u] = "waiting"
      BY <2>2 DEF Ready
    <3>2. /\ DOMAIN st' = Runs /\ st'[r][u] = "failure"
          /\ \A v \in Units : st[r][v] # "waiting" => st'[r][v] = st[r][v]
      BY <1>6, <2>1, <2>4, <3>1 DEF TypeOK
    <3>3. QED
      BY <1>6, <2>1, <2>2, <3>1, <3>2, OutcomeCloser DEF Outcomes
  <2>5. QED
    BY <1>6, <2>3, <2>4 DEF WarmUpLeg
<1>7. ASSUME TypeOK, NEW r \in Runs, Skip(r) PROVE Closer(r)
  <2>1. PICK u \in Units : u \in Skipped(r)
    BY <1>7 DEF Skip, Skipped
  <2>2. \A v \in Skipped(r) : v \in Units /\ st[r][v] = "waiting"
    BY DEF Skipped, Ready
  <2>3. /\ DOMAIN st' = Runs /\ phase' = phase
        /\ \A v \in Units : st'[r][v] = IF v \in Skipped(r) THEN "skipped" ELSE st[r][v]
    BY <1>7 DEF Skip, TypeOK
  <2>4. QED
    BY <1>7, <2>1, <2>2, <2>3, OutcomeCloser DEF Outcomes
<1>8. TypeOK => \A r \in Runs : Progress(r) => Closer(r)
  BY <1>1, <1>4, <1>5, <1>6, <1>7 DEF Progress
<1>9. TypeOK /\ [Next]_vars => [\A r \in Runs : Progress(r) => Closer(r)]_vars
  BY <1>8
<1>10. QED
  BY <1>9, TypeCorrect, PTL DEF Spec
=============================================================================
