---------------------------- MODULE NightlyBuild ----------------------------
(***************************************************************************)
(* Runs of .github/workflows/nightly-build.yml and of build-yocto.yml,     *)
(* which it calls with skip_if_github_cached: true.                        *)
(*                                                                         *)
(* A run resolves a kas lock file, hashes it with the commit being built   *)
(* and looks that key up among the markers earlier runs left in the GitHub *)
(* cache.  On a hit it builds nothing and tests nothing.  Otherwise it     *)
(* runs the layer checks beside the compile matrices, and leaves a marker  *)
(* once the matrices are through.                                          *)
(*                                                                         *)
(* Runs overlap: a dispatched nightly may start beside the scheduled one,  *)
(* the concurrency group of build-yocto.yml cancels the older of two runs  *)
(* on the same commit, people cancel runs and re-run failed jobs, and      *)
(* GitHub evicts cache entries.                                            *)
(***************************************************************************)
EXTENDS Naturals, FiniteSets

CONSTANTS
    Runs,         \* workflow runs on one branch
    Shas,         \* meta-qcom revisions, github.sha of a run
    Locks,        \* contents kas lock may resolve to
    WarmLegs,     \* matrix legs of compile_warm_up
    CompileLegs,  \* matrix legs of compile
    MaxAttempts,  \* bound: attempts of one run
    MaxMishaps    \* bound: jobs that fail and runs people cancel

ASSUME LegsAssumption == WarmLegs # {} /\ CompileLegs # {}
ASSUME BoundsAssumption == MaxAttempts \in Nat \ {0} /\ MaxMishaps \in Nat

VARIABLES
    phase,    \* "idle", "pending" in its concurrency group, or "active"
    attempt,  \* github.run_attempt
    sha,      \* the revision a run builds
    lock,     \* the kas lockfile artifact
    hit,      \* output cache_hit of github-cache-check
    st,       \* state of every job of every run, one per matrix leg
    markers   \* build-success-* entries in the GitHub cache

vars == <<phase, attempt, sha, lock, hit, st, markers>>

-----------------------------------------------------------------------------
(* The job graph.                                                          *)

BuildJobs == {"kas-setup", "github-cache-check", "yocto-run-checks",
              "compile-env", "compile_warm_up", "compile_sdk", "compile",
              "publish_summary", "github-cache-save", "build_successful"}
CallerJobs == {"test-nightly", "publish-test-results"}
Jobs == BuildJobs \cup CallerJobs

Legs(j) == CASE j = "compile_warm_up" -> WarmLegs
             [] j = "compile" -> CompileLegs
             [] OTHER -> {"single"}

Units == {u \in Jobs \X (WarmLegs \cup CompileLegs \cup {"single"}) : u[2] \in Legs(u[1])}
UnitsOf(j) == {u \in Units : u[1] = j}

\* Mutant: the cache is looked up before the lock file is there.
M_Needs(j) ==
    CASE j = "yocto-run-checks" -> {"kas-setup", "github-cache-check"}
      [] j = "compile_warm_up" -> {"kas-setup", "github-cache-check", "compile-env"}
      [] j \in {"compile_sdk", "compile"} ->
             {"github-cache-check", "compile_warm_up", "compile-env"}
      [] j \in {"publish_summary", "github-cache-save"} ->
             {"github-cache-check", "compile", "compile_sdk"}
      [] j = "build_successful" -> {"compile", "compile_sdk"}
      [] j = "test-nightly" -> BuildJobs
      [] j = "publish-test-results" -> BuildJobs \cup {"test-nightly"}
      [] OTHER -> {}

\* The needs: of build-yocto.yml; test-nightly needs all of the called workflow.
Needs(j) ==
    CASE j = "github-cache-check" -> {"kas-setup"}
      [] j = "yocto-run-checks" -> {"kas-setup", "github-cache-check"}
      [] j = "compile_warm_up" -> {"kas-setup", "github-cache-check", "compile-env"}
      [] j \in {"compile_sdk", "compile"} ->
             {"github-cache-check", "compile_warm_up", "compile-env"}
      [] j \in {"publish_summary", "github-cache-save"} ->
             {"github-cache-check", "compile", "compile_sdk"}
      [] j = "build_successful" -> {"compile", "compile_sdk"}
      [] j = "test-nightly" -> BuildJobs
      [] j = "publish-test-results" -> BuildJobs \cup {"test-nightly"}
      [] OTHER -> {}

Outcomes == {"success", "failure", "cancelled", "skipped"}

Finished(r, j) == \A u \in UnitsOf(j) : st[r][u] # "waiting"
Succeeded(r, j) == \A u \in UnitsOf(j) : st[r][u] = "success"
BuildFinished(r) == \A j \in BuildJobs : Finished(r, j)
RunFinished(r) == \A u \in Units : st[r][u] # "waiting"

\* A called workflow succeeds when none of its jobs failed or was cancelled.
BuildOk(r) == \A u \in Units : u[1] \in BuildJobs => st[r][u] \in {"success", "skipped"}

\* The jobs whose results the implicit success() of an if: reads.
NeedsOk(r, j) ==
    CASE j = "test-nightly" -> BuildOk(r)
      [] j = "publish-test-results" -> BuildOk(r) /\ Succeeded(r, "test-nightly")
      [] OTHER -> \A n \in Needs(j) : Succeeded(r, n)

\* needs.github-cache-check.outputs.cache_hit != 'true'
MustBuild(r) == ~hit[r]

\* Mutant: github-cache-save asks for the result of compile alone.
M_Condition(r, j) ==
    CASE j = "github-cache-save" -> MustBuild(r) /\ Succeeded(r, "compile")
      [] j \in {"yocto-run-checks", "compile_warm_up", "compile_sdk", "compile",
                "test-nightly", "publish-test-results"} -> NeedsOk(r, j) /\ MustBuild(r)
      [] j = "publish_summary" -> MustBuild(r)
      [] OTHER -> NeedsOk(r, j)

\* Mutant: test-nightly runs under always().
M_TestAlways(r, j) ==
    CASE j = "test-nightly" -> MustBuild(r)
      [] j \in {"yocto-run-checks", "compile_warm_up", "compile_sdk", "compile",
                "publish-test-results", "github-cache-save"} -> NeedsOk(r, j) /\ MustBuild(r)
      [] j = "publish_summary" -> MustBuild(r)
      [] OTHER -> NeedsOk(r, j)

\* The if: of each job; publish_summary replaces success() by always().
Condition(r, j) ==
    CASE j \in {"yocto-run-checks", "compile_warm_up", "compile_sdk", "compile",
                "test-nightly", "publish-test-results", "github-cache-save"} ->
             NeedsOk(r, j) /\ MustBuild(r)
      [] j = "publish_summary" -> MustBuild(r)
      [] OTHER -> NeedsOk(r, j)

Ready(r, u) ==
    /\ phase[r] = "active"
    /\ st[r][u] = "waiting"
    /\ \A n \in Needs(u[1]) : Finished(r, n)

Inputs(r) == <<sha[r], lock[r]>>

\* run_hash
Key(r) == Inputs(r)

Init ==
    /\ phase = [r \in Runs |-> "idle"]
    /\ attempt = [r \in Runs |-> 0]
    /\ sha \in [Runs -> Shas]
    /\ lock = [r \in Runs |-> "none"]
    /\ hit = [r \in Runs |-> FALSE]
    /\ st = [r \in Runs |-> [u \in Units |-> "waiting"]]
    /\ markers = {}

-----------------------------------------------------------------------------
(* The concurrency group of build-yocto.yml: one run per revision, the     *)
(* newest wins.                                                            *)

\* What cancelling leaves of a run: an always() job of a started run still runs.
Cancelled(r) ==
    [u \in Units |->
        IF /\ st[r][u] = "waiting" /\ u[1] \in BuildJobs
           /\ ~(u[1] = "publish_summary" /\ phase[r] = "active")
        THEN "cancelled" ELSE st[r][u]]

InGroup(r, q) == q # r /\ sha[q] = sha[r] /\ phase[q] # "idle" /\ ~BuildFinished(q)

\* r enters its group with the job states s; whoever is there is cancelled.
Enter(r, s) ==
    /\ phase' = [phase EXCEPT ![r] = "pending"]
    /\ attempt' = [attempt EXCEPT ![r] = @ + 1]
    /\ st' = [q \in Runs |-> IF q = r THEN s
                             ELSE IF InGroup(r, q) THEN Cancelled(q) ELSE st[q]]

Trigger(r) ==
    /\ phase[r] = "idle"
    /\ Enter(r, st[r])
    /\ UNCHANGED <<sha, lock, hit, markers>>

\* Mutant: the caller is in the concurrency group too, so a run waits for itself.
M_Activate(r) ==
    /\ phase[r] = "pending"
    /\ \A q \in Runs : ~(sha[q] = sha[r] /\ phase[q] # "idle" /\ ~BuildFinished(q))
    /\ phase' = [phase EXCEPT ![r] = "active"]
    /\ UNCHANGED <<attempt, sha, lock, hit, st, markers>>

Activate(r) ==
    /\ phase[r] = "pending"
    /\ \A q \in Runs : ~(InGroup(r, q) /\ phase[q] = "active")
    /\ phase' = [phase EXCEPT ![r] = "active"]
    /\ UNCHANGED <<attempt, sha, lock, hit, st, markers>>

\* Failed jobs and cancelled runs there are right now.
Mishaps == Cardinality({x \in Runs \X Units : st[x[1]][x[2]] = "failure"})
         + Cardinality({r \in Runs : \E u \in Units : st[r][u] = "cancelled"})

Cancel(r) ==
    /\ Mishaps < MaxMishaps
    /\ phase[r] # "idle" /\ ~BuildFinished(r)
    /\ st' = [st EXCEPT ![r] = Cancelled(r)]
    /\ UNCHANGED <<phase, attempt, sha, lock, hit, markers>>

\* "Re-run failed jobs": what failed or was cancelled and all that needs it.
\* Jobs that were skipped for a cache hit are evaluated again and skipped again.
\* A run whose build is through only repeats its tests, outside the group.
Again(r, u) ==
    st[r][u] # "success" \/ (u[1] = "publish_summary" /\ ~NeedsOk(r, u[1]))

Rerun(r) ==
    LET s == [u \in Units |-> IF Again(r, u) THEN "waiting" ELSE st[r][u]]
    IN  /\ RunFinished(r) /\ attempt[r] < MaxAttempts
        /\ \E u \in Units : st[r][u] \in {"failure", "cancelled"}
        /\ \/ ~BuildOk(r) /\ Enter(r, s)
           \/ /\ BuildOk(r)
              /\ attempt' = [attempt EXCEPT ![r] = @ + 1]
              /\ st' = [st EXCEPT ![r] = [u \in Units |->
                     IF u[1] \in CallerJobs THEN s[u] ELSE @[u]]]
              /\ UNCHANGED phase
        /\ UNCHANGED <<sha, lock, hit, markers>>

-----------------------------------------------------------------------------
(* Jobs.  A job is one step: its inputs are settled when it starts.        *)

SetUnit(r, u, outcome) == st' = [st EXCEPT ![r][u] = outcome]
Pass(r, u) == SetUnit(r, u, "success")
Fail(r, u) == Mishaps < MaxMishaps /\ SetUnit(r, u, "failure")

\* Every job whose needs are settled and whose if: is false.
Skipped(r) == {u \in Units : Ready(r, u) /\ ~Condition(r, u[1])}
Skip(r) ==
    /\ Skipped(r) # {}
    /\ st' = [st EXCEPT ![r] = [u \in Units |-> IF u \in Skipped(r) THEN "skipped" ELSE @[u]]]
    /\ UNCHANGED <<phase, attempt, sha, lock, hit, markers>>

\* kas lock resolves the branches of the other layers as they are right now.
KasSetup(r) ==
    LET u == <<"kas-setup", "single">>
    IN  /\ Ready(r, u) /\ Condition(r, u[1])
        /\ \/ Pass(r, u) /\ lock' \in {[lock EXCEPT ![r] = l] : l \in Locks}
           \/ Fail(r, u) /\ UNCHANGED lock
        /\ UNCHANGED <<phase, attempt, sha, hit, markers>>

\* Mutant: the lookup falls back to any marker of the revision, as restore-keys does.
M_CacheCheck(r) ==
    LET u == <<"github-cache-check", "single">>
    IN  /\ Ready(r, u) /\ Condition(r, u[1])
        /\ \/ Pass(r, u) /\ hit' = [hit EXCEPT ![r] = \E k \in markers : k[1] = sha[r]]
           \/ Fail(r, u) /\ UNCHANGED hit
        /\ UNCHANGED <<phase, attempt, sha, lock, markers>>

CacheCheck(r) ==
    LET u == <<"github-cache-check", "single">>
    IN  /\ Ready(r, u) /\ Condition(r, u[1])
        /\ \/ Pass(r, u) /\ hit' = [hit EXCEPT ![r] = Key(r) \in markers]
           \/ Fail(r, u) /\ UNCHANGED hit
        /\ UNCHANGED <<phase, attempt, sha, lock, markers>>

\* fail-fast: true in compile_warm_up: the first failure cancels the other legs.
WarmUpLeg(r, l) ==
    LET u == <<"compile_warm_up", l>>
    IN  /\ Ready(r, u) /\ Condition(r, u[1])
        /\ \/ Pass(r, u)
           \/ /\ Mishaps < MaxMishaps
              /\ st' = [st EXCEPT ![r] = [v \in Units |->
                    IF v = u THEN "failure"
                    ELSE IF v[1] = u[1] /\ @[v] = "waiting" THEN "cancelled" ELSE @[v]]]
        /\ UNCHANGED <<phase, attempt, sha, lock, hit, markers>>

\* actions/cache/save only warns when the entry cannot be stored.
CacheSave(r) ==
    LET u == <<"github-cache-save", "single">>
    IN  /\ Ready(r, u) /\ Condition(r, u[1])
        /\ \/ Pass(r, u) /\ markers' \in {markers, markers \cup {Key(r)}}
           \/ Fail(r, u) /\ UNCHANGED markers
        /\ UNCHANGED <<phase, attempt, sha, lock, hit>>

\* The jobs with no effect on the state but their result.
PlainJobs == Jobs \ {"kas-setup", "github-cache-check", "compile_warm_up",
                     "github-cache-save"}
RunJob(r, u) ==
    /\ u[1] \in PlainJobs
    /\ Ready(r, u) /\ Condition(r, u[1])
    /\ \/ Pass(r, u)
       \/ Fail(r, u)
    /\ UNCHANGED <<phase, attempt, sha, lock, hit, markers>>

\* GitHub drops cache entries by age and size.
Evict(k) ==
    /\ k \in markers
    /\ markers' = markers \ {k}
    /\ UNCHANGED <<phase, attempt, sha, lock, hit, st>>

Progress(r) ==
    \/ Activate(r)
    \/ KasSetup(r) \/ CacheCheck(r) \/ CacheSave(r)
    \/ \E l \in WarmLegs : WarmUpLeg(r, l)
    \/ Skip(r)
    \/ \E u \in Units : RunJob(r, u)

Next ==
    \/ \E r \in Runs : Trigger(r) \/ Progress(r) \/ Cancel(r) \/ Rerun(r)
    \/ \E k \in markers : Evict(k)

Spec == Init /\ [][Next]_vars

\* Runners are there for every job that is ready.
FairSpec == Spec /\ \A r \in Runs : WF_vars(Progress(r))

-----------------------------------------------------------------------------
(* Properties.                                                             *)

\* The state's types; a run that has looked up its key has a lock file.
TypeOK ==
    /\ phase \in [Runs -> {"idle", "pending", "active"}]
    /\ attempt \in [Runs -> 0 .. MaxAttempts]
    /\ sha \in [Runs -> Shas]
    /\ lock \in [Runs -> Locks \cup {"none"}]
    /\ hit \in [Runs -> BOOLEAN]
    /\ st \in [Runs -> [Units -> Outcomes \cup {"waiting"}]]
    /\ markers \subseteq Shas \X Locks
    /\ \A r \in Runs : Succeeded(r, "github-cache-check") => lock[r] \in Locks

\* Every leg of both matrices and the SDK are through.
Built(r) == \A j \in {"compile_warm_up", "compile_sdk", "compile"} : Succeeded(r, j)

\* A marker stands for a complete build of exactly the inputs in its key: some
\* run on that revision and lock file has all of its compile jobs succeeded.
MarkerSound == \A k \in markers : \E r \in Runs : Inputs(r) = k /\ Built(r)

\* A run that skips its matrix ("the github cache recorded a previously-
\* successful build for the same inputs") is covered by another run's build of
\* the same inputs, even when markers are evicted, runs overlap on a revision
\* and lock files move between them.
SkipSound ==
    \A r \in Runs : hit[r] => \E q \in Runs \ {r} : Inputs(q) = Inputs(r) /\ Built(q)

\* Tests start only on a build that is complete: all compile jobs and the
\* layer checks of the same run succeeded, in whatever attempt.
TestedBuildComplete ==
    \A r \in Runs :
        st[r][<<"test-nightly", "single">>] \in {"success", "failure"}
            => Built(r) /\ Succeeded(r, "yocto-run-checks")

\* All jobs of a run, in all its attempts, build the lock file that was hashed
\* into its key: it never changes once the key has been looked up.
InputsFrozen ==
    [][\A r \in Runs : Succeeded(r, "github-cache-check")
          => lock'[r] = lock[r] /\ hit'[r] = hit[r]]_vars

\* Nobody waits on everybody: each triggered run comes to an end, through
\* cancelled groups, skipped needs and re-runs.
RunsFinish == \A r \in Runs : phase[r] # "idle" ~> RunFinished(r)

\* The input skip_if_github_cached promises to skip only what "a previously-
\* successful run for the same inputs" has covered: some other run on the same
\* inputs is built and has not failed its layer checks.
SkipsSuccessfulRun ==
    \A r \in Runs : hit[r] =>
        \E q \in Runs \ {r} : /\ Inputs(q) = Inputs(r) /\ Built(q)
                             /\ st[q][<<"yocto-run-checks", "single">>] # "failure"
=============================================================================
