----------------------------- MODULE PrPipeline -----------------------------
(***************************************************************************)
(* One pull request: pr.yml builds each commit pushed to it, in the        *)
(* concurrency group of build-yocto.yml; the end of every build starts     *)
(* test-pr.yml and test-pr-wrynose.yml, of which the one for the target    *)
(* branch tests the build and comments.  A test run is taken by what       *)
(* TestContract promises: it ends with a comment or without one.           *)
(***************************************************************************)
EXTENDS Naturals, Sequences

CONSTANTS
    Branches,   \* target branches, each with its test workflow
    MaxCommit,  \* bound: commits pushed to the pull request
    PrAttempts  \* bound: attempts of one build run

ASSUME CommitsAssumption == MaxCommit \in Nat /\ PrAttempts \in Nat \ {0}

Commits == 1 .. MaxCommit

VARIABLES
    head,     \* the newest commit, 0 before the first push
    base,     \* target branch in the event file of each build
    build,    \* state of the "Build on PR" run of each commit
    attempts, \* its run attempt
    begun,    \* builds that had ended when it began to build
    ended,    \* builds that have ended
    tests,    \* test runs: one per workflow and end of a build
    comments  \* comments on the pull request, in order

prVars == <<head, base, build, attempts, begun, ended, tests, comments>>

PrInit ==
    /\ head = 0
    /\ base \in [Commits -> Branches]
    /\ build = [c \in Commits |-> "none"]
    /\ attempts = [c \in Commits |-> 0]
    /\ begun = [c \in Commits |-> 0]
    /\ ended = 0
    /\ tests = {} /\ comments = <<>>

-----------------------------------------------------------------------------
(* pr.yml and the concurrency group pr-<number>, cancel-in-progress: true. *)

\* Mutant: the group is named after the commit.
M_Group(c) == {}

\* The other builds of the pull request.
Group(c) == Commits \ {c}

\* Mutant: without cancel-in-progress, the newcomer gives way.
M_EnterBuild(c) ==
    /\ build' = [build EXCEPT ![c] =
           IF \E q \in Group(c) : build[q] \in {"pending", "building"}
           THEN "cancelling" ELSE "pending"]
    /\ attempts' = [attempts EXCEPT ![c] = @ + 1]
    /\ UNCHANGED <<begun, ended, tests, comments>>

EnterBuild(c) ==
    /\ build' = [q \in Commits |->
           CASE q = c -> "pending"
             [] q \in Group(c) /\ build[q] \in {"pending", "building"} -> "cancelling"
             [] OTHER -> build[q]]
    /\ attempts' = [attempts EXCEPT ![c] = @ + 1]
    /\ UNCHANGED <<begun, ended, tests, comments>>

Push ==
    /\ head < MaxCommit
    /\ head' = head + 1
    /\ EnterBuild(head')
    /\ UNCHANGED base

\* Any run may be run again, also that of a commit no longer at the head.
RerunBuild(c) ==
    /\ build[c] \in {"success", "failure", "cancelled"}
    /\ attempts[c] < PrAttempts
    /\ EnterBuild(c)
    /\ UNCHANGED <<head, base>>

BeginBuild(c) ==
    /\ build[c] = "pending"
    /\ \A q \in Group(c) : build[q] \notin {"building", "cancelling"}
    /\ build' = [build EXCEPT ![c] = "building"]
    /\ begun' = [begun EXCEPT ![c] = ended]
    /\ UNCHANGED <<head, base, attempts, ended, tests, comments>>

\* Mutant: the workflows listen to "requested", which has no conclusion yet.
M_Heard(c, conclusion) ==
    [run : {[commit |-> c, attempt |-> attempts[c], begun |-> begun[c], ended |-> ended + 1,
             conclusion |-> "none"]},
     branch : Branches, state : {"queued"}]

\* workflow_run, completed: both test workflows hear of it.
Heard(c, conclusion) ==
    [run : {[commit |-> c, attempt |-> attempts[c], begun |-> begun[c], ended |-> ended + 1,
             conclusion |-> conclusion]},
     branch : Branches, state : {"queued"}]

EndBuild(c) ==
    /\ \E s \in {"success", "failure", "cancelled"} :
           /\ build[c] = IF s = "cancelled" THEN "cancelling" ELSE "building"
           /\ build' = [build EXCEPT ![c] = s]
           /\ tests' = tests \cup Heard(c, s)
    /\ ended' = ended + 1
    /\ UNCHANGED <<head, base, attempts, begun, comments>>

-----------------------------------------------------------------------------
(* test-pr.yml and test-pr-wrynose.yml.                                    *)

Move(t, s) == tests' = (tests \ {t}) \cup {[t EXCEPT !.state = s]}

\* The if: of the job test; the branch comes from the event file of the build.
ToTest(t) == t.run.conclusion = "success" /\ base[t.run.commit] = t.branch

\* determine-target-branch, then test or nothing; the download may fail.
Determine(t) ==
    /\ t.state = "queued"
    /\ Move(t, IF ToTest(t) THEN "testing" ELSE "over") \/ Move(t, "over")
    /\ UNCHANGED <<head, base, build, attempts, begun, ended, comments>>

\* comment-on-pr names the commit that was built, whatever the head is by now.
Report(t) ==
    /\ t.state = "testing"
    /\ \/ Move(t, "reported") /\ comments' = Append(comments, t.run)
       \/ Move(t, "over") /\ UNCHANGED comments
    /\ UNCHANGED <<head, base, build, attempts, begun, ended>>

PrNext ==
    \/ Push
    \/ \E c \in Commits : RerunBuild(c) \/ BeginBuild(c) \/ EndBuild(c)
    \/ \E t \in tests : Determine(t) \/ Report(t)

PrSpec == PrInit /\ [][PrNext]_prVars

\* GitHub starts what is ready; pushes and re-runs are up to people.
Serve == \/ \E c \in Commits : BeginBuild(c) \/ EndBuild(c)
         \/ \E t \in tests : Determine(t) \/ Report(t)

-----------------------------------------------------------------------------
(* Properties.                                                             *)

BuildStates == {"none", "pending", "building", "cancelling", "success", "failure", "cancelled"}
Times == 0 .. MaxCommit * PrAttempts
Builds == [commit : Commits, attempt : 1 .. PrAttempts, begun : Times, ended : Times,
           conclusion : {"success", "failure", "cancelled"}]

\* The types of the state.
PrTypeOK ==
    /\ head \in 0 .. MaxCommit /\ base \in [Commits -> Branches]
    /\ build \in [Commits -> BuildStates]
    /\ attempts \in [Commits -> 0 .. PrAttempts]
    /\ begun \in [Commits -> Times] /\ ended \in Times
    /\ tests \subseteq [run : Builds, branch : Branches,
                        state : {"queued", "testing", "over", "reported"}]
    /\ comments \in Seq(Builds)

\* Results of a superseded commit may be posted after those of a newer one only
\* for a build that was through before the newer one began, or was run again:
\* builds of two commits of a pull request never overlap to be reported both.
StaleBuiltFirst ==
    \A i, j \in DOMAIN comments :
        /\ i < j
        /\ comments[j].commit < comments[i].commit
        /\ comments[j].attempt = 1
        => comments[j].ended <= comments[i].begun

\* However many workflows hear of its end, a build is reported at most once, and
\* only if it was successful.
ReportedOnce ==
    \A i, j \in DOMAIN comments :
        /\ comments[i].conclusion = "success"
        /\ i # j => comments[i].commit # comments[j].commit
                    \/ comments[i].attempt # comments[j].attempt

\* The comments on a pull request never mislead: none is doubled, none is of a
\* build that failed, and one on an older commit never overtakes a newer build.
CommentsSound == StaleBuiltFirst /\ ReportedOnce

\* The build of the newest commit is cancelled only by someone running an older
\* commit again; pushes and late endings of older builds do not reach it.
HeadBuilt ==
    head # 0 /\ build[head] \in {"cancelling", "cancelled"} =>
        \E c \in 1 .. head - 1 : attempts[c] > 1

\* Every successful build, for whichever branch, ends up tested: reported, or
\* with a test run that failed.
BuildsTested ==
    <>[](\A c \in Commits : build[c] = "success" =>
             \E t \in tests : /\ t.run.commit = c /\ t.run.conclusion = "success"
                              /\ t.state \in {"reported", "over"}
                              /\ t.run.attempt = attempts[c] /\ t.branch = base[c])
=============================================================================
