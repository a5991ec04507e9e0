--------------------------- MODULE WorkflowProofs ----------------------------
(***************************************************************************)
(* The pull request, for any number of commits, attempts and target        *)
(* branches: its types, only a person running an older commit again can    *)
(* cancel the build of the newest one, and the comments never mislead.     *)
(*                                                                         *)
(* The test run, for any calls, boards and job files: its types, what the  *)
(* boot gate and the summaries say of the jobs, that it keeps              *)
(* TestContract, that it is never stuck and that each step brings it       *)
(* nearer to its end.  The check of rendered jobs, for any number of       *)
(* files: the exit status counts what the walk has seen.                   *)
(*                                                                         *)
(* The three together, as MCWorkflows runs them.                           *)
(***************************************************************************)
EXTENDS MCWorkflows, FiniteSetTheorems, TLAPS

-----------------------------------------------------------------------------
(* The pull request, for any number of commits, attempts and branches.     *)

\* The part of the state that decides which build is cancelled.
BuildsInv ==
    /\ head \in 0 .. MaxCommit
    /\ build \in [Commits -> BuildStates]
    /\ attempts \in [Commits -> Nat]

\* A commit that was pushed has been built at least once, any other never.
PushedInv ==
    \A c \in Commits :
        IF c <= head THEN attempts[c] >= 1 ELSE attempts[c] = 0 /\ build[c] = "none"

\* HeadBuilt is not inductive: that the older commit was built before it was run
\* again is in PushedInv.
HeadInv == BuildsInv /\ PushedInv /\ HeadBuilt

\* What every way into the concurrency group does to runs and attempts.
LEMMA Entering ==
    ASSUME HeadInv, NEW c \in Commits, EnterBuild(c)
    PROVE  /\ build' \in [Commits -> BuildStates]
           /\ attempts' \in [Commits -> Nat]
           /\ build'[c] = "pending" /\ attempts'[c] = attempts[c] + 1
           /\ \A q \in Commits \ {c} :
                  attempts'[q] = attempts[q] /\ (build[q] = "none" => build'[q] = "none")
BY DEF HeadInv, BuildsInv, EnterBuild, BuildStates, Group

LEMMA HeadInductive == HeadInv /\ [PrNext]_prVars => HeadInv'
<1> SUFFICES ASSUME HeadInv, [PrNext]_prVars PROVE HeadInv'
    OBVIOUS
<1> USE CommitsAssumption
<1>1. CASE Push
  <2>1. head' = head + 1 /\ head' \in Commits /\ head' \in 0 .. MaxCommit
    BY <1>1 DEF Push, HeadInv, BuildsInv, Commits
  <2>2. EnterBuild(head')
    BY <1>1 DEF Push
  <2> DEFINE n == head'
  <2>3. /\ BuildsInv' /\ build'[n] = "pending" /\ attempts'[n] = attempts[n] + 1
        /\ \A q \in Commits \ {n} :
               attempts'[q] = attempts[q] /\ (build[q] = "none" => build'[q] = "none")
    <3> HIDE DEF n
    <3>1. n \in Commits /\ EnterBuild(n) /\ n = head'
      BY <2>1, <2>2 DEF n
    <3> QED BY <3>1, <2>1, Entering DEF BuildsInv
  <2>4. PushedInv'
    BY <2>1, <2>3 DEF PushedInv, HeadInv, BuildsInv, Commits
  <2>5. HeadBuilt'
    BY <2>3 DEF HeadBuilt
  <2> QED BY <2>3, <2>4, <2>5 DEF HeadInv
<1>2. ASSUME NEW c \in Commits, RerunBuild(c) PROVE HeadInv'
  <2>1. EnterBuild(c) /\ build[c] # "none" /\ head' = head
    BY <1>2 DEF RerunBuild
  <2>2. c <= head
    BY <2>1 DEF HeadInv, PushedInv
  <2>3. BuildsInv'
    BY <2>1, Entering DEF HeadInv, BuildsInv
  <2>4. PushedInv'
    <3>1. attempts'[c] >= 1
      BY <2>1, Entering DEF HeadInv, BuildsInv
    <3>2. ASSUME NEW q \in Commits \ {c}
          PROVE  IF q <= head THEN attempts'[q] >= 1
                 ELSE attempts'[q] = 0 /\ build'[q] = "none"
      BY <2>1, Entering DEF HeadInv, PushedInv
    <3> QED BY <2>1, <2>2, <3>1, <3>2 DEF PushedInv
  <2>5. HeadBuilt'
    <3>1. CASE c = head
      BY <3>1, <2>1, Entering DEF HeadBuilt
    <3>2. CASE c # head
      <4>1. c \in 1 .. head - 1 /\ attempts'[c] > 1
        BY <3>2, <2>1, <2>2, Entering DEF HeadInv, PushedInv, BuildsInv, Commits
      <4> QED BY <4>1, <2>1 DEF HeadBuilt
    <3> QED BY <3>1, <3>2
  <2> QED BY <2>3, <2>4, <2>5 DEF HeadInv
<1>3. ASSUME NEW c \in Commits, BeginBuild(c) PROVE HeadInv'
  BY <1>3 DEF BeginBuild, HeadInv, BuildsInv, PushedInv, HeadBuilt, BuildStates, Commits
<1>4. ASSUME NEW c \in Commits, EndBuild(c) PROVE HeadInv'
  <2>1. PICK s \in {"success", "failure", "cancelled"} :
            /\ build[c] = IF s = "cancelled" THEN "cancelling" ELSE "building"
            /\ build' = [build EXCEPT ![c] = s]
    BY <1>4 DEF EndBuild
  <2>2. head' = head /\ attempts' = attempts
    BY <1>4 DEF EndBuild
  <2>3. BuildsInv' /\ PushedInv'
    BY <2>1, <2>2 DEF HeadInv, BuildsInv, PushedInv, BuildStates
  <2>4. HeadBuilt'
    BY <2>1, <2>2 DEF HeadInv, BuildsInv, HeadBuilt, Commits
  <2> QED BY <2>3, <2>4 DEF HeadInv
<1>5. ASSUME NEW t \in tests, Determine(t) \/ Report(t) PROVE HeadInv'
  BY <1>5 DEF Determine, Report, HeadInv, BuildsInv, PushedInv, HeadBuilt
<1>6. CASE UNCHANGED prVars
  BY <1>6 DEF prVars, HeadInv, BuildsInv, PushedInv, HeadBuilt
<1> QED BY <1>1, <1>2, <1>3, <1>4, <1>5, <1>6 DEF PrNext

\* HeadBuilt: neither a push nor the late end of an older build cancels the build
\* of the newest commit, whatever the order of pushes, re-runs and endings.
THEOREM NewestBuilt == PrSpec => []HeadBuilt
<1>1. PrInit => HeadInv
  BY CommitsAssumption DEF PrInit, HeadInv, BuildsInv, PushedInv, HeadBuilt, BuildStates, Commits
<1>2. HeadInv => HeadBuilt
  BY DEF HeadInv
<1> QED BY <1>1, <1>2, HeadInductive, PTL DEF PrSpec
-----------------------------------------------------------------------------
(* The comments.  Their order says nothing by itself: it is the builds     *)
(* that follow each other.  A first attempt that a push overtakes is       *)
(* cancelled (OvertakenInv), so it has ended before any newer commit       *)
(* begins to build (OrderInv).  An attempt ends once (RunsInv, OnceInv),   *)
(* and of the workflows that hear of it one may test it (TestsInv).        *)

RunResults == {"success", "failure", "cancelled"}
Runs == [commit : Commits, attempt : Nat, begun : Nat, ended : Nat, conclusion : RunResults]
TestStates == {"queued", "testing", "over", "reported"}

ReportTypes ==
    /\ ended \in Nat /\ begun \in [Commits -> Nat] /\ base \in [Commits -> Branches]
    /\ tests \subseteq [run : Runs, branch : Branches, state : TestStates]
    /\ comments \in Seq(Runs)

EndedRuns == {t.run : t \in tests}

RunsInv ==
    \A r \in EndedRuns :
        /\ r.commit <= head /\ r.ended <= ended /\ r.attempt <= attempts[r.commit]
        /\ build[r.commit] \in {"pending", "building", "cancelling"} =>
               r.attempt # attempts[r.commit]

OnceInv ==
    \A r, s \in EndedRuns : r.commit = s.commit /\ r.attempt = s.attempt => r = s

OvertakenInv ==
    \A c \in Commits : c < head /\ attempts[c] = 1 => build[c] \notin {"pending", "building"}

OrderInv ==
    \A r \in EndedRuns : r.conclusion = "success" /\ r.attempt = 1 =>
        /\ \A c \in Commits : build[c] = "building" /\ r.commit < c => r.ended <= begun[c]
        /\ \A s \in EndedRuns :
               r.commit < s.commit /\ s.conclusion = "success" => r.ended <= s.begun

TestsInv ==
    /\ \A t, u \in tests : t.run = u.run /\ t.branch = u.branch => t = u
    /\ \A t \in tests : t.state \in {"testing", "reported"} => ToTest(t)

CommentsInv ==
    \A i \in DOMAIN comments : \E t \in tests : t.run = comments[i] /\ t.state = "reported"

ReportInv ==
    /\ HeadInv /\ ReportTypes /\ RunsInv /\ OnceInv /\ OvertakenInv /\ OrderInv
    /\ TestsInv /\ CommentsInv /\ ReportedOnce

LEMMA InitReport == PrInit => ReportInv
<1> SUFFICES ASSUME PrInit PROVE ReportInv
  OBVIOUS
<1>1. HeadInv
  BY CommitsAssumption DEF PrInit, HeadInv, BuildsInv, PushedInv, HeadBuilt, BuildStates, Commits
<1>2. EndedRuns = {} /\ tests = {} /\ DOMAIN comments = {}
  BY DEF PrInit, EndedRuns
<1>3. ReportTypes
  BY DEF PrInit, ReportTypes
<1>4. RunsInv /\ OnceInv /\ OrderInv /\ TestsInv /\ CommentsInv /\ ReportedOnce
  BY <1>2 DEF RunsInv, OnceInv, OrderInv, TestsInv, CommentsInv, ReportedOnce
<1>5. OvertakenInv
  BY CommitsAssumption DEF PrInit, OvertakenInv, Commits
<1>6. QED
  BY <1>1, <1>3, <1>4, <1>5 DEF ReportInv

\* The ways the list of ended builds moves: when one more has ended.
LEMMA StepRuns ==
    ASSUME ReportInv, PrNext
    PROVE  \/ EndedRuns' = EndedRuns /\ ended' = ended
           \/ \E c \in Commits, s \in RunResults :
                 /\ EndBuild(c)
                 /\ build[c] = IF s = "cancelled" THEN "cancelling" ELSE "building"
                 /\ build' = [build EXCEPT ![c] = s]
                 /\ EndedRuns' \subseteq EndedRuns \cup
                       {[commit |-> c, attempt |-> attempts[c], begun |-> begun[c],
                         ended |-> ended + 1, conclusion |-> s]}
<1>1. CASE Push \/ \E c \in Commits : RerunBuild(c) \/ BeginBuild(c)
  <2>1. tests' = tests /\ ended' = ended
    BY <1>1 DEF Push, RerunBuild, BeginBuild, EnterBuild
  <2>2. QED
    BY <2>1 DEF EndedRuns
<1>2. ASSUME NEW c \in Commits, EndBuild(c)
      PROVE  \E s \in RunResults :
                 /\ build[c] = IF s = "cancelled" THEN "cancelling" ELSE "building"
                 /\ build' = [build EXCEPT ![c] = s]
                 /\ EndedRuns' \subseteq EndedRuns \cup
                       {[commit |-> c, attempt |-> attempts[c], begun |-> begun[c],
                         ended |-> ended + 1, conclusion |-> s]}
  <2>1. PICK s \in RunResults :
            /\ build[c] = IF s = "cancelled" THEN "cancelling" ELSE "building"
            /\ build' = [build EXCEPT ![c] = s]
            /\ tests' = tests \cup Heard(c, s)
    BY <1>2 DEF EndBuild, RunResults
  <2> DEFINE r == [commit |-> c, attempt |-> attempts[c], begun |-> begun[c],
                   ended |-> ended + 1, conclusion |-> s]
  <2>2. \A t \in Heard(c, s) : t.run = r
    BY DEF Heard
  <2> HIDE DEF r
  <2>3. EndedRuns' \subseteq EndedRuns \cup {r}
    BY <2>1, <2>2 DEF EndedRuns
  <2>4. QED
    BY <2>1, <2>3 DEF r
<1>3. ASSUME NEW t \in tests, Determine(t) \/ Report(t)
      PROVE  EndedRuns' = EndedRuns /\ ended' = ended
  <2>1. PICK s \in TestStates : tests' = (tests \ {t}) \cup {[t EXCEPT !.state = s]}
    BY <1>3 DEF Determine, Report, Move, TestStates
  <2>2. [t EXCEPT !.state = s].run = t.run
    BY DEF ReportInv, ReportTypes
  <2>3. QED
    BY <1>3, <2>1, <2>2 DEF EndedRuns, Determine, Report
<1>4. QED
  BY <1>1, <1>2, <1>3 DEF PrNext

LEMMA RunTypes ==
    ASSUME ReportTypes, NEW r \in EndedRuns
    PROVE  /\ r \in Runs /\ r.commit \in Commits /\ r.attempt \in Nat
           /\ r.begun \in Nat /\ r.ended \in Nat /\ r.conclusion \in RunResults
<1>1. r \in Runs
  BY DEF EndedRuns, ReportTypes
<1>2. QED
  BY <1>1 DEF Runs

LEMMA NextTypes == ASSUME ReportInv, PrNext PROVE ReportTypes'
<1> USE DEF ReportInv, ReportTypes
<1>1. CASE Push \/ \E c \in Commits : RerunBuild(c) \/ BeginBuild(c)
  BY <1>1 DEF Push, RerunBuild, BeginBuild, EnterBuild
<1>2. ASSUME NEW c \in Commits, EndBuild(c) PROVE ReportTypes'
  <2>1. PICK s \in RunResults : tests' = tests \cup Heard(c, s)
    BY <1>2 DEF EndBuild, RunResults
  <2>2. [commit |-> c, attempt |-> attempts[c], begun |-> begun[c], ended |-> ended + 1,
         conclusion |-> s] \in Runs
    BY DEF Runs, HeadInv, BuildsInv
  <2>3. Heard(c, s) \subseteq [run : Runs, branch : Branches, state : TestStates]
    BY <2>2 DEF Heard, TestStates
  <2>4. QED
    BY <1>2, <2>1, <2>3 DEF EndBuild
<1>3. ASSUME NEW t \in tests, Determine(t) \/ Report(t) PROVE ReportTypes'
  <2>1. PICK s \in TestStates : tests' = (tests \ {t}) \cup {[t EXCEPT !.state = s]}
    BY <1>3 DEF Determine, Report, Move, TestStates
  <2>2. /\ t.run \in Runs
        /\ [t EXCEPT !.state = s] \in [run : Runs, branch : Branches, state : TestStates]
    OBVIOUS
  <2>3. comments' \in Seq(Runs)
    <3>1. comments' = comments \/ comments' = Append(comments, t.run)
      BY <1>3 DEF Determine, Report
    <3>2. comments \in Seq(Runs) /\ t.run \in Runs
      BY <2>2
    <3>3. Append(comments, t.run) \in Seq(Runs)
      BY ONLY <3>2
    <3>4. QED
      BY <3>1, <3>2, <3>3
  <2>4. QED
    BY <1>3, <2>1, <2>2, <2>3 DEF Determine, Report
<1>4. QED
  BY <1>1, <1>2, <1>3 DEF PrNext

\* What an entry into the concurrency group does: the newcomer waits, what was
\* waiting or building is on its way out.
LEMMA Entered ==
    ASSUME BuildsInv, NEW c \in Commits, EnterBuild(c)
    PROVE  /\ build'[c] = "pending" /\ attempts'[c] = attempts[c] + 1
           /\ \A q \in Commits \ {c} :
                 /\ attempts'[q] = attempts[q]
                 /\ build'[q] = IF build[q] \in {"pending", "building"}
                                THEN "cancelling" ELSE build[q]
           /\ UNCHANGED <<begun, ended, tests, comments>>
BY DEF BuildsInv, EnterBuild, Group

\* A push overtakes what is under way, and nothing older comes back at its
\* first attempt.
LEMMA NextOvertaken == ASSUME ReportInv, PrNext PROVE OvertakenInv'
<1> USE DEF ReportInv, HeadInv
<1>0. BuildsInv /\ head \in Nat
  BY DEF BuildsInv
<1>1. CASE Push
  <2>1. /\ EnterBuild(head + 1) /\ head' = head + 1 /\ head + 1 \in Commits
    BY <1>1, CommitsAssumption DEF Push, BuildsInv, Commits
  <2>2. ASSUME NEW q \in Commits, q < head + 1
        PROVE  build'[q] \notin {"pending", "building"}
    BY <1>0, <2>1, <2>2, Entered DEF Commits
  <2>3. QED
    BY <2>1, <2>2 DEF OvertakenInv
<1>2. ASSUME NEW c \in Commits, RerunBuild(c) PROVE OvertakenInv'
  <2>1. EnterBuild(c) /\ head' = head /\ attempts[c] >= 1 /\ attempts[c] \in Nat
    BY <1>2 DEF RerunBuild, PushedInv, BuildsInv
  <2>2. attempts'[c] # 1
    BY <1>0, <2>1, Entered
  <2>3. ASSUME NEW q \in Commits \ {c}
        PROVE  /\ attempts'[q] = attempts[q]
               /\ build[q] \notin {"pending", "building"} =>
                      build'[q] \notin {"pending", "building"}
    BY <1>0, <2>1, Entered
  <2>4. QED
    BY <2>1, <2>2, <2>3 DEF OvertakenInv
<1>3. ASSUME NEW c \in Commits, BeginBuild(c) PROVE OvertakenInv'
  BY <1>3 DEF BeginBuild, BuildsInv, OvertakenInv
<1>4. ASSUME NEW c \in Commits, EndBuild(c) PROVE OvertakenInv'
  BY <1>4 DEF EndBuild, BuildsInv, OvertakenInv
<1>5. ASSUME NEW t \in tests, Determine(t) \/ Report(t) PROVE OvertakenInv'
  BY <1>5 DEF Determine, Report, OvertakenInv
<1>6. QED
  BY <1>1, <1>2, <1>3, <1>4, <1>5 DEF PrNext

\* An attempt ends once, and the list knows no commit or attempt to come.
LEMMA NextRuns == ASSUME ReportInv, PrNext PROVE RunsInv' /\ OnceInv'
<1> USE DEF ReportInv
<1>1. /\ BuildsInv /\ PushedInv /\ head \in Nat /\ ended \in Nat
      /\ \A c \in Commits : c \in Nat /\ attempts[c] \in Nat
  BY DEF HeadInv, BuildsInv, ReportTypes, Commits
<1>2. \A r \in EndedRuns : /\ r.commit \in Commits /\ r.attempt \in Nat /\ r.ended \in Nat
                           /\ r.commit <= head /\ r.ended <= ended
                           /\ r.attempt <= attempts[r.commit]
  BY RunTypes DEF RunsInv
<1>3. ASSUME NEW c \in Commits, EnterBuild(c), EndedRuns' = EndedRuns, ended' = ended,
             head' \in Nat, head <= head'
      PROVE  RunsInv' /\ OnceInv'
  <2>1. ASSUME NEW r \in EndedRuns
        PROVE  /\ r.commit <= head' /\ r.ended <= ended'
               /\ r.attempt <= attempts'[r.commit]
               /\ build'[r.commit] \in {"pending", "building", "cancelling"} =>
                      r.attempt # attempts'[r.commit]
    <3>1. r.commit <= head'
      BY <1>1, <1>2, <1>3
    <3>2. CASE r.commit = c
      BY <1>1, <1>2, <1>3, <3>1, <3>2, Entered
    <3>3. CASE r.commit # c
      <4>1. /\ attempts'[r.commit] = attempts[r.commit]
            /\ build'[r.commit] = IF build[r.commit] \in {"pending", "building"}
                                  THEN "cancelling" ELSE build[r.commit]
        BY <1>1, <1>2, <1>3, <3>3, Entered
      <4>2. QED
        BY <1>2, <1>3, <3>1, <4>1 DEF RunsInv
    <3>4. QED
      BY <3>2, <3>3
  <2>2. RunsInv'
    BY <1>3, <2>1 DEF RunsInv
  <2>3. QED
    BY <1>3, <2>2 DEF OnceInv
<1>4. CASE Push
  <2>1. EnterBuild(head + 1) /\ head' = head + 1 /\ head + 1 \in Commits /\ tests' = tests
    BY <1>4, <1>1, CommitsAssumption DEF Push, EnterBuild, Commits
  <2>2. EndedRuns' = EndedRuns /\ ended' = ended
    BY <2>1 DEF EndedRuns, EnterBuild
  <2>3. QED
    BY <1>1, <1>3, <2>1, <2>2
<1>5. ASSUME NEW c \in Commits, RerunBuild(c) PROVE RunsInv' /\ OnceInv'
  <2>1. EnterBuild(c) /\ head' = head /\ EndedRuns' = EndedRuns /\ ended' = ended
    BY <1>5 DEF RerunBuild, EnterBuild, EndedRuns
  <2>2. QED
    BY <1>1, <1>3, <2>1
<1>6. ASSUME NEW c \in Commits, BeginBuild(c) PROVE RunsInv' /\ OnceInv'
  <2>1. /\ EndedRuns' = EndedRuns /\ UNCHANGED <<ended, head, attempts>>
        /\ build[c] = "pending" /\ build' = [build EXCEPT ![c] = "building"]
    BY <1>6 DEF BeginBuild, EndedRuns
  <2>2. ASSUME NEW q \in Commits, build'[q] \in {"pending", "building", "cancelling"}
        PROVE  build[q] \in {"pending", "building", "cancelling"}
    BY <1>1, <2>1, <2>2 DEF BuildsInv
  <2>3. RunsInv'
    BY <1>2, <2>1, <2>2 DEF RunsInv
  <2>4. QED
    BY <2>1, <2>3 DEF OnceInv
<1>7. ASSUME NEW c \in Commits, EndBuild(c) PROVE RunsInv' /\ OnceInv'
  <2>1. PICK d \in Commits, s \in RunResults :
                 /\ EndBuild(d)
                 /\ build[d] = IF s = "cancelled" THEN "cancelling" ELSE "building"
                 /\ build' = [build EXCEPT ![d] = s]
                 /\ EndedRuns' \subseteq EndedRuns \cup
                       {[commit |-> d, attempt |-> attempts[d], begun |-> begun[d],
                         ended |-> ended + 1, conclusion |-> s]}
    <3>1. ended' # ended
      BY <1>1, <1>7 DEF EndBuild
    <3>2. QED
      BY <3>1, StepRuns
  <2> DEFINE new == [commit |-> d, attempt |-> attempts[d], begun |-> begun[d],
                     ended |-> ended + 1, conclusion |-> s]
  <2>2. /\ new.commit = d /\ new.attempt = attempts[d] /\ new.ended = ended + 1
        /\ EndedRuns' \subseteq EndedRuns \cup {new}
    BY <2>1
  <2>3. head' = head /\ attempts' = attempts /\ ended' = ended + 1 /\ d <= head
    BY <1>1, <2>1 DEF EndBuild, PushedInv
  <2> HIDE DEF new
  <2>4. ASSUME NEW r \in EndedRuns, r.commit = d PROVE r.attempt # attempts[d]
    BY <2>1, <2>4 DEF RunsInv
  <2>5. ASSUME NEW q \in Commits, build'[q] \in {"pending", "building", "cancelling"}
        PROVE  q # d /\ build[q] = build'[q]
    BY <1>1, <2>1, <2>5 DEF BuildsInv, RunResults
  <2>6. ASSUME NEW r \in EndedRuns'
        PROVE  /\ r.commit <= head' /\ r.ended <= ended'
               /\ r.attempt <= attempts'[r.commit]
               /\ build'[r.commit] \in {"pending", "building", "cancelling"} =>
                      r.attempt # attempts'[r.commit]
    <3>1. CASE r = new
      BY <1>1, <2>2, <2>3, <2>5, <3>1
    <3>2. CASE r \in EndedRuns
      BY <1>1, <1>2, <2>3, <2>5, <3>2 DEF RunsInv
    <3>3. QED
      BY <2>2, <3>1, <3>2
  <2>7. OnceInv'
    BY <2>2, <2>4 DEF OnceInv
  <2>8. QED
    BY <2>6, <2>7 DEF RunsInv
<1>8. ASSUME NEW t \in tests, Determine(t) \/ Report(t) PROVE RunsInv' /\ OnceInv'
  <2>1. UNCHANGED <<head, build, attempts, ended>>
    BY <1>8 DEF Determine, Report
  <2>2. EndedRuns' = EndedRuns
    <3>1. \A c \in Commits : ~EndBuild(c)
      BY <1>1, <2>1 DEF EndBuild
    <3>2. QED
      BY <3>1, StepRuns
  <2>3. QED
    BY <2>1, <2>2 DEF RunsInv, OnceInv
<1>9. QED
  BY <1>4, <1>5, <1>6, <1>7, <1>8 DEF PrNext

\* No newer build begins before a first attempt that succeeds has ended.
LEMMA NextOrder == ASSUME ReportInv, PrNext PROVE OrderInv'
<1> USE DEF ReportInv
<1>1. /\ BuildsInv /\ PushedInv /\ head \in Nat /\ ended \in Nat
      /\ \A c \in Commits : c \in Nat /\ attempts[c] \in Nat /\ begun[c] \in Nat
  BY DEF HeadInv, BuildsInv, ReportTypes, Commits
<1>2. \A r \in EndedRuns : /\ r.commit \in Commits /\ r.ended \in Nat /\ r.begun \in Nat
                           /\ r.commit <= head /\ r.ended <= ended
  BY RunTypes DEF RunsInv
<1>3. CASE EndedRuns' = EndedRuns /\ ended' = ended
  <2>1. ASSUME NEW c \in Commits, build'[c] = "building"
        PROVE  begun'[c] = ended \/ (build[c] = "building" /\ begun'[c] = begun[c])
    <3>1. CASE Push \/ \E q \in Commits : RerunBuild(q)
      <4>1. PICK q \in Commits : EnterBuild(q)
        <5>1. Push => EnterBuild(head + 1) /\ head + 1 \in Commits
          BY <1>1, CommitsAssumption DEF Push, Commits
        <5>2. QED
          BY <3>1, <5>1 DEF RerunBuild
      <4>2. build'[c] # "building"
        BY <1>1, <4>1, Entered
      <4>3. QED
        BY <2>1, <4>2
    <3>2. ASSUME NEW q \in Commits, BeginBuild(q)
          PROVE  begun'[c] = ended \/ (build[c] = "building" /\ begun'[c] = begun[c])
      <4>1. /\ build' = [build EXCEPT ![q] = "building"]
            /\ begun' = [begun EXCEPT ![q] = ended]
            /\ DOMAIN build = Commits /\ DOMAIN begun = Commits
        BY <3>2 DEF BeginBuild, HeadInv, BuildsInv, ReportTypes
      <4>2. begun'[q] = ended
        BY <4>1
      <4>3. c # q => build'[c] = build[c] /\ begun'[c] = begun[c]
        BY <4>1
      <4>4. QED
        BY <2>1, <4>2, <4>3
    <3>3. ASSUME NEW q \in Commits, EndBuild(q) PROVE FALSE
      BY <1>1, <1>3, <3>3 DEF EndBuild
    <3>4. CASE \E t \in tests : Determine(t) \/ Report(t)
      BY <2>1, <3>4 DEF Determine, Report
    <3>5. QED
      BY <3>1, <3>2, <3>3, <3>4 DEF PrNext
  <2>2. ASSUME NEW r \in EndedRuns, r.conclusion = "success", r.attempt = 1,
               NEW c \in Commits, build'[c] = "building", r.commit < c
        PROVE  r.ended <= begun'[c]
    BY <1>1, <1>2, <2>1, <2>2 DEF OrderInv
  <2>3. QED
    BY <1>3, <2>2 DEF OrderInv
<1>4. ASSUME NEW c \in Commits, NEW s \in RunResults,
             /\ EndBuild(c)
             /\ build[c] = IF s = "cancelled" THEN "cancelling" ELSE "building"
             /\ build' = [build EXCEPT ![c] = s]
             /\ EndedRuns' \subseteq EndedRuns \cup
                   {[commit |-> c, attempt |-> attempts[c], begun |-> begun[c],
                     ended |-> ended + 1, conclusion |-> s]}
      PROVE  OrderInv'
  <2> DEFINE new == [commit |-> c, attempt |-> attempts[c], begun |-> begun[c],
                     ended |-> ended + 1, conclusion |-> s]
  <2>1. /\ new.commit = c /\ new.attempt = attempts[c] /\ new.begun = begun[c]
        /\ new.conclusion = s /\ EndedRuns' \subseteq EndedRuns \cup {new}
    BY <1>4
  <2>2. begun' = begun /\ (s = "success" => build[c] = "building")
    BY <1>4 DEF EndBuild
  <2> HIDE DEF new
  <2>3. s = "success" /\ attempts[c] = 1 => c = head
    BY <1>1, <2>2 DEF OvertakenInv, PushedInv
  <2>4. ASSUME NEW q \in Commits, build'[q] = "building" PROVE build[q] = "building" /\ q <= head
    <3>1. build[q] = "building"
      BY <1>1, <1>4, <2>4 DEF BuildsInv, RunResults
    <3>2. QED
      BY <1>1, <3>1 DEF PushedInv
  <2>5. ASSUME NEW r \in EndedRuns', r.conclusion = "success", r.attempt = 1
        PROVE  /\ \A q \in Commits : build'[q] = "building" /\ r.commit < q => r.ended <= begun'[q]
               /\ \A u \in EndedRuns' :
                      r.commit < u.commit /\ u.conclusion = "success" => r.ended <= u.begun
    <3>1. CASE r = new
      <4>1. r.commit = head
        BY <2>1, <2>3, <2>5, <3>1
      <4>2. \A q \in Commits : build'[q] = "building" => ~(r.commit < q)
        BY <1>1, <2>4, <4>1
      <4>3. \A u \in EndedRuns' : u.commit \in Nat /\ u.commit <= head
        BY <1>1, <1>2, <2>1, <3>1, <4>1
      <4>4. \A u \in EndedRuns' : ~(r.commit < u.commit)
        BY <1>1, <4>1, <4>3
      <4>5. QED
        BY <4>2, <4>4
    <3>2. CASE r \in EndedRuns
      <4>1. \A q \in Commits : build'[q] = "building" /\ r.commit < q => r.ended <= begun'[q]
        BY <2>2, <2>4, <2>5, <3>2 DEF OrderInv
      <4>2. ASSUME NEW u \in EndedRuns', r.commit < u.commit, u.conclusion = "success"
            PROVE  r.ended <= u.begun
        BY <2>1, <2>2, <2>5, <3>2, <4>2 DEF OrderInv
      <4>3. QED
        BY <4>1, <4>2
    <3>3. QED
      BY <2>1, <3>1, <3>2
  <2>6. QED
    BY <2>5 DEF OrderInv
<1>5. QED
  BY <1>3, <1>4, StepRuns

\* Of the workflows that hear of the end of a build, that of its branch tests
\* it: a build that is reported was tested once.
LEMMA NextTests == ASSUME ReportInv, PrNext PROVE TestsInv' /\ CommentsInv' /\ ReportedOnce'
<1> USE DEF ReportInv
<1>0. /\ base' = base
      /\ \A t \in tests : /\ t \in [run : Runs, branch : Branches, state : TestStates]
                          /\ t.run \in EndedRuns
  BY DEF PrNext, Push, RerunBuild, BeginBuild, EndBuild, Determine, Report, ReportTypes, EndedRuns
<1>1. CASE Push \/ \E c \in Commits : RerunBuild(c) \/ BeginBuild(c)
  <2>1. tests' = tests /\ comments' = comments
    BY <1>1 DEF Push, RerunBuild, BeginBuild, EnterBuild
  <2>2. QED
    BY <1>0, <2>1 DEF TestsInv, CommentsInv, ReportedOnce, ToTest
<1>2. ASSUME NEW c \in Commits, EndBuild(c) PROVE TestsInv' /\ CommentsInv' /\ ReportedOnce'
  <2>1. PICK s \in RunResults :
            /\ build[c] = IF s = "cancelled" THEN "cancelling" ELSE "building"
            /\ tests' = tests \cup Heard(c, s)
    BY <1>2 DEF EndBuild, RunResults
  <2>2. ASSUME NEW t \in Heard(c, s)
        PROVE  /\ t.run.commit = c /\ t.run.attempt = attempts[c] /\ t.state = "queued"
               /\ \A u \in Heard(c, s) : t.branch = u.branch => t = u
    BY DEF Heard
  <2>3. ASSUME NEW t \in tests, NEW u \in Heard(c, s) PROVE t.run # u.run
    <3>1. t.run.commit = c => t.run.attempt # attempts[c]
      BY <1>0, <2>1 DEF RunsInv
    <3>2. QED
      BY <2>2, <3>1
  <2>4. TestsInv'
    BY <1>0, <2>1, <2>2, <2>3 DEF TestsInv, ToTest
  <2>5. comments' = comments
    BY <1>2 DEF EndBuild
  <2>6. QED
    BY <2>1, <2>4, <2>5 DEF CommentsInv, ReportedOnce
<1>3. ASSUME NEW t \in tests, Determine(t) \/ Report(t)
      PROVE  TestsInv' /\ CommentsInv' /\ ReportedOnce'
  <2>1. PICK s \in TestStates : /\ tests' = (tests \ {t}) \cup {[t EXCEPT !.state = s]}
                                /\ s \in {"testing", "reported"} => ToTest(t)
                                /\ t.state # "reported"
                                /\ \/ comments' = comments
                                   \/ /\ t.state = "testing" /\ s = "reported"
                                      /\ comments' = Append(comments, t.run)
    BY <1>3 DEF Determine, Report, Move, TestStates, TestsInv
  <2> DEFINE v == [t EXCEPT !.state = s]
  <2>2. v.run = t.run /\ v.branch = t.branch /\ v.state = s
    BY <1>0
  <2>3. tests' = (tests \ {t}) \cup {v}
    BY <2>1
  <2> HIDE DEF v
  <2>4. TestsInv'
    <3>1. \A u \in tests : u.run = v.run /\ u.branch = v.branch => u = t
      BY <2>2 DEF TestsInv
    <3>2. ToTest(v) = ToTest(t)
      BY <2>2 DEF ToTest
    <3>3. \A u : ToTest(u)' = ToTest(u)
      BY <1>0 DEF ToTest
    <3>4. QED
      BY <2>1, <2>2, <2>3, <3>1, <3>2, <3>3 DEF TestsInv
  <2>5. ASSUME NEW i \in DOMAIN comments
        PROVE  \E u \in tests' : u.run = comments[i] /\ u.state = "reported"
    BY <2>1, <2>3 DEF CommentsInv
  <2>6. CASE comments' = comments
    BY <2>4, <2>5, <2>6 DEF CommentsInv, ReportedOnce
  <2>7. CASE t.state = "testing" /\ s = "reported" /\ comments' = Append(comments, t.run)
    <3>1. comments \in Seq(Runs) /\ t.run \in Runs
      BY <1>0 DEF ReportTypes
    <3>2. /\ DOMAIN comments' = DOMAIN comments \cup {Len(comments) + 1}
          /\ comments'[Len(comments) + 1] = t.run
          /\ \A i \in DOMAIN comments : comments'[i] = comments[i]
      BY ONLY <2>7, <3>1
    <3>3. CommentsInv'
      BY <2>2, <2>3, <2>5, <2>7, <3>2 DEF CommentsInv
    <3>4. ToTest(t)
      BY <2>7 DEF TestsInv
    <3>5. ASSUME NEW i \in DOMAIN comments, comments[i].commit = t.run.commit,
                 comments[i].attempt = t.run.attempt
          PROVE  FALSE
      <4>1. PICK u \in tests : u.run = comments[i] /\ u.state = "reported"
        BY DEF CommentsInv
      <4>2. u.run = t.run
        BY <1>0, <3>5, <4>1 DEF OnceInv
      <4>3. u.branch = t.branch
        BY <3>4, <4>1, <4>2 DEF TestsInv, ToTest
      <4>4. QED
        BY <2>7, <4>1, <4>2, <4>3 DEF TestsInv
    <3>6. ReportedOnce'
      BY <3>2, <3>4, <3>5 DEF ReportedOnce, ToTest
    <3>7. QED
      BY <2>4, <3>3, <3>6
  <2>8. QED
    BY <2>1, <2>6, <2>7
<1>4. QED
  BY <1>1, <1>2, <1>3 DEF PrNext

LEMMA NextReport == ReportInv /\ [PrNext]_prVars => ReportInv'
<1> SUFFICES ASSUME ReportInv, [PrNext]_prVars PROVE ReportInv'
  OBVIOUS
<1>1. CASE PrNext
  BY <1>1, HeadInductive, NextTypes, NextOvertaken, NextRuns, NextOrder, NextTests DEF ReportInv
<1>2. CASE UNCHANGED prVars
  <2>1. HeadInv'
    BY HeadInductive DEF ReportInv
  <2>2. QED
    BY <1>2, <2>1 DEF ReportInv, ReportTypes, RunsInv, OnceInv, OvertakenInv, OrderInv, TestsInv,
                      CommentsInv, ReportedOnce, EndedRuns, ToTest, prVars
<1>3. QED
  BY <1>1, <1>2

\* CommentsSound: no comment is doubled, none is of a build that failed, and one
\* on an older commit never overtakes a newer build, whatever is pushed, run
\* again, cancelled and delayed.
THEOREM CommentsNeverMislead == PrSpec => []CommentsSound
<1>1. PrInit => ReportInv
  BY InitReport
<1>2. ReportInv /\ [PrNext]_prVars => ReportInv'
  BY NextReport
<1>3. ReportInv => CommentsSound
  <2> SUFFICES ASSUME ReportInv PROVE CommentsSound
    OBVIOUS
  <2>1. ASSUME NEW i \in DOMAIN comments PROVE comments[i] \in EndedRuns
    BY DEF ReportInv, CommentsInv, EndedRuns
  <2>2. \A i \in DOMAIN comments : comments[i].conclusion = "success"
    BY DEF ReportInv, ReportedOnce
  <2>3. StaleBuiltFirst
    BY <2>1, <2>2 DEF ReportInv, OrderInv, StaleBuiltFirst
  <2>4. QED
    BY <2>3 DEF ReportInv, CommentsSound
<1>4. QED
  BY <1>1, <1>2, <1>3, PTL DEF PrSpec

-----------------------------------------------------------------------------
(* The bounds of the types: no attempt ends twice, so that as many builds  *)
(* have ended as there are attempts that are through, and there are at     *)
(* most PrAttempts of each commit.                                         *)

Through(c, n) ==
    \/ n < attempts[c]
    \/ n = attempts[c] /\ build[c] \in RunResults

EndedAttempts == {p \in Commits \X (1 .. PrAttempts) : Through(p[1], p[2])}

CountedInv ==
    /\ attempts \in [Commits -> 0 .. PrAttempts]
    /\ ended = Cardinality(EndedAttempts)

TimesInv ==
    /\ \A c \in Commits : begun[c] <= ended
    /\ \A r \in EndedRuns : r.attempt >= 1 /\ r.begun <= ended

\* There are as many ends of builds as the bounds of the model allow attempts.
LEMMA EndsBounded ==
    /\ IsFiniteSet(EndedAttempts) /\ Cardinality(EndedAttempts) \in Nat
    /\ Cardinality(EndedAttempts) <= MaxCommit * PrAttempts
<1>1. /\ IsFiniteSet(Commits) /\ Cardinality(Commits) = MaxCommit
      /\ IsFiniteSet(1 .. PrAttempts) /\ Cardinality(1 .. PrAttempts) = PrAttempts
  BY CommitsAssumption, FS_Interval DEF Commits
<1>2. /\ IsFiniteSet(Commits \X (1 .. PrAttempts))
      /\ Cardinality(Commits \X (1 .. PrAttempts)) = MaxCommit * PrAttempts
  BY <1>1, FS_Product
<1>3. EndedAttempts \in SUBSET (Commits \X (1 .. PrAttempts))
  BY DEF EndedAttempts
<1>4. /\ IsFiniteSet(EndedAttempts)
      /\ Cardinality(EndedAttempts) <= Cardinality(Commits \X (1 .. PrAttempts))
  BY <1>2, <1>3, FS_Subset
<1>5. QED
  BY <1>2, <1>4, FS_CardinalityType

\* The list is the same when the same attempts are through.
LEMMA SameEnds ==
    ASSUME \A c \in Commits, n \in 1 .. PrAttempts : Through(c, n)' <=> Through(c, n)
    PROVE  EndedAttempts' = EndedAttempts
BY DEF EndedAttempts

\* A new attempt, of a commit whose last one is through, ends none.
LEMMA EnterCounted ==
    ASSUME HeadInv, CountedInv, NEW c \in Commits, EnterBuild(c),
           attempts[c] = 0 \/ build[c] \in RunResults, attempts[c] < PrAttempts
    PROVE  CountedInv'
<1> USE CommitsAssumption
<1>1. BuildsInv
  BY DEF HeadInv
<1>2. /\ build'[c] = "pending" /\ attempts'[c] = attempts[c] + 1 /\ ended' = ended
      /\ \A q \in Commits \ {c} :
             /\ attempts'[q] = attempts[q]
             /\ build'[q] = IF build[q] \in {"pending", "building"}
                            THEN "cancelling" ELSE build[q]
  BY <1>1, Entered
<1>3. attempts' \in [Commits -> 0 .. PrAttempts]
  BY DEF CountedInv, EnterBuild
<1>4. \A q \in Commits : attempts[q] \in 0 .. PrAttempts
  BY DEF CountedInv
<1>5. ASSUME NEW q \in Commits, NEW n \in 1 .. PrAttempts
      PROVE  Through(q, n)' <=> Through(q, n)
  <2>1. CASE q = c
    BY <1>2, <1>4, <2>1 DEF RunResults, Through
  <2>2. CASE q # c
    BY <1>2, <2>2 DEF RunResults, Through
  <2>3. QED
    BY <2>1, <2>2
<1>6. EndedAttempts' = EndedAttempts
  BY <1>5, SameEnds
<1>7. QED
  BY <1>2, <1>3, <1>6 DEF CountedInv

\* The end of a build is the end of the last attempt of its commit.
LEMMA EndCounted ==
    ASSUME HeadInv, CountedInv, NEW c \in Commits, EndBuild(c)
    PROVE  CountedInv'
<1> USE CommitsAssumption
<1>1. PICK s \in RunResults :
          /\ build[c] = IF s = "cancelled" THEN "cancelling" ELSE "building"
          /\ build' = [build EXCEPT ![c] = s]
  BY DEF EndBuild, RunResults
<1>2. attempts' = attempts /\ ended' = ended + 1
  BY DEF EndBuild
<1>3. attempts[c] \in 1 .. PrAttempts /\ build[c] \notin RunResults
  BY <1>1 DEF HeadInv, PushedInv, BuildsInv, CountedInv, RunResults
<1>4. build'[c] \in RunResults /\ \A q \in Commits \ {c} : build'[q] = build[q]
  BY <1>1 DEF HeadInv, BuildsInv
<1> DEFINE new == <<c, attempts[c]>>
<1>5. new \in Commits \X (1 .. PrAttempts) /\ new \notin EndedAttempts
  BY <1>3 DEF EndedAttempts, Through
<1>6. EndedAttempts' = EndedAttempts \cup {new}
  <2>1. ASSUME NEW p \in Commits \X (1 .. PrAttempts)
        PROVE  Through(p[1], p[2])' <=> Through(p[1], p[2]) \/ p = new
    <3>1. p[1] \in Commits /\ p[2] \in 1 .. PrAttempts /\ p = <<p[1], p[2]>>
      OBVIOUS
    <3>2. CASE p[1] = c
      BY <1>2, <1>3, <1>4, <3>1, <3>2 DEF Through
    <3>3. CASE p[1] # c
      BY <1>2, <1>4, <3>1, <3>3 DEF Through
    <3>4. QED
      BY <3>2, <3>3
  <2>2. QED
    BY <1>5, <2>1 DEF EndedAttempts
<1>7. Cardinality(EndedAttempts') = Cardinality(EndedAttempts) + 1
  BY <1>5, <1>6, EndsBounded, FS_AddElement
<1>8. QED
  BY <1>2, <1>7 DEF CountedInv

LEMMA NextCounted == ASSUME HeadInv, CountedInv, PrNext PROVE CountedInv'
<1>1. CASE Push
  <2>1. /\ EnterBuild(head + 1) /\ head + 1 \in Commits /\ attempts[head + 1] = 0
    BY <1>1, CommitsAssumption DEF Push, HeadInv, BuildsInv, PushedInv, Commits
  <2>2. attempts[head + 1] < PrAttempts
    BY <2>1, CommitsAssumption
  <2>3. QED
    BY <2>1, <2>2, EnterCounted
<1>2. ASSUME NEW c \in Commits, RerunBuild(c) PROVE CountedInv'
  BY <1>2, EnterCounted DEF RerunBuild, RunResults
<1>3. ASSUME NEW c \in Commits, BeginBuild(c) PROVE CountedInv'
  <2>1. /\ attempts' = attempts /\ ended' = ended
        /\ \A q \in Commits : build'[q] \in RunResults <=> build[q] \in RunResults
    BY <1>3 DEF BeginBuild, HeadInv, BuildsInv, RunResults
  <2>2. EndedAttempts' = EndedAttempts
    BY <2>1, SameEnds DEF Through
  <2>3. QED
    BY <2>1, <2>2 DEF CountedInv
<1>4. ASSUME NEW c \in Commits, EndBuild(c) PROVE CountedInv'
  BY <1>4, EndCounted
<1>5. ASSUME NEW t \in tests, Determine(t) \/ Report(t) PROVE CountedInv'
  <2>1. UNCHANGED <<attempts, ended, build>>
    BY <1>5 DEF Determine, Report
  <2>2. QED
    BY <2>1 DEF CountedInv, EndedAttempts, Through
<1>6. QED
  BY <1>1, <1>2, <1>3, <1>4, <1>5 DEF PrNext

\* A build began after the builds it is compared with in its result had ended.
LEMMA NextTimes == ASSUME ReportInv, TimesInv, PrNext PROVE TimesInv'
<1>1. /\ HeadInv /\ BuildsInv /\ PushedInv /\ ReportTypes
      /\ ended \in Nat /\ begun \in [Commits -> Nat] /\ attempts \in [Commits -> Nat]
  BY DEF ReportInv, ReportTypes, HeadInv, BuildsInv
<1>2. \A r \in EndedRuns : r.begun \in Nat
  BY <1>1, RunTypes
<1>3. CASE EndedRuns' = EndedRuns /\ ended' = ended
  <2>1. ASSUME NEW c \in Commits PROVE begun'[c] <= ended
    <3>1. CASE begun' = begun
      BY <3>1 DEF TimesInv
    <3>2. ASSUME NEW q \in Commits, begun' = [begun EXCEPT ![q] = ended]
          PROVE  begun'[c] <= ended
      BY <1>1, <3>2 DEF TimesInv
    <3>3. QED
      BY <3>1, <3>2 DEF PrNext, Push, RerunBuild, EnterBuild, BeginBuild, EndBuild,
                        Determine, Report
  <2>2. QED
    BY <1>3, <2>1 DEF TimesInv
<1>4. ASSUME NEW c \in Commits, NEW s \in RunResults, EndBuild(c),
             build[c] = IF s = "cancelled" THEN "cancelling" ELSE "building",
             EndedRuns' \subseteq EndedRuns \cup
                 {[commit |-> c, attempt |-> attempts[c], begun |-> begun[c],
                   ended |-> ended + 1, conclusion |-> s]}
      PROVE  TimesInv'
  <2>1. attempts[c] >= 1 /\ ended' = ended + 1 /\ begun' = begun
    BY <1>1, <1>4 DEF EndBuild, PushedInv
  <2>2. \A q \in Commits : begun'[q] <= ended'
    BY <1>1, <2>1 DEF TimesInv
  <2>3. ASSUME NEW r \in EndedRuns' PROVE r.attempt >= 1 /\ r.begun <= ended'
    BY <1>1, <1>2, <1>4, <2>1, <2>3 DEF TimesInv
  <2>4. QED
    BY <2>2, <2>3 DEF TimesInv
<1>5. QED
  BY <1>3, <1>4, StepRuns

PrTypesInv == ReportInv /\ CountedInv /\ TimesInv

LEMMA InitPrTypes == PrInit => PrTypesInv
<1> SUFFICES ASSUME PrInit PROVE PrTypesInv
  OBVIOUS
<1>1. EndedRuns = {} /\ EndedAttempts = {}
  BY CommitsAssumption DEF PrInit, EndedRuns, EndedAttempts, Through, RunResults
<1>2. CountedInv
  BY <1>1, CommitsAssumption, FS_EmptySet DEF PrInit, CountedInv
<1>3. TimesInv
  BY <1>1 DEF PrInit, TimesInv
<1>4. QED
  BY <1>2, <1>3, InitReport DEF PrTypesInv

LEMMA NextPrTypes == PrTypesInv /\ [PrNext]_prVars => PrTypesInv'
<1> SUFFICES ASSUME PrTypesInv, [PrNext]_prVars PROVE PrTypesInv'
  OBVIOUS
<1>1. ReportInv'
  BY NextReport DEF PrTypesInv
<1>2. CASE PrNext
  BY <1>1, <1>2, NextCounted, NextTimes DEF PrTypesInv, ReportInv
<1>3. CASE UNCHANGED prVars
  BY <1>1, <1>3 DEF PrTypesInv, CountedInv, TimesInv, EndedAttempts, EndedRuns,
                   Through, prVars
<1>4. QED
  BY <1>2, <1>3

LEMMA PrTyped == PrTypesInv => PrTypeOK
<1> SUFFICES ASSUME PrTypesInv PROVE PrTypeOK
  OBVIOUS
<1> USE CommitsAssumption
<1>1. /\ ReportTypes /\ BuildsInv /\ RunsInv /\ CommentsInv /\ CountedInv /\ TimesInv
  BY DEF PrTypesInv, ReportInv, HeadInv
<1>2. ended \in Times
  BY <1>1, EndsBounded DEF CountedInv, Times
<1>3. begun \in [Commits -> Times]
  BY <1>1, <1>2 DEF ReportTypes, TimesInv, Times
<1>4. ASSUME NEW r \in EndedRuns PROVE r \in Builds
  <2>1. r \in Runs /\ r.commit \in Commits /\ r.begun \in Nat /\ r.ended \in Nat
    BY <1>1, RunTypes
  <2>2. r.attempt \in 1 .. PrAttempts
    BY <1>1, <2>1, RunTypes DEF RunsInv, TimesInv, CountedInv
  <2>3. r.begun \in Times /\ r.ended \in Times
    BY <1>1, <1>2, <2>1 DEF RunsInv, TimesInv, Times
  <2>4. QED
    BY <2>1, <2>2, <2>3 DEF Runs, Builds, RunResults
<1>5. tests \subseteq [run : Builds, branch : Branches,
                       state : {"queued", "testing", "over", "reported"}]
  BY <1>1, <1>4 DEF ReportTypes, EndedRuns, TestStates
<1>6. comments \in Seq(Builds)
  <2>1. comments \in Seq(Runs) /\ \A i \in DOMAIN comments : comments[i] \in Builds
    BY <1>1, <1>4 DEF ReportTypes, CommentsInv, EndedRuns
  <2>2. QED
    BY ONLY <2>1
<1>7. QED
  BY <1>1, <1>2, <1>3, <1>5, <1>6 DEF PrTypeOK, BuildsInv, CountedInv, ReportTypes

\* The pull request keeps its types and its bounds, for any number of commits
\* and attempts: as many builds end as there are attempts, none of them twice.
THEOREM PrTypes == PrSpec => []PrTypeOK
BY InitPrTypes, NextPrTypes, PrTyped, PTL DEF PrSpec

-----------------------------------------------------------------------------
(* The test run, for any calls, boards and job files.  A job is through    *)
(* once, and a matrix is through when none of its legs is queued; from     *)
(* then on they stay as they are (Stable).  So what a later job saw of an  *)
(* earlier one is still true when the caller looks at both.                *)

\* The matrices are functions on the calls.
Shapes == TestTypeOK /\ DOMAIN boot = Distros /\ DOMAIN pre = Distros

\* Legs come with the job that prepares them.
LegsInv ==
    \A d \in Distros :
        /\ job[d]["prepare-boot-jobs"] # "success" => DOMAIN boot[d] = {}
        /\ job[d]["prepare-premerge-jobs"] # "success" => DOMAIN pre[d] = {}

\* A LAVA job that passed has left its details.
DetailsInv ==
    \A d \in Distros :
        /\ \A t \in DOMAIN boot[d] : boot[d][t] = "success" => <<"boot", t>> \in details[d]
        /\ \A t \in DOMAIN pre[d] : pre[d][t] = "success" => <<"test", t>> \in details[d]

\* Why a job ran or was skipped.
JobsInv ==
    \A d \in Distros :
        /\ job[d]["prepare-boot-jobs"] # "skipped"
        /\ job[d]["boot-job-result"] \in {"success", "failure"} => SubmitBoot(d) = "success"
        /\ job[d]["boot-job-result"] = "skipped" => SubmitBoot(d) \in {"failure", "skipped"}
        /\ job[d]["publish-test-summary"] # "waiting" => "waiting" \notin PublishNeeds(d)
        /\ job[d]["publish-test-summary"] = "skipped" => ~Publishable(PublishNeeds(d))

\* The caller waits for every call.
CallerInv ==
    /\ collect # "waiting" => "waiting" \notin Conclusions
    /\ comment = "waiting" => posted = {}

TestInv == Shapes /\ LegsInv /\ DetailsInv /\ JobsInv /\ CallerInv /\ SummaryComplete

LEMMA Waiting ==
    ASSUME NEW prepare \in States, NEW legs
    PROVE  /\ Submitted(prepare, legs) # "waiting" => prepare # "waiting"
           /\ Submitted(prepare, legs) # "waiting" /\ prepare = "success" =>
                  \A t \in DOMAIN legs : legs[t] # "queued"
           /\ Submitted(prepare, legs) \in States
           /\ Submitted(prepare, legs) = "skipped" => prepare \in {"failure", "skipped"}
           /\ Submitted(prepare, legs) \in {"success", "failure"} => prepare = "success"
BY DEF Submitted, Matrix, States

LEMMA InitTest == TestInit => TestInv
<1> SUFFICES ASSUME TestInit PROVE TestInv
  OBVIOUS
<1> USE DEF TestInit
<1>1. \A d \in Distros : boot[d] = NoLegs /\ pre[d] = NoLegs
  OBVIOUS
<1>2. NoLegs \in [{} -> LegStates] /\ DOMAIN NoLegs = {}
  BY DEF NoLegs
<1>3. Shapes
  <2>1. /\ urls \in [Distros -> SUBSET Boards]
        /\ job \in [Distros -> [Once -> States]]
        /\ output \in [Distros -> [Boards -> {"none", "success", "failure"}]]
        /\ gate \in [Distros -> {"none", "success", "failure"}]
        /\ collect \in States /\ comment \in States /\ posted \subseteq Distros
    BY DEF States
  <2>2. details \in [Distros -> SUBSET Table] /\ summary \in [Distros -> SUBSET Table]
    OBVIOUS
  <2>3. \A d \in Distros :
           /\ boot[d] \in [DOMAIN boot[d] -> LegStates]
           /\ DOMAIN boot[d] \subseteq urls[d] \X BootPlans
           /\ pre[d] \in [DOMAIN pre[d] -> LegStates]
           /\ DOMAIN pre[d] \subseteq urls[d] \X PrePlans
    BY <1>1, <1>2
  <2>4. DOMAIN boot = Distros /\ DOMAIN pre = Distros
    OBVIOUS
  <2>5. QED
    BY <2>1, <2>2, <2>3, <2>4 DEF Shapes, TestTypeOK
<1>4. \A d \in Distros, j \in Once : job[d][j] = "waiting"
  OBVIOUS
<1>5. LegsInv /\ DetailsInv
  BY <1>1, <1>2 DEF LegsInv, DetailsInv
<1>6. JobsInv /\ SummaryComplete
  BY <1>4 DEF JobsInv, SummaryComplete, Summarised, Once
<1>7. CallerInv
  BY DEF CallerInv
<1>8. QED
  BY <1>3, <1>5, <1>6, <1>7 DEF TestInv

\* A job is through once.
LEMMA Settled ==
    ASSUME job \in [Distros -> [Once -> States]],
           NEW d \in Distros, NEW j \in Once, NEW s \in States, Settle(d, j, s)
    PROVE  /\ job' \in [Distros -> [Once -> States]]
           /\ job[d][j] = "waiting" /\ job'[d][j] = s
           /\ \A e \in Distros, k \in Once : e # d \/ k # j => job'[e][k] = job[e][k]
BY DEF Settle

\* What moves what: a job is settled by its own action, and so on.
LEMMA JobMoves ==
    ASSUME Shapes, TestNext, NEW d \in Distros, NEW j \in Once
    PROVE  \/ job'[d][j] = job[d][j]
           \/ /\ job[d][j] = "waiting"
              /\ \/ j = "prepare-boot-jobs" /\ PrepareBoot(d)
                 \/ j = "boot-job-result" /\ BootJobResult(d)
                 \/ j = "prepare-premerge-jobs" /\ PreparePremerge(d)
                 \/ j = "publish-test-summary" /\ Publish(d)
<1>0. job \in [Distros -> [Once -> States]]
  BY DEF Shapes, TestTypeOK
<1>1. ASSUME NEW e \in Distros, NEW k \in Once, NEW s \in States, Settle(e, k, s)
      PROVE  \/ job'[d][j] = job[d][j]
             \/ job[d][j] = "waiting" /\ e = d /\ k = j
  BY <1>0, <1>1, Settled
<1>2. ASSUME NEW e \in Distros, PrepareBoot(e)
      PROVE  \/ job'[d][j] = job[d][j]
             \/ job[d][j] = "waiting" /\ j = "prepare-boot-jobs" /\ PrepareBoot(d)
  <2>1. PICK s \in States : Settle(e, "prepare-boot-jobs", s)
    BY <1>2 DEF PrepareBoot, States
  <2>2. QED
    BY <1>1, <1>2, <2>1 DEF Once
<1>3. ASSUME NEW e \in Distros, BootJobResult(e)
      PROVE  \/ job'[d][j] = job[d][j]
             \/ job[d][j] = "waiting" /\ j = "boot-job-result" /\ BootJobResult(d)
  <2>1. PICK s \in States : Settle(e, "boot-job-result", s)
    BY <1>3 DEF BootJobResult, States
  <2>2. QED
    BY <1>1, <1>3, <2>1 DEF Once
<1>4. ASSUME NEW e \in Distros, PreparePremerge(e)
      PROVE  \/ job'[d][j] = job[d][j]
             \/ job[d][j] = "waiting" /\ j = "prepare-premerge-jobs" /\ PreparePremerge(d)
  <2>1. PICK s \in States : Settle(e, "prepare-premerge-jobs", s)
    BY <1>4 DEF PreparePremerge, States
  <2>2. QED
    BY <1>1, <1>4, <2>1 DEF Once
<1>5. ASSUME NEW e \in Distros, Publish(e)
      PROVE  \/ job'[d][j] = job[d][j]
             \/ job[d][j] = "waiting" /\ j = "publish-test-summary" /\ Publish(d)
  <2>1. PICK s \in States : Settle(e, "publish-test-summary", s)
    BY <1>5 DEF Publish, States
  <2>2. QED
    BY <1>1, <1>5, <2>1 DEF Once
<1>6. CASE \/ \E e \in Distros :
                 \/ \E t \in Boards \X BootPlans : BootLeg(e, t)
                 \/ \E t \in Boards \X PrePlans : PremergeLeg(e, t)
           \/ CollectIds \/ Comment
  <2>1. job' = job
    BY <1>6 DEF BootLeg, PremergeLeg, CollectIds, Comment
  <2>2. QED
    BY <2>1
<1>7. QED
  BY <1>2, <1>3, <1>4, <1>5, <1>6 DEF TestNext

LEMMA RenderedTypes ==
    ASSUME NEW d, NEW plans, NEW legs \in Rendered(d, plans)
    PROVE  /\ legs \in [DOMAIN legs -> LegStates] /\ DOMAIN legs \subseteq urls[d] \X plans
           /\ \A t \in DOMAIN legs : legs[t] = "queued"
BY DEF Rendered, LegStates

\* The end of a leg changes what its own call has, and takes nothing away.
LEMMA LegSaves ==
    ASSUME details \in [Distros -> SUBSET Table],
           NEW e \in Distros, NEW leg \in Table, NEW r, LegEnds(e, leg, r)
    PROVE  /\ details' \in [Distros -> SUBSET Table]
           /\ \A d \in Distros : details[d] \subseteq details'[d]
           /\ \A d \in Distros : d # e => details'[d] = details[d]
           /\ r = "success" => leg \in details'[e]
<1>1. CASE details' = [details EXCEPT ![e] = @ \cup {leg}]
  BY <1>1
<1>2. CASE r # "success" /\ details' = details
  BY <1>2
<1>3. QED
  BY <1>1, <1>2 DEF LegEnds

\* The legs of a boot matrix: rendered once, then each of them ends once.
LEMMA BootMoves ==
    ASSUME Shapes, TestNext, NEW d \in Distros
    PROVE  /\ DOMAIN boot' = Distros
           /\ \/ boot'[d] = boot[d]
              \/ /\ PrepareBoot(d) /\ job'[d]["prepare-boot-jobs"] = "success"
                 /\ job[d]["prepare-boot-jobs"] = "waiting"
                 /\ boot'[d] \in Rendered(d, BootPlans)
              \/ \E t \in DOMAIN boot[d], r \in {"success", "failure", "lost"} :
                    /\ boot[d][t] = "queued" /\ BootLeg(d, t)
                    /\ boot'[d] = [boot[d] EXCEPT ![t] = r]
                    /\ r = "success" => <<"boot", t>> \in details'[d]
<1> USE DEF Shapes
<1>0. job \in [Distros -> [Once -> States]] /\ "prepare-boot-jobs" \in Once
  BY DEF TestTypeOK, Once
<1>1. ASSUME NEW e \in Distros, PrepareBoot(e)
      PROVE  /\ DOMAIN boot' = Distros
             /\ \/ boot'[d] = boot[d]
                \/ /\ PrepareBoot(d) /\ job'[d]["prepare-boot-jobs"] = "success"
                   /\ job[d]["prepare-boot-jobs"] = "waiting"
                   /\ boot'[d] \in Rendered(d, BootPlans)
  <2>1. CASE UNCHANGED boot
    BY <2>1
  <2>2. CASE /\ Settle(e, "prepare-boot-jobs", "success")
             /\ \E legs \in Rendered(e, BootPlans) : boot' = [boot EXCEPT ![e] = legs]
    <3>1. /\ job'[e]["prepare-boot-jobs"] = "success"
          /\ job[e]["prepare-boot-jobs"] = "waiting"
      BY <1>0, <2>2, Settled DEF States
    <3>2. QED
      BY <1>1, <2>2, <3>1
  <2>3. QED
    BY <1>1, <2>1, <2>2 DEF PrepareBoot
<1>2. ASSUME NEW e \in Distros, NEW t \in Boards \X BootPlans, BootLeg(e, t)
      PROVE  /\ DOMAIN boot' = Distros
             /\ \/ boot'[d] = boot[d]
                \/ \E u \in DOMAIN boot[d], r \in {"success", "failure", "lost"} :
                      /\ boot[d][u] = "queued" /\ BootLeg(d, u)
                      /\ boot'[d] = [boot[d] EXCEPT ![u] = r]
                      /\ r = "success" => <<"boot", u>> \in details'[d]
  <2>1. PICK r \in {"success", "failure", "lost"} :
            boot' = [boot EXCEPT ![e][t] = r] /\ LegEnds(e, <<"boot", t>>, r)
    BY <1>2 DEF BootLeg
  <2>2. t \in DOMAIN boot[e] /\ boot[e][t] = "queued"
    BY <1>2 DEF BootLeg
  <2>3. DOMAIN boot' = Distros /\ boot'[e] = [boot[e] EXCEPT ![t] = r]
    BY <2>1
  <2>4. e # d => boot'[d] = boot[d]
    BY <2>1
  <2>5. r = "success" => <<"boot", t>> \in details'[e]
    BY <2>1, LegSaves DEF TestTypeOK, Table
  <2>6. QED
    BY <1>2, <2>2, <2>3, <2>4, <2>5
<1>3. CASE \/ \E e \in Distros : \/ BootJobResult(e) \/ PreparePremerge(e) \/ Publish(e)
                                 \/ \E t \in Boards \X PrePlans : PremergeLeg(e, t)
           \/ CollectIds \/ Comment
  <2>1. boot' = boot
    BY <1>3 DEF BootJobResult, PreparePremerge, Publish, PremergeLeg, CollectIds, Comment
  <2>2. QED
    BY <2>1
<1>4. QED
  BY <1>1, <1>2, <1>3 DEF TestNext

\* Likewise for the pre-merge tests.
LEMMA PreMoves ==
    ASSUME Shapes, TestNext, NEW d \in Distros
    PROVE  /\ DOMAIN pre' = Distros
           /\ \/ pre'[d] = pre[d]
              \/ /\ job'[d]["prepare-premerge-jobs"] = "success"
                 /\ job[d]["prepare-premerge-jobs"] = "waiting"
                 /\ pre'[d] \in Rendered(d, PrePlans)
              \/ \E t \in DOMAIN pre[d], r \in {"success", "failure", "lost"} :
                    /\ pre[d][t] = "queued" /\ pre'[d] = [pre[d] EXCEPT ![t] = r]
                    /\ r = "success" => <<"test", t>> \in details'[d]
<1> USE DEF Shapes
<1>0. job \in [Distros -> [Once -> States]] /\ "prepare-premerge-jobs" \in Once
  BY DEF TestTypeOK, Once
<1>1. ASSUME NEW e \in Distros, PreparePremerge(e)
      PROVE  /\ DOMAIN pre' = Distros
             /\ \/ pre'[d] = pre[d]
                \/ /\ job'[d]["prepare-premerge-jobs"] = "success"
                   /\ job[d]["prepare-premerge-jobs"] = "waiting"
                   /\ pre'[d] \in Rendered(d, PrePlans)
  <2>1. CASE UNCHANGED pre
    BY <2>1
  <2>2. CASE /\ Settle(e, "prepare-premerge-jobs", "success")
             /\ \E legs \in Rendered(e, PrePlans) : pre' = [pre EXCEPT ![e] = legs]
    <3>1. /\ job'[e]["prepare-premerge-jobs"] = "success"
          /\ job[e]["prepare-premerge-jobs"] = "waiting"
      BY <1>0, <2>2, Settled DEF States
    <3>2. QED
      BY <2>2, <3>1
  <2>3. QED
    BY <1>1, <2>1, <2>2 DEF PreparePremerge
<1>2. ASSUME NEW e \in Distros, NEW t \in Boards \X PrePlans, PremergeLeg(e, t)
      PROVE  /\ DOMAIN pre' = Distros
             /\ \/ pre'[d] = pre[d]
                \/ \E u \in DOMAIN pre[d], r \in {"success", "failure", "lost"} :
                      /\ pre[d][u] = "queued" /\ pre'[d] = [pre[d] EXCEPT ![u] = r]
                      /\ r = "success" => <<"test", u>> \in details'[d]
  <2>1. PICK r \in {"success", "failure", "lost"} :
            pre' = [pre EXCEPT ![e][t] = r] /\ LegEnds(e, <<"test", t>>, r)
    BY <1>2 DEF PremergeLeg
  <2>2. t \in DOMAIN pre[e] /\ pre[e][t] = "queued"
    BY <1>2 DEF PremergeLeg
  <2>3. DOMAIN pre' = Distros /\ pre'[e] = [pre[e] EXCEPT ![t] = r]
    BY <2>1
  <2>4. e # d => pre'[d] = pre[d]
    BY <2>1
  <2>5. r = "success" => <<"test", t>> \in details'[e]
    BY <2>1, LegSaves DEF TestTypeOK, Table
  <2>6. QED
    BY <2>2, <2>3, <2>4, <2>5
<1>3. CASE \/ \E e \in Distros : \/ PrepareBoot(e) \/ BootJobResult(e) \/ Publish(e)
                                 \/ \E t \in Boards \X BootPlans : BootLeg(e, t)
           \/ CollectIds \/ Comment
  <2>1. pre' = pre
    BY <1>3 DEF PrepareBoot, BootJobResult, Publish, BootLeg, CollectIds, Comment
  <2>2. QED
    BY <2>1
<1>4. QED
  BY <1>1, <1>2, <1>3 DEF TestNext

\* Details are added and never removed, and only while a leg of the call is queued.
LEMMA DetailsMove ==
    ASSUME Shapes, TestNext
    PROVE  /\ details' \in [Distros -> SUBSET Table]
           /\ \A d \in Distros :
                  /\ details[d] \subseteq details'[d]
                  /\ \/ details'[d] = details[d]
                     \/ \E t \in DOMAIN boot[d] : boot[d][t] = "queued"
                     \/ \E t \in DOMAIN pre[d] : pre[d][t] = "queued"
<1>1. details \in [Distros -> SUBSET Table]
  BY DEF Shapes, TestTypeOK
<1>2. ASSUME NEW e \in Distros, NEW t \in Boards \X BootPlans, BootLeg(e, t)
      PROVE  /\ details' \in [Distros -> SUBSET Table]
             /\ \A d \in Distros :
                    /\ details[d] \subseteq details'[d]
                    /\ details'[d] = details[d] \/ \E u \in DOMAIN boot[d] : boot[d][u] = "queued"
  <2>1. PICK r \in {"success", "failure", "lost"} : LegEnds(e, <<"boot", t>>, r)
    BY <1>2 DEF BootLeg
  <2>2. t \in DOMAIN boot[e] /\ boot[e][t] = "queued" /\ <<"boot", t>> \in Table
    BY <1>2 DEF BootLeg, Table
  <2>3. QED
    BY <1>1, <2>1, <2>2, LegSaves
<1>3. ASSUME NEW e \in Distros, NEW t \in Boards \X PrePlans, PremergeLeg(e, t)
      PROVE  /\ details' \in [Distros -> SUBSET Table]
             /\ \A d \in Distros :
                    /\ details[d] \subseteq details'[d]
                    /\ details'[d] = details[d] \/ \E u \in DOMAIN pre[d] : pre[d][u] = "queued"
  <2>1. PICK r \in {"success", "failure", "lost"} : LegEnds(e, <<"test", t>>, r)
    BY <1>3 DEF PremergeLeg
  <2>2. t \in DOMAIN pre[e] /\ pre[e][t] = "queued" /\ <<"test", t>> \in Table
    BY <1>3 DEF PremergeLeg, Table
  <2>3. QED
    BY <1>1, <2>1, <2>2, LegSaves
<1>4. CASE details' = details
  BY <1>1, <1>4
<1>5. QED
  BY <1>2, <1>3, <1>4 DEF TestNext, PrepareBoot, BootJobResult, PreparePremerge, Publish,
                          CollectIds, Comment

\* What is through stays as it is.
LEMMA Stable ==
    ASSUME TestInv, TestNext, NEW d \in Distros
    PROVE  /\ \A j \in Once : job[d][j] # "waiting" => job'[d][j] = job[d][j]
           /\ SubmitBoot(d) # "waiting" => boot'[d] = boot[d] /\ SubmitBoot(d)' = SubmitBoot(d)
           /\ SubmitPremerge(d) # "waiting" =>
                  pre'[d] = pre[d] /\ SubmitPremerge(d)' = SubmitPremerge(d)
<1> USE DEF TestInv
<1>1. \A j \in Once : job[d][j] # "waiting" => job'[d][j] = job[d][j]
  BY JobMoves
<1>2. /\ "prepare-boot-jobs" \in Once /\ "prepare-premerge-jobs" \in Once
      /\ \A j \in Once : job[d][j] \in States
  BY DEF Once, Shapes, TestTypeOK
<1>3. ASSUME SubmitBoot(d) # "waiting"
      PROVE  boot'[d] = boot[d] /\ SubmitBoot(d)' = SubmitBoot(d)
  <2>1. /\ job[d]["prepare-boot-jobs"] # "waiting"
        /\ job[d]["prepare-boot-jobs"] = "success" =>
               \A t \in DOMAIN boot[d] : boot[d][t] # "queued"
    BY <1>2, <1>3, Waiting DEF SubmitBoot
  <2>2. \A t \in DOMAIN boot[d] : boot[d][t] # "queued"
    BY <2>1 DEF LegsInv
  <2>3. boot'[d] = boot[d]
    BY <2>1, <2>2, BootMoves
  <2>4. job'[d]["prepare-boot-jobs"] = job[d]["prepare-boot-jobs"]
    BY <1>1, <1>2, <2>1
  <2>5. QED
    BY <2>3, <2>4 DEF SubmitBoot
<1>4. ASSUME SubmitPremerge(d) # "waiting"
      PROVE  pre'[d] = pre[d] /\ SubmitPremerge(d)' = SubmitPremerge(d)
  <2>1. /\ job[d]["prepare-premerge-jobs"] # "waiting"
        /\ job[d]["prepare-premerge-jobs"] = "success" =>
               \A t \in DOMAIN pre[d] : pre[d][t] # "queued"
    BY <1>2, <1>4, Waiting DEF SubmitPremerge
  <2>2. \A t \in DOMAIN pre[d] : pre[d][t] # "queued"
    BY <2>1 DEF LegsInv
  <2>3. pre'[d] = pre[d]
    BY <2>1, <2>2, PreMoves
  <2>4. job'[d]["prepare-premerge-jobs"] = job[d]["prepare-premerge-jobs"]
    BY <1>1, <1>2, <2>1
  <2>5. QED
    BY <2>3, <2>4 DEF SubmitPremerge
<1>5. QED
  BY <1>1, <1>3, <1>4

LEMMA NextLegs == ASSUME TestInv, TestNext PROVE LegsInv'
<1> USE DEF TestInv
<1>1. /\ "prepare-boot-jobs" \in Once /\ "prepare-premerge-jobs" \in Once
      /\ job \in [Distros -> [Once -> States]] /\ job' = job'
  BY DEF Once, Shapes, TestTypeOK
<1>2. ASSUME NEW d \in Distros, job'[d]["prepare-boot-jobs"] # "success"
      PROVE  DOMAIN boot'[d] = {}
  <2>1. job[d]["prepare-boot-jobs"] # "success"
    BY <1>1, <1>2, Stable
  <2>2. DOMAIN boot[d] = {}
    BY <2>1 DEF LegsInv
  <2>3. boot'[d] = boot[d]
    BY <1>2, <2>2, BootMoves
  <2>4. QED
    BY <2>2, <2>3
<1>3. ASSUME NEW d \in Distros, job'[d]["prepare-premerge-jobs"] # "success"
      PROVE  DOMAIN pre'[d] = {}
  <2>1. job[d]["prepare-premerge-jobs"] # "success"
    BY <1>1, <1>3, Stable
  <2>2. DOMAIN pre[d] = {}
    BY <2>1 DEF LegsInv
  <2>3. pre'[d] = pre[d]
    BY <1>3, <2>2, PreMoves
  <2>4. QED
    BY <2>2, <2>3
<1>4. QED
  BY <1>2, <1>3 DEF LegsInv

\* A leg that passes leaves its details, and they stay.
LEMMA NextDetails == ASSUME TestInv, TestNext PROVE DetailsInv'
<1> USE DEF TestInv
<1>1. ASSUME NEW d \in Distros, NEW t \in DOMAIN boot'[d], boot'[d][t] = "success"
      PROVE  <<"boot", t>> \in details'[d]
  <2>1. CASE t \in DOMAIN boot[d] /\ boot[d][t] = "success"
    BY <2>1, DetailsMove DEF DetailsInv
  <2>2. CASE boot'[d] \in Rendered(d, BootPlans)
    BY <1>1, <2>2, RenderedTypes
  <2>3. ASSUME NEW u \in DOMAIN boot[d], NEW r \in {"success", "failure", "lost"},
               boot'[d] = [boot[d] EXCEPT ![u] = r],
               r = "success" => <<"boot", u>> \in details'[d]
        PROVE  <<"boot", t>> \in details'[d]
    BY <1>1, <2>1, <2>3
  <2>4. QED
    BY <1>1, <2>1, <2>2, <2>3, BootMoves
<1>2. ASSUME NEW d \in Distros, NEW t \in DOMAIN pre'[d], pre'[d][t] = "success"
      PROVE  <<"test", t>> \in details'[d]
  <2>1. CASE t \in DOMAIN pre[d] /\ pre[d][t] = "success"
    BY <2>1, DetailsMove DEF DetailsInv
  <2>2. CASE pre'[d] \in Rendered(d, PrePlans)
    BY <1>2, <2>2, RenderedTypes
  <2>3. ASSUME NEW u \in DOMAIN pre[d], NEW r \in {"success", "failure", "lost"},
               pre'[d] = [pre[d] EXCEPT ![u] = r],
               r = "success" => <<"test", u>> \in details'[d]
        PROVE  <<"test", t>> \in details'[d]
    BY <1>2, <2>1, <2>3
  <2>4. QED
    BY <1>2, <2>1, <2>2, <2>3, PreMoves
<1>3. QED
  BY <1>1, <1>2 DEF DetailsInv

\* The types of the state; only boards with a URL are tested.
LEMMA NextShapes == ASSUME TestInv, TestNext PROVE Shapes'
<1> USE DEF TestInv
<1>1. urls' = urls
  BY DEF TestNext, PrepareBoot, BootLeg, BootJobResult, PreparePremerge, PremergeLeg, Publish,
         CollectIds, Comment
<1>2. DOMAIN boot' = Distros /\ DOMAIN pre' = Distros
  BY DEF TestNext, PrepareBoot, BootLeg, BootJobResult, PreparePremerge, PremergeLeg, Publish,
         CollectIds, Comment, Shapes
<1>3. job' \in [Distros -> [Once -> States]]
  <2>1. job \in [Distros -> [Once -> States]]
    BY DEF Shapes, TestTypeOK
  <2>2. CASE job' = job
    BY <2>1, <2>2
  <2>3. CASE \E d \in Distros, j \in Once, s \in States : Settle(d, j, s)
    BY <2>1, <2>3, Settled
  <2>4. job' = job \/ \E d \in Distros, j \in Once, s \in States : Settle(d, j, s)
    BY Zenon DEF TestNext, PrepareBoot, BootLeg, BootJobResult, PreparePremerge, PremergeLeg,
                 Publish, CollectIds, Comment, Once, States
  <2>5. QED
    BY <2>2, <2>3, <2>4
<1>4. ASSUME NEW d \in Distros
      PROVE  /\ boot'[d] \in [DOMAIN boot'[d] -> LegStates]
             /\ DOMAIN boot'[d] \subseteq urls[d] \X BootPlans
  <2>1. /\ boot[d] \in [DOMAIN boot[d] -> LegStates]
        /\ DOMAIN boot[d] \subseteq urls[d] \X BootPlans
    BY DEF Shapes, TestTypeOK
  <2>2. CASE boot'[d] \in Rendered(d, BootPlans)
    BY <2>2, RenderedTypes
  <2>3. ASSUME NEW t \in DOMAIN boot[d], NEW r \in {"success", "failure", "lost"},
               boot'[d] = [boot[d] EXCEPT ![t] = r]
        PROVE  /\ boot'[d] \in [DOMAIN boot[d] -> LegStates]
               /\ DOMAIN boot'[d] = DOMAIN boot[d]
    BY <2>1, <2>3 DEF LegStates
  <2>4. CASE boot'[d] = boot[d]
    BY <2>1, <2>4
  <2>5. QED
    BY <2>1, <2>2, <2>3, <2>4, BootMoves
<1>5. ASSUME NEW d \in Distros
      PROVE  /\ pre'[d] \in [DOMAIN pre'[d] -> LegStates]
             /\ DOMAIN pre'[d] \subseteq urls[d] \X PrePlans
  <2>1. /\ pre[d] \in [DOMAIN pre[d] -> LegStates]
        /\ DOMAIN pre[d] \subseteq urls[d] \X PrePlans
    BY DEF Shapes, TestTypeOK
  <2>2. CASE pre'[d] \in Rendered(d, PrePlans)
    BY <2>2, RenderedTypes
  <2>3. ASSUME NEW t \in DOMAIN pre[d], NEW r \in {"success", "failure", "lost"},
               pre'[d] = [pre[d] EXCEPT ![t] = r]
        PROVE  /\ pre'[d] \in [DOMAIN pre[d] -> LegStates]
               /\ DOMAIN pre'[d] = DOMAIN pre[d]
    BY <2>1, <2>3 DEF LegStates
  <2>4. CASE pre'[d] = pre[d]
    BY <2>1, <2>4
  <2>5. QED
    BY <2>1, <2>2, <2>3, <2>4, PreMoves
<1>6. output' \in [Distros -> [Boards -> {"none", "success", "failure"}]]
  <2>1. output \in [Distros -> [Boards -> {"none", "success", "failure"}]]
    BY DEF Shapes, TestTypeOK
  <2>2. ASSUME NEW d \in Distros, NEW t \in Boards \X BootPlans, BootLeg(d, t)
        PROVE  output' \in [Distros -> [Boards -> {"none", "success", "failure"}]]
    <3>1. t[1] \in Boards
      OBVIOUS
    <3>2. output' = output \/ \E r \in {"success", "failure"} :
                                  output' = [output EXCEPT ![d][t[1]] = r]
      BY <2>2 DEF BootLeg
    <3>3. QED
      BY <2>1, <3>1, <3>2
  <2>3. CASE output' = output
    BY <2>1, <2>3
  <2>4. QED
    BY <2>2, <2>3 DEF TestNext, PrepareBoot, BootJobResult, PreparePremerge, PremergeLeg, Publish,
                      CollectIds, Comment
<1>7. gate' \in [Distros -> {"none", "success", "failure"}]
  <2>1. gate \in [Distros -> {"none", "success", "failure"}]
    BY DEF Shapes, TestTypeOK
  <2>2. \A d \in Distros : BootJobResult(d) =>
            gate' = gate \/ \E r \in {"success", "failure"} : gate' = [gate EXCEPT ![d] = r]
    BY DEF BootJobResult, Collapsed
  <2>3. CASE gate' = gate
    BY <2>1, <2>3
  <2>4. CASE \E d \in Distros : BootJobResult(d)
    BY <2>1, <2>2, <2>4
  <2>5. QED
    BY <2>3, <2>4 DEF TestNext, PrepareBoot, BootLeg, PreparePremerge, PremergeLeg, Publish,
                      CollectIds, Comment
<1>8. details' \in [Distros -> SUBSET Table] /\ summary' \in [Distros -> SUBSET Table]
  <2>1. details \in [Distros -> SUBSET Table] /\ summary \in [Distros -> SUBSET Table]
    BY DEF Shapes, TestTypeOK
  <2>2. \A d \in Distros : Publish(d) =>
            summary' = summary \/ summary' = [summary EXCEPT ![d] = Rows(d)]
    BY DEF Publish
  <2>3. ASSUME NEW d \in Distros, Publish(d) PROVE summary' \in [Distros -> SUBSET Table]
    BY <2>1, <2>2, <2>3 DEF Rows
  <2>4. summary' \in [Distros -> SUBSET Table]
    BY <2>1, <2>3 DEF TestNext, PrepareBoot, BootLeg, BootJobResult, PreparePremerge, PremergeLeg,
                      CollectIds, Comment
  <2>5. QED
    BY <2>4, DetailsMove
<1>9. collect' \in States /\ comment' \in States /\ posted' \subseteq Distros
  BY DEF TestNext, PrepareBoot, BootLeg, BootJobResult, PreparePremerge, PremergeLeg, Publish,
         CollectIds, Comment, Shapes, TestTypeOK, States, Summarised
<1>10. TestTypeOK'
  <2>1. urls' \in [Distros -> SUBSET Boards]
    BY <1>1 DEF Shapes, TestTypeOK
  <2>2. QED
    BY <1>1, <1>3, <1>4, <1>5, <1>6, <1>7, <1>8, <1>9, <2>1 DEF TestTypeOK
<1>11. QED
  BY <1>2, <1>10 DEF Shapes

\* What a job saw of those it needs is still so when anyone looks at both.
LEMMA NextJobs == ASSUME TestInv, TestNext PROVE JobsInv'
<1> USE DEF TestInv
<1> SUFFICES ASSUME NEW d \in Distros
             PROVE  /\ job'[d]["prepare-boot-jobs"] # "skipped"
                    /\ job'[d]["boot-job-result"] \in {"success", "failure"} =>
                           SubmitBoot(d)' = "success"
                    /\ job'[d]["boot-job-result"] = "skipped" =>
                           SubmitBoot(d)' \in {"failure", "skipped"}
                    /\ job'[d]["publish-test-summary"] # "waiting" =>
                           "waiting" \notin PublishNeeds(d)'
                    /\ job'[d]["publish-test-summary"] = "skipped" =>
                           ~Publishable(PublishNeeds(d)')
  BY DEF JobsInv, Publishable
<1>1. /\ \A j \in Once : job[d][j] # "waiting" => job'[d][j] = job[d][j]
      /\ SubmitBoot(d) # "waiting" => SubmitBoot(d)' = SubmitBoot(d)
      /\ SubmitPremerge(d) # "waiting" => SubmitPremerge(d)' = SubmitPremerge(d)
  BY Stable
<1>2. /\ job \in [Distros -> [Once -> States]]
      /\ {"prepare-boot-jobs", "boot-job-result", "publish-test-summary"} \subseteq Once
  BY DEF Shapes, TestTypeOK, Once
<1>3. "waiting" \notin PublishNeeds(d) => PublishNeeds(d)' = PublishNeeds(d)
  BY <1>1, <1>2 DEF PublishNeeds
<1>4. job'[d]["prepare-boot-jobs"] # "skipped"
  <2>1. PrepareBoot(d) => job'[d]["prepare-boot-jobs"] \in {"success", "failure"}
    BY <1>2, Settled DEF PrepareBoot, States
  <2>2. QED
    BY <1>2, <2>1, JobMoves DEF JobsInv
<1>5. /\ job'[d]["boot-job-result"] \in {"success", "failure"} => SubmitBoot(d)' = "success"
      /\ job'[d]["boot-job-result"] = "skipped" => SubmitBoot(d)' \in {"failure", "skipped"}
  <2>1. CASE job'[d]["boot-job-result"] = job[d]["boot-job-result"]
    BY <1>1, <2>1 DEF JobsInv
  <2>2. CASE BootJobResult(d)
    <3>1. \/ SubmitBoot(d) = "success" /\ job'[d]["boot-job-result"] \in {"success", "failure"}
          \/ /\ SubmitBoot(d) \in {"failure", "skipped"}
             /\ job'[d]["boot-job-result"] = "skipped"
      BY <1>2, <2>2, Settled DEF BootJobResult, States
    <3>2. QED
      BY <1>1, <3>1
  <2>3. QED
    BY <1>2, <2>1, <2>2, JobMoves
<1>6. /\ job'[d]["publish-test-summary"] # "waiting" => "waiting" \notin PublishNeeds(d)'
      /\ job'[d]["publish-test-summary"] = "skipped" => ~Publishable(PublishNeeds(d)')
  <2>1. CASE job'[d]["publish-test-summary"] = job[d]["publish-test-summary"]
    BY <1>3, <2>1 DEF JobsInv
  <2>2. CASE Publish(d)
    <3>1. "waiting" \notin PublishNeeds(d)
      BY <2>2 DEF Publish
    <3>2. Publishable(PublishNeeds(d)) =>
              job'[d]["publish-test-summary"] \in {"success", "failure"}
      BY <1>2, <2>2, Settled DEF Publish, States
    <3>3. QED
      BY <1>3, <3>1, <3>2
  <2>3. QED
    BY <1>2, <2>1, <2>2, JobMoves
<1>7. QED
  BY <1>4, <1>5, <1>6

\* When the summary is published, no leg is queued any more.
LEMMA LegsThrough ==
    ASSUME TestInv, NEW d \in Distros, "waiting" \notin PublishNeeds(d)
    PROVE  /\ SubmitBoot(d) # "waiting" /\ SubmitPremerge(d) # "waiting"
           /\ \A t \in DOMAIN boot[d] : boot[d][t] # "queued"
           /\ \A t \in DOMAIN pre[d] : pre[d][t] # "queued"
<1> USE DEF TestInv
<1>1. /\ job \in [Distros -> [Once -> States]]
      /\ {"prepare-boot-jobs", "boot-job-result", "prepare-premerge-jobs"} \subseteq Once
  BY DEF Shapes, TestTypeOK, Once
<1>2. job[d]["boot-job-result"] # "waiting" /\ SubmitPremerge(d) # "waiting"
  BY DEF PublishNeeds
<1>3. SubmitBoot(d) # "waiting"
  BY <1>1, <1>2 DEF JobsInv, States
<1>4. \A t \in DOMAIN boot[d] : boot[d][t] # "queued"
  <2>1. job[d]["prepare-boot-jobs"] = "success" => \A t \in DOMAIN boot[d] : boot[d][t] # "queued"
    BY <1>1, <1>3, Waiting DEF SubmitBoot
  <2>2. QED
    BY <2>1 DEF LegsInv
<1>5. \A t \in DOMAIN pre[d] : pre[d][t] # "queued"
  <2>1. job[d]["prepare-premerge-jobs"] = "success" =>
            \A t \in DOMAIN pre[d] : pre[d][t] # "queued"
    BY <1>1, <1>2, Waiting DEF SubmitPremerge
  <2>2. QED
    BY <2>1 DEF LegsInv
<1>6. QED
  BY <1>2, <1>3, <1>4, <1>5

\* The summary is taken when all legs are through, and they stay so.
LEMMA NextSummary == ASSUME TestInv, TestNext PROVE SummaryComplete'
<1> USE DEF TestInv
<1>1. /\ job \in [Distros -> [Once -> States]] /\ "publish-test-summary" \in Once
      /\ DOMAIN summary = Distros
  BY DEF Shapes, TestTypeOK, Once
<1>2. ASSUME NEW d \in Distros, job'[d]["publish-test-summary"] = "success"
      PROVE  /\ "waiting" \notin PublishNeeds(d)
             /\ summary'[d] = details[d]
  <2>1. CASE job[d]["publish-test-summary"] = "success"
    <3>1. ~Publish(d)
      BY <2>1 DEF Publish, Settle
    <3>2. \A e \in Distros : e # d /\ Publish(e) => summary'[d] = summary[d]
      BY <1>1 DEF Publish
    <3>3. summary'[d] = summary[d]
      BY <3>1, <3>2 DEF TestNext, PrepareBoot, BootLeg, BootJobResult, PreparePremerge, PremergeLeg,
                        CollectIds, Comment
    <3>4. summary[d] = details[d]
      BY <2>1 DEF SummaryComplete, Summarised
    <3>5. QED
      BY <2>1, <3>3, <3>4 DEF JobsInv
  <2>2. CASE Publish(d)
    <3>1. CASE \E s \in {"failure", "skipped"} : Settle(d, "publish-test-summary", s)
      BY <1>1, <1>2, <3>1, Settled DEF States
    <3>2. CASE summary' = [summary EXCEPT ![d] = Rows(d)]
      BY <1>1, <2>2, <3>2 DEF Publish, Rows
    <3>3. QED
      BY <2>2, <3>1, <3>2 DEF Publish
  <2>3. QED
    BY <1>1, <1>2, <2>1, <2>2, JobMoves
<1>3. ASSUME NEW d \in Distros, job'[d]["publish-test-summary"] = "success"
      PROVE  /\ boot'[d] = boot[d] /\ pre'[d] = pre[d] /\ details'[d] = details[d]
             /\ \A t \in DOMAIN boot[d] : boot[d][t] # "queued"
             /\ \A t \in DOMAIN pre[d] : pre[d][t] # "queued"
  BY <1>2, <1>3, LegsThrough, Stable, DetailsMove
<1>4. QED
  BY <1>2, <1>3 DEF SummaryComplete, Summarised, DetailsInv

\* The caller acts when every call is through, and they stay so.
LEMMA NextCaller == ASSUME TestInv, TestNext PROVE CallerInv'
<1> USE DEF TestInv
<1>1. ASSUME NEW d \in Distros, Conclusion(d) # "waiting"
      PROVE  Conclusion(d)' = Conclusion(d)
  <2>1. "waiting" \notin Results(d)
    BY <1>1 DEF Conclusion
  <2>2. \A j \in Once : job'[d][j] = job[d][j]
    BY <2>1, Stable DEF Results
  <2>3. SubmitBoot(d)' = SubmitBoot(d) /\ SubmitPremerge(d)' = SubmitPremerge(d)
    BY <2>1, Stable DEF Results
  <2>4. Results(d)' = Results(d)
    BY <2>2, <2>3 DEF Results
  <2>5. QED
    BY <2>4 DEF Conclusion
<1>2. "waiting" \notin Conclusions => Conclusions' = Conclusions
  BY <1>1 DEF Conclusions
<1>3. collect' # "waiting" => "waiting" \notin Conclusions
  BY DEF TestNext, PrepareBoot, BootLeg, BootJobResult, PreparePremerge, PremergeLeg, Publish,
         CollectIds, Comment, CallerInv
<1>4. comment' = "waiting" => posted' = {}
  BY DEF TestNext, PrepareBoot, BootLeg, BootJobResult, PreparePremerge, PremergeLeg, Publish,
         CollectIds, Comment, CallerInv
<1>5. QED
  BY <1>2, <1>3, <1>4 DEF CallerInv

LEMMA NextTest == TestInv /\ [TestNext]_testVars => TestInv'
<1> SUFFICES ASSUME TestInv, [TestNext]_testVars PROVE TestInv'
  OBVIOUS
<1>1. CASE TestNext
  BY <1>1, NextShapes, NextLegs, NextDetails, NextJobs, NextCaller, NextSummary DEF TestInv
<1>2. CASE UNCHANGED testVars
  <2>1. /\ urls' = urls /\ job' = job /\ boot' = boot /\ pre' = pre /\ output' = output
        /\ gate' = gate /\ details' = details /\ summary' = summary /\ collect' = collect
        /\ comment' = comment /\ posted' = posted
    BY <1>2 DEF testVars
  <2>2. Shapes'
    BY <2>1 DEF TestInv, Shapes, TestTypeOK
  <2>3. LegsInv' /\ DetailsInv' /\ SummaryComplete'
    BY <2>1 DEF TestInv, LegsInv, DetailsInv, SummaryComplete, Summarised
  <2>4. \A d \in Distros :
           /\ SubmitBoot(d)' = SubmitBoot(d) /\ SubmitPremerge(d)' = SubmitPremerge(d)
           /\ PublishNeeds(d)' = PublishNeeds(d) /\ Results(d)' = Results(d)
    BY <2>1 DEF SubmitBoot, SubmitPremerge, PublishNeeds, Results
  <2>5. JobsInv'
    BY <2>1, <2>4 DEF TestInv, JobsInv, Publishable
  <2>6. \A d \in Distros : Conclusion(d)' = Conclusion(d)
    BY <2>4 DEF Conclusion
  <2>7. CallerInv'
    BY <2>1, <2>6 DEF TestInv, CallerInv, Conclusions
  <2>8. QED
    BY <2>2, <2>3, <2>5, <2>7 DEF TestInv
<1>3. QED
  BY <1>1, <1>2

\* TestTypeOK: only boards with a URL are tested, in every run of test.yml.
THEOREM TestRunTypes == TestSpec => []TestTypeOK
<1>1. TestInv => TestTypeOK
  BY DEF TestInv, Shapes
<1>2. QED
  BY <1>1, InitTest, NextTest, PTL DEF TestSpec

\* SummaryComplete: a published summary has a row for every LAVA job that left its
\* details, among them all that passed, and no job is still to come, for any number
\* of calls, boards and job files.
THEOREM SummariesComplete == TestSpec => []SummaryComplete
<1>1. TestInv => SummaryComplete
  BY DEF TestInv
<1>2. QED
  BY <1>1, InitTest, NextTest, PTL DEF TestSpec

-----------------------------------------------------------------------------
(* Refinement: with over for the end of comment-on-pr and reported for the *)
(* summaries it posted, a test run keeps TestContract.                     *)

\* A call that is through without a failure has published its summary: its boot
\* jobs ran, so that their result was there, and its pre-merge jobs ran or were
\* skipped, which is no obstacle.
LEMMA CallPublishes ==
    ASSUME TestInv, NEW d \in Distros, Conclusion(d) \notin {"waiting", "failure"}
    PROVE  d \in Summarised
<1> USE DEF TestInv
<1>1. /\ job \in [Distros -> [Once -> States]]
      /\ Once = {"prepare-boot-jobs", "boot-job-result", "prepare-premerge-jobs",
                 "publish-test-summary"}
  BY DEF Shapes, TestTypeOK, Once
<1>2. "waiting" \notin Results(d) /\ "failure" \notin Results(d)
  BY DEF Conclusion
<1>3. \A j \in Once : job[d][j] \in {"success", "skipped"}
  BY <1>1, <1>2 DEF Results, States
<1>4. SubmitBoot(d) \notin {"waiting", "failure"} /\ SubmitPremerge(d) \notin {"waiting", "failure"}
  BY <1>2 DEF Results
<1>5. job[d]["prepare-boot-jobs"] = "success"
  BY <1>1, <1>3 DEF JobsInv
<1>6. SubmitBoot(d) \in States /\ SubmitBoot(d) # "skipped"
  BY <1>1, <1>5, Waiting DEF SubmitBoot
<1>7. job[d]["boot-job-result"] = "success"
  BY <1>1, <1>3, <1>4, <1>6 DEF JobsInv
<1>8. Publishable(PublishNeeds(d))
  BY <1>4, <1>7 DEF Publishable, PublishNeeds
<1>9. job[d]["publish-test-summary"] = "success"
  BY <1>1, <1>3, <1>8 DEF JobsInv
<1>10. QED
  BY <1>9 DEF Summarised

LEMMA StepReports ==
    ASSUME TestInv, [TestNext]_testVars
    PROVE  [Contract!Report]_Contract!vars
<1> USE DEF Contract!vars, Contract!Report
<1>1. CASE Comment
  <2>1. comment = "waiting" /\ collect # "waiting" /\ comment' # "waiting"
    BY <1>1 DEF Comment
  <2>2. posted = {} /\ "waiting" \notin Conclusions
    BY <2>1 DEF TestInv, CallerInv
  <2>3. CASE posted' = posted
    BY <2>1, <2>2, <2>3
  <2>4. CASE "failure" \notin Conclusions /\ posted' = Summarised
    <3>1. \A d \in Distros : d \in Summarised
      BY <2>2, <2>4, CallPublishes DEF Conclusions
    <3>2. Summarised = Distros
      BY <3>1 DEF Summarised
    <3>3. QED
      BY <2>1, <2>4, <3>2
  <2>5. QED
    BY <1>1, <2>3, <2>4 DEF Comment
<1>2. CASE TestNext /\ ~Comment
  BY <1>2 DEF TestNext, PrepareBoot, BootLeg, BootJobResult, PreparePremerge, PremergeLeg, Publish,
              CollectIds
<1>3. CASE UNCHANGED testVars
  BY <1>3 DEF testVars
<1>4. QED
  BY <1>1, <1>2, <1>3

\* A run of test.yml implements TestContract: it ends once, and it is called
\* successful only with the summary of every call in hand.
THEOREM TestRefinement == TestSpec => ImplementsContract
<1>1. TestInit => Contract!Init
  BY DEF TestInit, Contract!Init
<1>2. QED
  BY <1>1, InitTest, NextTest, StepReports, PTL DEF TestSpec, ImplementsContract, Contract!Spec

-----------------------------------------------------------------------------
(* That a test run ends, but for the fairness of GitHub's runners: as long *)
(* as there is no comment some step is due, and each step is through with  *)
(* a job or a leg that stays through.                                      *)

\* The guards of the actions of a call.  The bound on failed jobs is none of
\* them: whatever is due may succeed or be skipped.
CallDue(d) ==
    \/ job[d]["prepare-boot-jobs"] = "waiting"
    \/ \E t \in Boards \X BootPlans : t \in DOMAIN boot[d] /\ boot[d][t] = "queued"
    \/ SubmitBoot(d) # "waiting" /\ job[d]["boot-job-result"] = "waiting"
    \/ job[d]["boot-job-result"] # "waiting" /\ job[d]["prepare-premerge-jobs"] = "waiting"
    \/ \E t \in Boards \X PrePlans : t \in DOMAIN pre[d] /\ pre[d][t] = "queued"
    \/ "waiting" \notin PublishNeeds(d) /\ job[d]["publish-test-summary"] = "waiting"

StepDue ==
    \/ \E d \in Distros : CallDue(d)
    \/ "waiting" \notin Conclusions /\ collect = "waiting"
    \/ collect # "waiting" /\ comment = "waiting"

\* What is through.
DoneJobs == {x \in Distros \X Once : job[x[1]][x[2]] # "waiting"}
DoneLegs(legs, plans) ==
    {x \in Distros \X (Boards \X plans) :
        x[2] \in DOMAIN legs[x[1]] /\ legs[x[1]][x[2]] # "queued"}
DoneAfter == {j \in {"collect", "comment"} :
                 IF j = "collect" THEN collect # "waiting" ELSE comment # "waiting"}
Done == <<DoneJobs, DoneLegs(boot, BootPlans), DoneLegs(pre, PrePlans), DoneAfter>>

Advance ==
    /\ \A i \in 1 .. 4 : Done[i] \subseteq Done'[i]
    /\ Done' # Done

\* Nothing that is due in a call: it is through.
LEMMA CallThrough ==
    ASSUME Shapes, LegsInv, JobsInv, NEW d \in Distros, ~CallDue(d)
    PROVE  "waiting" \notin Results(d)
<1>1. /\ job \in [Distros -> [Once -> States]]
      /\ DOMAIN boot[d] \subseteq Boards \X BootPlans /\ DOMAIN pre[d] \subseteq Boards \X PrePlans
      /\ Once = {"prepare-boot-jobs", "boot-job-result", "prepare-premerge-jobs",
                 "publish-test-summary"}
  BY DEF Shapes, TestTypeOK, Once
<1>2. /\ job[d]["prepare-boot-jobs"] \in States \ {"waiting"}
      /\ \A t \in DOMAIN boot[d] : boot[d][t] # "queued"
      /\ \A t \in DOMAIN pre[d] : pre[d][t] # "queued"
  BY <1>1 DEF CallDue
<1>3. SubmitBoot(d) # "waiting"
  BY <1>2 DEF SubmitBoot, Submitted, Matrix, States
<1>4. job[d]["boot-job-result"] # "waiting"
  BY <1>3 DEF CallDue
<1>5. job[d]["prepare-premerge-jobs"] \in States \ {"waiting"}
  BY <1>1, <1>4 DEF CallDue
<1>6. SubmitPremerge(d) # "waiting"
  BY <1>2, <1>5 DEF SubmitPremerge, Submitted, Matrix, States
<1>7. job[d]["publish-test-summary"] # "waiting"
  BY <1>4, <1>6 DEF CallDue, PublishNeeds
<1>8. QED
  BY <1>1, <1>2, <1>3, <1>4, <1>5, <1>6, <1>7 DEF Results

\* No combination of skipped, failed and lost jobs leaves a test run with nothing
\* to do before it has come to its comment.
THEOREM TestRunNeverStuck == TestSpec => [](comment = "waiting" => StepDue)
<1>1. TestInv => (comment = "waiting" => StepDue)
  <2> SUFFICES ASSUME TestInv, comment = "waiting", ~StepDue PROVE FALSE
    OBVIOUS
  <2>1. \A d \in Distros : "waiting" \notin Results(d)
    BY CallThrough DEF TestInv, StepDue
  <2>2. "waiting" \notin Conclusions
    BY <2>1 DEF Conclusions, Conclusion
  <2>3. QED
    BY <2>2 DEF StepDue
<1>2. QED
  BY <1>1, InitTest, NextTest, PTL DEF TestSpec

\* Jobs and legs that are through stay so.
LEMMA DoneStays ==
    ASSUME TestInv, TestNext
    PROVE  /\ DoneJobs \subseteq DoneJobs' /\ DoneAfter \subseteq DoneAfter'
           /\ DoneLegs(boot, BootPlans) \subseteq DoneLegs(boot, BootPlans)'
           /\ DoneLegs(pre, PrePlans) \subseteq DoneLegs(pre, PrePlans)'
<1> USE DEF TestInv
<1>1. DoneJobs \subseteq DoneJobs'
  <2>1. ASSUME NEW x \in Distros \X Once, job[x[1]][x[2]] # "waiting"
        PROVE  job'[x[1]][x[2]] # "waiting"
    <3>1. x[1] \in Distros /\ x[2] \in Once
      OBVIOUS
    <3>2. QED
      BY <2>1, <3>1, Stable
  <2>2. QED
    BY <2>1 DEF DoneJobs
<1>2. DoneAfter \subseteq DoneAfter'
  BY DEF DoneAfter, TestNext, PrepareBoot, BootLeg, BootJobResult, PreparePremerge, PremergeLeg,
         Publish, CollectIds, Comment, Publishable
<1>3. ASSUME NEW d \in Distros, NEW t \in DOMAIN boot[d], boot[d][t] # "queued"
      PROVE  t \in DOMAIN boot'[d] /\ boot'[d][t] # "queued"
  <2>1. CASE boot'[d] = boot[d]
    BY <1>3, <2>1
  <2>2. CASE job[d]["prepare-boot-jobs"] = "waiting"
    BY <2>2 DEF LegsInv
  <2>3. ASSUME NEW u \in DOMAIN boot[d], NEW r \in {"success", "failure", "lost"},
               boot'[d] = [boot[d] EXCEPT ![u] = r]
        PROVE  t \in DOMAIN boot'[d] /\ boot'[d][t] # "queued"
    BY <1>3, <2>3
  <2>4. QED
    BY <2>1, <2>2, <2>3, BootMoves
<1>4. ASSUME NEW d \in Distros, NEW t \in DOMAIN pre[d], pre[d][t] # "queued"
      PROVE  t \in DOMAIN pre'[d] /\ pre'[d][t] # "queued"
  <2>1. CASE pre'[d] = pre[d]
    BY <1>4, <2>1
  <2>2. CASE job[d]["prepare-premerge-jobs"] = "waiting"
    BY <2>2 DEF LegsInv
  <2>3. ASSUME NEW u \in DOMAIN pre[d], NEW r \in {"success", "failure", "lost"},
               pre'[d] = [pre[d] EXCEPT ![u] = r]
        PROVE  t \in DOMAIN pre'[d] /\ pre'[d][t] # "queued"
    BY <1>4, <2>3
  <2>4. QED
    BY <2>1, <2>2, <2>3, PreMoves
<1>5. QED
  BY <1>1, <1>2, <1>3, <1>4 DEF DoneLegs

\* Each step is through with something.
LEMMA StepDone == ASSUME TestInv, TestNext PROVE Done' # Done
<1>1. /\ job \in [Distros -> [Once -> States]] /\ DOMAIN boot = Distros /\ DOMAIN pre = Distros
      /\ Once = {"prepare-boot-jobs", "boot-job-result", "prepare-premerge-jobs",
                 "publish-test-summary"}
  BY DEF TestInv, Shapes, TestTypeOK, Once
<1>2. ASSUME NEW d \in Distros, NEW j \in Once, NEW s \in States \ {"waiting"}, Settle(d, j, s)
      PROVE  DoneJobs' # DoneJobs
  <2>1. job[d][j] = "waiting" /\ job'[d][j] = s
    BY <1>1, <1>2, Settled
  <2>2. <<d, j>> \in Distros \X Once
    OBVIOUS
  <2>3. <<d, j>> \in DoneJobs' /\ <<d, j>> \notin DoneJobs
    BY <2>1, <2>2 DEF DoneJobs
  <2>4. QED
    BY <2>3
<1>3. ASSUME NEW d \in Distros,
             PrepareBoot(d) \/ BootJobResult(d) \/ PreparePremerge(d) \/ Publish(d)
      PROVE  DoneJobs' # DoneJobs
  <2>1. \E j \in Once, s \in States \ {"waiting"} : Settle(d, j, s)
    BY <1>1, <1>3 DEF PrepareBoot, BootJobResult, PreparePremerge, Publish, States
  <2>2. QED
    BY <1>2, <2>1
<1>4. ASSUME NEW d \in Distros, NEW t \in Boards \X BootPlans, BootLeg(d, t)
      PROVE  DoneLegs(boot, BootPlans)' # DoneLegs(boot, BootPlans)
  <2>1. /\ t \in DOMAIN boot[d] /\ boot[d][t] = "queued"
        /\ t \in DOMAIN boot'[d] /\ boot'[d][t] # "queued"
    BY <1>1, <1>4 DEF BootLeg
  <2>2. <<d, t>> \in Distros \X (Boards \X BootPlans)
    OBVIOUS
  <2>3. <<d, t>> \in DoneLegs(boot, BootPlans)' /\ <<d, t>> \notin DoneLegs(boot, BootPlans)
    BY <2>1, <2>2 DEF DoneLegs
  <2>4. QED
    BY <2>3
<1>5. ASSUME NEW d \in Distros, NEW t \in Boards \X PrePlans, PremergeLeg(d, t)
      PROVE  DoneLegs(pre, PrePlans)' # DoneLegs(pre, PrePlans)
  <2>1. /\ t \in DOMAIN pre[d] /\ pre[d][t] = "queued"
        /\ t \in DOMAIN pre'[d] /\ pre'[d][t] # "queued"
    BY <1>1, <1>5 DEF PremergeLeg
  <2>2. <<d, t>> \in Distros \X (Boards \X PrePlans)
    OBVIOUS
  <2>3. <<d, t>> \in DoneLegs(pre, PrePlans)' /\ <<d, t>> \notin DoneLegs(pre, PrePlans)
    BY <2>1, <2>2 DEF DoneLegs
  <2>4. QED
    BY <2>3
<1>6. CASE CollectIds \/ Comment
  <2>1. \/ "collect" \in DoneAfter' /\ "collect" \notin DoneAfter
        \/ "comment" \in DoneAfter' /\ "comment" \notin DoneAfter
    BY <1>6 DEF CollectIds, Comment, DoneAfter
  <2>2. QED
    BY <2>1 DEF Done
<1>7. QED
  BY <1>3, <1>4, <1>5, <1>6 DEF TestNext, Done

\* Every step of a test run ends a job or a leg, once and for all, so that there
\* are no more steps than jobs and legs, whatever is skipped, failed or lost.
THEOREM TestRunAdvances == TestSpec => [][Advance]_testVars
<1>1. TestInv /\ TestNext => Advance
  BY DoneStays, StepDone DEF Advance, Done
<1>2. TestInv /\ [TestNext]_testVars => [Advance]_testVars
  BY <1>1
<1>3. QED
  BY <1>2, InitTest, NextTest, PTL DEF TestSpec

-----------------------------------------------------------------------------
(* The boot gate, where a board has one boot job.                          *)

\* With one boot job per board, the record of a board is that of its job.
RecordInv ==
    \A d \in Distros :
        /\ \A t \in DOMAIN boot[d] :
               boot[d][t] \in {"success", "failure"} => output[d][t[1]] = boot[d][t]
        /\ \A b \in Boards : output[d][b] # "none" =>
               \E t \in DOMAIN boot[d] : t[1] = b /\ boot[d][t] = output[d][b]

\* The gate is set once, by the job whose output it is.
GateInv == \A d \in Distros : gate[d] # "none" => job[d]["boot-job-result"] = "success"

RecordedInv == TestInv /\ RecordInv /\ GateInv /\ BootGate

LEMMA InitRecorded == TestInit => RecordedInv
<1> SUFFICES ASSUME TestInit PROVE RecordedInv
  OBVIOUS
<1>1. /\ \A d \in Distros : boot[d] = NoLegs /\ gate[d] = "none"
      /\ \A d \in Distros, b \in Boards : output[d][b] = "none"
  BY DEF TestInit
<1>2. DOMAIN NoLegs = {}
  BY DEF NoLegs
<1>3. RecordInv /\ GateInv /\ BootGate
  BY <1>1, <1>2 DEF RecordInv, GateInv, BootGate
<1>4. QED
  BY <1>3, InitTest DEF RecordedInv

\* A record is written by the job of the board, which is the only one there.
LEMMA NextRecord ==
    ASSUME \A p, q \in BootPlans : p = q, TestInv, RecordInv, TestNext
    PROVE  RecordInv'
<1> SUFFICES ASSUME NEW d \in Distros
             PROVE  /\ \A t \in DOMAIN boot'[d] :
                           boot'[d][t] \in {"success", "failure"} => output'[d][t[1]] = boot'[d][t]
                    /\ \A b \in Boards : output'[d][b] # "none" =>
                           \E t \in DOMAIN boot'[d] : t[1] = b /\ boot'[d][t] = output'[d][b]
  BY DEF RecordInv
<1>1. /\ output \in [Distros -> [Boards -> {"none", "success", "failure"}]]
      /\ DOMAIN boot = Distros /\ DOMAIN boot[d] \subseteq Boards \X BootPlans
      /\ job \in [Distros -> [Once -> States]] /\ "prepare-boot-jobs" \in Once
  BY DEF TestInv, Shapes, TestTypeOK, Once
<1>2. CASE boot'[d] = boot[d] /\ output'[d] = output[d]
  BY <1>2 DEF RecordInv
<1>3. ASSUME NEW t \in DOMAIN boot[d], BootLeg(d, t)
      PROVE  /\ \A u \in DOMAIN boot'[d] :
                    boot'[d][u] \in {"success", "failure"} => output'[d][u[1]] = boot'[d][u]
             /\ \A b \in Boards : output'[d][b] # "none" =>
                    \E u \in DOMAIN boot'[d] : u[1] = b /\ boot'[d][u] = output'[d][b]
  <2>1. /\ boot[d][t] = "queued" /\ t[1] \in Boards
        /\ \A u \in DOMAIN boot[d] : u[1] = t[1] => u = t
    BY <1>1, <1>3 DEF BootLeg
  <2>2. output[d][t[1]] = "none"
    BY <1>1, <2>1 DEF RecordInv
  <2>3. ASSUME NEW r \in {"success", "failure"}, boot' = [boot EXCEPT ![d][t] = r],
               output' = [output EXCEPT ![d][t[1]] = r]
        PROVE  /\ \A u \in DOMAIN boot'[d] :
                      boot'[d][u] \in {"success", "failure"} => output'[d][u[1]] = boot'[d][u]
               /\ \A b \in Boards : output'[d][b] # "none" =>
                      \E u \in DOMAIN boot'[d] : u[1] = b /\ boot'[d][u] = output'[d][b]
    <3>1. /\ DOMAIN boot'[d] = DOMAIN boot[d] /\ boot'[d][t] = r
          /\ \A u \in DOMAIN boot[d] : u # t => boot'[d][u] = boot[d][u]
      BY <1>1, <2>3
    <3>2. /\ output'[d][t[1]] = r
          /\ \A b \in Boards : b # t[1] => output'[d][b] = output[d][b]
      BY <1>1, <2>1, <2>3
    <3>3. \A u \in DOMAIN boot[d] : u[1] \in Boards
      BY <1>1
    <3>4. QED
      BY <2>1, <3>1, <3>2, <3>3 DEF RecordInv
  <2>4. CASE boot' = [boot EXCEPT ![d][t] = "lost"] /\ output' = output
    <3>1. /\ DOMAIN boot'[d] = DOMAIN boot[d] /\ boot'[d][t] = "lost"
          /\ \A u \in DOMAIN boot[d] : u # t => boot'[d][u] = boot[d][u]
      BY <1>1, <2>4
    <3>2. QED
      BY <2>1, <2>2, <2>4, <3>1 DEF RecordInv
  <2>5. QED
    BY <1>3, <2>2, <2>3, <2>4 DEF BootLeg
<1>4. CASE \E e \in Distros : \E t \in Boards \X BootPlans : BootLeg(e, t)
  <2>1. PICK e \in Distros, t \in Boards \X BootPlans : BootLeg(e, t)
    BY <1>4
  <2>2. CASE e = d
    BY <1>3, <2>1, <2>2 DEF BootLeg
  <2>3. CASE e # d
    <3>1. boot'[d] = boot[d] /\ output'[d] = output[d]
      BY <1>1, <2>1, <2>3 DEF BootLeg
    <3>2. QED
      BY <1>2, <3>1
  <2>4. QED
    BY <2>2, <2>3
<1>5. CASE PrepareBoot(d) /\ job'[d]["prepare-boot-jobs"] = "success"
  <2>1. /\ job[d]["prepare-boot-jobs"] = "waiting" /\ output' = output
        /\ boot'[d] = boot[d] \/ boot'[d] \in Rendered(d, BootPlans)
    BY <1>1, <1>5 DEF PrepareBoot, Settle
  <2>2. DOMAIN boot[d] = {}
    BY <2>1 DEF TestInv, LegsInv
  <2>3. \A b \in Boards : output'[d][b] = "none"
    BY <2>1, <2>2 DEF RecordInv
  <2>4. \A t \in DOMAIN boot'[d] : boot'[d][t] = "queued"
    BY <2>1, <2>2, RenderedTypes
  <2>5. QED
    BY <2>3, <2>4
<1>6. CASE PrepareBoot(d) /\ job'[d]["prepare-boot-jobs"] # "success"
  <2>1. boot' = boot /\ output' = output
    <3>1. Settle(d, "prepare-boot-jobs", "success") => job'[d]["prepare-boot-jobs"] = "success"
      BY <1>1, Settled DEF States
    <3>2. QED
      BY <1>6, <3>1 DEF PrepareBoot
  <2>2. QED
    BY <1>2, <2>1
<1>7. CASE \E e \in Distros : e # d /\ PrepareBoot(e)
  <2>1. boot'[d] = boot[d] /\ output'[d] = output[d]
    BY <1>1, <1>7 DEF PrepareBoot
  <2>2. QED
    BY <1>2, <2>1
<1>8. CASE \/ \E e \in Distros : \/ BootJobResult(e) \/ PreparePremerge(e) \/ Publish(e)
                                 \/ \E t \in Boards \X PrePlans : PremergeLeg(e, t)
           \/ CollectIds \/ Comment
  <2>1. boot'[d] = boot[d] /\ output'[d] = output[d]
    BY <1>8 DEF BootJobResult, PreparePremerge, Publish, PremergeLeg, CollectIds, Comment
  <2>2. QED
    BY <1>2, <2>1
<1>9. QED
  BY <1>4, <1>5, <1>6, <1>7, <1>8 DEF TestNext

\* The gate opens when every leg is through and on the records of all of them,
\* which neither legs nor records change any more.
LEMMA NextGate ==
    ASSUME RecordedInv, TestNext
    PROVE  GateInv' /\ BootGate'
<1> SUFFICES ASSUME NEW d \in Distros
             PROVE  /\ gate'[d] # "none" => job'[d]["boot-job-result"] = "success"
                    /\ gate'[d] = "success" => \A t \in Kept(boot'[d]) : boot'[d][t] = "success"
  BY DEF GateInv, BootGate, Kept
<1> USE DEF RecordedInv
<1>1. /\ job \in [Distros -> [Once -> States]] /\ "boot-job-result" \in Once
      /\ gate \in [Distros -> {"none", "success", "failure"}]
      /\ output \in [Distros -> [Boards -> {"none", "success", "failure"}]]
      /\ DOMAIN boot[d] \subseteq Boards \X BootPlans
      /\ "prepare-boot-jobs" \in Once
      /\ \A t \in DOMAIN boot[d] : boot[d][t] \in LegStates
  BY DEF TestInv, Shapes, TestTypeOK, Once
<1>2. CASE gate'[d] = gate[d]
  <2>1. SUFFICES ASSUME gate[d] # "none"
                 PROVE  /\ job'[d]["boot-job-result"] = "success"
                        /\ gate[d] = "success" => \A t \in Kept(boot'[d]) : boot'[d][t] = "success"
    BY <1>2
  <2>2. job[d]["boot-job-result"] = "success"
    BY <2>1 DEF GateInv
  <2>3. SubmitBoot(d) = "success"
    BY <2>2 DEF TestInv, JobsInv
  <2>4. boot'[d] = boot[d] /\ job'[d]["boot-job-result"] = "success"
    BY <1>1, <2>2, <2>3, Stable
  <2>5. QED
    BY <2>4 DEF BootGate
<1>3. CASE gate'[d] # gate[d]
  <2>1. BootJobResult(d)
    BY <1>1, <1>3 DEF TestNext, PrepareBoot, BootLeg, BootJobResult, PreparePremerge, PremergeLeg,
                      Publish, CollectIds, Comment
  <2>2. /\ SubmitBoot(d) = "success" /\ Settle(d, "boot-job-result", "success")
        /\ gate' = [gate EXCEPT ![d] = Collapsed(d)] /\ boot' = boot
    BY <1>3, <2>1 DEF BootJobResult
  <2>3. job'[d]["boot-job-result"] = "success"
    BY <1>1, <2>2, Settled DEF States
  <2>4. ASSUME gate'[d] = "success", NEW t \in Kept(boot[d]) PROVE boot[d][t] = "success"
    <3>1. Recorded(d) \subseteq {"success"}
      BY <1>1, <2>2, <2>4 DEF Collapsed
    <3>2. t \in DOMAIN boot[d] /\ boot[d][t] # "lost" /\ t[1] \in Boards
      BY <1>1 DEF Kept
    <3>3. boot[d][t] # "queued"
      <4>1. job[d]["prepare-boot-jobs"] = "success"
        BY <1>1, <2>2, Waiting DEF SubmitBoot
      <4>2. QED
        BY <1>1, <2>2, <3>2, <4>1, Waiting DEF SubmitBoot
    <3>4. output[d][t[1]] = boot[d][t] /\ boot[d][t] \in {"success", "failure"}
      BY <1>1, <3>2, <3>3 DEF RecordInv, LegStates
    <3>5. output[d][t[1]] \in Recorded(d)
      BY <3>2, <3>4, CallsAssumption DEF Recorded
    <3>6. QED
      BY <3>1, <3>4, <3>5
  <2>5. QED
    BY <2>2, <2>3, <2>4
<1>4. QED
  BY <1>2, <1>3

\* BootGate: the pre-merge jobs start only when every boot job that kept its
\* runner succeeded, for any calls and boards with one boot job each.
THEOREM GateHolds ==
    ASSUME \A p, q \in BootPlans : p = q
    PROVE  TestSpec => []BootGate
<1>1. RecordedInv /\ UNCHANGED testVars => RecordInv' /\ GateInv' /\ BootGate'
  BY DEF RecordedInv, RecordInv, GateInv, BootGate, Kept, testVars
<1>2. RecordedInv /\ [TestNext]_testVars => RecordedInv'
  BY <1>1, NextTest, NextRecord, NextGate DEF RecordedInv
<1>3. RecordedInv => BootGate
  BY DEF RecordedInv
<1>4. QED
  BY <1>2, <1>3, InitRecorded, PTL DEF TestSpec
-----------------------------------------------------------------------------
(* The check of the rendered test jobs.                                    *)

Seen == listable \ left
Exceptions(S) == {f \in S : kind[f] = "exception"}

\* The count is exact while the process runs, and a process that ended by itself
\* has seen everything.
CountInv ==
    /\ exitcode = Cardinality(Bad(Seen))
    /\ Running => Exceptions(Seen) = {}
    /\ status.ended /\ status.code = 0 =>
          /\ left = {} /\ Exceptions(listable) = {}
          /\ exitcode % Statuses = 0

SchemaInv == SchemaTypeOK /\ CountInv

\* What ci/schemacheck.py counts is a finite number, at most that of the files.
LEMMA BadFinite ==
    ASSUME NEW S, S \subseteq Files
    PROVE  /\ IsFiniteSet(Bad(S))
           /\ Cardinality(Bad(S)) \in 0 .. Cardinality(Files)
<1>1. Bad(S) \subseteq Files
  BY DEF Bad
<1>2. IsFiniteSet(Bad(S)) /\ Cardinality(Bad(S)) <= Cardinality(Files)
  BY <1>1, FilesAssumption, FS_Subset
<1>3. Cardinality(Bad(S)) \in Nat
  BY <1>2, FS_CardinalityType
<1>4. Cardinality(Files) \in Nat
  BY FilesAssumption, FS_CardinalityType
<1>5. QED
  BY <1>2, <1>3, <1>4

LEMMA InitSchema == SchemaInit => SchemaInv
<1> SUFFICES ASSUME SchemaInit PROVE SchemaInv
  OBVIOUS
<1> USE DEF SchemaInit
<1>1. Bad(Seen) = {} /\ Exceptions(Seen) = {}
  BY DEF Bad, Exceptions, Seen
<1>2. Cardinality({}) = 0
  BY FS_EmptySet
<1>3. Cardinality(Files) \in Nat
  BY FilesAssumption, FS_CardinalityType
<1>4. SchemaTypeOK
  BY <1>3, StatusesAssumption DEF SchemaTypeOK
<1>5. CountInv
  BY <1>1, <1>2 DEF CountInv, Running
<1>6. QED
  BY <1>4, <1>5 DEF SchemaInv

\* One iteration of the loop counts the file it looked at, or ends the process.
LEMMA CheckSchema ==
    ASSUME SchemaInv, NEW f \in Files, Check(f)
    PROVE  SchemaInv'
<1> USE DEF SchemaInv
<1>1. /\ f \in listable /\ f \notin Seen /\ Seen' = Seen \cup {f}
      /\ kind' = kind /\ listable' = listable /\ left' = left \ {f} /\ left' \subseteq listable
      /\ Running /\ Seen \subseteq Files /\ Seen' \subseteq Files
      /\ kind[f] \in Kinds /\ status.code \in 0 .. Statuses - 1
  BY DEF Check, Seen, SchemaTypeOK, input
<1>2. Exceptions(Seen) = {} /\ exitcode = Cardinality(Bad(Seen))
  BY <1>1 DEF CountInv
<1>3. CASE kind[f] \in {"other", "valid"}
  <2>1. exitcode' = exitcode /\ status' = status
    BY <1>3 DEF Check
  <2>2. Bad(Seen)' = Bad(Seen) /\ Exceptions(Seen)' = {}
    BY <1>1, <1>2, <1>3 DEF Bad, Exceptions
  <2>3. CountInv'
    BY <1>1, <1>2, <2>1, <2>2 DEF CountInv, Running
  <2>4. SchemaTypeOK'
    BY <1>1, <2>1 DEF SchemaTypeOK
  <2>5. QED
    BY <2>3, <2>4
<1>4. CASE kind[f] \in {"invalid", "no yaml"}
  <2>1. exitcode' = exitcode + 1 /\ status' = status
    BY <1>4 DEF Check
  <2>2. Bad(Seen)' = Bad(Seen) \cup {f} /\ f \notin Bad(Seen) /\ Exceptions(Seen)' = {}
    BY <1>1, <1>2, <1>4 DEF Bad, Exceptions
  <2>3. IsFiniteSet(Bad(Seen))
    BY <1>1, BadFinite
  <2>4. Cardinality(Bad(Seen) \cup {f}) = Cardinality(Bad(Seen)) + 1
    BY <2>2, <2>3, FS_AddElement
  <2>5. exitcode' = Cardinality(Bad(Seen)')
    BY <1>2, <2>1, <2>2, <2>4
  <2>6. Cardinality(Bad(Seen)') \in 0 .. Cardinality(Files)
    <3>1. Bad(Seen)' = Bad(Seen \cup {f})
      BY <1>1 DEF Bad
    <3>2. QED
      BY <1>1, <3>1, BadFinite
  <2>7. CountInv'
    BY <1>1, <2>1, <2>2, <2>5 DEF CountInv, Running
  <2>8. SchemaTypeOK'
    BY <1>1, <2>1, <2>5, <2>6 DEF SchemaTypeOK
  <2>9. QED
    BY <2>7, <2>8
<1>5. CASE kind[f] = "exception"
  <2>1. exitcode' = exitcode /\ status' = [ended |-> TRUE, code |-> 1]
    BY <1>5 DEF Check, Exit
  <2>2. Bad(Seen)' = Bad(Seen)
    BY <1>1, <1>5 DEF Bad
  <2>3. CountInv'
    BY <1>2, <2>1, <2>2 DEF CountInv, Running
  <2>4. SchemaTypeOK'
    BY <1>1, <2>1, StatusesAssumption DEF SchemaTypeOK
  <2>5. QED
    BY <2>3, <2>4
<1>6. QED
  BY <1>1, <1>3, <1>4, <1>5 DEF Kinds

LEMMA EndSchema ==
    ASSUME SchemaInv, End
    PROVE  SchemaInv'
<1> USE DEF SchemaInv
<1>1. /\ left = {} /\ Running /\ exitcode' = exitcode /\ left' = left
      /\ kind' = kind /\ listable' = listable
      /\ status' = [ended |-> TRUE, code |-> exitcode % Statuses]
  BY DEF End, Exit, input
<1>2. exitcode \in Nat /\ exitcode % Statuses \in 0 .. Statuses - 1
  <2>1. exitcode \in Nat
    <3>1. Cardinality(Files) \in Nat
      BY FilesAssumption, FS_CardinalityType
    <3>2. QED
      BY <3>1 DEF SchemaTypeOK
  <2>2. QED
    BY <2>1, StatusesAssumption
<1>3. Exceptions(Seen) = {} /\ Seen = listable /\ Seen' = Seen
  BY <1>1 DEF CountInv, Seen
<1>4. Bad(Seen)' = Bad(Seen) /\ Exceptions(listable)' = {}
  BY <1>1, <1>3 DEF Bad, Exceptions
<1>5. CountInv'
  BY <1>1, <1>4 DEF CountInv, Running
<1>6. SchemaTypeOK'
  BY <1>1, <1>2 DEF SchemaTypeOK
<1>7. QED
  BY <1>5, <1>6

LEMMA StutterSchema == SchemaInv /\ UNCHANGED schemaVars => SchemaInv'
BY DEF SchemaInv, SchemaTypeOK, CountInv, schemaVars, input, Bad, Exceptions, Seen, Running

\* ci/schemacheck.py counts within its bounds and exits once with a status the
\* system can keep, for any number of files.
THEOREM SchemaTypes == SchemaSpec => []SchemaTypeOK
<1>1. SchemaInv /\ [SchemaNext]_schemaVars => SchemaInv'
  BY CheckSchema, EndSchema, StutterSchema DEF SchemaNext
<1>2. QED
  BY InitSchema, <1>1, PTL DEF SchemaSpec, SchemaInv

\* A zero status of ci/schemacheck.py means that every listable file was checked and
\* that the bad ones number a multiple of the exit statuses, for any number of files.
THEOREM ZeroSound == SchemaSpec => []ZeroMeansValid
<1>1. SchemaInv /\ [SchemaNext]_schemaVars => SchemaInv'
  BY CheckSchema, EndSchema, StutterSchema DEF SchemaNext
<1>2. SchemaInv => ZeroMeansValid
  <2> SUFFICES ASSUME SchemaInv, status.ended, status.code = 0
               PROVE  /\ left = {} /\ \A f \in listable : kind[f] # "exception"
                      /\ Cardinality(Bad(listable)) % Statuses = 0
    BY DEF ZeroMeansValid
  <2>1. left = {} /\ Exceptions(listable) = {} /\ exitcode % Statuses = 0
    BY DEF SchemaInv, CountInv
  <2>2. Seen = listable
    BY <2>1 DEF Seen
  <2>3. exitcode = Cardinality(Bad(listable))
    BY <2>2 DEF SchemaInv, CountInv
  <2>4. QED
    BY <2>1, <2>3 DEF Exceptions
<1>3. QED
  BY InitSchema, <1>1, <1>2, PTL DEF SchemaSpec

-----------------------------------------------------------------------------
(* The parts together.                                                     *)

\* Each behaviour of the model is one of every part: what was proved of the pull
\* request, the test run and the schema checker by itself holds in it.
THEOREM WorkflowParts == WorkflowsSpec => PrSpec /\ TestSpec /\ SchemaSpec
<1>1. WorkflowsInit => PrInit /\ TestInit /\ SchemaInit
  BY DEF WorkflowsInit, PrIdle, TestIdle, SchemaIdle
<1>2. [WorkflowsNext]_<<part, prVars, testVars, schemaVars>> =>
          [PrNext]_prVars /\ [TestNext]_testVars /\ [SchemaNext]_schemaVars
  BY DEF WorkflowsNext
<1>3. QED
  BY <1>1, <1>2, PTL DEF WorkflowsSpec, PrSpec, TestSpec, SchemaSpec

\* The types of the pull request, of the test run and of the schema checker, for
\* any number of commits, calls and files.
THEOREM WorkflowTypes == WorkflowsSpec => []WorkflowTypesOK
BY WorkflowParts, PrTypes, TestRunTypes, SchemaTypes, PTL DEF WorkflowTypesOK
=============================================================================
