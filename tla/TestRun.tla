------------------------------ MODULE TestRun -------------------------------
(***************************************************************************)
(* A run of .github/workflows/test.yml as test-pr.yml starts it.  It calls *)
(* test-distro.yml once per distribution; each call renders LAVA jobs for  *)
(* the boards whose build left a URL, boots every board, and goes on to    *)
(* the pre-merge tests when no boot job is recorded as failed.  The calls  *)
(* share the artifacts of one workflow run.                                *)
(***************************************************************************)
EXTENDS Naturals, FiniteSets

CONSTANTS
    Distros,    \* calls of test-distro.yml, by distro_name and distro_suffix
    Boards,     \* inputs.devices and inputs.devices_premerge
    BootPlans,  \* job files the boot plan renders for a board
    PrePlans,   \* job files the pre-merge plan renders for a board
    Gated,      \* the calls with devices_premerge
    Reads,      \* Reads[d]: calls whose artifact names begin with those of d
    MaxLost,    \* bound: legs that are lost or leave no details of a LAVA job
    MaxFailed   \* bound: other jobs that fail

ASSUME CallsAssumption == Gated \subseteq Distros /\ \A d \in Distros : d \in Reads[d]

VARIABLES
    urls,     \* boards for which a non-empty build-url artifact was left
    job,      \* state of the jobs that run once per call
    boot,     \* submit-boot-job: state of each leg of its matrix
    pre,      \* submit-premerge-job: likewise
    output,   \* the result recorded for a board, or "none"
    gate,     \* output boot_result of boot-job-result
    details,  \* legs, boot or test, whose LAVA job has left its details
    summary,  \* those of them with a row in the summary
    collect,  \* state of collect-ids
    comment,  \* state of comment-on-pr
    posted    \* calls whose summary is in the comment

testVars ==
    <<urls, job, boot, pre, output, gate, details, summary, collect, comment, posted>>

Once == {"prepare-boot-jobs", "boot-job-result", "prepare-premerge-jobs",
         "publish-test-summary"}

NoLegs == [t \in {} |-> "queued"]

\* A matrix job under continue-on-error: it succeeds whatever its legs do,
\* unless its matrix is empty.
Matrix(legs) ==
    IF DOMAIN legs = {} THEN "failure"
    ELSE IF \E t \in DOMAIN legs : legs[t] = "queued" THEN "waiting" ELSE "success"

\* Mutant: what was not prepared is waited for.
M_Submitted(prepare, legs) == IF prepare = "success" THEN Matrix(legs) ELSE "waiting"

\* It waits for the job that prepares it, and is skipped without its output.
Submitted(prepare, legs) ==
    CASE prepare = "waiting" -> "waiting"
      [] prepare \in {"failure", "skipped"} -> "skipped"
      [] prepare = "success" -> Matrix(legs)

SubmitBoot(d) == Submitted(job[d]["prepare-boot-jobs"], boot[d])
SubmitPremerge(d) == Submitted(job[d]["prepare-premerge-jobs"], pre[d])

\* The result of a called workflow, once all its jobs are through.
Results(d) == {job[d][j] : j \in Once} \cup {SubmitBoot(d), SubmitPremerge(d)}
Conclusion(d) ==
    IF "waiting" \in Results(d) THEN "waiting"
    ELSE IF "failure" \in Results(d) THEN "failure" ELSE "success"

TestInit ==
    /\ urls \in [Distros -> SUBSET Boards]
    /\ job = [d \in Distros |-> [j \in Once |-> "waiting"]]
    /\ boot = [d \in Distros |-> NoLegs] /\ pre = [d \in Distros |-> NoLegs]
    /\ output = [d \in Distros |-> [b \in Boards |-> "none"]]
    /\ gate = [d \in Distros |-> "none"]
    /\ details = [d \in Distros |-> {}] /\ summary = [d \in Distros |-> {}]
    /\ collect = "waiting" /\ comment = "waiting" /\ posted = {}

-----------------------------------------------------------------------------

Table == {"boot", "test"} \X (Boards \X (BootPlans \cup PrePlans))
Legs(d) == [boot |-> boot[d], test |-> pre[d]]
Amiss(d) == {x \in Table : /\ x[2] \in DOMAIN Legs(d)[x[1]]
                           /\ \/ Legs(d)[x[1]][x[2]] = "lost"
                              \/ Legs(d)[x[1]][x[2]] = "failure" /\ x \notin details[d]}
Lost == Cardinality({x \in Distros \X Table : x[2] \in Amiss(x[1])})
FailedJobs == Cardinality({x \in Distros \X Once : job[x[1]][x[2]] = "failure"})

Settle(d, j, s) ==
    /\ job[d][j] = "waiting"
    /\ s = "failure" => FailedJobs < MaxFailed
    /\ job' = [job EXCEPT ![d][j] = s]

\* Mutant: a board without a URL is rendered for all the same.
M_Rendered(d, plans) == {[t \in T |-> "queued"] : T \in SUBSET (Boards \X plans)}

\* The matrices lava-test-plans may write.  A board without BUILD_URL is passed
\* over; the renderer's failures are ignored and leave only some of its files.
Rendered(d, plans) == {[t \in T |-> "queued"] : T \in SUBSET (urls[d] \X plans)}

\* It fails when a board has no directory of rendered jobs for find.
PrepareBoot(d) ==
    /\ \/ /\ Settle(d, "prepare-boot-jobs", "success")
          /\ \E legs \in Rendered(d, BootPlans) : boot' = [boot EXCEPT ![d] = legs]
       \/ Settle(d, "prepare-boot-jobs", "failure") /\ UNCHANGED boot
    /\ UNCHANGED <<urls, pre, output, gate, details, summary, collect, comment, posted>>

\* How lava-action may end.  A LAVA job that passed has left its details.  One that
\* failed may have: it has not if the templates were not there, if it was never
\* submitted or if the step ran out of time before; and a runner is lost before
\* or after.
LegEnds(d, leg, r) ==
    \E saved \in BOOLEAN :
        /\ r = "success" => saved
        /\ r = "lost" \/ ~saved => Lost < MaxLost
        /\ details' = IF saved THEN [details EXCEPT ![d] = @ \cup {leg}] ELSE details

\* The outcome is recorded under the board, also of a submission that was skipped,
\* which counts as a failure: of two legs of a board one record is kept.  A leg is
\* "lost" if its record is, with the runner or because it could not be written.
BootLeg(d, t) ==
    /\ t \in DOMAIN boot[d] /\ boot[d][t] = "queued"
    /\ \E r \in {"success", "failure", "lost"} :
          /\ boot' = [boot EXCEPT ![d][t] = r]
          /\ LegEnds(d, <<"boot", t>>, r)
          /\ \/ r # "lost" /\ output' = [output EXCEPT ![d][t[1]] = r]
             \/ (r = "lost" \/ output[d][t[1]] # "none") /\ UNCHANGED output
    /\ UNCHANGED <<urls, job, pre, gate, summary, collect, comment, posted>>

\* What download-file-pattern finds: records of every call with that prefix.
Recorded(d) == {output[e][b] : e \in Reads[d], b \in Boards} \ {"none"}

\* Mutant: any_c for all_c.
M_Collapsed(d) == IF "success" \in Recorded(d) THEN "success" ELSE "failure"

\* all_c(. == "success")
Collapsed(d) == IF Recorded(d) \subseteq {"success"} THEN "success" ELSE "failure"

BootJobResult(d) ==
    /\ \/ /\ SubmitBoot(d) = "success"
          /\ \/ /\ Settle(d, "boot-job-result", "success")
                /\ gate' = [gate EXCEPT ![d] = Collapsed(d)]
             \/ Settle(d, "boot-job-result", "failure") /\ UNCHANGED gate
       \/ /\ SubmitBoot(d) \in {"failure", "skipped"}
          /\ Settle(d, "boot-job-result", "skipped") /\ UNCHANGED gate
    /\ UNCHANGED <<urls, boot, pre, output, details, summary, collect, comment, posted>>

PreparePremerge(d) ==
    /\ job[d]["boot-job-result"] # "waiting"
    /\ IF job[d]["boot-job-result"] = "success" /\ gate[d] = "success" /\ d \in Gated
       THEN \/ /\ Settle(d, "prepare-premerge-jobs", "success")
               /\ \E legs \in Rendered(d, PrePlans) : pre' = [pre EXCEPT ![d] = legs]
            \/ Settle(d, "prepare-premerge-jobs", "failure") /\ UNCHANGED pre
       ELSE Settle(d, "prepare-premerge-jobs", "skipped") /\ UNCHANGED pre
    /\ UNCHANGED <<urls, boot, output, gate, details, summary, collect, comment, posted>>

PremergeLeg(d, t) ==
    /\ t \in DOMAIN pre[d] /\ pre[d][t] = "queued"
    /\ \E r \in {"success", "failure", "lost"} :
          /\ pre' = [pre EXCEPT ![d][t] = r]
          /\ LegEnds(d, <<"test", t>>, r)
    /\ UNCHANGED <<urls, job, boot, output, gate, summary, collect, comment, posted>>

\* Mutant: the pre-merge jobs are not waited for.
M_PublishNeeds(d) == {job[d]["boot-job-result"]}

PublishNeeds(d) == {job[d]["boot-job-result"], SubmitPremerge(d)}

\* always() && contains(needs.*.result, 'success') && !contains(..., 'failure')
Publishable(results) == "success" \in results /\ "failure" \notin results

\* The table of all jobs has a row for each file of job details that was downloaded.
Rows(d) == details[d]

\* Mutant: no always(): a skipped pre-merge job skips the summary.
M_Publish(d) ==
    /\ "waiting" \notin PublishNeeds(d)
    /\ IF PublishNeeds(d) = {"success"}
       THEN \/ /\ Settle(d, "publish-test-summary", "success")
               /\ summary' = [summary EXCEPT ![d] = Rows(d)]
            \/ Settle(d, "publish-test-summary", "failure") /\ UNCHANGED summary
       ELSE Settle(d, "publish-test-summary", "skipped") /\ UNCHANGED summary
    /\ UNCHANGED <<urls, boot, pre, output, gate, details, collect, comment, posted>>

\* publish-test-summary
Publish(d) ==
    /\ "waiting" \notin PublishNeeds(d)
    /\ IF Publishable(PublishNeeds(d))
       THEN \/ /\ Settle(d, "publish-test-summary", "success")
               /\ summary' = [summary EXCEPT ![d] = Rows(d)]
            \/ Settle(d, "publish-test-summary", "failure") /\ UNCHANGED summary
       ELSE Settle(d, "publish-test-summary", "skipped") /\ UNCHANGED summary
    /\ UNCHANGED <<urls, boot, pre, output, gate, details, collect, comment, posted>>

-----------------------------------------------------------------------------
(* test.yml and its caller.                                                *)

Conclusions == {Conclusion(d) : d \in Distros}

CollectIds ==
    /\ collect = "waiting" /\ "waiting" \notin Conclusions
    /\ collect' \in IF Publishable(Conclusions) THEN {"success", "failure"} ELSE {"skipped"}
    /\ UNCHANGED <<urls, job, boot, pre, output, gate, details, summary, comment, posted>>

\* The calls with a summary_id.
Summarised == {d \in Distros : job[d]["publish-test-summary"] = "success"}

\* comment-on-pr of test-pr.yml needs the whole of test.yml to succeed, collect-ids
\* included.
Comment ==
    /\ comment = "waiting" /\ collect # "waiting"
    /\ IF "failure" \notin Conclusions /\ collect = "success"
       THEN \/ comment' = "success" /\ posted' = Summarised
            \/ comment' = "failure" /\ UNCHANGED posted
       ELSE comment' = "skipped" /\ UNCHANGED posted
    /\ UNCHANGED <<urls, job, boot, pre, output, gate, details, summary, collect>>

TestNext ==
    \/ \E d \in Distros :
           \/ PrepareBoot(d) \/ BootJobResult(d) \/ PreparePremerge(d) \/ Publish(d)
           \/ \E t \in Boards \X BootPlans : BootLeg(d, t)
           \/ \E t \in Boards \X PrePlans : PremergeLeg(d, t)
    \/ CollectIds \/ Comment

TestSpec == TestInit /\ [][TestNext]_testVars

-----------------------------------------------------------------------------
(* Properties.                                                             *)

States == {"waiting", "success", "failure", "skipped"}
LegStates == {"queued", "success", "failure", "lost"}

\* The types of the state; only boards with a URL are tested.
TestTypeOK ==
    /\ urls \in [Distros -> SUBSET Boards]
    /\ job \in [Distros -> [Once -> States]]
    /\ \A d \in Distros :
           /\ boot[d] \in [DOMAIN boot[d] -> LegStates]
           /\ DOMAIN boot[d] \subseteq urls[d] \X BootPlans
           /\ pre[d] \in [DOMAIN pre[d] -> LegStates]
           /\ DOMAIN pre[d] \subseteq urls[d] \X PrePlans
    /\ output \in [Distros -> [Boards -> {"none", "success", "failure"}]]
    /\ gate \in [Distros -> {"none", "success", "failure"}]
    /\ details \in [Distros -> SUBSET Table] /\ summary \in [Distros -> SUBSET Table]
    /\ collect \in States /\ comment \in States /\ posted \subseteq Distros

Kept(legs) == {t \in DOMAIN legs : legs[t] # "lost"}

\* "RESULT will be true only if there are no failures": the gate opens for the
\* pre-merge jobs only when every boot job of the call has succeeded, but for
\* those that are lost, with no record left for it to look at.
BootGate ==
    \A d \in Distros : gate[d] = "success" =>
        \A t \in Kept(boot[d]) : boot[d][t] = "success"

\* A published summary is final and leaves nothing out that there is to show: no job
\* of the call is still to come, boot or pre-merge, whatever was skipped or lost on
\* the way; every job that passed has its row, and so has each other one that left
\* its details.  What has none failed without leaving any, or was lost.
SummaryComplete ==
    \A d \in Summarised :
        /\ summary[d] = details[d]
        /\ \A t \in DOMAIN boot[d] :
               /\ boot[d][t] # "queued"
               /\ boot[d][t] = "success" => <<"boot", t>> \in summary[d]
        /\ \A t \in DOMAIN pre[d] :
               /\ pre[d][t] # "queued"
               /\ pre[d][t] = "success" => <<"test", t>> \in summary[d]

\* The comment on the pull request is posted for a run with every call's summary
\* or not at all, however the calls are skipped, failed and interleaved.
Contract == INSTANCE TestContract WITH over <- comment # "waiting", reported <- posted
ImplementsContract == Contract!Spec

\* No combination of skipped, failed and lost jobs leaves the run waiting.
TestsEnd == <>(comment # "waiting")
=============================================================================
