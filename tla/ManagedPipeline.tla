--------------------------- MODULE ManagedPipeline ---------------------------
(***************************************************************************)
(* One logical run of the owned-portfolio pipeline: the jobs that run it    *)
(* (services/v2_collection.py run_owned_portfolio_pipeline) through         *)
(* platform/pipeline.py ManagedPipelineRunner, under the Firestore lease    *)
(* "pipeline:<key>".                                                        *)
(*                                                                          *)
(* A trigger may come any number of times.  Every SQL statement commits by  *)
(* itself, so a job can die between any two.  A stage that succeeded is     *)
(* skipped by later jobs, which do not have the memory of the earlier one.  *)
(***************************************************************************)
EXTENDS Integers

CONSTANTS
  Job,          \* batch processes; each may be started again
  Calls,        \* numbers of source calls a collection may make
  Budget,       \* source_call_budget
  Bundles,      \* what a collection may bring: "partial", "complete"
  FailAt,       \* points of a job (see Point) at which it may fail or die
  MaxFailures   \* bound: so many failures and crashes

ASSUME CallsAssumption == Calls \subseteq Nat /\ Budget \in Nat
ASSUME FailureAssumption == MaxFailures \in Nat /\ FailAt \subseteq 0 .. 5
ASSUME BundleAssumption == Bundles \subseteq {"partial", "complete"}

Nobody == "nobody"
ASSUME JobAssumption == Nobody \notin Job

Collect == 1    \* collect-land
Normalize == 2
Quality == 3
Publish == 4
Stage == Collect .. Publish
Point == 0 .. Publish + 1   \* before, in and after the stages

VARIABLES
  lease,     \* the job the lease document was last given to, until it ends
  run,       \* the row of control.pipeline_runs
  stage,     \* stage[s]: the row of control.pipeline_stage_runs
  landed,    \* the bundle that collect-land's evidence names
  silver,    \* the bundle normalized into silver
  gold,      \* the bundle the published daily state was built from
  evidence,  \* stages whose quality and lineage rows are written
  failures,  \* history: failures and crashes so far
  pc,        \* where each job is
  holds,     \* holds[j]: j claimed the lease and has not given it back
  at,        \* at[j]: the stage j has come to
  mem,       \* mem[j]: context.state["collected"]
  result,    \* result[j]: source_calls of the stage j has run
  cum        \* cum[j]: cumulative_calls

vars == <<lease, run, stage, landed, silver, gold, evidence, failures,
          pc, holds, at, mem, result, cum>>
store == <<run, stage, landed, silver, gold, evidence>>
local == <<holds, at, mem, result, cum>>

Bundle == {"none", "partial", "complete"}
Status == {"none", "running", "succeeded", "failed"}
Ended == {"done", "dead"}
Active(j) == pc[j] \notin Ended \cup {"idle"}

Init ==
  /\ lease = Nobody
  /\ run = [status |-> "none", calls |-> 0]
  /\ stage = [s \in Stage |-> [status |-> "none", calls |-> 0]]
  /\ landed = "none" /\ silver = "none" /\ gold = "none"
  /\ evidence = {} /\ failures = 0
  /\ pc = [j \in Job |-> "idle"]
  /\ holds = [j \in Job |-> FALSE]
  /\ at = [j \in Job |-> 0]
  /\ mem = [j \in Job |-> "none"]
  /\ result = [j \in Job |-> 0]
  /\ cum = [j \in Job |-> 0]

Goto(j, l) == pc' = [pc EXCEPT ![j] = l]

\* Source calls of the stages that succeeded.
CallsOf(s) == IF stage[s].status = "succeeded" THEN stage[s].calls ELSE 0
Recorded == CallsOf(Collect) + CallsOf(Normalize) + CallsOf(Quality) + CallsOf(Publish)

-----------------------------------------------------------------------------

\* Mutation: the job does not look at the answer of the claim.
TriggerUnchecked(j) ==
  /\ pc[j] = "idle"
  /\ lease' = j /\ holds' = [holds EXCEPT ![j] = TRUE] /\ Goto(j, "looking")
  /\ UNCHANGED <<store, failures, at, mem, result, cum>>

\* The market is open and the job claims the lease, or ends "in_progress".
Trigger(j) ==
  /\ pc[j] = "idle"
  /\ IF lease = Nobody
     THEN lease' = j /\ holds' = [holds EXCEPT ![j] = TRUE] /\ Goto(j, "looking")
     ELSE Goto(j, "done") /\ UNCHANGED <<lease, holds>>
  /\ UNCHANGED <<store, failures, at, mem, result, cum>>

\* _claim_run and run: a run that succeeded is reused.
LookUp(j) ==
  /\ pc[j] = "looking"
  /\ Goto(j, CASE run.status = "none" -> "inserting"
               [] run.status = "succeeded" -> "releasing"
               [] OTHER -> "opening")
  /\ UNCHANGED <<lease, store, failures, local>>

\* _claim_run: a second insert breaks the key.
InsertRun(j) ==
  /\ pc[j] = "inserting"
  /\ IF run.status = "none"
     THEN run' = [run EXCEPT !.status = "running"] /\ Goto(j, "opening")
     ELSE UNCHANGED run /\ Goto(j, "releasing")
  /\ UNCHANGED <<lease, stage, landed, silver, gold, evidence, failures, local>>

Open(j) ==
  /\ pc[j] = "opening"
  /\ run' = [run EXCEPT !.status = "running"]
  /\ Goto(j, "summing")
  /\ UNCHANGED <<lease, stage, landed, silver, gold, evidence, failures, local>>

\* Mutation: the calls of failed stages count too.
SumAll(j) ==
  /\ pc[j] = "summing"
  /\ cum' = [cum EXCEPT ![j] = stage[Collect].calls + stage[Normalize].calls
                                 + stage[Quality].calls + stage[Publish].calls]
  /\ at' = [at EXCEPT ![j] = Collect]
  /\ Goto(j, "stage")
  /\ UNCHANGED <<lease, store, failures, holds, mem, result>>

Sum(j) ==
  /\ pc[j] = "summing"
  /\ cum' = [cum EXCEPT ![j] = Recorded]
  /\ at' = [at EXCEPT ![j] = Collect]
  /\ Goto(j, "stage")
  /\ UNCHANGED <<lease, store, failures, holds, mem, result>>

\* Mutation: stages that succeeded are run again.
ReadStageAgain(j) ==
  /\ pc[j] = "stage"
  /\ Goto(j, IF at[j] \notin Stage THEN "closing" ELSE "marking")
  /\ UNCHANGED <<lease, store, failures, local>>

\* The loop over the stages: one that succeeded is skipped.
ReadStage(j) ==
  /\ pc[j] = "stage"
  /\ CASE at[j] \notin Stage -> Goto(j, "closing") /\ UNCHANGED at
       [] at[j] \in Stage /\ stage[at[j]].status = "succeeded" ->
            at' = [at EXCEPT ![j] = @ + 1] /\ UNCHANGED pc
       [] OTHER -> Goto(j, "marking") /\ UNCHANGED at
  /\ UNCHANGED <<lease, store, failures, holds, mem, result, cum>>

MarkStage(j) ==
  /\ pc[j] = "marking"
  /\ stage' = [stage EXCEPT ![at[j]].status = "running"]
  /\ Goto(j, "handling")
  /\ UNCHANGED <<lease, run, landed, silver, gold, evidence, failures, local>>

-----------------------------------------------------------------------------

\* The handler of collect-land: asks the sources and lands the bundle.
RunCollect(j) ==
  /\ pc[j] = "handling" /\ at[j] = Collect
  /\ \E c \in Calls, b \in Bundles :
       /\ result' = [result EXCEPT ![j] = c]
       /\ mem' = [mem EXCEPT ![j] = b]
  /\ Goto(j, "recording")
  /\ UNCHANGED <<lease, store, failures, holds, at, cum>>

\* Mutation: a resumed normalize does not read the landed bundle back.
NormalizeFromMemory(j) ==
  /\ pc[j] = "handling" /\ at[j] = Normalize
  /\ silver' = IF mem[j] = "none" THEN silver ELSE mem[j]
  /\ result' = [result EXCEPT ![j] = 0]
  /\ Goto(j, IF mem[j] = "none" THEN "failing" ELSE "recording")
  /\ UNCHANGED <<lease, run, stage, landed, gold, evidence, failures, holds, at, mem, cum>>

\* The handler of normalize: without the bundle in memory, the landed one is
\* read back.
RunNormalize(j) ==
  /\ pc[j] = "handling" /\ at[j] = Normalize
  /\ mem' = [mem EXCEPT ![j] = IF @ = "none" THEN landed ELSE @]
  /\ silver' = IF mem'[j] = "none" THEN silver ELSE mem'[j]
  /\ result' = [result EXCEPT ![j] = 0]
  /\ Goto(j, IF mem'[j] = "none" THEN "failing" ELSE "recording")
  /\ UNCHANGED <<lease, run, stage, landed, gold, evidence, failures, holds, at, cum>>

\* Mutation: a missing price or account does not fail the stage.
QualityLenient(j) ==
  /\ pc[j] = "handling" /\ at[j] = Quality
  /\ result' = [result EXCEPT ![j] = 0]
  /\ Goto(j, IF mem[j] = "none" THEN "failing" ELSE "recording")
  /\ UNCHANGED <<lease, store, failures, holds, at, mem, cum>>

\* The handler of quality judges what is in memory: accounts, prices and the
\* overseas scope must be complete.
RunQuality(j) ==
  /\ pc[j] = "handling" /\ at[j] = Quality
  /\ result' = [result EXCEPT ![j] = 0]
  /\ Goto(j, IF mem[j] = "complete" THEN "recording" ELSE "failing")
  /\ UNCHANGED <<lease, store, failures, holds, at, mem, cum>>

\* The handler of publish materializes gold from what is in silver.
RunPublish(j) ==
  /\ pc[j] = "handling" /\ at[j] = Publish
  /\ gold' = silver
  /\ result' = [result EXCEPT ![j] = 0]
  /\ Goto(j, "recording")
  /\ UNCHANGED <<lease, run, stage, landed, silver, evidence, failures, holds, at, mem, cum>>

\* The budget is looked at, and _record_evidence closes the stage.
RecordStage(j) ==
  /\ pc[j] = "recording"
  /\ IF cum[j] + result[j] > Budget
     THEN Goto(j, "failing") /\ UNCHANGED <<stage, landed, cum>>
     ELSE /\ cum' = [cum EXCEPT ![j] = @ + result[j]]
          /\ stage' = [stage EXCEPT ![at[j]] = [status |-> "succeeded", calls |-> result[j]]]
          /\ landed' = IF at[j] = Collect THEN mem[j] ELSE landed
          /\ Goto(j, "evidencing")
  /\ UNCHANGED <<lease, run, silver, gold, evidence, failures, holds, at, mem, result>>

\* _record_evidence: the rows of quality_results and lineage_edges.
AddEvidence(j) ==
  /\ pc[j] = "evidencing"
  /\ evidence' = evidence \cup {at[j]}
  /\ at' = [at EXCEPT ![j] = @ + 1]
  /\ Goto(j, "stage")
  /\ UNCHANGED <<lease, run, stage, landed, silver, gold, failures, holds, mem, result, cum>>

FailStage(j) ==
  /\ pc[j] = "failing"
  /\ stage' = [stage EXCEPT ![at[j]].status = "failed"]
  /\ Goto(j, "failingRun")
  /\ UNCHANGED <<lease, run, landed, silver, gold, evidence, failures, local>>

FailRun(j) ==
  /\ pc[j] = "failingRun"
  /\ run' = [status |-> "failed", calls |-> cum[j]]
  /\ Goto(j, "releasing")
  /\ UNCHANGED <<lease, stage, landed, silver, gold, evidence, failures, local>>

Close(j) ==
  /\ pc[j] = "closing"
  /\ run' = [status |-> "succeeded", calls |-> cum[j]]
  /\ Goto(j, "releasing")
  /\ UNCHANGED <<lease, stage, landed, silver, gold, evidence, failures, local>>

\* The finally clause: the fencing token must still be the job's.
Release(j) ==
  /\ pc[j] = "releasing"
  /\ lease' = IF lease = j THEN Nobody ELSE lease
  /\ holds' = [holds EXCEPT ![j] = FALSE]
  /\ Goto(j, "done")
  /\ UNCHANGED <<store, failures, at, mem, result, cum>>

-----------------------------------------------------------------------------

MayFail(j) ==
  /\ failures < MaxFailures /\ at[j] \in FailAt
  /\ failures' = failures + 1

\* A handler raises, or the statements that record its success do.
StageFails(j) ==
  /\ MayFail(j)
  /\ pc[j] \in {"handling", "recording", "evidencing"}
  /\ Goto(j, "failing")
  /\ UNCHANGED <<lease, store, local>>

\* A statement outside the handlers' try raises: the run stays as it is.
StatementFails(j) ==
  /\ MayFail(j)
  /\ pc[j] \in {"looking", "inserting", "opening", "summing", "stage", "marking",
                "failing", "failingRun", "closing"}
  /\ Goto(j, "releasing")
  /\ UNCHANGED <<lease, store, local>>

\* The job dies, or raises where nothing releases the lease.
Crash(j) ==
  /\ MayFail(j)
  /\ Active(j)
  /\ holds' = [holds EXCEPT ![j] = FALSE]
  /\ Goto(j, "dead")
  /\ UNCHANGED <<lease, store, at, mem, result, cum>>

\* 30 minutes pass.  The task timeout, 1800 s, kills a job before that.
LeaseRunsOut ==
  /\ lease # Nobody
  /\ ~holds[lease]
  /\ lease' = Nobody
  /\ UNCHANGED <<store, failures, pc, local>>

\* The scheduler or the remote command starts the job again.
Again(j) ==
  /\ pc[j] \in Ended
  /\ at' = [at EXCEPT ![j] = 0] /\ mem' = [mem EXCEPT ![j] = "none"]
  /\ result' = [result EXCEPT ![j] = 0] /\ cum' = [cum EXCEPT ![j] = 0]
  /\ Goto(j, "idle")
  /\ UNCHANGED <<lease, store, failures, holds>>

Handle(j) == RunCollect(j) \/ RunNormalize(j) \/ RunQuality(j) \/ RunPublish(j)

Step(j) ==
  \/ Trigger(j) \/ LookUp(j) \/ InsertRun(j) \/ Open(j) \/ Sum(j)
  \/ ReadStage(j) \/ MarkStage(j) \/ Handle(j) \/ RecordStage(j) \/ AddEvidence(j)
  \/ FailStage(j) \/ FailRun(j) \/ Close(j) \/ Release(j) \/ Again(j)

Next ==
  \/ \E j \in Job : Step(j) \/ StageFails(j) \/ StatementFails(j) \/ Crash(j)
  \/ LeaseRunsOut

Spec == Init /\ [][Next]_vars

\* Jobs run and are triggered again, and leases run out.
FairSpec == Spec /\ (\A j \in Job : WF_vars(Step(j))) /\ WF_vars(LeaseRunsOut)

-----------------------------------------------------------------------------

TypeOK ==
  /\ lease \in Job \cup {Nobody}
  /\ run \in [status : Status, calls : Nat]
  /\ stage \in [Stage -> [status : Status, calls : Nat]]
  /\ landed \in Bundle /\ silver \in Bundle /\ gold \in Bundle
  /\ evidence \subseteq Stage
  /\ failures \in Nat
  /\ pc \in [Job -> {"idle", "looking", "inserting", "opening", "summing", "stage",
                     "marking", "handling", "recording", "evidencing", "failing",
                     "failingRun", "closing", "releasing"} \cup Ended]
  /\ holds \in [Job -> BOOLEAN]
  /\ at \in [Job -> Point]
  /\ \A j \in Job :
       pc[j] \in {"marking", "handling", "recording", "evidencing", "failing"}
       => at[j] \in Stage
  /\ mem \in [Job -> Bundle]
  /\ result \in [Job -> Nat] /\ cum \in [Job -> Nat]

\* docs/data-pipeline.md:37, successful stages are reused: a stage is begun
\* only when all before it have succeeded, whichever jobs ran them.
StagesInOrder ==
  \A s, t \in Stage :
    s < t /\ stage[t].status # "none" => stage[s].status = "succeeded"

\* What succeeded stays: the run for good, a stage unless the job that ran it
\* failed to record it.
DoneStaysDone ==
  [][/\ run.status = "succeeded" => run' = run
     /\ \A s \in Stage :
          stage[s].status = "succeeded" =>
            \/ stage'[s] = stage[s]
            \/ \E j \in Job : at[j] = s /\ FailStage(j)]_vars

\* The calls a finished run reports are those of its stages, whichever jobs
\* ran them and whatever failed before.
CallsAddUp == run.status = "succeeded" => run.calls = Recorded

\* Gold is published only from a bundle that passed the quality stage.
PublishedIsComplete == gold \in {"none", "complete"}

\* Normalize is recorded, quality is not, and no job under way remembers the
\* bundle that quality will look for.
Forgotten ==
  /\ stage[Normalize].status = "succeeded" /\ stage[Quality].status # "succeeded"
  /\ \A j \in Job : Active(j) => mem[j] = "none"

Landed == landed = "complete" /\ stage[Collect].status = "succeeded"

\* Once a complete bundle is landed and recorded, later jobs finish the run
\* from what is stored, unless the bundle is forgotten on the way or its
\* recording is undone.
LandedRunResumes ==
  Landed ~> (run.status = "succeeded" \/ Forgotten \/ stage[Collect].status = "failed")

\* docs/data-pipeline.md:38, a run goes on from the stage that failed: once
\* a complete bundle is landed and recorded, the run succeeds.
LandedRunCompletes == Landed ~> run.status = "succeeded"
=============================================================================
