----------------------- MODULE ManagedPipeline_proofs -----------------------
(***************************************************************************)
(* Proofs about ManagedPipeline: its types, and the order, the account and  *)
(* the finality of stages and run under the lease.                          *)
(***************************************************************************)
EXTENDS ManagedPipeline, TLAPS

\* The type invariant holds of every behaviour of the jobs.
THEOREM TypeCorrect == Spec => []TypeOK
<1> USE CallsAssumption, BundleAssumption, FailureAssumption
    DEF Stage, Collect, Normalize, Quality, Publish, Point
<1>1. Init => TypeOK
  BY JobAssumption DEF Init, TypeOK, Status, Bundle, Ended
<1>2. TypeOK /\ [Next]_vars => TypeOK'
  <2> SUFFICES ASSUME TypeOK, [Next]_vars PROVE TypeOK'
    OBVIOUS
  <2> USE DEF TypeOK, Goto, Ended, store, local
  <2>1. ASSUME NEW j \in Job, Trigger(j) \/ Release(j) PROVE TypeOK'
    BY <2>1 DEF Trigger, Release
  <2>2. ASSUME NEW j \in Job, LookUp(j) PROVE TypeOK'
    BY <2>2 DEF LookUp
  <2>3. ASSUME NEW j \in Job, InsertRun(j) \/ Open(j) PROVE TypeOK'
    BY <2>3 DEF InsertRun, Open, Status
  <2>4. ASSUME NEW j \in Job, Sum(j) PROVE TypeOK'
    <3>1. Recorded \in Nat
      BY DEF Recorded, CallsOf
    <3> QED BY <3>1, <2>4 DEF Sum
  <2>5. ASSUME NEW j \in Job, ReadStage(j) PROVE TypeOK'
    BY <2>5 DEF ReadStage
  <2>6. ASSUME NEW j \in Job, MarkStage(j) PROVE TypeOK'
    BY <2>6 DEF MarkStage, Status
  <2>7. ASSUME NEW j \in Job, RunCollect(j) PROVE TypeOK'
    <3>1. PICK c \in Calls, b \in Bundles : RunCollect(j)!2!(c, b)
      BY <2>7 DEF RunCollect
    <3>2. c \in Nat /\ b \in Bundle
      BY DEF Bundle
    <3> QED BY <3>1, <3>2, <2>7 DEF RunCollect
  <2>8. ASSUME NEW j \in Job, RunNormalize(j) PROVE TypeOK'
    <3>1. mem' \in [Job -> Bundle]
      BY <2>8 DEF RunNormalize
    <3>2. silver' \in Bundle
      BY <3>1, <2>8 DEF RunNormalize
    <3> QED BY <3>1, <3>2, <2>8 DEF RunNormalize
  <2>9. ASSUME NEW j \in Job, RunQuality(j) \/ RunPublish(j) PROVE TypeOK'
    <3>1. CASE RunQuality(j)
      BY <3>1 DEF RunQuality
    <3>2. CASE RunPublish(j)
      BY <3>2 DEF RunPublish
    <3> QED BY <2>9, <3>1, <3>2
  <2>10. ASSUME NEW j \in Job, RecordStage(j) PROVE TypeOK'
    <3>1. CASE cum[j] + result[j] > Budget
      BY <3>1, <2>10 DEF RecordStage
    <3>2. CASE ~(cum[j] + result[j] > Budget)
      <4>1. /\ cum' \in [Job -> Nat]
            /\ stage' \in [Stage -> [status : Status, calls : Nat]]
            /\ landed' \in Bundle
        BY <3>2, <2>10 DEF RecordStage, Status
      <4> QED BY <4>1, <3>2, <2>10 DEF RecordStage
    <3> QED BY <3>1, <3>2
  <2>11. ASSUME NEW j \in Job, AddEvidence(j) PROVE TypeOK'
    <3>1. at' \in [Job -> Point]
      <4>1. at[j] \in Stage /\ at[j] + 1 \in Point
        BY <2>11 DEF AddEvidence
      <4> QED BY <4>1, <2>11 DEF AddEvidence
    <3>2. evidence' \subseteq Stage
      BY <2>11 DEF AddEvidence
    <3>3. \A i \in Job : pc'[i] \in {"marking", "handling", "recording", "evidencing", "failing"}
                        => at'[i] \in Stage
      BY <2>11 DEF AddEvidence
    <3> QED BY <3>1, <3>2, <3>3, <2>11 DEF AddEvidence
  <2>12. ASSUME NEW j \in Job, FailStage(j) PROVE TypeOK'
    BY <2>12 DEF FailStage, Status
  <2>13. ASSUME NEW j \in Job, FailRun(j) \/ Close(j) PROVE TypeOK'
    <3>1. run' \in [status : Status, calls : Nat]
      BY <2>13 DEF FailRun, Close, Status
    <3>2. CASE FailRun(j)
      BY <3>1, <3>2 DEF FailRun
    <3>3. CASE Close(j)
      BY <3>1, <3>3 DEF Close
    <3> QED BY <2>13, <3>2, <3>3
  <2>14. ASSUME NEW j \in Job, Again(j) PROVE TypeOK'
    BY <2>14 DEF Again, Bundle
  <2>15. ASSUME NEW j \in Job, StageFails(j) PROVE TypeOK'
    <3>1. failures' \in Nat
      BY <2>15 DEF StageFails, MayFail
    <3> QED BY <3>1, <2>15 DEF StageFails
  <2>16. ASSUME NEW j \in Job, StatementFails(j) \/ Crash(j) PROVE TypeOK'
    <3>1. failures' \in Nat
      BY <2>16 DEF StatementFails, Crash, MayFail
    <3>2. CASE StatementFails(j)
      BY <3>1, <3>2 DEF StatementFails
    <3>3. CASE Crash(j)
      BY <3>1, <3>3 DEF Crash
    <3> QED BY <2>16, <3>2, <3>3
  <2>17. CASE LeaseRunsOut \/ UNCHANGED vars
    BY <2>17 DEF LeaseRunsOut, vars
  <2> QED BY <2>1, <2>2, <2>3, <2>4, <2>5, <2>6, <2>7, <2>8, <2>9, <2>10, <2>11, <2>12,
             <2>13, <2>14, <2>15, <2>16, <2>17 DEF Next, Step, Handle
<1> QED BY <1>1, <1>2, PTL DEF Spec

-----------------------------------------------------------------------------

\* The job is at work on the stage it has come to.
Busy(j) == pc[j] \in {"marking", "handling", "recording", "evidencing", "failing"}
InLoop(j) == pc[j] \in {"stage", "closing"} \/ Busy(j)

\* A job under way has the lease.
Exclusive == \A j \in Job : (Active(j) => holds[j]) /\ (holds[j] => lease = j)

\* The stages before that of a job have succeeded, those behind the one it is
\* at work on have not begun.
Placed(j) ==
  /\ InLoop(j) => at[j] # 0
  /\ InLoop(j) => \A s \in Stage : s < at[j] => stage[s].status = "succeeded"
  /\ Busy(j) => \A s \in Stage : at[j] < s => stage[s].status = "none"
  /\ pc[j] = "marking" => stage[at[j]].status # "succeeded"
  /\ pc[j] \in {"handling", "recording"} => stage[at[j]].status = "running"
  /\ pc[j] = "evidencing" => stage[at[j]].status = "succeeded"
  /\ pc[j] = "closing" => at[j] = Publish + 1

\* cumulative_calls is the sum over the stages that succeeded.
Accounted(j) ==
  pc[j] \in {"stage", "marking", "handling", "recording", "evidencing", "closing"}
  => cum[j] = Recorded

\* A job that goes on has not found the run finished.
Unfinished(j) ==
  Active(j) /\ pc[j] \notin {"looking", "releasing"} => run.status # "succeeded"

\* What a job remembers is what is in silver once it has normalized it.
Remembers(j) ==
  /\ pc[j] \in {"idle", "looking", "inserting", "opening", "summing"} => mem[j] = "none"
  /\ pc[j] = "stage" /\ at[j] = Collect => mem[j] = "none"
  /\ pc[j] = "stage" /\ at[j] = Normalize /\ mem[j] # "none"
     => stage[Normalize].status = "none"
  /\ pc[j] \in {"recording", "evidencing"} /\ at[j] = Normalize => silver = mem[j]
  /\ InLoop(j) /\ Normalize < at[j] /\ mem[j] # "none" => silver = mem[j]
  /\ pc[j] = "recording" /\ at[j] = Quality => silver = "complete"

Local(j) == Placed(j) /\ Accounted(j) /\ Unfinished(j) /\ Remembers(j)

\* The quality stage has seen what is in silver.
Judged == stage[Quality].status = "succeeded" => silver = "complete"

PipelineInv ==
  /\ TypeOK /\ Exclusive /\ \A j \in Job : Local(j)
  /\ StagesInOrder /\ Judged /\ CallsAddUp /\ PublishedIsComplete

\* A step of a job under way leaves the others, all at rest, alone.
LEMMA Others ==
  ASSUME PipelineInv, NEW j \in Job, Active(j),
         \A i \in Job : i # j => pc'[i] = pc[i] /\ mem'[i] = mem[i]
  PROVE  \A i \in Job : i # j => Local(i)'
<1> SUFFICES ASSUME NEW i \in Job, i # j PROVE Local(i)'
  OBVIOUS
<1>1. pc'[i] \in Ended \cup {"idle"} /\ (pc'[i] = "idle" => mem'[i] = "none")
  BY DEF PipelineInv, Exclusive, Active, Local, Remembers
<1> QED BY <1>1 DEF Local, Placed, Accounted, Unfinished, Remembers, InLoop, Busy, Active, Ended

LEMMA SameHolder ==
  ASSUME PipelineInv, NEW j \in Job, Active(j), UNCHANGED <<lease, holds>>,
         \A i \in Job : i # j => pc'[i] = pc[i]
  PROVE  Exclusive'
BY DEF PipelineInv, Exclusive, Active

LEMMA InitPipeline == Init => PipelineInv
<1> SUFFICES ASSUME Init PROVE PipelineInv
  OBVIOUS
<1> USE DEF Stage, Collect, Normalize, Quality, Publish, Point
<1>1. TypeOK
  BY JobAssumption DEF Init, TypeOK, Status, Bundle, Ended
<1>2. Exclusive /\ \A j \in Job : Local(j)
  BY DEF Init, Exclusive, Active, Local, Placed, Accounted, Unfinished, Remembers, InLoop, Busy
<1>3. StagesInOrder /\ Judged /\ CallsAddUp /\ PublishedIsComplete
  BY DEF Init, StagesInOrder, Judged, CallsAddUp, PublishedIsComplete
<1> QED BY <1>1, <1>2, <1>3 DEF PipelineInv

\* Steps of a job that write nothing to the warehouse.
LEMMA QuietSteps ==
  ASSUME PipelineInv, TypeOK', NEW j \in Job,
         \/ LookUp(j) \/ Sum(j) \/ ReadStage(j) \/ RunCollect(j) \/ RunQuality(j)
         \/ StageFails(j) \/ StatementFails(j)
  PROVE  PipelineInv'
<1> USE DEF Stage, Collect, Normalize, Quality, Publish, Point
<1>1. Active(j) /\ UNCHANGED <<lease, holds, run, stage, silver, gold>>
  BY DEF LookUp, Sum, ReadStage, RunCollect, RunQuality, StageFails, StatementFails,
         store, local, Active, Ended
<1>2. \A i \in Job : i # j => pc'[i] = pc[i] /\ mem'[i] = mem[i]
  BY DEF LookUp, Sum, ReadStage, RunCollect, RunQuality, StageFails, StatementFails,
         store, local, Goto, PipelineInv, TypeOK
<1>3. StagesInOrder' /\ Judged' /\ CallsAddUp' /\ PublishedIsComplete'
  BY <1>1 DEF PipelineInv, StagesInOrder, Judged, CallsAddUp, PublishedIsComplete, Recorded, CallsOf
<1>4. Local(j)'
  <2> USE <1>1 DEF PipelineInv, Local, Placed, Accounted, Unfinished, Remembers, InLoop, Busy,
                   Goto, TypeOK
  <2>1. Recorded' = Recorded
    BY DEF Recorded, CallsOf
  <2>2. CASE LookUp(j)
    BY <2>1, <2>2 DEF LookUp, Active, local
  <2>3. CASE Sum(j)
    BY <2>1, <2>3 DEF Sum, Active, Ended
  <2>4. CASE ReadStage(j)
    <3>0. at[j] \in 1 .. 5 /\ pc[j] = "stage" /\ mem' = mem /\ cum' = cum
      BY <2>4 DEF ReadStage
    <3>1. CASE at[j] = 5
      BY <2>1, <2>4, <3>0, <3>1 DEF ReadStage, Active, Ended
    <3>2. CASE at[j] \in 1 .. 4 /\ stage[at[j]].status = "succeeded"
      <4>1. at'[j] = at[j] + 1 /\ pc' = pc
        BY <2>4, <3>2 DEF ReadStage
      <4> QED BY <2>1, <3>0, <3>2, <4>1 DEF Active, Ended
    <3>3. CASE at[j] \in 1 .. 4 /\ stage[at[j]].status # "succeeded"
      <4>1. at' = at /\ pc'[j] = "marking"
        BY <2>4, <3>3 DEF ReadStage
      <4>2. \A s \in 1 .. 4 : at[j] < s => stage[s].status = "none"
        BY <3>3 DEF StagesInOrder
      <4> QED BY <2>1, <3>0, <3>3, <4>1, <4>2 DEF Active, Ended
    <3> QED BY <3>0, <3>1, <3>2, <3>3
  <2>5. CASE RunCollect(j)
    BY <2>1, <2>5 DEF RunCollect, Active, Ended
  <2>6. CASE RunQuality(j)
    BY <2>1, <2>6 DEF RunQuality, Active, Ended
  <2>7. CASE StageFails(j)
    BY <2>1, <2>7 DEF StageFails, Active, Ended, local
  <2>8. CASE StatementFails(j)
    BY <2>1, <2>8 DEF StatementFails, Active, Ended, local
  <2> QED BY <2>2, <2>3, <2>4, <2>5, <2>6, <2>7, <2>8
<1>5. Exclusive' /\ \A i \in Job : Local(i)'
  BY <1>1, <1>2, <1>4, Others, SameHolder
<1> QED BY <1>3, <1>5 DEF PipelineInv

\* Steps that write the row of the run.
LEMMA RunSteps ==
  ASSUME PipelineInv, TypeOK', NEW j \in Job,
         InsertRun(j) \/ Open(j) \/ FailRun(j) \/ Close(j)
  PROVE  PipelineInv'
<1> USE DEF Stage, Collect, Normalize, Quality, Publish, Point
<1>1. Active(j) /\ UNCHANGED <<lease, holds, stage, silver, gold, at, mem, cum>>
  BY DEF InsertRun, Open, FailRun, Close, local, Active, Ended
<1>2. \A i \in Job : i # j => pc'[i] = pc[i] /\ mem'[i] = mem[i]
  BY DEF InsertRun, Open, FailRun, Close, local, Goto, PipelineInv, TypeOK
<1>3. Recorded' = Recorded
  BY <1>1 DEF Recorded, CallsOf
<1>4. StagesInOrder' /\ Judged' /\ PublishedIsComplete'
  BY <1>1 DEF PipelineInv, StagesInOrder, Judged, PublishedIsComplete
<1>5. Local(j)' /\ CallsAddUp'
  <2> USE <1>1, <1>3 DEF PipelineInv, Local, Placed, Accounted, Unfinished, Remembers, InLoop,
                   Busy, Goto, TypeOK, CallsAddUp
  <2>1. CASE InsertRun(j)
    BY <2>1 DEF InsertRun, Active, Ended
  <2>2. CASE Open(j)
    BY <2>2 DEF Open, Active, Ended
  <2>3. CASE FailRun(j)
    BY <2>3 DEF FailRun, Active, Ended
  <2>4. CASE Close(j)
    BY <2>4 DEF Close, Active, Ended
  <2> QED BY <2>1, <2>2, <2>3, <2>4
<1>6. Exclusive' /\ \A i \in Job : Local(i)'
  BY <1>1, <1>2, <1>5, Others, SameHolder
<1> QED BY <1>4, <1>5, <1>6 DEF PipelineInv

\* Marking and failing a stage.
LEMMA MarkSteps ==
  ASSUME PipelineInv, TypeOK', NEW j \in Job, MarkStage(j) \/ FailStage(j)
  PROVE  PipelineInv'
<1> USE DEF Stage, Collect, Normalize, Quality, Publish, Point
<1>1. /\ Active(j) /\ Busy(j) /\ at[j] \in Stage
      /\ UNCHANGED <<lease, holds, run, silver, gold, at, mem, cum>>
  BY DEF MarkStage, FailStage, local, Active, Ended, Busy, PipelineInv, TypeOK
<1>2. \A i \in Job : i # j => pc'[i] = pc[i] /\ mem'[i] = mem[i]
  BY DEF MarkStage, FailStage, local, Goto, PipelineInv, TypeOK
<1>3. /\ \A s \in Stage : s # at[j] => stage'[s] = stage[s]
      /\ stage'[at[j]].status \in {"running", "failed"}
  BY <1>1 DEF MarkStage, FailStage, PipelineInv, TypeOK
<1>4. run.status # "succeeded"
  BY <1>1 DEF PipelineInv, Local, Unfinished, Busy, Active
<1>5. CallsAddUp' /\ PublishedIsComplete' /\ Judged'
  BY <1>1, <1>3, <1>4 DEF PipelineInv, CallsAddUp, PublishedIsComplete, Judged
<1>6. /\ \A s \in Stage : s < at[j] => stage[s].status = "succeeded"
      /\ \A s \in Stage : at[j] < s => stage[s].status = "none"
  BY <1>1 DEF PipelineInv, Local, Placed, InLoop
<1>7. StagesInOrder'
  BY <1>1, <1>3, <1>6 DEF StagesInOrder
<1>8. Local(j)'
  <2>1. CASE MarkStage(j)
    <3>1. pc[j] = "marking" /\ pc'[j] = "handling" /\ stage'[at[j]].status = "running"
          /\ stage[at[j]].status # "succeeded"
      BY <2>1 DEF MarkStage, Goto, PipelineInv, TypeOK, Local, Placed
    <3>2. \A s \in Stage : CallsOf(s)' = CallsOf(s)
      BY <1>3, <3>1 DEF CallsOf
    <3>3. Recorded' = Recorded
      BY <3>2 DEF Recorded
    <3> QED BY <1>1, <1>3, <1>4, <1>6, <3>1, <3>3
            DEF PipelineInv, Local, Placed, Accounted, Unfinished, Remembers, InLoop, Busy
  <2>2. CASE FailStage(j)
    <3>1. pc'[j] = "failingRun"
      BY <2>2 DEF FailStage, Goto, PipelineInv, TypeOK
    <3> QED BY <1>1, <1>4, <3>1 DEF Local, Placed, Accounted, Unfinished, Remembers, InLoop, Busy
  <2> QED BY <2>1, <2>2
<1>9. Exclusive' /\ \A i \in Job : Local(i)'
  BY <1>1, <1>2, <1>8, Others, SameHolder
<1> QED BY <1>5, <1>7, <1>9 DEF PipelineInv

LEMMA RecordStep ==
  ASSUME PipelineInv, TypeOK', NEW j \in Job, RecordStage(j)
  PROVE  PipelineInv'
<1> USE DEF Stage, Collect, Normalize, Quality, Publish, Point
<1>1. /\ Active(j) /\ Busy(j) /\ at[j] \in Stage /\ pc[j] = "recording"
      /\ UNCHANGED <<lease, holds, run, silver, gold, at, mem, result>>
  BY DEF RecordStage, Active, Ended, Busy, PipelineInv, TypeOK
<1>2. \A i \in Job : i # j => pc'[i] = pc[i] /\ mem'[i] = mem[i]
  BY DEF RecordStage, Goto, PipelineInv, TypeOK
<1>3. run.status # "succeeded"
  BY <1>1 DEF PipelineInv, Local, Unfinished, Busy, Active
<1>4. /\ \A s \in Stage : s < at[j] => stage[s].status = "succeeded"
      /\ \A s \in Stage : at[j] < s => stage[s].status = "none"
      /\ stage[at[j]].status = "running" /\ cum[j] = Recorded
      /\ at[j] = Quality => silver = "complete"
  BY <1>1 DEF PipelineInv, Local, Placed, Accounted, Remembers, InLoop
<1>5. CASE pc'[j] = "failing" /\ UNCHANGED <<stage, cum>>
  <2>1. StagesInOrder' /\ Judged' /\ CallsAddUp' /\ PublishedIsComplete'
    BY <1>1, <1>3, <1>5 DEF PipelineInv, StagesInOrder, Judged, CallsAddUp, PublishedIsComplete
  <2>2. Local(j)'
    BY <1>1, <1>3, <1>4, <1>5
       DEF PipelineInv, Local, Placed, Accounted, Unfinished, Remembers, InLoop, Busy
  <2> QED BY <1>1, <1>2, <2>1, <2>2, Others, SameHolder DEF PipelineInv
<1>6. CASE /\ pc'[j] = "evidencing"
           /\ cum' = [cum EXCEPT ![j] = @ + result[j]]
           /\ stage' = [stage EXCEPT ![at[j]] = [status |-> "succeeded", calls |-> result[j]]]
  <2>1. /\ \A s \in Stage : s # at[j] => stage'[s] = stage[s]
        /\ stage'[at[j]] = [status |-> "succeeded", calls |-> result[j]]
        /\ cum'[j] = cum[j] + result[j]
    BY <1>1, <1>6 DEF PipelineInv, TypeOK
  <2>2. StagesInOrder' /\ Judged' /\ CallsAddUp' /\ PublishedIsComplete'
    <3>1. StagesInOrder'
      BY <1>1, <1>4, <2>1 DEF StagesInOrder
    <3>2. Judged' /\ CallsAddUp' /\ PublishedIsComplete'
      BY <1>1, <1>3, <1>4, <2>1 DEF PipelineInv, Judged, CallsAddUp, PublishedIsComplete
    <3> QED BY <3>1, <3>2
  <2>3. Recorded' = Recorded + result[j]
    <3>1. /\ CallsOf(at[j]) = 0 /\ CallsOf(at[j])' = result[j]
          /\ \A s \in Stage : s # at[j] => CallsOf(s)' = CallsOf(s)
      BY <1>1, <1>4, <2>1 DEF CallsOf
    <3>2. result[j] \in Nat /\ \A s \in Stage : CallsOf(s) \in Nat
      BY DEF PipelineInv, TypeOK, CallsOf
    <3>3. at[j] \in {1, 2, 3, 4}
      BY <1>1
    <3> HIDE DEF CallsOf
    <3> QED BY <3>1, <3>2, <3>3, <1>1 DEF Recorded
  <2>4. Local(j)'
    <3>1. Placed(j)' /\ Unfinished(j)'
      BY <1>1, <1>3, <1>4, <1>6, <2>1 DEF Placed, Unfinished, InLoop, Busy
    <3>2. Accounted(j)'
      BY <1>4, <2>1, <2>3 DEF Accounted
    <3>3. Remembers(j)'
      BY <1>1, <1>6 DEF PipelineInv, Local, Remembers, InLoop, Busy
    <3> QED BY <3>1, <3>2, <3>3 DEF Local
  <2> QED BY <1>1, <1>2, <2>2, <2>4, Others, SameHolder DEF PipelineInv
<1> QED BY <1>5, <1>6 DEF RecordStage, Goto, PipelineInv, TypeOK

LEMMA HandlerSteps ==
  ASSUME PipelineInv, TypeOK', NEW j \in Job,
         RunNormalize(j) \/ RunPublish(j) \/ AddEvidence(j)
  PROVE  PipelineInv'
<1> USE DEF Stage, Collect, Normalize, Quality, Publish, Point
<1>1. /\ Active(j) /\ Busy(j) /\ at[j] \in Stage
      /\ UNCHANGED <<lease, holds, run, stage, cum>>
  BY DEF RunNormalize, RunPublish, AddEvidence, Active, Ended, Busy, PipelineInv, TypeOK
<1>2. \A i \in Job : i # j => pc'[i] = pc[i] /\ mem'[i] = mem[i]
  BY DEF RunNormalize, RunPublish, AddEvidence, Goto, PipelineInv, TypeOK
<1>3. Recorded' = Recorded
  BY <1>1 DEF Recorded, CallsOf
<1>4. StagesInOrder' /\ CallsAddUp'
  BY <1>1, <1>3 DEF PipelineInv, StagesInOrder, CallsAddUp
<1>5. /\ \A s \in Stage : s < at[j] => stage[s].status = "succeeded"
      /\ \A s \in Stage : at[j] < s => stage[s].status = "none"
      /\ run.status # "succeeded"
  BY <1>1 DEF PipelineInv, Local, Placed, Unfinished, InLoop, Busy
<1>6. Judged' /\ PublishedIsComplete' /\ Local(j)'
  <2>1. CASE RunNormalize(j)
    <3>1. /\ at[j] = Normalize /\ pc[j] = "handling" /\ gold' = gold /\ at' = at
          /\ \/ pc'[j] = "failing"
             \/ pc'[j] = "recording" /\ silver' = mem'[j]
      BY <2>1 DEF RunNormalize, Goto, PipelineInv, TypeOK
    <3>2. Judged' /\ PublishedIsComplete'
      BY <1>1, <1>5, <3>1 DEF PipelineInv, Judged, PublishedIsComplete
    <3> QED BY <1>1, <1>3, <1>5, <3>1, <3>2
            DEF PipelineInv, Local, Placed, Accounted, Unfinished, Remembers, InLoop, Busy
  <2>2. CASE RunPublish(j)
    <3>1. /\ at[j] = Publish /\ pc[j] = "handling" /\ pc'[j] = "recording"
          /\ gold' = silver /\ UNCHANGED <<silver, at, mem>>
      BY <2>2 DEF RunPublish, Goto, PipelineInv, TypeOK
    <3>2. silver = "complete"
      BY <1>5, <3>1 DEF PipelineInv, Judged
    <3>3. Judged' /\ PublishedIsComplete'
      BY <1>1, <3>1, <3>2 DEF PipelineInv, Judged, PublishedIsComplete
    <3> QED BY <1>1, <1>3, <1>5, <3>1, <3>3
            DEF PipelineInv, Local, Placed, Accounted, Unfinished, Remembers, InLoop, Busy
  <2>3. CASE AddEvidence(j)
    <3>1. /\ pc[j] = "evidencing" /\ pc'[j] = "stage" /\ at'[j] = at[j] + 1
          /\ UNCHANGED <<silver, gold, mem>>
      BY <1>1, <2>3 DEF AddEvidence, Goto, PipelineInv, TypeOK
    <3>2. Judged' /\ PublishedIsComplete'
      BY <1>1, <3>1 DEF PipelineInv, Judged, PublishedIsComplete
    <3>3. stage[at[j]].status = "succeeded"
      BY <3>1 DEF PipelineInv, Local, Placed
    <3>4. Placed(j)' /\ Accounted(j)' /\ Unfinished(j)'
      BY <1>1, <1>3, <1>5, <3>1, <3>3
         DEF PipelineInv, Local, Placed, Accounted, Unfinished, InLoop, Busy
    <3>5. Remembers(j)'
      BY <1>1, <1>5, <3>1 DEF PipelineInv, Local, Remembers, InLoop, Busy
    <3> QED BY <3>2, <3>4, <3>5 DEF Local
  <2> QED BY <2>1, <2>2, <2>3
<1>7. Exclusive' /\ \A i \in Job : Local(i)'
  BY <1>1, <1>2, <1>6, Others, SameHolder
<1> QED BY <1>4, <1>6, <1>7 DEF PipelineInv

\* Steps that start and end a job, and the end of a lease.
LEMMA LeaseSteps ==
  ASSUME PipelineInv, TypeOK',
         \/ \E j \in Job : Trigger(j) \/ Release(j) \/ Crash(j) \/ Again(j)
         \/ LeaseRunsOut
         \/ UNCHANGED vars
  PROVE  PipelineInv'
<1>1. UNCHANGED <<run, stage, silver, gold>>
  BY DEF Trigger, Release, Crash, Again, LeaseRunsOut, vars, store
<1>2. StagesInOrder' /\ Judged' /\ CallsAddUp' /\ PublishedIsComplete'
  BY <1>1 DEF PipelineInv, StagesInOrder, Judged, CallsAddUp, PublishedIsComplete, Recorded, CallsOf
<1>3. ASSUME NEW i \in Job, pc'[i] = pc[i], at'[i] = at[i], mem'[i] = mem[i], cum'[i] = cum[i]
      PROVE  Local(i)'
  <2>1. Placed(i)' /\ Accounted(i)' /\ Unfinished(i)'
    BY <1>1, <1>3 DEF PipelineInv, Local, Placed, Accounted, Unfinished, InLoop, Busy, Active,
                       Recorded, CallsOf
  <2>2. Remembers(i)'
    BY <1>1, <1>3 DEF PipelineInv, Local, Remembers, InLoop, Busy
  <2> QED BY <2>1, <2>2 DEF Local
<1>4. CASE LeaseRunsOut \/ UNCHANGED vars
  <2>1. UNCHANGED <<pc, holds, at, mem, cum>>
    BY <1>4 DEF LeaseRunsOut, vars, local
  <2>2. Exclusive'
    BY <1>4, <2>1 DEF LeaseRunsOut, vars, PipelineInv, Exclusive, Active
  <2> QED BY <1>2, <1>3, <2>1, <2>2 DEF PipelineInv
<1>5. ASSUME NEW j \in Job, Trigger(j) \/ Release(j) \/ Crash(j) \/ Again(j)
      PROVE  PipelineInv'
  <2>1. /\ \A i \in Job : i # j => /\ pc'[i] = pc[i] /\ at'[i] = at[i] /\ mem'[i] = mem[i]
                                  /\ cum'[i] = cum[i] /\ holds'[i] = holds[i]
        /\ pc'[j] \in Ended \cup {"idle", "looking"}
    BY <1>5 DEF Trigger, Release, Crash, Again, Goto, local, Ended, PipelineInv, TypeOK
  <2>2. pc'[j] \in {"idle", "looking"} => mem'[j] = "none"
    <3>1. CASE Trigger(j)
      BY <3>1 DEF Trigger, PipelineInv, Local, Remembers
    <3>2. CASE Again(j)
      BY <3>2 DEF Again, PipelineInv, TypeOK
    <3>3. CASE Release(j) \/ Crash(j)
      BY <3>3 DEF Release, Crash, Goto, PipelineInv, TypeOK
    <3> QED BY <1>5, <3>1, <3>2, <3>3
  <2>3. Local(j)'
    BY <2>1, <2>2 DEF Local, Placed, Accounted, Unfinished, Remembers, InLoop, Busy, Active, Ended
  <2>4. Exclusive'
    <3>1. CASE Trigger(j)
      BY <2>1, <3>1, JobAssumption
         DEF Trigger, Goto, Active, Ended, PipelineInv, TypeOK, Exclusive
    <3>2. CASE Release(j)
      BY <2>1, <3>2 DEF Release, Goto, Active, Ended, PipelineInv, TypeOK, Exclusive
    <3>3. CASE Crash(j)
      BY <2>1, <3>3 DEF Crash, Goto, Active, Ended, PipelineInv, TypeOK, Exclusive
    <3>4. CASE Again(j)
      BY <2>1, <3>4 DEF Again, Goto, Active, Ended, PipelineInv, TypeOK, Exclusive
    <3> QED BY <1>5, <3>1, <3>2, <3>3, <3>4
  <2> QED BY <1>2, <1>3, <2>1, <2>3, <2>4 DEF PipelineInv
<1> QED BY <1>4, <1>5

-----------------------------------------------------------------------------

\* The invariant behind the theorems below.
THEOREM Inductive == Spec => []PipelineInv
<1>1. PipelineInv /\ TypeOK' /\ [Next]_vars => PipelineInv'
  BY QuietSteps, RunSteps, MarkSteps, RecordStep, HandlerSteps, LeaseSteps
     DEF Next, Step, Handle
<1> QED BY <1>1, InitPipeline, TypeCorrect, PTL DEF Spec

\* Under the lease no stage begins before all before it have succeeded.
THEOREM Order == Spec => []StagesInOrder
<1>1. PipelineInv => StagesInOrder
  BY DEF PipelineInv
<1> QED BY <1>1, Inductive, PTL

\* The calls of a finished run are those of its stages.
THEOREM Sums == Spec => []CallsAddUp
<1>1. PipelineInv => CallsAddUp
  BY DEF PipelineInv
<1> QED BY <1>1, Inductive, PTL

\* Nothing partial is published.
THEOREM Gate == Spec => []PublishedIsComplete
<1>1. PipelineInv => PublishedIsComplete
  BY DEF PipelineInv
<1> QED BY <1>1, Inductive, PTL

\* A run that succeeded, and a stage but for the failure to record it, stay.
THEOREM Done == Spec => DoneStaysDone
<1> DEFINE A == /\ run.status = "succeeded" => run' = run
                /\ \A s \in Stage :
                     stage[s].status = "succeeded" =>
                       \/ stage'[s] = stage[s]
                       \/ \E j \in Job : at[j] = s /\ FailStage(j)
<1>1. PipelineInv /\ Next => A
  <2> SUFFICES ASSUME PipelineInv, Next PROVE A
    OBVIOUS
  <2>1. ASSUME NEW j \in Job, InsertRun(j) \/ Open(j) \/ FailRun(j) \/ Close(j) PROVE A
    <3>1. run.status # "succeeded" /\ stage' = stage
      BY <2>1 DEF InsertRun, Open, FailRun, Close, PipelineInv, Local, Unfinished, Active, Ended
    <3> QED BY <3>1
  <2>2. ASSUME NEW j \in Job, MarkStage(j) \/ RecordStage(j) PROVE A
    <3>1. /\ run' = run /\ at[j] \in Stage /\ stage[at[j]].status # "succeeded"
          /\ \A s \in Stage : s # at[j] => stage'[s] = stage[s]
      BY <2>2 DEF MarkStage, RecordStage, PipelineInv, TypeOK, Local, Placed
    <3> QED BY <3>1
  <2>3. ASSUME NEW j \in Job, FailStage(j) PROVE A
    <3>1. run' = run /\ \A s \in Stage : s # at[j] => stage'[s] = stage[s]
      BY <2>3 DEF FailStage, PipelineInv, TypeOK
    <3> QED BY <2>3, <3>1
  <2>4. CASE UNCHANGED <<run, stage>>
    BY <2>4
  <2> QED BY <2>1, <2>2, <2>3, <2>4
          DEF Next, Step, Handle, Trigger, LookUp, Sum, ReadStage, RunCollect, RunNormalize,
              RunQuality, RunPublish, AddEvidence, Release, Again, StageFails, StatementFails,
              Crash, LeaseRunsOut, store
<1>2. PipelineInv /\ [Next]_vars => [A]_vars
  BY <1>1
<1> QED BY <1>2, Inductive, PTL DEF Spec, DoneStaysDone
=============================================================================
