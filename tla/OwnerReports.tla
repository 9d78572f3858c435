----------------------------- MODULE OwnerReports -----------------------------
(***************************************************************************)
(* One report of one date and slot: the total-asset digest and the owner   *)
(* report (services/total_asset_digest.py), which have one protocol, and   *)
(* the consolidated signal report (services/signal_slot_report.py), which  *)
(* has a simpler one.  Jobs run it again and again, overlap, fail at any   *)
(* statement and die; every statement commits by itself.  The run row has  *)
(* a unique key, the send row a primary key, and there is no lease: the    *)
(* INSERT of the send row is what lets one job send.                       *)
(*                                                                         *)
(* A digest whose run exists but whose send row does not is built again; a *)
(* signal report whose run exists and has not succeeded is sealed, sent or *)
(* not.  The content of the report is left out, except that building it    *)
(* may raise.  Names are not those of AlertDelivery, the other sender, so  *)
(* that a module can speak of both.                                        *)
(***************************************************************************)
EXTENDS Naturals

CONSTANTS Job,          \* processes that run the report
          MaxFailures   \* bound: statements, builds and processes that fail

ASSUME FailureAssumption == MaxFailures \in Nat

VARIABLES kind,      \* "digest" or "slot": which of the two protocols
          run,       \* control.pipeline_runs.status of the report
          send,      \* control.pipeline_stage_runs.status of its send stage
          outcome,   \* the outcome in the send stage's evidence
          posts,     \* history: requests made to Telegram
          arrived,   \* history: the owner has the message
          failures,
          jobPc, seen, jobResult, told   \* of each job

rows == <<run, send, outcome>>
truth == <<posts, arrived>>
jobLocal == <<seen, jobResult, told>>
reportVars == <<kind, rows, truth, failures, jobPc, jobLocal>>

SendOutcome == {"sent", "retryable_failure", "permanent_failure", "unknown"}

ReportInit ==
  /\ kind \in {"digest", "slot"}
  /\ run = "none" /\ send = "none" /\ outcome = "none"
  /\ posts = 0 /\ arrived = FALSE /\ failures = 0
  /\ jobPc = [j \in Job |-> "idle"] /\ seen = [j \in Job |-> "none"]
  /\ jobResult = [j \in Job |-> "none"] /\ told = [j \in Job |-> "none"]

Go(j, p) == jobPc' = [jobPc EXCEPT ![j] = p]

-----------------------------------------------------------------------------
(* SELECT run_id,status by idempotency_key.                                *)
Look(j) ==
  /\ jobPc[j] = "idle"
  /\ seen' = [seen EXCEPT ![j] = run]
  /\ Go(j, CASE run # "none" -> "evidence"
               [] run = "none" /\ kind = "digest" -> "inserting"
               [] run = "none" /\ kind = "slot" -> "building")
  /\ UNCHANGED <<kind, rows, truth, failures, jobResult, told>>

\* Mutation: a send that was interrupted is tried again.
LookAtSendAgain(j) ==
  /\ jobPc[j] = "evidence"
  /\ IF kind = "digest" /\ send # "succeeded" THEN Go(j, "opening") /\ UNCHANGED told
     ELSE /\ told' = [told EXCEPT ![j] = outcome]
          /\ Go(j, IF seen[j] = "succeeded" THEN "done" ELSE "sealing run")
  /\ UNCHANGED <<kind, rows, truth, failures, seen, jobResult>>

(* The run exists.  A digest reads its send row, and is built again when   *)
(* there is none; a send that has not succeeded is told as unknown.  A     *)
(* slot report goes by the status of the run.                              *)
LookAtSend(j) ==
  /\ jobPc[j] = "evidence"
  /\ LET sealed == IF kind = "digest" THEN send # "succeeded" ELSE seen[j] # "succeeded"
     IN  IF kind = "digest" /\ send = "none" THEN Go(j, "opening") /\ UNCHANGED told
         ELSE /\ told' = [told EXCEPT ![j] = IF sealed \/ outcome = "none" THEN "unknown" ELSE outcome]
              /\ Go(j, CASE sealed -> "sealing send"
                           [] ~sealed /\ seen[j] # "succeeded" -> "sealing run"
                           [] ~sealed /\ seen[j] = "succeeded" -> "done")
  /\ UNCHANGED <<kind, rows, truth, failures, seen, jobResult>>

(* UPDATE the send row, whatever has become of it since it was read.       *)
SealSend(j) ==
  /\ jobPc[j] = "sealing send"
  /\ IF send = "none" THEN UNCHANGED <<send, outcome>>
     ELSE send' = "succeeded" /\ outcome' = "unknown"
  /\ Go(j, IF seen[j] = "succeeded" THEN "done" ELSE "sealing run")
  /\ UNCHANGED <<kind, run, truth, failures, jobLocal>>

SealRun(j) ==
  /\ jobPc[j] = "sealing run" /\ run' = "succeeded" /\ Go(j, "done")
  /\ UNCHANGED <<kind, send, outcome, truth, failures, jobLocal>>

-----------------------------------------------------------------------------
(* INSERT of the run: its key is unique.                                   *)
InsertRun(j) ==
  /\ jobPc[j] = "inserting"
  /\ IF run = "none"
     THEN run' = "running" /\ Go(j, IF kind = "digest" THEN "opening" ELSE "claiming")
     ELSE Go(j, "raised") /\ UNCHANGED run
  /\ UNCHANGED <<kind, send, outcome, truth, failures, jobLocal>>

(* UPDATE of the run to running; it may have ended since it was read.      *)
OpenRun(j) ==
  /\ jobPc[j] = "opening" /\ run' = "running" /\ Go(j, "building")
  /\ UNCHANGED <<kind, send, outcome, truth, failures, jobLocal>>

Build(j) ==
  /\ jobPc[j] = "building"
  /\ \/ Go(j, IF kind = "digest" THEN "claiming" ELSE "inserting") /\ UNCHANGED failures
     \/ /\ failures < MaxFailures /\ failures' = failures + 1
        /\ Go(j, IF kind = "digest" THEN "failing" ELSE "raised")
  /\ UNCHANGED <<kind, rows, truth, jobLocal>>

FailRun(j) ==
  /\ jobPc[j] = "failing" /\ run' = "failed" /\ Go(j, "raised")
  /\ UNCHANGED <<kind, send, outcome, truth, failures, jobLocal>>

\* Mutation: the send row is upserted, as the row of the build stage is.
ClaimUpsert(j) ==
  /\ jobPc[j] = "claiming" /\ send' = "running" /\ Go(j, "posting")
  /\ UNCHANGED <<kind, run, outcome, truth, failures, jobLocal>>

(* The row of the build stage, then INSERT of the send row: its key is the *)
(* run and the stage, and a second INSERT raises.                          *)
Claim(j) ==
  /\ jobPc[j] = "claiming"
  /\ IF send = "none" THEN send' = "running" /\ Go(j, "posting")
     ELSE Go(j, "raised") /\ UNCHANGED send
  /\ UNCHANGED <<kind, run, outcome, truth, failures, jobLocal>>

(* The request, and the answer the client makes of it: only "sent" says    *)
(* that the message is there, and only 4xx that it is not.                 *)
PostReport(j) ==
  /\ jobPc[j] = "posting"
  /\ posts' = posts + 1
  /\ \E o \in SendOutcome, there \in BOOLEAN :
       /\ (o = "sent" => there) /\ (o = "permanent_failure" => ~there)
       /\ jobResult' = [jobResult EXCEPT ![j] = o] /\ arrived' = (arrived \/ there)
  /\ Go(j, "recording send")
  /\ UNCHANGED <<kind, rows, failures, seen, told>>

\* Mutation: a failed request is recorded as sent.
RecordSendAsSent(j) ==
  /\ jobPc[j] = "recording send"
  /\ send' = "succeeded" /\ outcome' = "sent" /\ Go(j, "recording run")
  /\ UNCHANGED <<kind, run, truth, failures, jobLocal>>

RecordSend(j) ==
  /\ jobPc[j] = "recording send"
  /\ send' = "succeeded" /\ outcome' = jobResult[j] /\ Go(j, "recording run")
  /\ UNCHANGED <<kind, run, truth, failures, jobLocal>>

RecordRun(j) ==
  /\ jobPc[j] = "recording run"
  /\ run' = "succeeded" /\ told' = [told EXCEPT ![j] = jobResult[j]] /\ Go(j, "done")
  /\ UNCHANGED <<kind, send, outcome, truth, failures, seen, jobResult>>

-----------------------------------------------------------------------------
(* A statement raises or the process dies, before the request or after it. *)
Die(j) ==
  /\ jobPc[j] \notin {"idle", "done", "raised"} /\ failures < MaxFailures
  /\ failures' = failures + 1 /\ Go(j, "raised")
  /\ UNCHANGED <<kind, rows, truth, jobLocal>>

(* The request is under way when the process dies.                         *)
DieInReport(j) ==
  /\ jobPc[j] = "posting" /\ failures < MaxFailures
  /\ posts' = posts + 1 /\ \E there \in BOOLEAN : arrived' = (arrived \/ there)
  /\ failures' = failures + 1 /\ Go(j, "raised")
  /\ UNCHANGED <<kind, rows, jobLocal>>

(* The job is triggered once more: another process, that remembers nothing. *)
Again(j) ==
  /\ jobPc[j] \in {"done", "raised"} /\ Go(j, "idle")
  /\ seen' = [seen EXCEPT ![j] = "none"] /\ jobResult' = [jobResult EXCEPT ![j] = "none"]
  /\ told' = [told EXCEPT ![j] = "none"]
  /\ UNCHANGED <<kind, rows, truth, failures>>

Work(j) ==
  Look(j) \/ LookAtSend(j) \/ SealSend(j) \/ SealRun(j) \/ InsertRun(j) \/ OpenRun(j) \/ Build(j)
  \/ FailRun(j) \/ Claim(j) \/ PostReport(j) \/ RecordSend(j) \/ RecordRun(j)

ReportNext == \E j \in Job : Work(j) \/ Die(j) \/ DieInReport(j) \/ Again(j)

(* A job that runs goes on; it is triggered again.                         *)
Fairness == \A j \in Job : WF_reportVars(Work(j)) /\ WF_reportVars(Again(j))

ReportSafeSpec == ReportInit /\ [][ReportNext]_reportVars
ReportSpec == ReportSafeSpec /\ Fairness

-----------------------------------------------------------------------------
Point == {"idle", "evidence", "sealing send", "sealing run", "inserting", "opening", "building", "failing",
          "claiming", "posting", "recording send", "recording run", "done", "raised"}

ReportTypeOK ==
  /\ kind \in {"digest", "slot"}
  /\ run \in {"none", "running", "failed", "succeeded"}
  /\ send \in {"none", "running", "succeeded"}
  /\ outcome \in SendOutcome \cup {"none"}
  /\ posts \in Nat /\ arrived \in BOOLEAN /\ failures \in 0..MaxFailures
  /\ jobPc \in [Job -> Point]
  /\ seen \in [Job -> {"none", "running", "failed", "succeeded"}]
  /\ jobResult \in [Job -> SendOutcome \cup {"none"}] /\ told \in [Job -> SendOutcome \cup {"none"}]

(* "Ambiguous sends are never replayed" (total_asset_digest.py:569, 689):  *)
(* however jobs overlap, fail and start again, the report is claimed once, *)
(* goes out at most once and only under that claim.                        *)
Message == CASE posts > 0 -> "out"
             [] posts = 0 /\ send # "none" -> "claimed"
             [] posts = 0 /\ send = "none" -> "open"
Promise == INSTANCE SendPromise WITH message <- Message
NeverReplayed == Promise!Spec

(* Nobody is told that the report was sent, and the ledger does not say    *)
(* so, unless the owner has it; and a send is settled only when it was     *)
(* claimed: of a request that was made, the ledger has a row.              *)
SentIsTrue ==
  /\ outcome = "sent" => arrived
  /\ \A j \in Job : told[j] = "sent" => arrived
  /\ posts > 0 => send # "none" /\ run # "none"

(* A report that is triggered again and again is settled in the end: its   *)
(* run has succeeded and stays so, and the send of a digest is terminal.   *)
ReportSettles == <>[](run = "succeeded" /\ (kind = "digest" => send = "succeeded"))
=============================================================================
