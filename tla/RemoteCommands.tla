---------------------------- MODULE RemoteCommands ----------------------------
(***************************************************************************)
(* The owner's commands of the remote service: services/remote_commands.py  *)
(* RemoteCommandApplication over the production adapters                    *)
(* adapters/outbound/remote_v2_revisions.py and remote_v2_pipeline.py.      *)
(*                                                                          *)
(* A command comes with an idempotency key; the client may send it again,   *)
(* to another instance of the service too, so requests interleave at every  *)
(* call of the state store and of the warehouse.  One journal, one thread   *)
(* and one logical run stand for all.                                       *)
(***************************************************************************)
EXTENDS Integers

CONSTANTS
  Request,      \* calls of execute; each has a request_id of its own
  Key,          \* idempotency keys, each of one actor, client and tool
  ToolOf,       \* ToolOf[k]: "journal", "thread" or "pipeline"
  Body,         \* what a command says
  BodyOf,       \* BodyOf[k]: what a command under the key k may say
  KindOf,       \* KindOf[b]: the kind of change b is, if it is one of the thread
  Created,      \* the revision the thread was created with
  MaxRevision,  \* bound: expected revisions that clients name
  MaxFailures   \* bound: so many failures and crashes

ASSUME ToolAssumption == ToolOf \in [Key -> {"journal", "thread", "pipeline"}]
ASSUME KindAssumption ==
  KindOf \in [Body -> {"thread", "lot", "foreign lot", "sell_allocation"}]
ASSUME BodyAssumption == BodyOf \in [Key -> SUBSET Body]
ASSUME RevisionAssumption == Created \in Nat /\ MaxRevision \in Nat /\ MaxFailures \in Nat

Nobody == "nobody"
ASSUME RequestAssumption == Nobody \notin Request

VARIABLES
  record,    \* record[k]: the document of "run_requests", until it expires
  claim,     \* claim[k]: the request that has the lease "remote-command:<k>"
  journal,   \* rows of silver.trade_journal_revisions
  ledger,    \* rows of silver.trade_thread_command_revisions
  thread,    \* the row of silver.trade_threads
  links,     \* rows of silver.trade_thread_lots
  run,       \* status of the logical run in control.pipeline_runs
  jobs,      \* history: jobs started, each by a key and a command
  failures,  \* history: failures and crashes so far
  pc,        \* where each request is
  key,       \* key[q]: state_key
  doc,       \* doc[q]: the command, which the fingerprint stands for
  seen,      \* seen[q]: `current`
  answer     \* answer[q]: status and revision that the client is told

vars == <<record, claim, journal, ledger, thread, links, run, jobs, failures,
          pc, key, doc, seen, answer>>
tables == <<journal, ledger, thread, links>>
local == <<key, doc, seen>>

Command == [body : Body, expected : 0 .. MaxRevision]
Revision == 0 .. MaxRevision + 1
NoRecord == [known |-> FALSE]
Record == [known : {TRUE}, doc : Command, revision : Revision]
Row == [key : Key, doc : Command, revision : Revision]
Told == {"accepted", "reused"}
Unanswered == [status |-> "none", revision |-> 0]
Ended == {"done", "dead"}
Holding == {"operating", "inserting", "applying", "posting", "storing", "releasing"}

Init ==
  /\ record = [k \in Key |-> NoRecord]
  /\ claim = [k \in Key |-> Nobody]
  /\ journal = {} /\ ledger = {} /\ links = {} /\ jobs = {}
  /\ thread = [revision |-> Created, title |-> "created"]
  /\ run = "none" /\ failures = 0
  /\ pc = [q \in Request |-> "idle"]
  /\ key \in [Request -> Key]
  /\ doc \in {d \in [Request -> Command] : \A q \in Request : d[q].body \in BodyOf[key[q]]}
  /\ \A q \in Request : ToolOf[key[q]] = "pipeline" => doc[q].expected = 0
  /\ seen = [q \in Request |-> 0]
  /\ answer = [q \in Request |-> Unanswered]

Goto(q, l) == pc' = [pc EXCEPT ![q] = l]
Answer(q, s, n) == answer' = [answer EXCEPT ![q] = [status |-> s, revision |-> n]]

-----------------------------------------------------------------------------

\* Mutation: the fingerprints are not compared.
ReplayUnseen(q) == Answer(q, "reused", record[key[q]].revision)

\* _replay: the recorded answer, for the same command only.
Replay(q) ==
  IF record[key[q]].doc = doc[q]
  THEN Answer(q, "reused", record[key[q]].revision)
  ELSE Answer(q, "conflict", 0)

\* _execute_once: a key that is recorded is replayed.
LookUp(q) ==
  /\ pc[q] = "idle"
  /\ IF record[key[q]].known
     THEN Replay(q) /\ Goto(q, "done")
     ELSE Goto(q, "claiming") /\ UNCHANGED answer
  /\ UNCHANGED <<record, claim, tables, run, jobs, failures, local>>

\* Mutation: the answer of the claim is not looked at.
ClaimUnchecked(q) ==
  /\ pc[q] = "claiming"
  /\ claim' = [claim EXCEPT ![key[q]] = q] /\ Goto(q, "operating")
  /\ UNCHANGED <<record, tables, run, jobs, failures, local, answer>>

Claim(q) ==
  /\ pc[q] = "claiming"
  /\ IF claim[key[q]] = Nobody
     THEN claim' = [claim EXCEPT ![key[q]] = q] /\ Goto(q, "operating")
     ELSE Goto(q, "refused") /\ UNCHANGED claim
  /\ UNCHANGED <<record, tables, run, jobs, failures, local, answer>>

\* The record may have been written meanwhile.
LookAgain(q) ==
  /\ pc[q] = "refused"
  /\ IF record[key[q]].known THEN Replay(q) ELSE Answer(q, "in_progress", 0)
  /\ Goto(q, "done")
  /\ UNCHANGED <<record, claim, tables, run, jobs, failures, local>>

-----------------------------------------------------------------------------

\* coalesce(max(revision), base)
IsLatest(n, rows, base) ==
  /\ \A r \in rows : r.revision <= n
  /\ n = base \/ \E r \in rows : r.revision = n

RowOf(q) == [key |-> key[q], doc |-> doc[q], revision |-> seen[q] + 1]

\* append_journal, the read: a revision that has changed is refused.
ReadJournal(q) ==
  /\ pc[q] = "operating" /\ ToolOf[key[q]] = "journal"
  /\ \E n \in Revision :
       /\ IsLatest(n, journal, 0)
       /\ IF n = doc[q].expected
          THEN seen' = [seen EXCEPT ![q] = n] /\ Goto(q, "inserting") /\ UNCHANGED answer
          ELSE Answer(q, "stale", 0) /\ Goto(q, "releasing") /\ UNCHANGED seen
  /\ UNCHANGED <<record, claim, tables, run, jobs, failures, key, doc>>

\* Mutation: the table has no key.
InsertAnyJournal(q) ==
  /\ pc[q] = "inserting"
  /\ journal' = journal \cup {RowOf(q)}
  /\ Goto(q, "storing")
  /\ UNCHANGED <<record, claim, ledger, thread, links, run, jobs, failures, local, answer>>

\* append_journal, the insert: PRIMARY KEY(journal_id, revision).
InsertJournal(q) ==
  /\ pc[q] = "inserting"
  /\ IF \E r \in journal : r.revision = seen[q] + 1
     THEN Answer(q, "failed", 0) /\ Goto(q, "releasing") /\ UNCHANGED journal
     ELSE /\ journal' = journal \cup {RowOf(q)}
          /\ Goto(q, "storing") /\ UNCHANGED answer
  /\ UNCHANGED <<record, claim, ledger, thread, links, run, jobs, failures, local>>

\* append_thread_revision, the reads.  The row of the thread only changes
\* together with the ledger, so the second read decides.
ReadThread(q) ==
  /\ pc[q] = "operating" /\ ToolOf[key[q]] = "thread"
  /\ \E n \in Created .. Created + MaxRevision + 1 :
       /\ IsLatest(n, ledger, Created)
       /\ IF n = doc[q].expected
          THEN seen' = [seen EXCEPT ![q] = n] /\ Goto(q, "applying") /\ UNCHANGED answer
          ELSE Answer(q, "stale", 0) /\ Goto(q, "releasing") /\ UNCHANGED seen
  /\ UNCHANGED <<record, claim, tables, run, jobs, failures, key, doc>>

\* Mutation: the key of a command is not unique.
IsNewRevision(q) == \A r \in ledger : r.revision # seen[q] + 1

\* UNIQUE(thread_id, revision) and UNIQUE(authored_by, client_id, key).
IsNewRow(q) == \A r \in ledger : r.revision # seen[q] + 1 /\ r.key # key[q]

\* Mutation: an intent to sell does not advance the row of the thread.
ApplyChanges(q) ==
  LET b == doc[q].body  n == seen[q] + 1 IN
  /\ thread' = IF KindOf[b] = "sell_allocation" THEN thread
               ELSE [revision |-> n, title |-> IF KindOf[b] = "thread" THEN b ELSE thread.title]
  /\ links' = IF KindOf[b] = "lot" THEN links \cup {[lot |-> b, revision |-> n]} ELSE links

\* The statements of the change itself.
Apply(q) ==
  LET b == doc[q].body  n == seen[q] + 1 IN
  /\ thread' = [revision |-> n, title |-> IF KindOf[b] = "thread" THEN b ELSE thread.title]
  /\ links' = IF KindOf[b] = "lot" THEN links \cup {[lot |-> b, revision |-> n]} ELSE links

\* append_thread_revision, the transaction: all of it or nothing.
ApplyThread(q) ==
  /\ pc[q] = "applying"
  /\ IF IsNewRow(q) /\ thread.revision = seen[q] /\ KindOf[doc[q].body] # "foreign lot"
     THEN /\ ledger' = ledger \cup {RowOf(q)}
          /\ Apply(q)
          /\ Goto(q, "storing") /\ UNCHANGED answer
     ELSE /\ Answer(q, "failed", 0) /\ Goto(q, "releasing")
          /\ UNCHANGED <<ledger, thread, links>>
  /\ UNCHANGED <<record, claim, journal, run, jobs, failures, local>>

\* enqueue, the read: a run under way or done is not started again.
ReadRun(q) ==
  /\ pc[q] = "operating" /\ ToolOf[key[q]] = "pipeline"
  /\ IF run \in {"running", "succeeded"}
     THEN Goto(q, "storing") /\ Answer(q, "reused", 0)
     ELSE Goto(q, "posting") /\ UNCHANGED answer
  /\ UNCHANGED <<record, claim, tables, run, jobs, failures, local>>

\* enqueue, the call that starts the job.
PostJob(q) ==
  /\ pc[q] = "posting"
  /\ jobs' = jobs \cup {[key |-> key[q], doc |-> doc[q]]}
  /\ Goto(q, "storing")
  /\ UNCHANGED <<record, claim, tables, run, failures, local, answer>>

-----------------------------------------------------------------------------

\* The revision a command of q's tool has written.
Written(q) == IF ToolOf[key[q]] = "pipeline" THEN 0 ELSE seen[q] + 1

Recorded(q) ==
  record' = [record EXCEPT ![key[q]] = [known |-> TRUE, doc |-> doc[q], revision |-> Written(q)]]

\* The answer is recorded under the key.
Store(q) ==
  /\ pc[q] = "storing"
  /\ Recorded(q)
  /\ IF answer[q].status = "none" THEN Answer(q, "accepted", Written(q)) ELSE UNCHANGED answer
  /\ Goto(q, "releasing")
  /\ UNCHANGED <<claim, tables, run, jobs, failures, local>>

\* The finally clause; only the holder's fencing token ends the claim.
Release(q) ==
  /\ pc[q] = "releasing"
  /\ claim' = IF claim[key[q]] = q THEN [claim EXCEPT ![key[q]] = Nobody] ELSE claim
  /\ Goto(q, "done")
  /\ UNCHANGED <<record, tables, run, jobs, failures, local, answer>>

MayFail == failures < MaxFailures /\ failures' = failures + 1

\* A call of the warehouse, of Cloud Run or of the state store raises.
Fails(q) ==
  /\ MayFail
  /\ pc[q] \in {"operating", "inserting", "applying", "posting", "storing"}
  /\ Answer(q, "failed", 0)
  /\ Goto(q, "releasing")
  /\ UNCHANGED <<record, claim, tables, run, jobs, local>>

\* The call raises, by a timeout, and has had its effect all the same.
FailsLate(q) ==
  /\ MayFail
  /\ \/ /\ pc[q] = "posting"
        /\ jobs' = jobs \cup {[key |-> key[q], doc |-> doc[q]]}
        /\ UNCHANGED record
     \/ pc[q] = "storing" /\ Recorded(q) /\ UNCHANGED jobs
  /\ Answer(q, "failed", 0)
  /\ Goto(q, "releasing")
  /\ UNCHANGED <<claim, tables, run, local>>

\* The instance goes, or the release itself raises: the claim stays.
Crash(q) ==
  /\ MayFail
  /\ pc[q] \in {"claiming"} \cup Holding
  /\ Goto(q, "dead")
  /\ UNCHANGED <<record, claim, tables, run, jobs, local, answer>>

\* IDEMPOTENCY_TTL, seven days, ends an abandoned claim and a record.
ClaimRunsOut(k) ==
  /\ claim[k] # Nobody
  /\ pc[claim[k]] \in Ended
  /\ claim' = [claim EXCEPT ![k] = Nobody]
  /\ UNCHANGED <<record, tables, run, jobs, failures, pc, local, answer>>

RecordRunsOut(k) ==
  /\ record[k].known
  /\ record' = [record EXCEPT ![k] = NoRecord]
  /\ UNCHANGED <<claim, tables, run, jobs, failures, pc, local, answer>>

\* The jobs that run the logical run (ManagedPipeline).
RunMoves ==
  /\ \/ run \in {"none", "failed"} /\ run' = "running"
     \/ run = "running" /\ run' \in {"succeeded", "failed"}
  /\ UNCHANGED <<record, claim, tables, jobs, failures, pc, local, answer>>

Step(q) ==
  \/ LookUp(q) \/ Claim(q) \/ LookAgain(q)
  \/ ReadJournal(q) \/ InsertJournal(q) \/ ReadThread(q) \/ ApplyThread(q)
  \/ ReadRun(q) \/ PostJob(q) \/ Store(q) \/ Release(q)

Next ==
  \/ \E q \in Request : Step(q) \/ Fails(q) \/ FailsLate(q) \/ Crash(q)
  \/ \E k \in Key : ClaimRunsOut(k) \/ RecordRunsOut(k)
  \/ RunMoves

Spec == Init /\ [][Next]_vars

-----------------------------------------------------------------------------

TypeOK ==
  /\ record \in [Key -> {NoRecord} \cup Record]
  /\ claim \in [Key -> Request \cup {Nobody}]
  /\ journal \subseteq Row /\ ledger \subseteq Row
  /\ thread \in [revision : Nat, title : Body \cup {"created"}]
  /\ links \subseteq [lot : Body, revision : Revision]
  /\ run \in {"none", "running", "succeeded", "failed"}
  /\ jobs \subseteq [key : Key, doc : Command]
  /\ failures \in Nat
  /\ pc \in [Request -> {"idle", "claiming", "refused"} \cup Holding \cup Ended]
  /\ key \in [Request -> Key] /\ doc \in [Request -> Command]
  /\ seen \in [Request -> 0 .. MaxRevision]
  /\ answer \in [Request -> [status : Told \cup {"none", "conflict", "in_progress", "stale", "failed"},
                             revision : Revision]]

\* tests/test_remote_v2_commands.py:396, a replay is refused while the first
\* command holds its claim: requests of one key operate one at a time, and
\* only a crash leaves a claim behind.
OneAtATime ==
  /\ \A q \in Request : pc[q] \in Holding => claim[key[q]] = q
  /\ \A k \in Key : claim[k] # Nobody => pc[claim[k]] \in Holding \cup {"dead"}

\* The rows of a table are its revisions, none missing and none twice, and
\* each was written by somebody who had seen the one before it.
Chain(rows, base) ==
  /\ \A r \in rows : r.revision = r.doc.expected + 1 /\ r.revision > base
  /\ \A r, s \in rows : r.revision = s.revision => r = s
  /\ \A r \in rows : r.revision > base + 1 => \E s \in rows : s.revision = r.revision - 1

\* No journal entry is lost or overwritten, whatever requests interleave.
JournalIsChain == Chain(journal, 0)

\* The row of the thread and the lots linked to it are what the ledger of its
\* revisions says.
ThreadFollowsLedger ==
  /\ Chain(ledger, Created)
  /\ IsLatest(thread.revision, ledger, Created)
  /\ \A r \in ledger :
       /\ KindOf[r.doc.body] = "thread"
       /\ \A s \in ledger : KindOf[s.doc.body] = "thread" => s.revision <= r.revision
       => thread.title = r.doc.body
  /\ links = {[lot |-> r.doc.body, revision |-> r.revision] :
                r \in {s \in ledger : KindOf[s.doc.body] = "lot"}}

\* A client that is told "accepted" or "reused" is told of its own command: a
\* revision that holds it, or a job it started.
AnsweredAsAsked ==
  \A q \in Request : answer[q].status \in Told =>
    CASE ToolOf[key[q]] = "journal" ->
           [key |-> key[q], doc |-> doc[q], revision |-> answer[q].revision] \in journal
      [] ToolOf[key[q]] = "thread" ->
           [key |-> key[q], doc |-> doc[q], revision |-> answer[q].revision] \in ledger
      [] OTHER -> answer[q].status = "accepted" => [key |-> key[q], doc |-> doc[q]] \in jobs

\* A key changes the thread once, even when its record was never written.
ThreadKeyOnce == \A r, s \in ledger : r.key = s.key => r = s

=============================================================================
