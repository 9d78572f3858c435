-------------------------- MODULE Operations_proofs --------------------------
(***************************************************************************)
(* Theorems about what the owner does to the running system: the commands  *)
(* of the remote service (RemoteCommands), for any number of requests,     *)
(* keys and failures, and the releases (GuardedRelease), for any Jobs and  *)
(* any sequence of targets.                                                *)
(***************************************************************************)
EXTENDS RemoteCommands, GuardedRelease, SequenceTheorems, TLAPS

(* Part 1: the remote commands.                                            *)
Unanswering == {"idle", "claiming", "refused", "operating", "inserting", "applying", "posting"}

\* A step of one request leaves the others where they are.
LEMMA OneMoves ==
  ASSUME TypeOK, NEW q \in Request, Step(q) \/ Fails(q) \/ FailsLate(q) \/ Crash(q)
  PROVE  /\ \A o \in Request \ {q} : pc'[o] = pc[o] /\ answer'[o] = answer[o] /\ seen'[o] = seen[o]
         /\ UNCHANGED <<key, doc>>
<1> USE DEF TypeOK, Goto, Answer, local
<1>1. CASE LookUp(q) \/ Claim(q) \/ LookAgain(q)
  BY <1>1 DEF LookUp, Claim, LookAgain, Replay
<1>2. CASE ReadJournal(q) \/ InsertJournal(q)
  BY <1>2 DEF ReadJournal, InsertJournal
<1>3. CASE ReadThread(q) \/ ApplyThread(q)
  BY <1>3 DEF ReadThread, ApplyThread
<1>4. CASE ReadRun(q) \/ PostJob(q)
  BY <1>4 DEF ReadRun, PostJob
<1>5. CASE Store(q) \/ Release(q)
  BY <1>5 DEF Store, Release
<1>6. CASE Fails(q) \/ FailsLate(q) \/ Crash(q)
  BY <1>6 DEF Fails, FailsLate, Crash
<1> QED BY <1>1, <1>2, <1>3, <1>4, <1>5, <1>6 DEF Step

\* The tables and the jobs only grow.
LEMMA Grows ==
  ASSUME [Next]_vars
  PROVE  journal \subseteq journal' /\ ledger \subseteq ledger' /\ jobs \subseteq jobs'
<1>1. CASE UNCHANGED vars
  BY <1>1 DEF vars, tables
<1>2. CASE RunMoves \/ \E k \in Key : ClaimRunsOut(k) \/ RecordRunsOut(k)
  BY <1>2 DEF RunMoves, ClaimRunsOut, RecordRunsOut, tables
<1>3. ASSUME NEW q \in Request, Step(q) \/ Fails(q) \/ FailsLate(q) \/ Crash(q)
      PROVE  journal \subseteq journal' /\ ledger \subseteq ledger' /\ jobs \subseteq jobs'
  <2> USE DEF tables
  <2>1. CASE LookUp(q) \/ Claim(q) \/ LookAgain(q) \/ Store(q) \/ Release(q)
    BY <2>1 DEF LookUp, Claim, LookAgain, Store, Release
  <2>2. CASE ReadJournal(q) \/ InsertJournal(q)
    BY <2>2 DEF ReadJournal, InsertJournal
  <2>3. CASE ReadThread(q) \/ ApplyThread(q)
    BY <2>3 DEF ReadThread, ApplyThread
  <2>4. CASE ReadRun(q) \/ PostJob(q) \/ Fails(q) \/ FailsLate(q) \/ Crash(q)
    BY <2>4 DEF ReadRun, PostJob, Fails, FailsLate, Crash
  <2> QED BY <1>3, <2>1, <2>2, <2>3, <2>4 DEF Step
<1> QED BY <1>1, <1>2, <1>3 DEF Next

-----------------------------------------------------------------------------

LEMMA Calls == ASSUME TypeOK, NEW q \in Request
               PROVE  /\ key[q] \in Key /\ doc[q] \in Command /\ seen[q] \in 0 .. MaxRevision
                      /\ doc[q].body \in Body /\ doc[q].expected \in 0 .. MaxRevision
                      /\ ToolOf[key[q]] \in {"journal", "thread", "pipeline"}
                      /\ KindOf[doc[q].body] \in {"thread", "lot", "foreign lot", "sell_allocation"}
                      /\ record[key[q]] \in {NoRecord} \cup Record
                      /\ record[key[q]].known => record[key[q]] \in Record
                      /\ RowOf(q) \in Row /\ Written(q) \in Revision
<1>1. key[q] \in Key /\ doc[q] \in Command /\ seen[q] \in 0 .. MaxRevision
  BY DEF TypeOK
<1>2. doc[q].body \in Body /\ doc[q].expected \in 0 .. MaxRevision
  BY <1>1 DEF Command
<1>3. record[key[q]] \in {NoRecord} \cup Record
  BY <1>1 DEF TypeOK
<1>4. record[key[q]].known => record[key[q]] \in Record
  BY <1>3 DEF NoRecord
<1>5. seen[q] + 1 \in Revision /\ 0 \in Revision
  BY <1>1, RevisionAssumption DEF Revision
<1> QED BY <1>1, <1>2, <1>3, <1>4, <1>5, ToolAssumption, KindAssumption DEF RowOf, Row, Written

\* The statuses an answer may have.
Answers == [status : Told \cup {"none", "conflict", "in_progress", "stale", "failed"},
            revision : Revision]

LEMMA AnswerType ==
  ASSUME TypeOK, NEW q \in Request, NEW n \in Revision,
         NEW s \in Told \cup {"none", "conflict", "in_progress", "stale", "failed"},
         Answer(q, s, n)
  PROVE  answer' \in [Request -> Answers]
BY DEF Answer, TypeOK, Answers

LEMMA GotoType ==
  ASSUME TypeOK, NEW q \in Request,
         NEW l \in {"idle", "claiming", "refused"} \cup Holding \cup Ended, Goto(q, l)
  PROVE  pc' \in [Request -> {"idle", "claiming", "refused"} \cup Holding \cup Ended]
BY DEF Goto, TypeOK

LEMMA ReplayType ==
  ASSUME TypeOK, NEW q \in Request, record[key[q]].known, Replay(q)
  PROVE  answer' \in [Request -> Answers]
<1>1. record[key[q]] \in Record
  BY Calls
<1>2. record[key[q]].revision \in Revision
  BY <1>1 DEF Record
<1>3. 0 \in Revision
  BY RevisionAssumption DEF Revision
<1> QED BY <1>2, <1>3, AnswerType DEF Replay, Told

LEMMA TypeStep ==
  ASSUME TypeOK, [Next]_vars
  PROVE  TypeOK'
<1> USE RequestAssumption DEF tables, local, Goto, Holding, Ended
<1>0. 0 \in Revision
  BY RevisionAssumption DEF Revision
<1>1. CASE UNCHANGED vars
  BY <1>1 DEF vars, TypeOK
<1>2. CASE RunMoves
  BY <1>2 DEF RunMoves, TypeOK
<1>3. ASSUME NEW k \in Key, ClaimRunsOut(k) \/ RecordRunsOut(k) PROVE TypeOK'
  BY <1>3 DEF ClaimRunsOut, RecordRunsOut, TypeOK
<1>4. ASSUME NEW q \in Request, LookUp(q) \/ Claim(q) \/ LookAgain(q) PROVE TypeOK'
  <2>1. CASE LookUp(q)
    <3>1. answer' \in [Request -> Answers]
      BY <2>1, ReplayType DEF LookUp, TypeOK, Answers
    <3> QED BY <2>1, <3>1 DEF LookUp, TypeOK, Answers
  <2>2. CASE Claim(q)
    <3>1. claim' \in [Key -> Request \cup {Nobody}]
      BY <2>2 DEF Claim, TypeOK
    <3> QED BY <2>2, <3>1 DEF Claim, TypeOK
  <2>3. CASE LookAgain(q)
    <3>1. answer' \in [Request -> Answers]
      BY <2>3, <1>0, ReplayType, AnswerType DEF LookAgain
    <3> QED BY <2>3, <3>1 DEF LookAgain, TypeOK, Answers
  <2> QED BY <1>4, <2>1, <2>2, <2>3
<1>5. ASSUME NEW q \in Request, ReadJournal(q) \/ ReadThread(q) \/ ReadRun(q) PROVE TypeOK'
  <2>1. CASE ReadJournal(q)
    <3>1. answer' \in [Request -> Answers]
      BY <2>1, <1>0, AnswerType DEF ReadJournal, TypeOK, Answers
    <3>2. seen' \in [Request -> 0 .. MaxRevision]
      BY <2>1, Calls DEF ReadJournal, TypeOK
    <3> QED BY <2>1, <3>1, <3>2 DEF ReadJournal, TypeOK, Answers
  <2>2. CASE ReadThread(q)
    <3>1. answer' \in [Request -> Answers]
      BY <2>2, <1>0, AnswerType DEF ReadThread, TypeOK, Answers
    <3>2. seen' \in [Request -> 0 .. MaxRevision]
      BY <2>2, Calls DEF ReadThread, TypeOK
    <3> QED BY <2>2, <3>1, <3>2 DEF ReadThread, TypeOK, Answers
  <2>3. CASE ReadRun(q)
    <3>1. answer' \in [Request -> Answers]
      BY <2>3, <1>0, AnswerType DEF ReadRun, TypeOK, Answers, Told
    <3> QED BY <2>3, <3>1 DEF ReadRun, TypeOK, Answers
  <2> QED BY <1>5, <2>1, <2>2, <2>3
<1>6. ASSUME NEW q \in Request, InsertJournal(q) PROVE TypeOK'
  <2>1. answer' \in [Request -> Answers]
    BY <1>6, <1>0, AnswerType DEF InsertJournal, TypeOK, Answers
  <2>2. journal' \subseteq Row
    <3>1. RowOf(q) \in Row
      BY Calls
    <3> QED BY <1>6, <3>1 DEF InsertJournal, TypeOK
  <2> QED BY <1>6, <2>1, <2>2 DEF InsertJournal, TypeOK, Answers
<1>7. ASSUME NEW q \in Request, ApplyThread(q) PROVE TypeOK'
  <2>1. answer' \in [Request -> Answers]
    BY <1>7, <1>0, AnswerType DEF ApplyThread, TypeOK, Answers
  <2>2. ledger' \subseteq Row
    <3>1. RowOf(q) \in Row /\ ledger \subseteq Row
      BY Calls DEF TypeOK
    <3>2. ledger' = ledger \cup {RowOf(q)} \/ ledger' = ledger
      BY <1>7, Zenon DEF ApplyThread
    <3> QED BY <3>1, <3>2, Zenon
  <2>3. seen[q] \in 0 .. MaxRevision /\ doc[q].body \in Body
    BY Calls
  <2>4. seen[q] + 1 \in Revision /\ seen[q] + 1 \in Nat /\ thread.title \in Body \cup {"created"}
    BY <2>3, RevisionAssumption DEF Revision, TypeOK
  <2>5. thread' \in [revision : Nat, title : Body \cup {"created"}]
    <3>1. CASE Apply(q)
      <4> DEFINE t == IF KindOf[doc[q].body] = "thread" THEN doc[q].body ELSE thread.title
      <4>1. t \in Body \cup {"created"}
        BY <2>3, <2>4
      <4>2. thread' = [revision |-> seen[q] + 1, title |-> t]
        BY <3>1 DEF Apply
      <4> HIDE DEF t
      <4> QED BY <2>4, <4>1, <4>2
    <3>2. CASE UNCHANGED thread
      BY <3>2 DEF TypeOK
    <3> QED BY <1>7, <3>1, <3>2 DEF ApplyThread
  <2>6. links' \subseteq [lot : Body, revision : Revision]
    <3> DEFINE L == [lot : Body, revision : Revision]
               l == [lot |-> doc[q].body, revision |-> seen[q] + 1]
    <3>1. links \subseteq L
      BY DEF TypeOK
    <3>2. l \in L
      BY <2>3, <2>4
    <3>3. links' = links \cup {l} \/ links' = links
      BY <1>7 DEF ApplyThread, Apply
    <3> HIDE DEF L, l
    <3>4. links' \subseteq L
      BY <3>1, <3>2, <3>3
    <3> QED BY <3>4 DEF L
  <2>7. pc' \in [Request -> {"idle", "claiming", "refused"} \cup Holding \cup Ended]
    <3>1. Goto(q, "storing") \/ Goto(q, "releasing")
      BY <1>7 DEF ApplyThread
    <3> QED BY <3>1, GotoType
  <2>8. UNCHANGED <<record, claim, journal, run, jobs, failures, key, doc, seen>>
    BY <1>7 DEF ApplyThread
  <2> QED BY <2>1, <2>2, <2>5, <2>6, <2>7, <2>8, SMTT(60) DEF TypeOK, Answers
<1>8. ASSUME NEW q \in Request, PostJob(q) \/ Release(q) PROVE TypeOK'
  <2>1. key[q] \in Key /\ doc[q] \in Command
    BY Calls
  <2>2. CASE PostJob(q)
    <3>1. jobs' \subseteq [key : Key, doc : Command]
      BY <2>1, <2>2 DEF PostJob, TypeOK
    <3>2. pc' \in [Request -> {"idle", "claiming", "refused"} \cup Holding \cup Ended]
      BY <2>2, GotoType DEF PostJob
    <3> QED BY <2>2, <3>1, <3>2 DEF PostJob, TypeOK
  <2>3. CASE Release(q)
    <3>1. claim' \in [Key -> Request \cup {Nobody}]
      BY <2>1, <2>3 DEF Release, TypeOK
    <3>2. pc' \in [Request -> {"idle", "claiming", "refused"} \cup Holding \cup Ended]
      BY <2>3, GotoType DEF Release
    <3> QED BY <2>3, <3>1, <3>2 DEF Release, TypeOK
  <2> QED BY <1>8, <2>2, <2>3
<1>9. ASSUME NEW q \in Request, Store(q) PROVE TypeOK'
  <2>1. answer' \in [Request -> Answers]
    BY <1>9, Calls, AnswerType DEF Store, TypeOK, Answers, Told
  <2>2. record' \in [Key -> {NoRecord} \cup Record]
    BY <1>9, Calls DEF Store, Recorded, Record, TypeOK
  <2> QED BY <1>9, <2>1, <2>2 DEF Store, TypeOK, Answers
<1>10. ASSUME NEW q \in Request, Fails(q) \/ FailsLate(q) \/ Crash(q) PROVE TypeOK'
  <2>1. failures' \in Nat
    BY <1>10 DEF Fails, FailsLate, Crash, MayFail, TypeOK
  <2>2. answer' \in [Request -> Answers]
    BY <1>10, <1>0, AnswerType DEF Fails, FailsLate, Crash, TypeOK, Answers
  <2>3. key[q] \in Key /\ doc[q] \in Command /\ Written(q) \in Revision
    BY Calls
  <2>4. record' \in [Key -> {NoRecord} \cup Record]
    <3>1. CASE Recorded(q)
      <4>1. [known |-> TRUE, doc |-> doc[q], revision |-> Written(q)] \in Record
        BY <2>3 DEF Record
      <4> QED BY <3>1, <4>1 DEF Recorded, TypeOK
    <3>2. CASE UNCHANGED record
      BY <3>2 DEF TypeOK
    <3> QED BY <1>10, <3>1, <3>2 DEF Fails, FailsLate, Crash
  <2>5. jobs' \subseteq [key : Key, doc : Command]
    BY <1>10, <2>3 DEF Fails, FailsLate, Crash, TypeOK
  <2> QED BY <1>10, <2>1, <2>2, <2>4, <2>5 DEF Fails, FailsLate, Crash, TypeOK, Answers
<1> QED BY <1>1, <1>2, <1>3, <1>4, <1>5, <1>6, <1>7, <1>8, <1>9, <1>10 DEF Next, Step

\* Every variable keeps its type.
THEOREM TypeCorrect == Spec => []TypeOK
<1>1. Init => TypeOK
  BY RevisionAssumption DEF Init, TypeOK, Unanswered, Told, Revision
<1> QED BY <1>1, TypeStep, PTL DEF Spec

-----------------------------------------------------------------------------

\* A claim is one of its own key.
OwnKey == \A k \in Key : claim[k] # Nobody => key[claim[k]] = k

ClaimInv == OneAtATime /\ OwnKey

LEMMA ClaimStep ==
  ASSUME TypeOK, ClaimInv, [Next]_vars
  PROVE  ClaimInv'
<1> USE RequestAssumption DEF ClaimInv, OneAtATime, OwnKey, Holding, Ended
<1>1. CASE UNCHANGED vars
  BY <1>1 DEF vars, local
<1>2. CASE RunMoves
  BY <1>2 DEF RunMoves, local
<1>3. ASSUME NEW k \in Key, ClaimRunsOut(k) \/ RecordRunsOut(k) PROVE ClaimInv'
  <2>1. CASE ClaimRunsOut(k)
    BY <1>3, <2>1 DEF ClaimRunsOut, local, TypeOK
  <2>2. CASE RecordRunsOut(k)
    BY <2>2 DEF RecordRunsOut, local
  <2> QED BY <1>3, <2>1, <2>2
<1>4. ASSUME NEW q \in Request, Step(q) \/ Fails(q) \/ FailsLate(q) \/ Crash(q)
      PROVE  ClaimInv'
  <2>1. /\ \A o \in Request \ {q} : pc'[o] = pc[o]
        /\ UNCHANGED <<key, doc>> /\ key[q] \in Key
    BY <1>4, OneMoves DEF TypeOK
  <2>2. CASE Claim(q)
    <3>1. CASE claim[key[q]] = Nobody
      <4>1. claim' = [claim EXCEPT ![key[q]] = q] /\ pc'[q] = "operating"
        BY <2>2, <3>1 DEF Claim, Goto, TypeOK
      <4> QED BY <2>1, <3>1, <4>1 DEF TypeOK
    <3>2. CASE claim[key[q]] # Nobody
      <4>1. UNCHANGED claim /\ pc[q] = "claiming" /\ pc'[q] = "refused"
        BY <2>2, <3>2 DEF Claim, Goto, TypeOK
      <4> QED BY <2>1, <4>1 DEF TypeOK
    <3> QED BY <3>1, <3>2
  <2>3. CASE Release(q)
    <3>1. claim[key[q]] = q /\ pc[q] = "releasing"
      BY <2>3 DEF Release
    <3>2. claim' = [claim EXCEPT ![key[q]] = Nobody] /\ pc'[q] = "done"
      BY <2>3, <3>1 DEF Release, Goto, TypeOK
    <3> QED BY <2>1, <3>1, <3>2 DEF TypeOK
  <2>4. CASE UNCHANGED claim /\ (pc[q] \in Holding => pc'[q] \in Holding \cup {"dead"})
                             /\ (pc[q] \notin Holding => pc[q] # "dead" /\ pc'[q] \notin Holding)
    BY <2>1, <2>4 DEF TypeOK
  <2>5. CASE LookUp(q) \/ LookAgain(q)
    BY <2>4, <2>5 DEF LookUp, LookAgain, Goto, TypeOK
  <2>6. CASE ReadJournal(q) \/ InsertJournal(q) \/ ReadThread(q) \/ ApplyThread(q)
    BY <2>4, <2>6 DEF ReadJournal, InsertJournal, ReadThread, ApplyThread, Goto, TypeOK
  <2>7. CASE ReadRun(q) \/ PostJob(q) \/ Store(q)
    BY <2>4, <2>7 DEF ReadRun, PostJob, Store, Goto, TypeOK
  <2>8. CASE Fails(q) \/ FailsLate(q) \/ Crash(q)
    BY <2>4, <2>8 DEF Fails, FailsLate, Crash, Goto, TypeOK
  <2> QED BY <1>4, <2>2, <2>3, <2>5, <2>6, <2>7, <2>8 DEF Step
<1> QED BY <1>1, <1>2, <1>3, <1>4 DEF Next

\* Requests of one key operate one at a time.
THEOREM Exclusion == Spec => []OneAtATime
<1>1. Init => ClaimInv
  BY DEF Init, ClaimInv, OneAtATime, OwnKey, Holding
<1>2. ClaimInv => OneAtATime
  BY DEF ClaimInv
<1> QED BY <1>1, <1>2, ClaimStep, TypeCorrect, PTL DEF Spec

-----------------------------------------------------------------------------

\* What the step that q has come to relies on.
Ready(q) ==
  /\ pc[q] = "inserting" =>
       /\ ToolOf[key[q]] = "journal" /\ seen[q] = doc[q].expected
       /\ seen[q] = 0 \/ \E r \in journal : r.revision = seen[q]
  /\ pc[q] = "applying" =>
       /\ ToolOf[key[q]] = "thread" /\ seen[q] = doc[q].expected /\ Created <= seen[q]
       /\ seen[q] = Created \/ \E r \in ledger : r.revision = seen[q]
  /\ pc[q] = "posting" => ToolOf[key[q]] = "pipeline"
  /\ pc[q] \in Unanswering => answer[q].status = "none"
  /\ pc[q] = "storing" =>
       /\ ToolOf[key[q]] = "journal" => RowOf(q) \in journal /\ answer[q].status = "none"
       /\ ToolOf[key[q]] = "thread" => RowOf(q) \in ledger /\ answer[q].status = "none"
       /\ ToolOf[key[q]] = "pipeline" =>
            \/ answer[q].status = "reused"
            \/ answer[q].status = "none" /\ [key |-> key[q], doc |-> doc[q]] \in jobs

\* What q has been told.
Truly(q) == answer[q].status \in Told =>
  /\ ToolOf[key[q]] = "journal" =>
       [key |-> key[q], doc |-> doc[q], revision |-> answer[q].revision] \in journal
  /\ ToolOf[key[q]] = "thread" =>
       [key |-> key[q], doc |-> doc[q], revision |-> answer[q].revision] \in ledger
  /\ ToolOf[key[q]] = "pipeline" =>
       (answer[q].status = "accepted" => [key |-> key[q], doc |-> doc[q]] \in jobs)

\* What is recorded under a key has been done.
Founded(k) == record[k].known =>
  /\ ToolOf[k] = "journal" =>
       [key |-> k, doc |-> record[k].doc, revision |-> record[k].revision] \in journal
  /\ ToolOf[k] = "thread" =>
       [key |-> k, doc |-> record[k].doc, revision |-> record[k].revision] \in ledger

AnswerInv ==
  /\ \A q \in Request : Ready(q) /\ Truly(q)
  /\ \A k \in Key : Founded(k)

\* What was true of a request that does not move stays true.
LEMMA Others ==
  ASSUME TypeOK, AnswerInv, [Next]_vars, NEW o \in Request,
         pc'[o] = pc[o], answer'[o] = answer[o], seen'[o] = seen[o], UNCHANGED <<key, doc>>
  PROVE  Ready(o)' /\ Truly(o)'
<1>1. Ready(o) /\ Truly(o)
  BY DEF AnswerInv
<1>2. journal \subseteq journal' /\ ledger \subseteq ledger' /\ jobs \subseteq jobs'
  BY Grows
<1>3. RowOf(o)' = RowOf(o)
  BY DEF RowOf
<1>4. Ready(o)'
  BY <1>1, <1>2, <1>3 DEF Ready, Unanswering
<1>5. Truly(o)'
  BY <1>1, <1>2 DEF Truly
<1> QED BY <1>4, <1>5

\* What is recorded stays founded while the record is not written.
LEMMA Recorders ==
  ASSUME TypeOK, AnswerInv, [Next]_vars, NEW k \in Key,
         record'[k] = record[k] \/ record'[k] = NoRecord
  PROVE  Founded(k)'
<1>1. Founded(k)
  BY DEF AnswerInv
<1>2. journal \subseteq journal' /\ ledger \subseteq ledger'
  BY Grows
<1> QED BY <1>1, <1>2 DEF Founded, NoRecord

LEMMA ReplayTrue ==
  ASSUME TypeOK, AnswerInv, NEW q \in Request, record[key[q]].known, Replay(q),
         UNCHANGED <<journal, ledger, jobs, key, doc>>
  PROVE  Truly(q)'
<1>1. Founded(key[q]) /\ key[q] \in Key
  BY DEF AnswerInv, TypeOK
<1>2. CASE record[key[q]].doc = doc[q]
  <2>1. answer'[q] = [status |-> "reused", revision |-> record[key[q]].revision]
    BY <1>2 DEF Replay, Answer, TypeOK
  <2> QED BY <1>1, <1>2, <2>1 DEF Truly, Founded
<1>3. CASE record[key[q]].doc # doc[q]
  <2>1. answer'[q].status = "conflict"
    BY <1>3 DEF Replay, Answer, TypeOK
  <2> QED BY <2>1 DEF Truly, Told
<1> QED BY <1>2, <1>3

LEMMA ReadTrue ==
  ASSUME TypeOK, AnswerInv, NEW q \in Request,
         ReadJournal(q) \/ ReadThread(q) \/ ReadRun(q)
  PROVE  Ready(q)' /\ Truly(q)'
<1> USE DEF tables, local, Goto, Answer
<1>0. Ready(q) /\ key[q] \in Key /\ ToolOf[key[q]] \in {"journal", "thread", "pipeline"}
  BY Calls DEF AnswerInv
<1>1. CASE ReadJournal(q)
  <2>1. PICK n \in Revision :
          /\ IsLatest(n, journal, 0)
          /\ \/ /\ n = doc[q].expected
                /\ seen'[q] = n /\ pc'[q] = "inserting" /\ answer'[q] = answer[q]
             \/ answer'[q].status = "stale" /\ pc'[q] = "releasing"
    BY <1>1 DEF ReadJournal, TypeOK
  <2>2. pc[q] = "operating" /\ ToolOf[key[q]] = "journal" /\ UNCHANGED <<key, doc, journal>>
    BY <1>1 DEF ReadJournal
  <2>3. answer[q].status = "none"
    BY <1>0, <2>2 DEF Ready, Unanswering
  <2>4. n = 0 \/ \E r \in journal : r.revision = n
    BY <2>1 DEF IsLatest
  <2> QED BY <2>1, <2>2, <2>3, <2>4 DEF Ready, Truly, Unanswering, Told
<1>2. CASE ReadThread(q)
  <2>1. PICK n \in Created .. Created + MaxRevision + 1 :
          /\ IsLatest(n, ledger, Created)
          /\ \/ /\ n = doc[q].expected
                /\ seen'[q] = n /\ pc'[q] = "applying" /\ answer'[q] = answer[q]
             \/ answer'[q].status = "stale" /\ pc'[q] = "releasing"
    BY <1>2 DEF ReadThread, TypeOK
  <2>2. pc[q] = "operating" /\ ToolOf[key[q]] = "thread" /\ UNCHANGED <<key, doc, ledger>>
    BY <1>2 DEF ReadThread
  <2>3. answer[q].status = "none"
    BY <1>0, <2>2 DEF Ready, Unanswering
  <2>4. Created <= n /\ (n = Created \/ \E r \in ledger : r.revision = n)
    BY <2>1, RevisionAssumption DEF IsLatest
  <2> QED BY <2>1, <2>2, <2>3, <2>4 DEF Ready, Truly, Unanswering, Told
<1>3. CASE ReadRun(q)
  <2>1. pc[q] = "operating" /\ ToolOf[key[q]] = "pipeline" /\ UNCHANGED <<key, doc>>
    BY <1>3 DEF ReadRun
  <2>2. \/ pc'[q] = "storing" /\ answer'[q].status = "reused"
        \/ pc'[q] = "posting" /\ answer'[q] = answer[q]
    BY <1>3 DEF ReadRun, TypeOK
  <2>3. answer[q].status = "none"
    BY <1>0, <2>1 DEF Ready, Unanswering
  <2> QED BY <2>1, <2>2, <2>3 DEF Ready, Truly, Unanswering, Told
<1> QED BY <1>1, <1>2, <1>3

LEMMA WriteTrue ==
  ASSUME TypeOK, AnswerInv, NEW q \in Request,
         InsertJournal(q) \/ ApplyThread(q) \/ PostJob(q)
  PROVE  Ready(q)' /\ Truly(q)'
<1> USE DEF tables, local, Goto, Answer
<1>1. Ready(q) /\ UNCHANGED <<key, doc, seen>>
  BY DEF AnswerInv, InsertJournal, ApplyThread, PostJob
<1>2. RowOf(q)' = RowOf(q)
  BY <1>1 DEF RowOf
<1>3. answer[q].status = "none"
  BY <1>1 DEF Ready, Unanswering, InsertJournal, ApplyThread, PostJob
<1>4. CASE InsertJournal(q)
  <2>1. ToolOf[key[q]] = "journal"
    BY <1>1, <1>4 DEF Ready, InsertJournal
  <2>2. \/ answer'[q].status = "failed" /\ pc'[q] = "releasing"
        \/ RowOf(q) \in journal' /\ pc'[q] = "storing" /\ answer'[q] = answer[q]
    BY <1>4 DEF InsertJournal, TypeOK
  <2> QED BY <1>1, <1>2, <1>3, <2>1, <2>2 DEF Ready, Truly, Told, Unanswering
<1>5. CASE ApplyThread(q)
  <2>1. ToolOf[key[q]] = "thread"
    BY <1>1, <1>5 DEF Ready, ApplyThread
  <2>2. \/ answer'[q].status = "failed" /\ pc'[q] = "releasing"
        \/ RowOf(q) \in ledger' /\ pc'[q] = "storing" /\ answer'[q] = answer[q]
    <3>1. \/ answer' = [answer EXCEPT ![q] = [status |-> "failed", revision |-> 0]]
             /\ pc' = [pc EXCEPT ![q] = "releasing"]
          \/ ledger' = ledger \cup {RowOf(q)} /\ pc' = [pc EXCEPT ![q] = "storing"]
             /\ answer' = answer
      BY <1>5 DEF ApplyThread
    <3> QED BY <3>1 DEF TypeOK
  <2> QED BY <1>1, <1>2, <1>3, <2>1, <2>2 DEF Ready, Truly, Told, Unanswering
<1>6. CASE PostJob(q)
  <2>1. ToolOf[key[q]] = "pipeline"
    BY <1>1, <1>6 DEF Ready, PostJob
  <2>2. /\ [key |-> key[q], doc |-> doc[q]] \in jobs'
        /\ pc'[q] = "storing" /\ answer'[q] = answer[q]
    BY <1>6 DEF PostJob, TypeOK
  <2> QED BY <1>1, <1>3, <2>1, <2>2 DEF Ready, Truly, Told, Unanswering
<1> QED BY <1>4, <1>5, <1>6

\* What is recorded, and told, is what q has written.
LEMMA StoreTrue ==
  ASSUME TypeOK, AnswerInv, NEW q \in Request, pc[q] = "storing", Recorded(q),
         UNCHANGED <<journal, ledger>>
  PROVE  \A k \in Key : Founded(k)'
<1> SUFFICES ASSUME NEW k \in Key PROVE Founded(k)'
  OBVIOUS
<1>1. Ready(q) /\ Founded(k) /\ key[q] \in Key
  BY DEF AnswerInv, TypeOK
<1>2. CASE k = key[q]
  <2>1. record'[k] = [known |-> TRUE, doc |-> doc[q], revision |-> Written(q)]
    BY <1>1, <1>2 DEF Recorded, TypeOK
  <2>2. ToolOf[k] # "pipeline" => Written(q) = seen[q] + 1
    BY <1>2 DEF Written
  <2> QED BY <1>1, <1>2, <2>1, <2>2 DEF Ready, RowOf, Founded
<1>3. CASE k # key[q]
  <2>1. record'[k] = record[k]
    BY <1>3 DEF Recorded, TypeOK
  <2> QED BY <1>1, <2>1 DEF Founded
<1> QED BY <1>2, <1>3

LEMMA StoreTold ==
  ASSUME TypeOK, AnswerInv, NEW q \in Request, Store(q)
  PROVE  Ready(q)' /\ Truly(q)'
<1>1. Ready(q) /\ pc[q] = "storing" /\ ToolOf[key[q]] \in {"journal", "thread", "pipeline"}
  BY Calls DEF AnswerInv, Store
<1>2. pc'[q] = "releasing" /\ UNCHANGED <<key, doc, journal, ledger, jobs>>
  BY DEF Store, Goto, TypeOK, tables, local
<1>3. IF answer[q].status = "none"
      THEN answer'[q] = [status |-> "accepted", revision |-> Written(q)]
      ELSE answer'[q] = answer[q]
  BY DEF Store, Answer, TypeOK
<1>4. ToolOf[key[q]] # "pipeline" => Written(q) = seen[q] + 1
  BY DEF Written
<1>5. Ready(q)'
  BY <1>2 DEF Ready, Unanswering
<1>6. Truly(q)'
  BY <1>1, <1>2, <1>3, <1>4 DEF Ready, RowOf, Truly, Told
<1> QED BY <1>5, <1>6

\* Steps that end in an answer, or leave it alone.
LEMMA RestTrue ==
  ASSUME TypeOK, AnswerInv, [Next]_vars, NEW q \in Request,
         LookUp(q) \/ Claim(q) \/ LookAgain(q) \/ Release(q)
           \/ Fails(q) \/ FailsLate(q) \/ Crash(q)
  PROVE  Ready(q)' /\ Truly(q)'
<1> USE DEF tables, local, Goto, Answer
<1>1. Ready(q) /\ Truly(q) /\ UNCHANGED <<key, doc>>
  BY DEF AnswerInv, LookUp, Claim, LookAgain, Release, Fails, FailsLate, Crash
<1>2. journal \subseteq journal' /\ ledger \subseteq ledger' /\ jobs \subseteq jobs'
  BY Grows
<1>3. CASE pc'[q] \notin {"inserting", "applying", "posting", "storing"} /\ answer'[q] = answer[q]
           /\ (pc'[q] \in Unanswering => answer[q].status = "none")
  BY <1>1, <1>2, <1>3 DEF Ready, Truly
<1>4. CASE pc'[q] = "releasing" /\ answer'[q].status = "failed"
  BY <1>4 DEF Ready, Truly, Unanswering, Told
<1>5. CASE LookUp(q)
  <2>1. CASE record[key[q]].known
    <3>1. Replay(q) /\ pc'[q] = "done" /\ UNCHANGED <<journal, ledger, jobs>>
      BY <1>5, <2>1 DEF LookUp, TypeOK
    <3> QED BY <1>1, <2>1, <3>1, ReplayTrue DEF Ready, Unanswering
  <2>2. CASE ~record[key[q]].known
    BY <1>1, <1>3, <1>5, <2>2 DEF LookUp, TypeOK, Ready, Unanswering
  <2> QED BY <2>1, <2>2
<1>6. CASE LookAgain(q)
  <2>1. CASE record[key[q]].known
    <3>1. Replay(q) /\ pc'[q] = "done" /\ UNCHANGED <<journal, ledger, jobs>>
      BY <1>6, <2>1 DEF LookAgain, TypeOK
    <3> QED BY <1>1, <2>1, <3>1, ReplayTrue DEF Ready, Unanswering
  <2>2. CASE ~record[key[q]].known
    <3>1. pc'[q] = "done" /\ answer'[q].status = "in_progress"
      BY <1>6, <2>2 DEF LookAgain, TypeOK
    <3> QED BY <3>1 DEF Ready, Truly, Unanswering, Told
  <2> QED BY <2>1, <2>2
<1>7. CASE Claim(q)
  BY <1>1, <1>3, <1>7 DEF Claim, TypeOK, Ready, Unanswering
<1>8. CASE Release(q) \/ Crash(q)
  BY <1>3, <1>8 DEF Release, Crash, TypeOK, Unanswering
<1>9. CASE Fails(q) \/ FailsLate(q)
  BY <1>4, <1>9 DEF Fails, FailsLate, TypeOK
<1> QED BY <1>5, <1>6, <1>7, <1>8, <1>9

LEMMA AnswerStep ==
  ASSUME TypeOK, AnswerInv, [Next]_vars
  PROVE  AnswerInv'
<1>1. CASE UNCHANGED vars
  BY <1>1, Others, Recorders DEF AnswerInv, vars, local
<1>2. CASE RunMoves
  BY <1>2, Others, Recorders DEF AnswerInv, RunMoves, local
<1>3. ASSUME NEW k \in Key, ClaimRunsOut(k) \/ RecordRunsOut(k) PROVE AnswerInv'
  <2>1. UNCHANGED <<pc, answer, seen, key, doc>>
    BY <1>3 DEF ClaimRunsOut, RecordRunsOut, local
  <2>2. \A j \in Key : record'[j] = record[j] \/ record'[j] = NoRecord
    BY <1>3 DEF ClaimRunsOut, RecordRunsOut, TypeOK
  <2> QED BY <2>1, <2>2, Others, Recorders DEF AnswerInv
<1>4. ASSUME NEW q \in Request, Step(q) \/ Fails(q) \/ FailsLate(q) \/ Crash(q)
      PROVE  AnswerInv'
  <2>1. \A o \in Request \ {q} : Ready(o)' /\ Truly(o)'
    BY <1>4, OneMoves, Others
  <2>2. Ready(q)' /\ Truly(q)'
    BY <1>4, ReadTrue, WriteTrue, StoreTold, RestTrue DEF Step
  <2>3. \A k \in Key : Founded(k)'
    <3>1. CASE Store(q)
      BY <3>1, StoreTrue DEF Store, tables
    <3>2. CASE FailsLate(q)
      <4>1. CASE pc[q] = "storing" /\ Recorded(q)
        BY <3>2, <4>1, StoreTrue DEF FailsLate, tables
      <4>2. CASE UNCHANGED record
        BY <4>2, Recorders
      <4> QED BY <3>2, <4>1, <4>2 DEF FailsLate
    <3>3. CASE UNCHANGED record
      BY <3>3, Recorders
    <3>4. UNCHANGED record \/ Store(q) \/ FailsLate(q)
      BY <1>4 DEF Step, LookUp, Claim, LookAgain, ReadJournal, InsertJournal, ReadThread,
                  ApplyThread, ReadRun, PostJob, Release, Fails, Crash
    <3> QED BY <3>1, <3>2, <3>3, <3>4
  <2> QED BY <2>1, <2>2, <2>3 DEF AnswerInv
<1> QED BY <1>1, <1>2, <1>3, <1>4 DEF Next

\* A client told "accepted" or "reused" is told of its own command.
THEOREM Truth == Spec => []AnsweredAsAsked
<1>1. Init => AnswerInv
  BY DEF Init, AnswerInv, Ready, Truly, Founded, Unanswered, Told, NoRecord
<1>2. TypeOK /\ AnswerInv => AnsweredAsAsked
  BY Calls DEF AnswerInv, Truly, AnsweredAsAsked
<1> QED BY <1>1, <1>2, AnswerStep, TypeCorrect, PTL DEF Spec

-----------------------------------------------------------------------------

\* A row on top of the last one continues the chain.
LEMMA Continues ==
  ASSUME NEW rows, rows \subseteq Row, NEW base \in Nat, Chain(rows, base),
         NEW new \in Row, new.revision = new.doc.expected + 1, base < new.revision,
         \A r \in rows : r.revision # new.revision,
         new.revision = base + 1 \/ \E r \in rows : r.revision = new.revision - 1
  PROVE  Chain(rows \cup {new}, base)
<1>1. \A r \in rows \cup {new} : r.revision \in Int
  BY RevisionAssumption DEF Row, Revision
<1>2. \A r \in rows \cup {new} : r.revision = r.doc.expected + 1 /\ r.revision > base
  BY <1>1 DEF Chain
<1>3. \A r, s \in rows \cup {new} : r.revision = s.revision => r = s
  BY DEF Chain
<1>4. ASSUME NEW r \in rows \cup {new}, r.revision > base + 1
      PROVE  \E s \in rows \cup {new} : s.revision = r.revision - 1
  <2>1. CASE r \in rows
    BY <1>4, <2>1 DEF Chain
  <2>2. CASE r = new
    BY <1>1, <1>4, <2>2
  <2> QED BY <2>1, <2>2
<1> QED BY <1>2, <1>3, <1>4 DEF Chain

LEMMA JournalStep ==
  ASSUME TypeOK, AnswerInv, JournalIsChain, [Next]_vars
  PROVE  JournalIsChain'
<1>1. CASE UNCHANGED journal
  BY <1>1 DEF JournalIsChain, Chain
<1>2. ASSUME NEW q \in Request, InsertJournal(q) PROVE JournalIsChain'
  <2>1. CASE \E r \in journal : r.revision = seen[q] + 1
    BY <1>1, <1>2, <2>1 DEF InsertJournal
  <2>2. CASE ~ \E r \in journal : r.revision = seen[q] + 1
    <3>1. journal' = journal \cup {RowOf(q)} /\ pc[q] = "inserting"
      BY <1>2, <2>2 DEF InsertJournal
    <3>2. /\ seen[q] = doc[q].expected /\ seen[q] \in Nat
          /\ seen[q] = 0 \/ \E r \in journal : r.revision = seen[q]
      <4>1. Ready(q) /\ seen[q] \in 0 .. MaxRevision
        BY Calls DEF AnswerInv
      <4> QED BY <3>1, <4>1, RevisionAssumption DEF Ready
    <3>3. /\ RowOf(q) \in Row /\ RowOf(q).revision = seen[q] + 1
          /\ RowOf(q).doc = doc[q] /\ journal \subseteq Row
      BY Calls DEF RowOf, TypeOK
    <3>4. RowOf(q).revision = 1 \/ \E r \in journal : r.revision = RowOf(q).revision - 1
      BY <3>2, <3>3
    <3>5. Chain(journal \cup {RowOf(q)}, 0)
      <4>1. /\ RowOf(q).revision = RowOf(q).doc.expected + 1
            /\ 0 < RowOf(q).revision
        BY <3>2, <3>3
      <4>2. \A r \in journal : r.revision # RowOf(q).revision
        BY <2>2, <3>3
      <4>3. Chain(journal, 0) /\ 0 \in Nat
        BY DEF JournalIsChain
      <4>4. RowOf(q).revision = 0 + 1 \/ \E r \in journal : r.revision = RowOf(q).revision - 1
        BY <3>4
      <4> QED BY <3>3, <4>1, <4>2, <4>3, <4>4, Continues
    <3> QED BY <3>1, <3>5 DEF JournalIsChain
  <2> QED BY <2>1, <2>2
<1>3. UNCHANGED journal \/ \E q \in Request : InsertJournal(q)
  BY DEF Next, Step, vars, tables, RunMoves, ClaimRunsOut, RecordRunsOut, LookUp, Claim,
         LookAgain, ReadJournal, ReadThread, ApplyThread, ReadRun, PostJob, Store, Release,
         Fails, FailsLate, Crash
<1> QED BY <1>1, <1>2, <1>3

\* No journal entry is lost or overwritten.
THEOREM Journal == Spec => []JournalIsChain
<1>1. Init => AnswerInv /\ JournalIsChain
  BY DEF Init, AnswerInv, Ready, Truly, Founded, Unanswered, Told, NoRecord, JournalIsChain, Chain
<1>2. TypeOK /\ AnswerInv /\ JournalIsChain /\ [Next]_vars => (AnswerInv /\ JournalIsChain)'
  BY AnswerStep, JournalStep
<1> QED BY <1>1, <1>2, TypeCorrect, PTL DEF Spec

LEMMA ThreadStep ==
  ASSUME TypeOK, AnswerInv, ThreadFollowsLedger, [Next]_vars
  PROVE  ThreadFollowsLedger'
<1>1. CASE UNCHANGED <<ledger, thread, links>>
  BY <1>1 DEF ThreadFollowsLedger, Chain, IsLatest
<1>2. ASSUME NEW q \in Request, ApplyThread(q) PROVE ThreadFollowsLedger'
  <2>1. CASE UNCHANGED <<ledger, thread, links>>
    BY <1>1, <2>1
  <2>2. CASE ~ UNCHANGED <<ledger, thread, links>>
    <3> DEFINE b == doc[q].body
               n == seen[q] + 1
               new == RowOf(q)
    <3>1. /\ ledger' = ledger \cup {new} /\ Apply(q) /\ pc[q] = "applying"
          /\ IsNewRow(q) /\ thread.revision = seen[q]
      BY <1>2, <2>2 DEF ApplyThread
    <3>2. /\ seen[q] = doc[q].expected /\ seen[q] \in Nat /\ Created <= seen[q]
          /\ seen[q] = Created \/ \E r \in ledger : r.revision = seen[q]
      <4>1. Ready(q) /\ seen[q] \in 0 .. MaxRevision
        BY Calls DEF AnswerInv
      <4> QED BY <3>1, <4>1, RevisionAssumption DEF Ready
    <3>3. new \in Row /\ new.revision = n /\ new.doc = doc[q] /\ ledger \subseteq Row
      BY Calls DEF RowOf, TypeOK
    <3>4. \A r \in ledger : r.revision \in Int /\ r.revision <= seen[q] /\ r.revision # n
      BY <3>1, <3>3, RevisionAssumption DEF ThreadFollowsLedger, IsLatest, IsNewRow, Row, Revision
    <3>5. /\ thread' = [revision |-> n, title |-> IF KindOf[b] = "thread" THEN b ELSE thread.title]
          /\ links' = IF KindOf[b] = "lot" THEN links \cup {[lot |-> b, revision |-> n]} ELSE links
      BY <3>1 DEF Apply
    <3> HIDE DEF n, b, new
    <3>6. n \in Int /\ seen[q] < n /\ n = seen[q] + 1
      BY <3>2 DEF n
    <3>7. new.doc.body = b /\ new.doc.expected = seen[q]
      BY <3>2, <3>3 DEF b
    <3>8. Chain(ledger', Created)
      <4>1. new.revision = Created + 1 \/ \E r \in ledger : r.revision = new.revision - 1
        BY <3>2, <3>3, <3>6
      <4>2. Chain(ledger, Created) /\ Created \in Nat /\ Created < new.revision
        BY <3>2, <3>3, <3>6, RevisionAssumption DEF ThreadFollowsLedger
      <4> QED BY <3>1, <3>3, <3>4, <3>6, <3>7, <4>1, <4>2, Continues
    <3>9. IsLatest(thread'.revision, ledger', Created)
      <4>1. thread'.revision = n
        BY <3>5
      <4>2. \A r \in ledger' : r.revision <= n
        BY <3>1, <3>2, <3>3, <3>4, <3>6
      <4>3. \E r \in ledger' : r.revision = n
        BY <3>1, <3>3
      <4> QED BY <4>1, <4>2, <4>3 DEF IsLatest
    <3>10. ASSUME NEW r \in ledger', KindOf[r.doc.body] = "thread",
                  \A s \in ledger' : KindOf[s.doc.body] = "thread" => s.revision <= r.revision
           PROVE  thread'.title = r.doc.body
      <4>1. CASE r = new
        <5>1. KindOf[b] = "thread"
          BY <3>7, <3>10, <4>1
        <5> QED BY <3>5, <3>7, <4>1, <5>1
      <4>2. CASE r # new
        <5>1. r \in ledger /\ r.revision < n
          BY <3>1, <3>2, <3>4, <3>6, <3>10, <4>2
        <5>2. KindOf[b] # "thread"
          BY <3>1, <3>3, <3>4, <3>6, <3>7, <3>10, <5>1
        <5>3. thread'.title = thread.title
          BY <3>5, <5>2
        <5> QED BY <3>1, <3>10, <5>1, <5>3 DEF ThreadFollowsLedger
      <4> QED BY <4>1, <4>2
    <3>11. links' = {[lot |-> r.doc.body, revision |-> r.revision] :
                       r \in {s \in ledger' : KindOf[s.doc.body] = "lot"}}
      <4>1. links = {[lot |-> r.doc.body, revision |-> r.revision] :
                       r \in {s \in ledger : KindOf[s.doc.body] = "lot"}}
        BY DEF ThreadFollowsLedger
      <4>2. CASE KindOf[b] = "lot"
        <5>1. {s \in ledger' : KindOf[s.doc.body] = "lot"}
                = {s \in ledger : KindOf[s.doc.body] = "lot"} \cup {new}
          BY <3>1, <3>7, <4>2
        <5>2. [lot |-> new.doc.body, revision |-> new.revision] = [lot |-> b, revision |-> n]
          BY <3>3, <3>7
        <5> QED BY <3>5, <4>1, <4>2, <5>1, <5>2
      <4>3. CASE KindOf[b] # "lot"
        <5>1. {s \in ledger' : KindOf[s.doc.body] = "lot"}
                = {s \in ledger : KindOf[s.doc.body] = "lot"}
          BY <3>1, <3>7, <4>3
        <5> QED BY <3>5, <4>1, <4>3, <5>1
      <4> QED BY <4>2, <4>3
    <3> QED BY <3>8, <3>9, <3>10, <3>11 DEF ThreadFollowsLedger
  <2> QED BY <2>1, <2>2
<1>3. UNCHANGED <<ledger, thread, links>> \/ \E q \in Request : ApplyThread(q)
  BY DEF Next, Step, vars, tables, RunMoves, ClaimRunsOut, RecordRunsOut, LookUp, Claim,
         LookAgain, ReadJournal, InsertJournal, ReadThread, ReadRun, PostJob, Store, Release,
         Fails, FailsLate, Crash
<1> QED BY <1>1, <1>2, <1>3

\* The thread and its lots are what the ledger of its revisions says.
THEOREM Thread == Spec => []ThreadFollowsLedger
<1>1. Init => AnswerInv /\ ThreadFollowsLedger
  BY DEF Init, AnswerInv, Ready, Truly, Founded, Unanswered, Told, NoRecord,
         ThreadFollowsLedger, Chain, IsLatest
<1>2. TypeOK /\ AnswerInv /\ ThreadFollowsLedger /\ [Next]_vars
      => (AnswerInv /\ ThreadFollowsLedger)'
  BY AnswerStep, ThreadStep
<1> QED BY <1>1, <1>2, TypeCorrect, PTL DEF Spec

\* A key changes the thread once, whatever fails in between.
THEOREM OnceByKey == Spec => []ThreadKeyOnce
<1>1. Init => ThreadKeyOnce
  BY DEF Init, ThreadKeyOnce
<1>2. ThreadKeyOnce /\ [Next]_vars => ThreadKeyOnce'
  <2> SUFFICES ASSUME ThreadKeyOnce, [Next]_vars PROVE ThreadKeyOnce'
    OBVIOUS
  <2>1. CASE UNCHANGED ledger
    BY <2>1 DEF ThreadKeyOnce
  <2>2. ASSUME NEW q \in Request, ApplyThread(q) PROVE ThreadKeyOnce'
    <3>1. RowOf(q).key = key[q]
      BY DEF RowOf
    <3> QED BY <2>2, <3>1 DEF ApplyThread, IsNewRow, ThreadKeyOnce
  <2>3. UNCHANGED ledger \/ \E q \in Request : ApplyThread(q)
    BY DEF Next, Step, vars, tables, RunMoves, ClaimRunsOut, RecordRunsOut, LookUp, Claim,
           LookAgain, ReadJournal, InsertJournal, ReadThread, ReadRun, PostJob, Store, Release,
           Fails, FailsLate, Crash
  <2> QED BY <2>1, <2>2, <2>3
<1> QED BY <1>1, <1>2, PTL DEF Spec

-----------------------------------------------------------------------------
(* Part 2: the releases.                                                   *)

(* The commands a target issues, by what they touch.  Plain commands leave *)
(* the schedules of the cut-over alone: all targets but wi063 issue these. *)
Brings == {"update job", "new revision", "candidate", "tagged candidate", "to release"}
ToLatest == {"to latest", "both to latest"}
Quiet == {"look", "execute", "smoke", "smoke candidate", "to tag"} \cup Brings \cup ToLatest
OldSchedules == ({"legacy"} \X DOMAIN TradeJobs) \cup ({"core"} \X DOMAIN CoreJobs)

Names == Job \cup Service \cup {"all", "job", "stable", "tag", "schema"}
PlainCommands == [op : Quiet, on : Names] \cup [op : {"schedule"}, on : OldSchedules]
Undos == [op : {"restore job", "route back", "routes back"}, on : Names]
PlainTasks == [do : PlainCommands, undo : Seq(Undos)]
Tasks == [do : PlainCommands \cup [op : {"migrate"}, on : Names], undo : Seq(Undos)]

\* A route is sent to the latest revision right after this release deployed one.
Paired(s) == \A i \in 1 .. Len(s) : s[i].do.op \in ToLatest =>
    /\ i > 1 /\ s[i - 1].do.op \in {"new revision", "candidate"}
    /\ s[i - 1].do.on = s[i].do.on

PlainTarget(s) == s \in Seq(PlainTasks) /\ Paired(s)

\* Where a target migrates, nothing of the release is deployed before.
MigratesFirst(s) ==
    (\E i \in 1 .. Len(s) : s[i].do.op = "migrate") =>
    \A j \in 1 .. Len(s) : s[j].do.op \in Brings => \E i \in 1 .. j - 1 : s[i].do.op = "migrate"

Target(s) == s \in Seq(Tasks) /\ Paired(s) /\ MigratesFirst(s)

LEMMA CmdIs == \A op, on : Cmd(op, on).op = op /\ Cmd(op, on).on = on
  BY DEF Cmd

LEMMA TaskIs == \A c, u : Task(c, u).do = c /\ Task(c, u).undo = u
  BY DEF Task

LEMMA UpdateIs == \A x : Cmd("update job", x).op \notin ToLatest
  BY DEF Cmd, ToLatest

LEMMA PlainCommand ==
  /\ \A op \in Quiet, on \in Names : Cmd(op, on) \in PlainCommands
  /\ \A on \in OldSchedules : Cmd("schedule", on) \in PlainCommands
  BY DEF Cmd, PlainCommands

LEMMA PlainTask ==
  ASSUME NEW c \in PlainCommands, NEW u \in Seq(Undos)
  PROVE  Task(c, u) \in PlainTasks /\ Task(c, u) \in Tasks
  BY DEF Task, PlainTasks, Tasks

-----------------------------------------------------------------------------
\* A function on 1..n with values in S is a sequence of S.
LEMMA Sequence ==
  ASSUME NEW S, NEW n \in Nat, NEW f \in [1 .. n -> S]
  PROVE  f \in Seq(S) /\ Len(f) = n /\ DOMAIN f = 1 .. n
<1>1. f \in Seq(S)
  BY SeqDef
<1>2. Len(f) \in Nat /\ DOMAIN f = 1 .. Len(f)
  BY <1>1, LenProperties
<1>3. DOMAIN f = 1 .. n
  OBVIOUS
<1> QED BY <1>1, <1>2, <1>3

LEMMA Empty == \A S : << >> \in Seq(S)
  BY EmptySeq

LEMMA One == ASSUME NEW S, NEW e \in S PROVE <<e>> \in Seq(S) /\ Len(<<e>>) = 1 /\ <<e>>[1] = e
  OBVIOUS

LEMMA LastOne == \A n \in Nat : \A i \in 1 .. n : i \in 1 .. n - 1 \/ i = n
  OBVIOUS

LEMMA OneIndex == \A i \in 1 .. 1 : i = 1
  OBVIOUS

LEMMA FewIndices ==
  /\ \A i \in 1 .. 2 : i = 1 \/ i = 2
  /\ \A i \in 1 .. 3 : i = 1 \/ i = 2 \/ i = 3
  OBVIOUS

LEMMA OneRange == \A x : x \in Range(<<x>>)
<1> SUFFICES ASSUME NEW x PROVE x \in Range(<<x>>)
  OBVIOUS
<1>1. DOMAIN <<x>> = {1} /\ <<x>>[1] = x
  OBVIOUS
<1> QED BY <1>1 DEF Range

LEMMA TwoOfThem == \A n : n = 2 => 1 \in 1 .. n /\ 2 \in 1 .. n
  OBVIOUS

LEMMA Two == ASSUME NEW S, NEW d \in S, NEW e \in S
             PROVE  <<d, e>> \in Seq(S) /\ Len(<<d, e>>) = 2 /\ <<d, e>>[1] = d /\ <<d, e>>[2] = e
  OBVIOUS

\* The elements of a concatenation.
LEMMA Parts ==
  ASSUME NEW S, NEW s \in Seq(S), NEW t \in Seq(S), NEW i \in 1 .. Len(s \o t)
  PROVE  \/ i \in 1 .. Len(s) /\ (s \o t)[i] = s[i]
         \/ i > Len(s) /\ i - Len(s) \in 1 .. Len(t) /\ (s \o t)[i] = t[i - Len(s)]
<1>1. Len(s) \in Nat /\ Len(t) \in Nat /\ Len(s \o t) = Len(s) + Len(t)
  BY LenProperties, ConcatProperties
<1>2. (s \o t)[i] = IF i <= Len(s) THEN s[i] ELSE t[i - Len(s)]
  BY <1>1, ConcatProperties
<1> QED BY <1>1, <1>2

LEMMA PairedConcat ==
  ASSUME NEW S, NEW s \in Seq(S), NEW t \in Seq(S), Paired(s), Paired(t)
  PROVE  s \o t \in Seq(S) /\ Paired(s \o t)
<1> DEFINE j == s \o t
<1>1. j \in Seq(S) /\ Len(s) \in Nat /\ Len(t) \in Nat /\ Len(j) = Len(s) + Len(t)
  BY LenProperties, ConcatProperties
<1>2. ASSUME NEW i \in 1 .. Len(j), j[i].do.op \in ToLatest
      PROVE  /\ i > 1 /\ j[i - 1].do.op \in {"new revision", "candidate"}
             /\ j[i - 1].do.on = j[i].do.on
  <2>1. CASE i \in 1 .. Len(s) /\ j[i] = s[i]
    <3>1. i > 1 /\ s[i - 1].do.op \in {"new revision", "candidate"} /\ s[i - 1].do.on = s[i].do.on
      BY <1>2, <2>1 DEF Paired
    <3>2. i > 1
      BY <3>1
    <3>3. i - 1 \in 1 .. Len(s) + Len(t) /\ i - 1 <= Len(s)
      BY <1>1, <2>1, <3>2
    <3>4. j[i - 1] = s[i - 1]
      BY <3>3, ConcatProperties
    <3> QED BY <2>1, <3>1, <3>2, <3>4
  <2>2. CASE i > Len(s) /\ i - Len(s) \in 1 .. Len(t) /\ j[i] = t[i - Len(s)]
    <3> DEFINE k == i - Len(s)
    <3>1. k > 1 /\ t[k - 1].do.op \in {"new revision", "candidate"} /\ t[k - 1].do.on = t[k].do.on
      BY <1>2, <2>2 DEF Paired
    <3>2. k > 1 /\ k \in 1 .. Len(t)
      BY <2>2, <3>1
    <3>3. /\ i - 1 \in 1 .. Len(s) + Len(t) /\ ~(i - 1 <= Len(s)) /\ (i - 1) - Len(s) = k - 1
          /\ i > 1
      BY <1>1, <3>2
    <3>4. j[i - 1] = t[k - 1]
      BY <3>3, ConcatProperties
    <3> QED BY <2>2, <3>1, <3>2, <3>3, <3>4
  <2> QED BY <2>1, <2>2, Parts
<1> QED BY <1>1, <1>2 DEF Paired

LEMMA PlainConcat ==
  ASSUME NEW s, NEW t, PlainTarget(s), PlainTarget(t)
  PROVE  PlainTarget(s \o t)
  BY PairedConcat DEF PlainTarget

LEMMA NoneToLatest ==
  ASSUME NEW s, s \in Seq(PlainTasks), \A i \in 1 .. Len(s) : s[i].do.op \notin ToLatest
  PROVE  PlainTarget(s)
  BY DEF PlainTarget, Paired

LEMMA PlainIsTarget ==
  ASSUME NEW s, PlainTarget(s)
  PROVE  Target(s)
<1>1. s \in Seq(Tasks)
  <2>1. PlainTasks \subseteq Tasks
    BY DEF PlainTasks, Tasks
  <2> QED BY <2>1, SeqMonotonic DEF PlainTarget
<1>2. \A i \in 1 .. Len(s) : s[i] \in PlainTasks
  BY ElementOfSeq DEF PlainTarget
<1>3. \A i \in 1 .. Len(s) : s[i].do.op # "migrate"
  BY <1>2 DEF PlainTasks, PlainCommands, Quiet, Brings, ToLatest
<1> QED BY <1>1, <1>3 DEF Target, PlainTarget, MigratesFirst

\* A target that has migrated may go on with plain steps.
Migrating(s) == Target(s) /\ \E i \in 1 .. Len(s) : s[i].do.op = "migrate"

\* What may come before the migration, and the migration.
Heads == {<<Migrate>>, <<Look, Migrate>>, <<Execute, Migrate>>}

LEMMA HeadMigrates ==
  ASSUME NEW h \in Heads
  PROVE  Migrating(h)
<1>1. Migrate \in Tasks /\ Look \in Tasks /\ Execute \in Tasks
  <2>1. << >> \in Seq(Undos)
    BY Empty
  <2>2. Cmd("migrate", "schema") \in [op : {"migrate"}, on : Names]
    BY DEF Cmd, Names
  <2>3. Migrate \in Tasks
    BY <2>1, <2>2 DEF Migrate, Task, Tasks
  <2>4. Cmd("look", "all") \in PlainCommands /\ Cmd("execute", "job") \in PlainCommands
    BY PlainCommand DEF Quiet, Names
  <2>5. Look \in Tasks /\ Execute \in Tasks
    BY <2>1, <2>4, PlainTask DEF Look, Execute
  <2> QED BY <2>3, <2>5
<1>2. h \in Seq(Tasks)
  <2>1. <<Migrate>> \in Seq(Tasks) /\ <<Look, Migrate>> \in Seq(Tasks) /\ <<Execute, Migrate>> \in Seq(Tasks)
    BY <1>1, One, Two
  <2> QED BY <2>1 DEF Heads
<1>3. /\ Len(h) \in 1 .. 2 /\ h[Len(h)].do.op = "migrate"
      /\ \A i \in 1 .. Len(h) : h[i].do.op \notin Brings \cup ToLatest
  <2>1. /\ Migrate.do.op = "migrate" /\ Migrate.do.op \notin Brings \cup ToLatest
        /\ Look.do.op \notin Brings \cup ToLatest /\ Execute.do.op \notin Brings \cup ToLatest
    BY DEF Migrate, Look, Execute, Task, Cmd, Brings, ToLatest
  <2>2. CASE h = <<Migrate>>
    BY <2>1, <2>2
  <2>3. CASE h = <<Look, Migrate>>
    BY <2>1, <2>3
  <2>4. CASE h = <<Execute, Migrate>>
    BY <2>1, <2>4
  <2> QED BY <2>2, <2>3, <2>4 DEF Heads
<1>4. Len(h) \in 1 .. Len(h)
  <2>1. Len(h) \in 1 .. 2
    BY <1>3
  <2> QED BY <2>1
<1> QED BY <1>2, <1>3, <1>4 DEF Migrating, Target, Paired, MigratesFirst

LEMMA MigratingConcat ==
  ASSUME NEW s, NEW t, Migrating(s), PlainTarget(t)
  PROVE  Migrating(s \o t)
<1>1. s \in Seq(Tasks) /\ Paired(s) /\ MigratesFirst(s) /\ t \in Seq(Tasks) /\ Paired(t)
  BY PlainIsTarget DEF Migrating, Target
<1>2. Len(s) \in Nat /\ Len(t) \in Nat /\ Len(s \o t) = Len(s) + Len(t)
  BY <1>1, LenProperties, ConcatProperties
<1>3. s \o t \in Seq(Tasks) /\ Paired(s \o t)
  BY <1>1, PairedConcat
<1>4. \A i \in 1 .. Len(s) : (s \o t)[i] = s[i] /\ i \in 1 .. Len(s \o t)
  <2> TAKE i \in 1 .. Len(s)
  <2>1. i \in 1 .. Len(s) + Len(t) /\ i <= Len(s)
    BY <1>2
  <2> QED BY <1>1, <1>2, <2>1, ConcatProperties
<1>5. PICK m \in 1 .. Len(s) : s[m].do.op = "migrate"
  BY DEF Migrating
<1>6. ASSUME NEW j \in 1 .. Len(s \o t), (s \o t)[j].do.op \in Brings
      PROVE  \E i \in 1 .. j - 1 : (s \o t)[i].do.op = "migrate"
  <2>1. CASE j \in 1 .. Len(s)
    <3>1. s[j].do.op \in Brings
      BY <1>4, <1>6, <2>1
    <3>2. PICK i \in 1 .. j - 1 : s[i].do.op = "migrate"
      BY <1>1, <1>5, <2>1, <3>1 DEF MigratesFirst
    <3>3. i \in 1 .. Len(s)
      BY <1>2, <2>1
    <3> QED BY <1>4, <3>2, <3>3
  <2>2. CASE j > Len(s)
    <3>1. m \in 1 .. j - 1
      BY <1>2, <2>2
    <3> QED BY <1>4, <1>5, <3>1
  <2> QED BY <1>2, <2>1, <2>2
<1> QED BY <1>3, <1>4, <1>5, <1>6 DEF Migrating, Target, MigratesFirst

-----------------------------------------------------------------------------
(* The blocks the targets are built from.                                  *)
LEMMA JobLists ==
  /\ CoreJobs \in Seq(Job) /\ TradeJobs \in Seq(Job) /\ OldJobs \in Seq(Job)
  /\ Len(CoreJobs) \in Nat /\ Len(TradeJobs) \in Nat /\ Len(OldJobs) \in Nat
  /\ DOMAIN CoreJobs = 1 .. Len(CoreJobs) /\ DOMAIN TradeJobs = 1 .. Len(TradeJobs)
  /\ Len(TradeJobs) >= 2 /\ Len(OldJobs) >= 1 /\ MaxReleases \in Nat
<1>1. /\ CoreJobs \in Seq(STRING) /\ TradeJobs \in Seq(STRING) /\ OldJobs \in Seq(STRING)
      /\ Len(TradeJobs) >= 2 /\ Len(OldJobs) >= 1 /\ MaxReleases \in Nat
  BY TargetAssumption
<1>2. CoreJobs \o TradeJobs \in Seq(STRING) /\ (CoreJobs \o TradeJobs) \o OldJobs \in Seq(STRING)
  BY <1>1, ConcatProperties
<1>3. Job = Range(CoreJobs) \cup Range(TradeJobs) \cup Range(OldJobs)
  <2>1. Job = Range((CoreJobs \o TradeJobs) \o OldJobs)
    BY DEF Job, ToSet, Range
  <2>2. Range(CoreJobs \o TradeJobs) = Range(CoreJobs) \cup Range(TradeJobs)
    BY <1>1, RangeConcatenation
  <2>3. Range((CoreJobs \o TradeJobs) \o OldJobs) = Range(CoreJobs \o TradeJobs) \cup Range(OldJobs)
    BY <1>1, <1>2, RangeConcatenation
  <2> QED BY <2>1, <2>2, <2>3
<1>4. /\ CoreJobs \in Seq(Range(CoreJobs)) /\ TradeJobs \in Seq(Range(TradeJobs))
      /\ OldJobs \in Seq(Range(OldJobs))
  BY <1>1, SeqOfRange
<1>5. CoreJobs \in Seq(Job)
  BY <1>3, <1>4, SeqMonotonic
<1>6. TradeJobs \in Seq(Job)
  BY <1>3, <1>4, SeqMonotonic
<1>7. OldJobs \in Seq(Job)
  BY <1>3, <1>4, SeqMonotonic
<1> QED BY <1>1, <1>5, <1>6, <1>7, LenProperties

LEMMA OnIs ==
  ASSUME NEW op, NEW S, NEW s \in Seq(S), NEW C, \A x \in S : Cmd(op, x) \in C
  PROVE  /\ On(op, s) \in Seq(C) /\ Len(On(op, s)) = Len(s)
         /\ \A i \in 1 .. Len(s) : On(op, s)[i] = Cmd(op, s[i])
<1>1. Len(s) \in Nat /\ DOMAIN s = 1 .. Len(s) /\ \A i \in 1 .. Len(s) : s[i] \in S
  BY LenProperties, ElementOfSeq
<1>2. On(op, s) = [i \in 1 .. Len(s) |-> Cmd(op, s[i])]
  BY <1>1 DEF On
<1>3. On(op, s) \in [1 .. Len(s) -> C]
  BY <1>1, <1>2
<1> QED BY <1>1, <1>2, <1>3, Sequence

LEMMA StepsAre ==
  ASSUME NEW cmds \in Seq(PlainCommands)
  PROVE  /\ Steps(cmds) \in Seq(PlainTasks) /\ Len(Steps(cmds)) = Len(cmds)
         /\ \A i \in 1 .. Len(cmds) : Steps(cmds)[i] = Task(cmds[i], << >>)
         /\ (\A i \in 1 .. Len(cmds) : cmds[i].op \notin ToLatest) => PlainTarget(Steps(cmds))
<1>1. Len(cmds) \in Nat /\ DOMAIN cmds = 1 .. Len(cmds) /\ \A i \in 1 .. Len(cmds) : cmds[i] \in PlainCommands
  BY LenProperties, ElementOfSeq
<1>2. Steps(cmds) = [i \in 1 .. Len(cmds) |-> Task(cmds[i], << >>)]
  BY <1>1 DEF Steps
<1>3. Steps(cmds) \in [1 .. Len(cmds) -> PlainTasks]
  BY <1>1, <1>2, PlainTask, Empty
<1>4. Steps(cmds) \in Seq(PlainTasks) /\ Len(Steps(cmds)) = Len(cmds)
  BY <1>1, <1>3, Sequence
<1>5. \A i \in 1 .. Len(cmds) : Steps(cmds)[i].do = cmds[i]
  BY <1>2 DEF Task
<1> QED BY <1>2, <1>4, <1>5, NoneToLatest

LEMMA GuardedIs ==
  ASSUME NEW s, PlainTarget(s), NEW u \in Seq(Undos)
  PROVE  /\ PlainTarget(Guarded(s, u)) /\ Len(Guarded(s, u)) = Len(s)
         /\ \A i \in 1 .. Len(s) : /\ Guarded(s, u)[i].do = s[i].do
                                   /\ Guarded(s, u)[i].undo = s[i].undo \o u
                                   /\ s[i].undo \in Seq(Undos)
<1> DEFINE g == Guarded(s, u)
<1>1. Len(s) \in Nat /\ DOMAIN s = 1 .. Len(s) /\ \A i \in 1 .. Len(s) : s[i] \in PlainTasks
  BY LenProperties, ElementOfSeq DEF PlainTarget
<1>2. g = [i \in 1 .. Len(s) |-> [s[i] EXCEPT !.undo = s[i].undo \o u]]
  BY <1>1 DEF Guarded
<1>3. \A i \in 1 .. Len(s) : /\ g[i].do = s[i].do /\ g[i].undo = s[i].undo \o u
                             /\ s[i].undo \in Seq(Undos)
  BY <1>1, <1>2 DEF PlainTasks
<1>4. \A i \in 1 .. Len(s) : g[i] \in PlainTasks
  <2> TAKE i \in 1 .. Len(s)
  <2>1. s[i].undo \o u \in Seq(Undos)
    BY <1>3, ConcatProperties
  <2>2. s[i].do \in PlainCommands /\ g[i] = [do |-> s[i].do, undo |-> s[i].undo \o u]
    BY <1>1, <1>2 DEF PlainTasks
  <2> QED BY <2>1, <2>2 DEF PlainTasks
<1>5. g \in [1 .. Len(s) -> PlainTasks]
  BY <1>2, <1>4
<1>6. g \in Seq(PlainTasks) /\ Len(g) = Len(s)
  BY <1>1, <1>5, Sequence
<1>7. Paired(g)
  <2> SUFFICES ASSUME NEW i \in 1 .. Len(s), g[i].do.op \in ToLatest
               PROVE  /\ i > 1 /\ g[i - 1].do.op \in {"new revision", "candidate"}
                      /\ g[i - 1].do.on = g[i].do.on
    BY <1>6 DEF Paired
  <2>1. i > 1 /\ s[i - 1].do.op \in {"new revision", "candidate"} /\ s[i - 1].do.on = s[i].do.on
    BY <1>3 DEF PlainTarget, Paired
  <2>2. i > 1
    BY <2>1
  <2>3. i - 1 \in 1 .. Len(s)
    BY <1>1, <2>2
  <2> QED BY <1>3, <2>1, <2>3
<1> QED BY <1>3, <1>6, <1>7 DEF PlainTarget

LEMMA ReverseIs ==
  ASSUME NEW S, NEW s \in Seq(S)
  PROVE  Reverse(s) \in Seq(S) /\ Len(Reverse(s)) = Len(s) /\ Range(Reverse(s)) = Range(s)
<1> DEFINE r == Reverse(s)
<1>1. Len(s) \in Nat /\ DOMAIN s = 1 .. Len(s) /\ \A i \in 1 .. Len(s) : s[i] \in S
  BY LenProperties, ElementOfSeq
<1>2. r = [i \in 1 .. Len(s) |-> s[(Len(s) - i) + 1]]
  BY DEF Reverse
<1>3. \A i \in 1 .. Len(s) : (Len(s) - i) + 1 \in 1 .. Len(s) /\ (Len(s) - ((Len(s) - i) + 1)) + 1 = i
  <2>1. Len(s) \in Nat
    BY <1>1
  <2> QED BY <2>1
<1>4. r \in [1 .. Len(s) -> S]
  BY <1>1, <1>2, <1>3
<1>5. r \in Seq(S) /\ Len(r) = Len(s) /\ DOMAIN r = 1 .. Len(s)
  BY <1>1, <1>4, Sequence
<1>6. \A i \in 1 .. Len(s) : r[i] = s[(Len(s) - i) + 1]
  BY <1>2
<1> HIDE DEF r
<1>7. \A i \in 1 .. Len(s) : \E k \in 1 .. Len(s) : r[i] = s[k]
  BY <1>3, <1>6
<1>8. \A k \in 1 .. Len(s) : \E i \in 1 .. Len(s) : s[k] = r[i]
  <2> TAKE k \in 1 .. Len(s)
  <2>1. PICK i \in 1 .. Len(s) : (Len(s) - i) + 1 = k
    BY <1>3
  <2>2. r[i] = s[(Len(s) - i) + 1]
    BY <1>6
  <2> QED BY <2>1, <2>2
<1>9. Range(r) = Range(s)
  <2>1. Range(r) = {r[i] : i \in 1 .. Len(s)} /\ Range(s) = {s[i] : i \in 1 .. Len(s)}
    BY <1>1, <1>5 DEF Range
  <2>2. {r[i] : i \in 1 .. Len(s)} = {s[i] : i \in 1 .. Len(s)}
    <3>1. {r[i] : i \in 1 .. Len(s)} \subseteq {s[i] : i \in 1 .. Len(s)}
      BY <1>7
    <3>2. {s[i] : i \in 1 .. Len(s)} \subseteq {r[i] : i \in 1 .. Len(s)}
      BY <1>8
    <3> QED BY <3>1, <3>2
  <2> QED BY <2>1, <2>2
<1> QED BY <1>5, <1>9 DEF r

LEMMA RollbackIs ==
  ASSUME NEW s \in Seq(Job)
  PROVE  /\ _rollback_job_definitions(s) \in Seq(Undos)
         /\ \A k \in 1 .. Len(s) : Cmd("restore job", s[k]) \in Range(_rollback_job_definitions(s))
<1> DEFINE r == On("restore job", s)
<1>1. r \in Seq(Undos) /\ Len(r) = Len(s) /\ \A i \in 1 .. Len(s) : r[i] = Cmd("restore job", s[i])
  <2>1. \A x \in Job : Cmd("restore job", x) \in Undos
    BY DEF Undos, Cmd, Names
  <2> QED BY <2>1, OnIs
<1>2. Reverse(r) \in Seq(Undos) /\ Range(Reverse(r)) = Range(r) /\ DOMAIN r = 1 .. Len(r)
  BY <1>1, ReverseIs, LenProperties
<1> HIDE DEF r
<1>3. \A k \in 1 .. Len(s) : Cmd("restore job", s[k]) \in Range(r)
  BY <1>1, <1>2 DEF Range
<1> QED BY <1>2, <1>3 DEF _rollback_job_definitions, r

\* The updates of a list of Jobs, each undone back to the first.
LEMMA SomeJobsAre ==
  ASSUME NEW list \in Seq(Job), NEW routes \in Seq(Undos)
  PROVE  LET u == UpdateSomeJobs(list, routes) IN
         /\ PlainTarget(u) /\ Len(u) = Len(list)
         /\ \A i \in 1 .. Len(list) :
              /\ u[i].do = Cmd("update job", list[i])
              /\ Range(routes) \subseteq Range(u[i].undo)
              /\ \A k \in 1 .. i : Cmd("restore job", list[k]) \in Range(u[i].undo)
<1> DEFINE u == UpdateSomeJobs(list, routes)
           back(i) == _rollback_job_definitions(SubSeq(list, 1, i))
<1>1. Len(list) \in Nat /\ DOMAIN list = 1 .. Len(list) /\ \A i \in 1 .. Len(list) : list[i] \in Job
  BY LenProperties, ElementOfSeq
<1>2. u = [i \in 1 .. Len(list) |-> Task(Cmd("update job", list[i]), back(i) \o routes)]
  BY <1>1 DEF UpdateSomeJobs
<1>3. ASSUME NEW i \in 1 .. Len(list)
      PROVE  /\ back(i) \o routes \in Seq(Undos)
             /\ Range(routes) \subseteq Range(back(i) \o routes)
             /\ \A k \in 1 .. i : Cmd("restore job", list[k]) \in Range(back(i) \o routes)
  <2> DEFINE first == SubSeq(list, 1, i)
  <2>1. i \in Int /\ 1 \in Int /\ 1 <= i /\ (i - 1) + 1 = i /\ \A k \in 1 .. i : list[k] \in Job
    BY <1>1
  <2>2. first \in Seq(Job) /\ Len(first) = (i - 1) + 1 /\ \A k \in 1 .. (i - 1) + 1 : first[k] = list[(1 + k) - 1]
    BY <2>1, SubSeqProperties
  <2>3. Len(first) = i /\ \A k \in 1 .. i : first[k] = list[k]
    BY <2>1, <2>2
  <2>4. back(i) \in Seq(Undos) /\ \A k \in 1 .. i : Cmd("restore job", first[k]) \in Range(back(i))
    BY <2>2, <2>3, RollbackIs
  <2> HIDE DEF back
  <2>5. back(i) \o routes \in Seq(Undos) /\ Range(back(i) \o routes) = Range(back(i)) \cup Range(routes)
    BY <2>4, ConcatProperties, RangeConcatenation
  <2> QED BY <2>3, <2>4, <2>5
<1>4. \A i \in 1 .. Len(list) : Cmd("update job", list[i]) \in PlainCommands
  BY <1>1, PlainCommand DEF Names, Quiet, Brings
<1> HIDE DEF back
<1>5. u \in [1 .. Len(list) -> PlainTasks]
  BY <1>2, <1>3, <1>4, PlainTask
<1>6. u \in Seq(PlainTasks) /\ Len(u) = Len(list)
  BY <1>1, <1>5, Sequence
<1>7. \A i \in 1 .. Len(list) : u[i].do = Cmd("update job", list[i]) /\ u[i].undo = back(i) \o routes
  <2> TAKE i \in 1 .. Len(list)
  <2>1. u[i] = Task(Cmd("update job", list[i]), back(i) \o routes)
    BY <1>2
  <2> QED BY <2>1, TaskIs
<1>8. \A i \in 1 .. Len(list) : u[i].do.op \notin ToLatest
  BY <1>7, UpdateIs
<1>9. PlainTarget(u)
  BY <1>6, <1>8, NoneToLatest
<1> HIDE DEF u
<1> QED BY <1>3, <1>6, <1>7, <1>9 DEF u

LEMMA CoreJobsAre ==
  /\ PlainTarget(UpdateCoreJobs) /\ Len(UpdateCoreJobs) = Len(CoreJobs)
  /\ \A i \in 1 .. Len(CoreJobs) : UpdateCoreJobs[i] = Task(Cmd("update job", CoreJobs[i]), << >>)
<1>1. \A x \in Job : Cmd("update job", x) \in PlainCommands
  BY PlainCommand DEF Names, Quiet, Brings
<1>2. /\ On("update job", CoreJobs) \in Seq(PlainCommands) /\ Len(On("update job", CoreJobs)) = Len(CoreJobs)
      /\ \A i \in 1 .. Len(CoreJobs) : On("update job", CoreJobs)[i] = Cmd("update job", CoreJobs[i])
  BY <1>1, JobLists, OnIs
<1>3. \A i \in 1 .. Len(CoreJobs) : On("update job", CoreJobs)[i].op \notin ToLatest
  BY <1>2, UpdateIs
<1> QED BY <1>2, <1>3, StepsAre DEF UpdateCoreJobs

\* Single steps, and the new revision that takes the route at once.
LEMMA SingleSteps ==
  ASSUME NEW u \in Seq(Undos)
  PROVE  /\ PlainTarget(<<Look>>) /\ PlainTarget(<<Execute>>) /\ PlainTarget(<<Smoke(u)>>)
         /\ PlainTarget(<<SmokeCandidate>>)
         /\ \A op \in Quiet \ ToLatest, on \in Names : PlainTarget(<<Task(Cmd(op, on), u)>>)
<1>1. ASSUME NEW op \in Quiet \ ToLatest, NEW on \in Names, NEW v \in Seq(Undos)
      PROVE  PlainTarget(<<Task(Cmd(op, on), v)>>)
  <2> DEFINE e == Task(Cmd(op, on), v)
  <2>1. e \in PlainTasks
    BY PlainCommand, PlainTask
  <2>2. e.do.op \notin ToLatest
    BY DEF Task, Cmd
  <2> HIDE DEF e
  <2>3. <<e>> \in Seq(PlainTasks) /\ \A i \in 1 .. Len(<<e>>) : <<e>>[i].do.op \notin ToLatest
    BY <2>1, <2>2
  <2> QED BY <2>3, NoneToLatest DEF e
<1>2. /\ {"look", "execute", "smoke", "smoke candidate"} \subseteq Quiet \ ToLatest
      /\ {"all", "job", "stable", "tag"} \subseteq Names
  BY DEF Quiet, ToLatest, Names
<1>3. << >> \in Seq(Undos)
  BY Empty
<1> QED BY <1>1, <1>2, <1>3 DEF Look, Execute, Smoke, SmokeCandidate

LEMMA RouteCommands ==
  ASSUME NEW s \in Service
  PROVE  Cmd("routes back", s) \in Undos /\ Cmd("route back", s) \in Undos
  BY DEF Cmd, Undos, Names

LEMMA RoutesBackIs ==
  /\ RoutesBack \in Seq(Undos) /\ Range(RoutesBack) = {Cmd("routes back", "remote")}
<1>1. Cmd("routes back", "remote") \in Undos
  BY RouteCommands DEF Service
<1>2. /\ <<Cmd("routes back", "remote")>> \in Seq(Undos) /\ Len(<<Cmd("routes back", "remote")>>) = 1
      /\ <<Cmd("routes back", "remote")>>[1] = Cmd("routes back", "remote")
  BY <1>1, One
<1>3. DOMAIN RoutesBack = {1}
  BY DEF RoutesBack
<1> QED BY <1>2, <1>3 DEF RoutesBack, Range

LEMMA NewThenLatest ==
  ASSUME NEW s \in Service, NEW op \in ToLatest
  PROVE  /\ PlainTarget(Steps(<<Cmd("new revision", s), Cmd(op, s)>>))
         /\ Len(Steps(<<Cmd("new revision", s), Cmd(op, s)>>)) = 2
         /\ Steps(<<Cmd("new revision", s), Cmd(op, s)>>)[1] = Task(Cmd("new revision", s), << >>)
         /\ Steps(<<Cmd("new revision", s), Cmd(op, s)>>)[2] = Task(Cmd(op, s), << >>)
<1> DEFINE c == <<Cmd("new revision", s), Cmd(op, s)>>
           t == Steps(c)
<1>1. Cmd("new revision", s) \in PlainCommands /\ Cmd(op, s) \in PlainCommands
  BY PlainCommand DEF Names, Quiet, Brings
<1>2. c \in Seq(PlainCommands) /\ Len(c) = 2 /\ c[1] = Cmd("new revision", s) /\ c[2] = Cmd(op, s)
  BY <1>1, Two
<1> HIDE DEF c
<1>3. /\ t \in Seq(PlainTasks) /\ Len(t) = 2
      /\ \A i \in 1 .. 2 : t[i] = Task(c[i], << >>)
  BY <1>2, StepsAre
<1> HIDE DEF t
<1>4. t[1].do = c[1] /\ t[2].do = c[2]
  BY <1>3, TaskIs
<1>5. t[1].do.op = "new revision" /\ t[1].do.on = s /\ t[2].do.on = s
  <2>1. \A x : Cmd("new revision", x).op = "new revision"
    BY DEF Cmd
  <2>2. Cmd("new revision", s).on = s /\ Cmd(op, s).on = s
    BY DEF Cmd
  <2>3. t[1].do = Cmd("new revision", s) /\ t[2].do = Cmd(op, s)
    BY <1>2, <1>4
  <2> QED BY <2>1, <2>2, <2>3, Zenon
<1>6. t[1].do.op \notin ToLatest
  BY <1>5 DEF ToLatest
<1>7. Paired(t)
  <2> SUFFICES ASSUME NEW i \in 1 .. Len(t), t[i].do.op \in ToLatest
               PROVE  /\ i > 1 /\ t[i - 1].do.op \in {"new revision", "candidate"}
                      /\ t[i - 1].do.on = t[i].do.on
    BY DEF Paired
  <2>1. i = 2
    BY <1>3, <1>6
  <2>2. i > 1 /\ i - 1 = 1
    BY <2>1
  <2> QED BY <1>5, <2>1, <2>2
<1>8. t[1] = Task(c[1], << >>) /\ t[2] = Task(c[2], << >>)
  BY <1>3
<1> QED BY <1>7, <1>2, <1>3, <1>8 DEF PlainTarget, t, c

\* Targets that put no route on the latest revision: updates, schedules.
LEMMA MoreSteps ==
  /\ \A op \in {"update job"}, s \in Seq(Job) : PlainTarget(Steps(On(op, s)))
  /\ \A s \in Seq(Service) : PlainTarget(Steps(On("new revision", s)))
  /\ PlainTarget(_deploy_v2_core_schedulers)
  /\ \A i \in DOMAIN TradeJobs : PlainTarget(_deploy_scheduler_target(i))
<1>1. ASSUME NEW op \in {"update job", "new revision"}, NEW s \in Seq(Job) \cup Seq(Service)
      PROVE  PlainTarget(Steps(On(op, s)))
  <2>1. s \in Seq(Names)
    <3>1. CASE s \in Seq(Job)
      BY <3>1, SeqMonotonic DEF Names
    <3>2. CASE s \in Seq(Service)
      BY <3>2, SeqMonotonic DEF Names
    <3> QED BY <3>1, <3>2
  <2>2. \A x \in Names : Cmd(op, x) \in PlainCommands
    BY PlainCommand DEF Quiet, Brings
  <2>3. /\ On(op, s) \in Seq(PlainCommands) /\ Len(On(op, s)) = Len(s)
        /\ \A i \in 1 .. Len(s) : On(op, s)[i] = Cmd(op, s[i])
    BY <2>1, <2>2, OnIs
  <2>4. \A x : Cmd(op, x).op \notin ToLatest
    BY DEF Cmd, ToLatest
  <2> QED BY <2>3, <2>4, StepsAre
<1>2. ASSUME NEW k \in {"core", "legacy"}, NEW n \in Nat, {k} \X (1 .. n) \subseteq OldSchedules
      PROVE  PlainTarget(Steps([i \in 1 .. n |-> Cmd("schedule", <<k, i>>)]))
  <2> DEFINE c == [i \in 1 .. n |-> Cmd("schedule", <<k, i>>)]
  <2>1. \A i \in 1 .. n : Cmd("schedule", <<k, i>>) \in PlainCommands
    BY <1>2, PlainCommand
  <2>2. c \in [1 .. n -> PlainCommands] /\ \A i \in 1 .. n : c[i] = Cmd("schedule", <<k, i>>)
    BY <2>1
  <2>3. \A x : Cmd("schedule", x).op \notin ToLatest
    BY DEF Cmd, ToLatest
  <2> HIDE DEF c
  <2>4. c \in Seq(PlainCommands) /\ Len(c) = n
    BY <2>2, Sequence
  <2> QED BY <2>2, <2>3, <2>4, StepsAre DEF c
<1>3. PlainTarget(_deploy_v2_core_schedulers)
  BY <1>2, JobLists DEF _deploy_v2_core_schedulers, OldSchedules
<1>4. ASSUME NEW i \in DOMAIN TradeJobs
      PROVE  PlainTarget(_deploy_scheduler_target(i))
  <2> DEFINE c == <<Cmd("schedule", <<"legacy", i>>)>>
  <2>1. Cmd("schedule", <<"legacy", i>>) \in PlainCommands
    BY PlainCommand DEF OldSchedules
  <2>2. \A x : Cmd("schedule", x).op \notin ToLatest
    BY DEF Cmd, ToLatest
  <2>3. c \in Seq(PlainCommands) /\ Len(c) = 1 /\ c[1].op \notin ToLatest
    BY <2>1, <2>2, One
  <2>4. \A j \in 1 .. Len(c) : c[j].op \notin ToLatest
    BY <2>3
  <2> QED BY <2>3, <2>4, StepsAre DEF _deploy_scheduler_target
<1> QED BY <1>1, <1>3, <1>4

-----------------------------------------------------------------------------
(* The targets.                                                            *)
LEMMA Wi065 == PlainTarget(_deploy_wi065)
<1>1. PlainTarget(Steps(<<Cmd("new revision", "remote"), Cmd("both to latest", "remote")>>))
  BY NewThenLatest DEF Service, ToLatest
<1> QED BY <1>1, SingleSteps, RoutesBackIs, PlainConcat, Empty DEF _deploy_wi065

LEMMA Wi055 == PlainTarget(_deploy_wi055_s01)
  BY SingleSteps, CoreJobsAre, PlainConcat, Empty DEF _deploy_wi055_s01

LEMMA Wi051 == PlainTarget(_deploy_wi051_final_audit)
<1> DEFINE services == <<"auth", "remote">>
           back(n) == Reverse(On("route back", SubSeq(services, 1, n)))
           route == [i \in DOMAIN services |-> Task(Cmd("to release", services[i]), back(i - 1))]
<1>1. services \in Seq(Service) /\ Len(services) = 2 /\ DOMAIN services = 1 .. 2 /\ \A i \in 1 .. 2 : services[i] \in Service
  BY DEF Service
<1> HIDE DEF services
<1>2. ASSUME NEW n \in 0 .. 2
      PROVE  back(n) \in Seq(Undos)
  <2>1. SubSeq(services, 1, n) \in Seq(Service)
    BY <1>1, SubSeqProperties
  <2>2. \A x \in Service : Cmd("route back", x) \in Undos
    BY RouteCommands
  <2>3. On("route back", SubSeq(services, 1, n)) \in Seq(Undos)
    BY <2>1, <2>2, OnIs
  <2> QED BY <2>3, ReverseIs
<1> HIDE DEF back
<1>3. PlainTarget(route)
  <2>0. \A x \in Service : Cmd("to release", x) \in PlainCommands
    BY PlainCommand DEF Names, Quiet, Brings
  <2>1. \A i \in 1 .. 2 : Cmd("to release", services[i]) \in PlainCommands
    BY <1>1, <2>0
  <2>a. \A i \in 1 .. 2 : i - 1 \in 0 .. 2
    OBVIOUS
  <2>2. route \in [1 .. 2 -> PlainTasks]
    BY <1>1, <1>2, <2>1, <2>a, PlainTask
  <2>3. \A i \in 1 .. 2 : route[i].do = Cmd("to release", services[i])
    BY <1>1, TaskIs
  <2>4. \A x : Cmd("to release", x).op \notin ToLatest
    BY DEF Cmd, ToLatest
  <2> HIDE DEF route
  <2>5. route \in Seq(PlainTasks) /\ Len(route) = 2
    BY <2>2, Sequence
  <2> QED BY <2>3, <2>4, <2>5, NoneToLatest
<1>4. PlainTarget(Steps(On("update job", OldJobs \o CoreJobs)))
  BY JobLists, ConcatProperties, MoreSteps
<1>5. PlainTarget(Steps(On("new revision", services)))
  BY <1>1, MoreSteps
<1>6. PlainTarget(<<Look>>) /\ PlainTarget(<<Smoke(back(2))>>)
  BY <1>2, SingleSteps, Empty
<1>7. _deploy_wi051_final_audit =
        (((<<Look>> \o Steps(On("update job", OldJobs \o CoreJobs))) \o Steps(On("new revision", services)))
         \o route) \o <<Smoke(back(2))>>
  BY DEF _deploy_wi051_final_audit, services, route, back
<1> HIDE DEF route
<1> QED BY <1>3, <1>4, <1>5, <1>6, <1>7, PlainConcat

\* A list of steps written out.
LEMMA Listed ==
  ASSUME NEW a \in PlainTasks, a.do.op \notin ToLatest, NEW b \in PlainTasks, b.do.op \notin ToLatest,
         NEW c \in PlainTasks, c.do.op \notin ToLatest, NEW d \in PlainTasks, d.do.op \notin ToLatest
  PROVE  PlainTarget(<<a, b>>) /\ PlainTarget(<<a, b, c>>) /\ PlainTarget(<<a, b, c, d>>)
<1>1. PlainTarget(<<a, b>>)
  <2>1. <<a, b>> \in Seq(PlainTasks) /\ \A i \in 1 .. Len(<<a, b>>) : <<a, b>>[i].do.op \notin ToLatest
    OBVIOUS
  <2> QED BY <2>1, NoneToLatest
<1>2. PlainTarget(<<a, b, c>>)
  <2>1. <<a, b, c>> \in Seq(PlainTasks) /\ \A i \in 1 .. Len(<<a, b, c>>) : <<a, b, c>>[i].do.op \notin ToLatest
    OBVIOUS
  <2> QED BY <2>1, NoneToLatest
<1>3. PlainTarget(<<a, b, c, d>>)
  <2>1. <<a, b, c, d>> \in Seq(PlainTasks) /\ \A i \in 1 .. Len(<<a, b, c, d>>) : <<a, b, c, d>>[i].do.op \notin ToLatest
    OBVIOUS
  <2> QED BY <2>1, NoneToLatest
<1> QED BY <1>1, <1>2, <1>3

LEMMA PlainStep ==
  ASSUME NEW op \in Quiet \ ToLatest, NEW on \in Names, NEW u \in Seq(Undos)
  PROVE  Task(Cmd(op, on), u) \in PlainTasks /\ Task(Cmd(op, on), u).do.op \notin ToLatest
  BY PlainCommand, PlainTask, TaskIs, CmdIs

LEMMA Fixed ==
  /\ Look \in PlainTasks /\ Look.do.op \notin ToLatest
  /\ Execute \in PlainTasks /\ Execute.do.op \notin ToLatest
  /\ SmokeCandidate \in PlainTasks /\ SmokeCandidate.do.op \notin ToLatest
  /\ \A u \in Seq(Undos) : Smoke(u) \in PlainTasks /\ Smoke(u).do.op \notin ToLatest
  /\ \A s \in Service, u \in Seq(Undos), op \in {"candidate", "tagged candidate", "new revision", "to tag", "to release"} :
       Task(Cmd(op, s), u) \in PlainTasks /\ Task(Cmd(op, s), u).do.op \notin ToLatest
<1>1. {"look", "execute", "smoke", "smoke candidate", "candidate", "tagged candidate", "new revision",
       "to tag", "to release"} \subseteq Quiet \ ToLatest
  BY DEF Quiet, Brings, ToLatest
<1>2. {"all", "job", "stable", "tag"} \cup Service \subseteq Names
  BY DEF Names
<1> QED BY <1>1, <1>2, PlainStep, Empty DEF Look, Execute, SmokeCandidate, Smoke

LEMMA Wi046 ==
  /\ Migrating(_deploy_wi046_stage) /\ PlainTarget(_deploy_wi046_auth_candidate)
  /\ PlainTarget(_promote_wi046_auth) /\ PlainTarget(_promote_wi046_remote)
<1>1. /\ << >> \in Seq(Undos) /\ <<Cmd("route back", "auth")>> \in Seq(Undos)
      /\ <<Cmd("route back", "remote")>> \in Seq(Undos) /\ "auth" \in Service /\ "remote" \in Service
  BY Empty, One, RouteCommands DEF Service
<1>2. Migrating(_deploy_wi046_stage)
  <2>1. PlainTarget(<<Task(Cmd("tagged candidate", "auth"), << >>), Task(Cmd("tagged candidate", "remote"), << >>),
                      SmokeCandidate>>)
    BY <1>1, Fixed, Listed
  <2> QED BY <2>1, HeadMigrates, MigratingConcat DEF Heads, _deploy_wi046_stage
<1>3. PlainTarget(_deploy_wi046_auth_candidate)
  BY <1>1, Fixed, Listed DEF _deploy_wi046_auth_candidate
<1>4. PlainTarget(_promote_wi046_auth)
  BY <1>1, Fixed, Listed DEF _promote_wi046_auth
<1>5. PlainTarget(_promote_wi046_remote)
  BY <1>1, Fixed, Listed DEF _promote_wi046_remote
<1> QED BY <1>2, <1>3, <1>4, <1>5

LEMMA Wi060 == PlainTarget(_deploy_wi060)
<1> DEFINE jobsBack == _rollback_job_definitions(CoreJobs)
           rest == <<Execute, Look, Task(Cmd("to release", "remote"), << >>), Smoke(<<Cmd("route back", "remote")>>)>>
           first == <<Look, Task(Cmd("candidate", "remote"), << >>), SmokeCandidate>>
<1>1. << >> \in Seq(Undos) /\ <<Cmd("route back", "remote")>> \in Seq(Undos) /\ "remote" \in Service
  BY Empty, One, RouteCommands DEF Service
<1>2. jobsBack \in Seq(Undos)
  BY JobLists, RollbackIs
<1>3. PlainTarget(first) /\ PlainTarget(rest)
  BY <1>1, Fixed, Listed
<1>4. _deploy_wi060 = first \o Guarded(UpdateCoreJobs \o rest, jobsBack)
  BY DEF _deploy_wi060
<1> HIDE DEF first, rest, jobsBack
<1>5. PlainTarget(UpdateCoreJobs \o rest)
  BY <1>3, CoreJobsAre, PlainConcat
<1>6. PlainTarget(Guarded(UpdateCoreJobs \o rest, jobsBack))
  BY <1>2, <1>5, GuardedIs
<1> QED BY <1>3, <1>4, <1>6, PlainConcat

\* The targets that update Jobs one by one with their own undo list.
LEMMA SomeJobs ==
  /\ PlainTarget(_deploy_wi063_s02) /\ Migrating(_deploy_wi071) /\ Migrating(_deploy_wi064)
<1>1. ASSUME NEW list \in Seq(Job)
      PROVE  /\ _rollback_job_definitions(list) \o RoutesBack \in Seq(Undos)
             /\ PlainTarget(UpdateSomeJobs(list, RoutesBack)) /\ PlainTarget(UpdateSomeJobs(list, << >>))
             /\ PlainTarget(Guarded(_deploy_wi065, _rollback_job_definitions(list) \o RoutesBack))
  <2>1. _rollback_job_definitions(list) \o RoutesBack \in Seq(Undos)
    BY RollbackIs, RoutesBackIs, ConcatProperties
  <2> QED BY <2>1, SomeJobsAre, RoutesBackIs, Empty, Wi065, GuardedIs
<1>2. PlainTarget(<<Look>>) /\ Migrating(<<Look, Migrate>>)
  BY SingleSteps, Empty, HeadMigrates DEF Heads
<1>3. PlainTarget(_deploy_wi063_s02)
  BY <1>1, <1>2, JobLists, PlainConcat DEF _deploy_wi063_s02
<1>4. Migrating(_deploy_wi071)
  BY <1>1, <1>2, JobLists, MigratingConcat DEF _deploy_wi071
<1>5. Migrating(_deploy_wi064)
  BY <1>1, <1>2, JobLists, MigratingConcat DEF _deploy_wi064
<1> QED BY <1>3, <1>4, <1>5

LEMMA Wi066 == Migrating(_deploy_wi066)
<1> DEFINE a == Task(Cmd("candidate", "remote"), << >>)
           b == Task(Cmd("both to latest", "remote"), RoutesBack)
           c == Smoke(RoutesBack)
<1>1. RoutesBack \in Seq(Undos) /\ << >> \in Seq(Undos) /\ "remote" \in Service
  BY RoutesBackIs, Empty DEF Service
<1>2. a \in PlainTasks /\ a.do.op \notin ToLatest /\ c \in PlainTasks /\ c.do.op \notin ToLatest
  BY <1>1, Fixed
<1>3. b \in PlainTasks
  BY <1>1, PlainCommand, PlainTask DEF Names, Quiet, ToLatest
<1>4. a.do.op = "candidate" /\ a.do.on = "remote" /\ b.do.on = "remote"
  BY DEF Task, Cmd
<1>5. _deploy_wi066 = <<Look, Migrate>> \o <<a, b, c>>
  BY DEF _deploy_wi066
<1> HIDE DEF a, b, c
<1>6. <<a, b, c>> \in Seq(PlainTasks) /\ Len(<<a, b, c>>) = 3
  BY <1>2, <1>3
<1>7. Paired(<<a, b, c>>)
  <2> SUFFICES ASSUME NEW i \in 1 .. Len(<<a, b, c>>), <<a, b, c>>[i].do.op \in ToLatest
               PROVE  /\ i > 1 /\ <<a, b, c>>[i - 1].do.op \in {"new revision", "candidate"}
                      /\ <<a, b, c>>[i - 1].do.on = <<a, b, c>>[i].do.on
    BY DEF Paired
  <2>1. i = 2
    BY <1>2
  <2>2. i > 1 /\ i - 1 = 1
    BY <2>1
  <2>3. <<a, b, c>>[1] = a /\ <<a, b, c>>[2] = b
    OBVIOUS
  <2>4. <<a, b, c>>[i - 1] = a /\ <<a, b, c>>[i] = b
    BY <2>1, <2>2, <2>3
  <2> QED BY <1>4, <2>2, <2>4
<1>8. PlainTarget(<<a, b, c>>)
  BY <1>6, <1>7 DEF PlainTarget
<1> QED BY <1>5, <1>8, HeadMigrates, MigratingConcat DEF Heads

LEMMA OtherTargets ==
  /\ Migrating(_deploy_wi048_s02) /\ Migrating(_deploy_wi030_s02) /\ Migrating(_deploy_wi030_s03)
  /\ Migrating(_deploy_wi070) /\ Migrating(_deploy_wi029_s04) /\ Migrating(_deploy_wi078)
  /\ PlainTarget(_deploy_wi055) /\ PlainTarget(_deploy_wi074)
  /\ \A s \in Service : PlainTarget(_deploy_service(s))
  /\ \A j \in Job : PlainTarget(_deploy_job(j))
<1>1. Migrating(<<Migrate>>) /\ Migrating(<<Look, Migrate>>) /\ Migrating(<<Execute, Migrate>>)
  BY HeadMigrates DEF Heads
<1>2. PlainTarget(<<Execute>>) /\ PlainTarget(<<Smoke(<< >>)>>) /\ PlainTarget(UpdateCoreJobs)
  BY SingleSteps, Empty, CoreJobsAre
<1>3. ASSUME NEW op \in {"update job", "new revision"}, NEW on \in Job \cup Service
      PROVE  PlainTarget(Steps(<<Cmd(op, on)>>))
  <2>1. Cmd(op, on) \in PlainCommands /\ Cmd(op, on).op \notin ToLatest
    BY PlainCommand, CmdIs DEF Names, Quiet, Brings, ToLatest
  <2> DEFINE c == <<Cmd(op, on)>>
  <2>2. c \in Seq(PlainCommands) /\ Len(c) = 1 /\ c[1] = Cmd(op, on)
    BY <2>1, One
  <2> HIDE DEF c
  <2>3. \A i \in 1 .. Len(c) : c[i] = Cmd(op, on)
    <3>1. Len(c) = 1 /\ c[1] = Cmd(op, on)
      BY <2>2
    <3> QED BY <3>1, OneIndex
  <2>4. \A i \in 1 .. Len(c) : c[i].op \notin ToLatest
    BY <2>1, <2>3
  <2> QED BY <2>2, <2>4, StepsAre DEF c
<1>4. Migrating(_deploy_wi048_s02)
  BY <1>1, <1>2, <1>3, MigratingConcat DEF _deploy_wi048_s02, Service
<1>5. Migrating(_deploy_wi030_s02) /\ Migrating(_deploy_wi030_s03) /\ Migrating(_deploy_wi070)
  BY <1>1, <1>2, MigratingConcat DEF _deploy_wi030_s02, _deploy_wi030_s03, _deploy_wi070
<1>6. Migrating(_deploy_wi029_s04)
  BY <1>1, <1>2, MoreSteps, MigratingConcat DEF _deploy_wi029_s04
<1>7. Migrating(_deploy_wi078)
  BY <1>1, Wi055, Wi065, MoreSteps, MigratingConcat DEF _deploy_wi078
<1>8. PlainTarget(_deploy_wi074)
  <2>1. TradeJobs[1] \in Job
    BY JobLists, ElementOfSeq
  <2> QED BY <1>2, <1>3, <2>1, PlainConcat DEF _deploy_wi074
<1>9. \A s \in Service : PlainTarget(_deploy_service(s))
  BY NewThenLatest DEF _deploy_service, ToLatest
<1> QED BY <1>2, <1>3, <1>4, <1>5, <1>6, <1>7, <1>8, <1>9 DEF _deploy_wi055, _deploy_job

\* Every target but the cut-over of the trade schedules.
LEMMA Targets ==
  ASSUME NEW f \in DOMAIN Flows \ {"wi063"}
  PROVE  Target(Flows[f])
<1>1. CASE f \in {"wi051", "wi046_stage", "wi046_candidate", "wi046_auth", "wi046_remote"}
  BY <1>1, Wi051, Wi046, PlainIsTarget DEF Flows, Migrating
<1>2. CASE f \in {"wi055_s01", "wi055_s03", "wi055_s04", "wi075", "wi076"}
  BY <1>2, Wi055, PlainIsTarget DEF Flows, _deploy_wi055_s03, _deploy_wi055_s04, _deploy_wi075, _deploy_wi076
<1>3. CASE f \in {"wi048", "wi070", "wi029", "wi078", "wi030_s02", "wi030_s03"}
  BY <1>3, OtherTargets DEF Flows, Migrating
<1>4. CASE f \in {"wi065", "wi060", "wi063_s02", "wi071", "wi064"}
  BY <1>4, Wi065, Wi060, SomeJobs, PlainIsTarget DEF Flows, Migrating
<1>5. CASE f \in {"wi066", "wi068"}
  BY <1>5, Wi066 DEF Flows, Migrating, _deploy_wi068
<1>6. CASE f \in {"wi074", "wi055", "auth", "remote"}
  BY <1>6, OtherTargets, PlainIsTarget DEF Flows, Service
<1>7. CASE f \in {"core_batch", "core_schedulers", "scheduler", "overseas_scheduler"}
  <2>1. 1 \in DOMAIN TradeJobs /\ 2 \in DOMAIN TradeJobs
    BY JobLists
  <2>2. /\ PlainTarget(UpdateCoreJobs) /\ PlainTarget(_deploy_v2_core_schedulers)
        /\ PlainTarget(_deploy_scheduler_target(1)) /\ PlainTarget(_deploy_scheduler_target(2))
    BY <2>1, MoreSteps, CoreJobsAre
  <2> QED BY <1>7, <2>2, PlainIsTarget DEF Flows
<1>8. CASE f = "batch"
  <2>1. OldJobs[1] \in Job
    BY JobLists, ElementOfSeq
  <2> QED BY <1>8, <2>1, OtherTargets, PlainIsTarget DEF Flows
<1>9. DOMAIN Flows \ {"wi063"} =
        {"wi051", "wi046_stage", "wi046_candidate", "wi046_auth", "wi046_remote", "wi055_s01", "wi055_s03",
         "wi055_s04", "wi075", "wi076", "wi048", "wi070", "wi029", "wi078", "wi030_s02", "wi030_s03", "wi065",
         "wi060", "wi063_s02", "wi071", "wi064", "wi066", "wi068", "wi074", "wi055", "auth", "remote",
         "core_batch", "core_schedulers", "scheduler", "overseas_scheduler", "batch"}
  BY DEF Flows
<1> QED BY <1>1, <1>2, <1>3, <1>4, <1>5, <1>6, <1>7, <1>8, <1>9

-----------------------------------------------------------------------------
(* The cut-over of the trade schedules.                                    *)
Opening ==
    Steps(On("update job", TradeJobs) \o <<Cmd("new revision", "remote"), Cmd("to latest", "remote")>>)
    \o <<Smoke(<< >>)>>
CutBack ==
    On("pause", [i \in DOMAIN TradeJobs |-> <<"trade", i>>])
    \o Reverse(On("resume", [i \in DOMAIN TradeJobs |-> <<"legacy", i>>]))

Commands == PlainCommands \cup Undos \cup [op : {"migrate"}, on : Names]
            \cup [op : {"pause legacy", "schedule", "pause", "resume"}, on : Scheduler]
Backs == Undos \cup [op : {"pause", "resume"}, on : Scheduler]
AllTasks == [do : Commands, undo : Seq(Backs)]

LEMMA TasksAreTasks == Tasks \subseteq AllTasks
<1> SUFFICES ASSUME NEW t \in Tasks PROVE t \in AllTasks
  OBVIOUS
<1>1. t.do \in Commands /\ t.undo \in Seq(Undos) /\ t = [do |-> t.do, undo |-> t.undo]
  BY DEF Tasks, Commands
<1>2. t.undo \in Seq(Backs)
  BY <1>1, SeqMonotonic DEF Backs
<1> QED BY <1>1, <1>2 DEF AllTasks

LEMMA OpeningIs ==
  /\ PlainTarget(Opening)
  /\ \A i \in 1 .. Len(Opening) : Opening[i].do.op # "schedule" /\ Opening[i].undo = << >>
<1> DEFINE u == On("update job", TradeJobs)
           v == <<Cmd("new revision", "remote"), Cmd("to latest", "remote")>>
           k == <<Smoke(<< >>)>>
<1>1. /\ u \in Seq(PlainCommands) /\ Len(u) = Len(TradeJobs)
      /\ \A i \in 1 .. Len(TradeJobs) : u[i] = Cmd("update job", TradeJobs[i])
  <2>1. \A x \in Job : Cmd("update job", x) \in PlainCommands
    BY PlainCommand DEF Names, Quiet, Brings
  <2> QED BY <2>1, JobLists, OnIs
<1>2. /\ Cmd("new revision", "remote") \in PlainCommands /\ Cmd("to latest", "remote") \in PlainCommands
  BY PlainCommand DEF Names, Service, Quiet, Brings, ToLatest
<1>3. /\ v \in Seq(PlainCommands) /\ Len(v) = 2
      /\ v[1] = Cmd("new revision", "remote") /\ v[2] = Cmd("to latest", "remote")
  BY <1>2, Two
<1>4. /\ PlainTarget(k) /\ Len(k) = 1 /\ k[1] = Task(Cmd("smoke", "stable"), << >>)
  BY SingleSteps, Empty, One DEF Smoke
<1>5. Opening = Steps(u \o v) \o k
  BY DEF Opening
<1> HIDE DEF u, v, k
<1>6. /\ u \o v \in Seq(PlainCommands) /\ Len(u \o v) = Len(u) + 2 /\ Len(u) \in Nat
      /\ \A i \in 1 .. Len(u) : (u \o v)[i] = u[i]
      /\ (u \o v)[Len(u) + 1] = v[1] /\ (u \o v)[Len(u) + 2] = v[2]
  <2>1. u \o v \in Seq(PlainCommands) /\ Len(u \o v) = Len(u) + 2 /\ Len(u) \in Nat
    <3>1. u \o v \in Seq(PlainCommands) /\ Len(u \o v) = Len(u) + Len(v) /\ Len(u) \in Nat
      BY <1>1, <1>3, ConcatProperties, LenProperties
    <3> QED BY <1>3, <3>1
  <2>2. \A i \in 1 .. Len(u) + 2 : (u \o v)[i] = IF i <= Len(u) THEN u[i] ELSE v[i - Len(u)]
    <3>1. \A i \in 1 .. Len(u) + Len(v) : (u \o v)[i] = IF i <= Len(u) THEN u[i] ELSE v[i - Len(u)]
      BY <1>1, <1>3, ConcatProperties
    <3> QED BY <1>3, <3>1
  <2>3. /\ \A i \in 1 .. Len(u) : i \in 1 .. Len(u) + 2 /\ i <= Len(u)
        /\ Len(u) + 1 \in 1 .. Len(u) + 2 /\ ~(Len(u) + 1 <= Len(u)) /\ (Len(u) + 1) - Len(u) = 1
        /\ Len(u) + 2 \in 1 .. Len(u) + 2 /\ ~(Len(u) + 2 <= Len(u)) /\ (Len(u) + 2) - Len(u) = 2
    BY <2>1
  <2> QED BY <2>1, <2>2, <2>3
<1> DEFINE t == Steps(u \o v)
<1>7. /\ t \in Seq(PlainTasks) /\ Len(t) = Len(u) + 2
      /\ \A i \in 1 .. Len(t) : t[i].do = (u \o v)[i] /\ t[i].undo = << >>
  <2>1. t \in Seq(PlainTasks) /\ Len(t) = Len(u \o v) /\ \A i \in 1 .. Len(u \o v) : t[i] = Task((u \o v)[i], << >>)
    BY <1>6, StepsAre
  <2>2. \A i \in 1 .. Len(u \o v) : t[i].do = (u \o v)[i] /\ t[i].undo = << >>
    BY <2>1, TaskIs
  <2> QED BY <1>6, <2>1, <2>2
<1> HIDE DEF t
<1>8. ASSUME NEW i \in 1 .. Len(t)
      PROVE  \/ t[i].do.op = "update job"
             \/ t[i].do.op = "new revision"
             \/ i = Len(u) + 2 /\ t[i].do.op = "to latest" /\ t[i].do.on = "remote"
  <2>1. CASE i \in 1 .. Len(u)
    <3>1. t[i].do = Cmd("update job", TradeJobs[i])
      BY <1>1, <1>6, <1>7, <2>1
    <3> QED BY <3>1, CmdIs, Zenon
  <2>2. CASE i = Len(u) + 1
    <3>1. t[i].do = Cmd("new revision", "remote")
      BY <1>3, <1>6, <1>7, <2>2
    <3> QED BY <3>1, CmdIs, Zenon
  <2>3. CASE i = Len(u) + 2
    <3>1. t[i].do = Cmd("to latest", "remote")
      BY <1>3, <1>6, <1>7, <2>3
    <3>2. Cmd("to latest", "remote").op = "to latest" /\ Cmd("to latest", "remote").on = "remote"
      BY DEF Cmd
    <3> QED BY <2>3, <3>1, <3>2
  <2>4. i \in 1 .. Len(u) \/ i = Len(u) + 1 \/ i = Len(u) + 2
    BY <1>6, <1>7
  <2> QED BY <2>1, <2>2, <2>3, <2>4
<1>9. Paired(t)
  <2> SUFFICES ASSUME NEW i \in 1 .. Len(t), t[i].do.op \in ToLatest
               PROVE  /\ i > 1 /\ t[i - 1].do.op \in {"new revision", "candidate"}
                      /\ t[i - 1].do.on = t[i].do.on
    BY DEF Paired
  <2>1. i = Len(u) + 2 /\ t[i].do.on = "remote"
    BY <1>8 DEF ToLatest
  <2>2. i > 1 /\ i - 1 = Len(u) + 1 /\ i - 1 \in 1 .. Len(t)
    BY <1>6, <1>7, <2>1
  <2>3. t[i - 1].do = Cmd("new revision", "remote")
    BY <1>3, <1>6, <1>7, <2>2
  <2>4. t[i - 1].do.op = "new revision" /\ t[i - 1].do.on = "remote"
    <3>1. Cmd("new revision", "remote").op = "new revision" /\ Cmd("new revision", "remote").on = "remote"
      BY DEF Cmd
    <3> QED BY <2>3, <3>1
  <2> QED BY <2>1, <2>2, <2>4
<1>10. PlainTarget(t)
  BY <1>7, <1>9 DEF PlainTarget
<1>11. PlainTarget(Opening)
  BY <1>4, <1>5, <1>10, PlainConcat DEF t
<1>12. ASSUME NEW i \in 1 .. Len(Opening)
       PROVE  Opening[i].do.op # "schedule" /\ Opening[i].undo = << >>
  <2>1. t \in Seq(PlainTasks) /\ k \in Seq(PlainTasks) /\ Opening = t \o k
    BY <1>4, <1>5, <1>7 DEF PlainTarget, t
  <2>2. CASE i \in 1 .. Len(t) /\ Opening[i] = t[i]
    BY <1>7, <1>8, <2>2
  <2>3. CASE i - Len(t) \in 1 .. Len(k) /\ Opening[i] = k[i - Len(t)]
    <3>1. i - Len(t) = 1
      BY <1>4, <2>3
    <3>2. Opening[i] = Task(Cmd("smoke", "stable"), << >>)
      BY <1>4, <2>3, <3>1
    <3> QED BY <3>2 DEF Task, Cmd
  <2> QED BY <2>1, <2>2, <2>3, Parts
<1> QED BY <1>11, <1>12

LEMMA CutBackIs ==
  LET n == Len(TradeJobs) IN
  /\ CutBack \in Seq(Backs) /\ Len(CutBack) = n + n
  /\ \A i \in 1 .. n : CutBack[i] = Cmd("pause", <<"trade", i>>)
  /\ \A k \in 1 .. n : \E i \in 1 .. n : CutBack[n + k] = Cmd("resume", <<"legacy", i>>)
  /\ \A i \in 1 .. n : Cmd("resume", <<"legacy", i>>) \in Range(CutBack)
<1> DEFINE n == Len(TradeJobs)
           trade == [i \in DOMAIN TradeJobs |-> <<"trade", i>>]
           legacy == [i \in DOMAIN TradeJobs |-> <<"legacy", i>>]
           p == On("pause", trade)
           r == On("resume", legacy)
<1>1. n \in Nat /\ DOMAIN TradeJobs = 1 .. n
  BY JobLists
<1>2. \A i \in 1 .. n : <<"trade", i>> \in Scheduler /\ <<"legacy", i>> \in Scheduler
  BY <1>1 DEF Scheduler
<1>3. trade \in [1 .. n -> Scheduler] /\ legacy \in [1 .. n -> Scheduler]
  BY <1>1, <1>2
<1>4. trade \in Seq(Scheduler) /\ legacy \in Seq(Scheduler) /\ Len(trade) = n /\ Len(legacy) = n
  BY <1>1, <1>3, Sequence
<1>5. \A x \in Scheduler : Cmd("pause", x) \in Backs /\ Cmd("resume", x) \in Backs
  BY DEF Cmd, Backs
<1>6. \A i \in 1 .. n : trade[i] = <<"trade", i>> /\ legacy[i] = <<"legacy", i>>
  BY <1>1
<1> HIDE DEF trade, legacy, n
<1>7. p \in Seq(Backs) /\ Len(p) = n /\ \A i \in 1 .. n : p[i] = Cmd("pause", trade[i])
  BY <1>4, <1>5, OnIs
<1>8. r \in Seq(Backs) /\ Len(r) = n /\ \A i \in 1 .. n : r[i] = Cmd("resume", legacy[i])
  BY <1>4, <1>5, OnIs
<1> HIDE DEF p, r
<1>9. Reverse(r) \in Seq(Backs) /\ Len(Reverse(r)) = n /\ Range(Reverse(r)) = Range(r)
  BY <1>8, ReverseIs
<1>10. CutBack = p \o Reverse(r)
  BY DEF CutBack, p, r, trade, legacy
<1>11. /\ CutBack \in Seq(Backs) /\ Len(CutBack) = n + n
       /\ \A i \in 1 .. n + n : CutBack[i] = IF i <= n THEN p[i] ELSE Reverse(r)[i - n]
  <2>1. /\ CutBack \in Seq(Backs) /\ Len(CutBack) = Len(p) + Len(Reverse(r))
        /\ \A i \in 1 .. Len(p) + Len(Reverse(r)) :
             CutBack[i] = IF i <= Len(p) THEN p[i] ELSE Reverse(r)[i - Len(p)]
    BY <1>7, <1>9, <1>10, ConcatProperties
  <2>2. Len(p) = n /\ Len(Reverse(r)) = n
    BY <1>7, <1>9
  <2> QED BY <2>1, <2>2
<1>12. \A i \in 1 .. n : CutBack[i] = Cmd("pause", <<"trade", i>>)
  <2>1. \A i \in 1 .. n : i \in 1 .. n + n /\ i <= n
    BY <1>1
  <2> QED BY <1>6, <1>7, <1>11, <2>1
<1>13. \A k \in 1 .. n : \E i \in 1 .. n : Reverse(r)[k] = r[i]
  <2>1. DOMAIN Reverse(r) = 1 .. n /\ DOMAIN r = 1 .. n
    BY <1>8, <1>9, LenProperties
  <2>2. \A k \in 1 .. n : Reverse(r)[k] \in Range(r)
    BY <1>9, <2>1 DEF Range
  <2> QED BY <2>1, <2>2 DEF Range
<1>14. \A k \in 1 .. n : \E i \in 1 .. n : CutBack[n + k] = Cmd("resume", <<"legacy", i>>)
  <2> TAKE k \in 1 .. n
  <2>1. n + k \in 1 .. n + n /\ ~(n + k <= n) /\ (n + k) - n = k
    BY <1>1
  <2>2. CutBack[n + k] = Reverse(r)[k]
    BY <1>11, <2>1
  <2>3. PICK i \in 1 .. n : Reverse(r)[k] = r[i]
    BY <1>13
  <2>4. r[i] = Cmd("resume", <<"legacy", i>>)
    BY <1>6, <1>8
  <2> QED BY <2>2, <2>3, <2>4
<1>15. ASSUME NEW i \in 1 .. n
       PROVE  Cmd("resume", <<"legacy", i>>) \in Range(CutBack)
  <2>1. DOMAIN r = 1 .. n
    BY <1>8, LenProperties
  <2>2. Cmd("resume", <<"legacy", i>>) \in Range(r)
    BY <1>6, <1>8, <2>1 DEF Range
  <2> QED BY <1>7, <1>9, <1>10, <2>2, RangeConcatenation
<1> QED BY <1>11, <1>12, <1>14, <1>15 DEF n

\* Every old schedule is paused before a new one is created, and from then on
\* the undo list is whole.
LEMMA Wi063 ==
  LET n == Len(TradeJobs)
      m == Len(Opening)
      w == _deploy_wi063
  IN  /\ w \in Seq(AllTasks) /\ Paired(w) /\ Len(w) = m + (n + n) /\ m \in Nat
      /\ \A i \in 1 .. m : w[i] = Opening[i]
      /\ \A i \in 1 .. n : /\ w[m + i] = Task(Cmd("pause legacy", <<"legacy", i>>), CutBack)
                            /\ w[(m + n) + i] = Task(Cmd("schedule", <<"trade", i>>), CutBack)
<1> DEFINE n == Len(TradeJobs)
           m == Len(Opening)
           trade == [i \in DOMAIN TradeJobs |-> <<"trade", i>>]
           legacy == [i \in DOMAIN TradeJobs |-> <<"legacy", i>>]
           p == On("pause legacy", legacy)
           c == On("schedule", trade)
           b == p \o c
           g == Guarded(Steps(b), CutBack)
<1>1. n \in Nat /\ DOMAIN TradeJobs = 1 .. n
  BY JobLists
<1>2. \A i \in 1 .. n : <<"trade", i>> \in Scheduler /\ <<"legacy", i>> \in Scheduler
  BY <1>1 DEF Scheduler
<1>3. trade \in [1 .. n -> Scheduler] /\ legacy \in [1 .. n -> Scheduler]
  BY <1>1, <1>2
<1>4. trade \in Seq(Scheduler) /\ legacy \in Seq(Scheduler) /\ Len(trade) = n /\ Len(legacy) = n
  BY <1>1, <1>3, Sequence
<1>5. \A x \in Scheduler : Cmd("pause legacy", x) \in Commands /\ Cmd("schedule", x) \in Commands
  BY DEF Cmd, Commands
<1>6. \A i \in 1 .. n : trade[i] = <<"trade", i>> /\ legacy[i] = <<"legacy", i>>
  BY <1>1
<1>7. _deploy_wi063 = Opening \o g
  BY DEF _deploy_wi063, Opening, CutBack
<1> HIDE DEF trade, legacy, n
<1>8. p \in Seq(Commands) /\ Len(p) = n /\ \A i \in 1 .. n : p[i] = Cmd("pause legacy", legacy[i])
  BY <1>4, <1>5, OnIs
<1>9. c \in Seq(Commands) /\ Len(c) = n /\ \A i \in 1 .. n : c[i] = Cmd("schedule", trade[i])
  BY <1>4, <1>5, OnIs
<1> HIDE DEF p, c
<1>10. /\ b \in Seq(Commands) /\ Len(b) = n + n
       /\ \A i \in 1 .. n + n : b[i] = IF i <= n THEN p[i] ELSE c[i - n]
  <2>1. /\ b \in Seq(Commands) /\ Len(b) = Len(p) + Len(c)
        /\ \A i \in 1 .. Len(p) + Len(c) : b[i] = IF i <= Len(p) THEN p[i] ELSE c[i - Len(p)]
    BY <1>8, <1>9, ConcatProperties
  <2>2. Len(p) = n /\ Len(c) = n
    BY <1>8, <1>9
  <2> QED BY <2>1, <2>2
<1>11. /\ \A i \in 1 .. n + n : b[i] \in Commands
       /\ DOMAIN b = 1 .. n + n /\ n + n \in Nat
  BY <1>1, <1>10, LenProperties, ElementOfSeq
<1> HIDE DEF b
<1>12. \A i \in 1 .. n + n : g[i] = Task(b[i], CutBack)
  <2>1. Steps(b) = [i \in 1 .. n + n |-> Task(b[i], << >>)]
    BY <1>11 DEF Steps
  <2>2. g = [i \in 1 .. n + n |-> [Steps(b)[i] EXCEPT !.undo = Steps(b)[i].undo \o CutBack]]
    BY <2>1 DEF Guarded
  <2>3. << >> \o CutBack = CutBack
    BY CutBackIs, ConcatEmptySeq
  <2> QED BY <2>1, <2>2, <2>3 DEF Task
<1>13. DOMAIN g = 1 .. n + n
  BY <1>11 DEF Guarded, Steps
<1>14. g = [i \in 1 .. n + n |-> Task(b[i], CutBack)]
  <2>1. g = [i \in DOMAIN Steps(b) |-> g[i]]
    BY DEF Guarded
  <2>2. DOMAIN Steps(b) = 1 .. n + n
    BY <1>11 DEF Steps
  <2> QED BY <1>12, <2>1, <2>2
<1> HIDE DEF g
<1>15. g \in [1 .. n + n -> AllTasks]
  <2>1. \A i \in 1 .. n + n : Task(b[i], CutBack) \in AllTasks
    BY <1>11, CutBackIs DEF Task, AllTasks
  <2> QED BY <1>14, <2>1
<1>16. g \in Seq(AllTasks) /\ Len(g) = n + n
  BY <1>11, <1>15, Sequence
<1>17. \A i \in 1 .. n + n : g[i].do.op \in {"pause legacy", "schedule"}
  <2> TAKE i \in 1 .. n + n
  <2>1. g[i].do = b[i]
    BY <1>12, TaskIs
  <2>2. CASE i <= n
    <3>1. i \in 1 .. n
      BY <1>1, <2>2
    <3>2. b[i] = Cmd("pause legacy", legacy[i])
      BY <1>8, <1>10, <2>2, <3>1
    <3>3. Cmd("pause legacy", legacy[i]).op = "pause legacy"
      BY DEF Cmd
    <3> QED BY <2>1, <3>2, <3>3
  <2>3. CASE ~(i <= n)
    <3>1. i - n \in 1 .. n
      BY <1>1, <2>3
    <3>2. b[i] = Cmd("schedule", trade[i - n])
      BY <1>9, <1>10, <2>3, <3>1
    <3>3. Cmd("schedule", trade[i - n]).op = "schedule"
      BY DEF Cmd
    <3> QED BY <2>1, <3>2, <3>3
  <2> QED BY <2>2, <2>3
<1>18. Paired(g)
  BY <1>16, <1>17 DEF Paired, ToLatest
<1>19. Opening \in Seq(AllTasks) /\ Paired(Opening)
  BY OpeningIs, PlainIsTarget, TasksAreTasks, SeqMonotonic DEF Target
<1>20. /\ Opening \o g \in Seq(AllTasks) /\ Paired(Opening \o g) /\ Len(Opening \o g) = m + (n + n)
       /\ \A i \in 1 .. m + (n + n) : (Opening \o g)[i] = IF i <= m THEN Opening[i] ELSE g[i - m]
       /\ m \in Nat
  BY <1>16, <1>18, <1>19, PairedConcat, ConcatProperties, LenProperties
<1> HIDE DEF m
<1>21. \A i \in 1 .. m : (Opening \o g)[i] = Opening[i]
  <2>1. \A i \in 1 .. m : i \in 1 .. m + (n + n) /\ i <= m
    BY <1>1, <1>20
  <2> QED BY <1>20, <2>1
<1>22. ASSUME NEW i \in 1 .. n
       PROVE  /\ (Opening \o g)[m + i] = Task(Cmd("pause legacy", <<"legacy", i>>), CutBack)
              /\ (Opening \o g)[(m + n) + i] = Task(Cmd("schedule", <<"trade", i>>), CutBack)
  <2>1. /\ m + i \in 1 .. m + (n + n) /\ ~(m + i <= m) /\ (m + i) - m = i
        /\ i \in 1 .. n + n /\ i <= n
        /\ (m + n) + i \in 1 .. m + (n + n) /\ ~((m + n) + i <= m) /\ ((m + n) + i) - m = n + i
        /\ n + i \in 1 .. n + n /\ ~(n + i <= n) /\ (n + i) - n = i
    BY <1>1, <1>20
  <2>2. (Opening \o g)[m + i] = g[i] /\ (Opening \o g)[(m + n) + i] = g[n + i]
    BY <1>20, <2>1
  <2>3. b[i] = Cmd("pause legacy", <<"legacy", i>>) /\ b[n + i] = Cmd("schedule", <<"trade", i>>)
    BY <1>6, <1>8, <1>9, <1>10, <2>1
  <2>4. g[i] = Task(b[i], CutBack) /\ g[n + i] = Task(b[n + i], CutBack)
    BY <1>12, <2>1
  <2> QED BY <2>2, <2>3, <2>4
<1> QED BY <1>7, <1>20, <1>21, <1>22 DEF n, m

LEMMA Wi063Indices ==
  ASSUME NEW i \in 1 .. Len(_deploy_wi063)
  PROVE  LET n == Len(TradeJobs)
             m == Len(Opening)
         IN  \/ i \in 1 .. m
             \/ \E k \in 1 .. n : i = m + k
             \/ \E k \in 1 .. n : i = (m + n) + k
<1> DEFINE n == Len(TradeJobs)
           m == Len(Opening)
<1>1. n \in Nat /\ m \in Nat /\ i \in 1 .. m + (n + n)
  BY JobLists, Wi063
<1> HIDE DEF n, m
<1>2. CASE i > m /\ i <= m + n
  <2>1. i - m \in 1 .. n /\ i = m + (i - m)
    BY <1>1, <1>2
  <2> QED BY <2>1 DEF n, m
<1>3. CASE i > m + n
  <2>1. i - (m + n) \in 1 .. n /\ i = (m + n) + (i - (m + n))
    BY <1>1, <1>3
  <2> QED BY <2>1 DEF n, m
<1>4. CASE i <= m
  <2>1. i \in 1 .. m
    BY <1>1, <1>4
  <2> QED BY <2>1 DEF m
<1>5. i <= m \/ (i > m /\ i <= m + n) \/ i > m + n
  BY <1>1
<1> QED BY <1>2, <1>3, <1>4, <1>5

LEMMA AllTargets ==
  ASSUME NEW f \in FlowNames
  PROVE  /\ Flows[f] \in Seq(AllTasks) /\ Paired(Flows[f]) /\ MigratesFirst(Flows[f])
         /\ Len(Flows[f]) \in Nat /\ DOMAIN Flows[f] = 1 .. Len(Flows[f])
         /\ \A i \in 1 .. Len(Flows[f]) : Flows[f][i] \in AllTasks
<1>1. f \in DOMAIN Flows
  BY FlowsAreTargets
<1>2. Flows[f] \in Seq(AllTasks) /\ Paired(Flows[f]) /\ MigratesFirst(Flows[f])
  <2>1. CASE f # "wi063"
    BY <1>1, <2>1, Targets, TasksAreTasks, SeqMonotonic DEF Target
  <2>2. CASE f = "wi063"
    <3>1. Flows[f] = _deploy_wi063
      BY <2>2 DEF Flows
    <3>2. ASSUME NEW i \in 1 .. Len(_deploy_wi063)
          PROVE  _deploy_wi063[i].do.op # "migrate"
      <4>1. CASE i \in 1 .. Len(Opening)
        <5>1. Opening[i] \in PlainTasks
          BY <4>1, OpeningIs, ElementOfSeq DEF PlainTarget
        <5>2. Opening[i].do.op # "migrate"
          BY <5>1 DEF PlainTasks, PlainCommands, Quiet, Brings, ToLatest
        <5> QED BY <4>1, <5>2, Wi063
      <4>2. ASSUME NEW k \in 1 .. Len(TradeJobs), i = Len(Opening) + k
            PROVE  _deploy_wi063[i].do.op # "migrate"
        <5>1. _deploy_wi063[i] = Task(Cmd("pause legacy", <<"legacy", k>>), CutBack)
          BY <4>2, Wi063
        <5>2. Task(Cmd("pause legacy", <<"legacy", k>>), CutBack).do.op = "pause legacy"
          BY DEF Task, Cmd
        <5> QED BY <5>1, <5>2
      <4>3. ASSUME NEW k \in 1 .. Len(TradeJobs), i = (Len(Opening) + Len(TradeJobs)) + k
            PROVE  _deploy_wi063[i].do.op # "migrate"
        <5>1. _deploy_wi063[i] = Task(Cmd("schedule", <<"trade", k>>), CutBack)
          BY <4>3, Wi063
        <5>2. Task(Cmd("schedule", <<"trade", k>>), CutBack).do.op = "schedule"
          BY DEF Task, Cmd
        <5> QED BY <5>1, <5>2
      <4> QED BY <4>1, <4>2, <4>3, Wi063Indices
    <3> QED BY <3>1, <3>2, Wi063 DEF MigratesFirst
  <2> QED BY <2>1, <2>2
<1> QED BY <1>2, LenProperties, ElementOfSeq

-----------------------------------------------------------------------------
(* The state of the releases.                                              *)
Schedules == {"absent", "ENABLED", "PAUSED"}
Boards(n) == [job : [Job -> 0 .. n], latest : [Service -> 0 .. n], pinned : [Service -> 0 .. n],
              follows : [Service -> BOOLEAN], tag : [Service -> 0 .. n], sched : [Scheduler -> Schedules]]

ReleaseTypeOK ==
  /\ flowOf \in Seq(FlowNames) /\ live \in Boards(release) /\ before \in Boards(release)
  /\ schema \subseteq 1 .. release /\ smoked \subseteq 1 .. release
  /\ status \in {"idle", "running", "undoing", "succeeded", "failed", "died"}
  /\ status = "running" => at \in 1 .. Len(Flows[flow]) + 1
  /\ status # "idle" => release > 0 /\ before \in Boards(release - 1)
  /\ todo \in Seq(Backs) /\ late \in BOOLEAN
  /\ \A x \in lost : x[1] \in 1 .. release

\* What a command changes, field by field.
Made(job, latest, pinned, follows, tag, sched) ==
  [job |-> job, latest |-> latest, pinned |-> pinned, follows |-> follows, tag |-> tag, sched |-> sched]

LEMMA BoardIs == ASSUME NEW n, NEW l \in Boards(n)
                 PROVE  l = Made(l.job, l.latest, l.pinned, l.follows, l.tag, l.sched)
  BY DEF Boards, Made

LEMMA EffectIs ==
  ASSUME NEW n, NEW l \in Boards(n), NEW c \in Commands
  PROVE  LET x == c.on
             Route(r) == [l.pinned EXCEPT ![x] = r]
             Unfollowed == [l.follows EXCEPT ![x] = FALSE]
         IN
         /\ c.op = "update job" => Effect(c, l) = Made([l.job EXCEPT ![x] = release], l.latest, l.pinned, l.follows, l.tag, l.sched)
         /\ c.op = "restore job" => Effect(c, l) = Made([l.job EXCEPT ![x] = before.job[x]], l.latest, l.pinned, l.follows, l.tag, l.sched)
         /\ c.op = "new revision" => Effect(c, l) = Made(l.job, [l.latest EXCEPT ![x] = release], l.pinned, l.follows, l.tag, l.sched)
         /\ c.op = "candidate" => Effect(c, l) = Made(l.job, [l.latest EXCEPT ![x] = release], Route(Serving(l, x)), Unfollowed, l.tag, l.sched)
         /\ c.op = "tagged candidate" => Effect(c, l) = Made(l.job, [l.latest EXCEPT ![x] = release], Route(Serving(l, x)), Unfollowed, [l.tag EXCEPT ![x] = release], l.sched)
         /\ c.op = "to latest" => Effect(c, l) = Made(l.job, l.latest, l.pinned, [l.follows EXCEPT ![x] = TRUE], l.tag, l.sched)
         /\ c.op = "both to latest" => Effect(c, l) = Made(l.job, l.latest, l.pinned, [l.follows EXCEPT ![x] = TRUE], [l.tag EXCEPT ![x] = l.latest[x]], l.sched)
         /\ c.op = "to release" => Effect(c, l) = Made(l.job, l.latest, Route(release), Unfollowed, l.tag, l.sched)
         /\ c.op = "to tag" => Effect(c, l) = Made(l.job, l.latest, Route(l.tag[x]), Unfollowed, l.tag, l.sched)
         /\ c.op = "route back" => Effect(c, l) = Made(l.job, l.latest, Route(Serving(before, x)), Unfollowed, l.tag, l.sched)
         /\ c.op = "routes back" => Effect(c, l) = Made(l.job, l.latest, Route(Serving(before, x)), Unfollowed, [l.tag EXCEPT ![x] = before.tag[x]], l.sched)
         /\ c.op = "schedule" => Effect(c, l) = Made(l.job, l.latest, l.pinned, l.follows, l.tag, [l.sched EXCEPT ![x] = IF l.sched[x] = "absent" THEN "ENABLED" ELSE l.sched[x]])
         /\ c.op \in {"pause legacy", "pause"} => Effect(c, l) = Made(l.job, l.latest, l.pinned, l.follows, l.tag, [l.sched EXCEPT ![x] = IF l.sched[x] = "absent" THEN l.sched[x] ELSE "PAUSED"])
         /\ c.op = "resume" => Effect(c, l) = Made(l.job, l.latest, l.pinned, l.follows, l.tag, [l.sched EXCEPT ![x] = IF x \in paused THEN "ENABLED" ELSE l.sched[x]])
         /\ c.op \in {"look", "execute", "smoke", "smoke candidate", "migrate"} => Effect(c, l) = l
<1>1. l = Made(l.job, l.latest, l.pinned, l.follows, l.tag, l.sched)
  BY BoardIs
<1> QED BY <1>1 DEF Effect, Pin, Made

LEMMA Operations ==
  ASSUME NEW c \in Commands
  PROVE  c.op \in {"update job", "restore job", "new revision", "candidate", "tagged candidate", "to latest",
                    "both to latest", "to release", "to tag", "route back", "routes back", "schedule",
                    "pause legacy", "pause", "resume", "look", "execute", "smoke", "smoke candidate", "migrate"}
  BY DEF Commands, PlainCommands, Undos, Quiet, Brings, ToLatest

\* The same, field by field.
LEMMA EffectFields ==
  ASSUME NEW n, NEW l \in Boards(n), NEW c \in Commands
  PROVE  LET x == c.on
             m == Effect(c, l)
         IN
         /\ m.job = IF c.op = "update job" THEN [l.job EXCEPT ![x] = release]
                    ELSE IF c.op = "restore job" THEN [l.job EXCEPT ![x] = before.job[x]] ELSE l.job
         /\ m.latest = IF c.op \in {"new revision", "candidate", "tagged candidate"}
                       THEN [l.latest EXCEPT ![x] = release] ELSE l.latest
         /\ m.pinned = IF c.op \in {"candidate", "tagged candidate"} THEN [l.pinned EXCEPT ![x] = Serving(l, x)]
                       ELSE IF c.op = "to release" THEN [l.pinned EXCEPT ![x] = release]
                       ELSE IF c.op = "to tag" THEN [l.pinned EXCEPT ![x] = l.tag[x]]
                       ELSE IF c.op \in {"route back", "routes back"}
                            THEN [l.pinned EXCEPT ![x] = Serving(before, x)] ELSE l.pinned
         /\ m.follows = IF c.op \in ToLatest THEN [l.follows EXCEPT ![x] = TRUE]
                        ELSE IF c.op \in {"candidate", "tagged candidate", "to release", "to tag", "route back", "routes back"}
                             THEN [l.follows EXCEPT ![x] = FALSE] ELSE l.follows
         /\ m.tag = IF c.op = "tagged candidate" THEN [l.tag EXCEPT ![x] = release]
                    ELSE IF c.op = "both to latest" THEN [l.tag EXCEPT ![x] = l.latest[x]]
                    ELSE IF c.op = "routes back" THEN [l.tag EXCEPT ![x] = before.tag[x]] ELSE l.tag
         /\ m.sched = IF c.op = "schedule"
                      THEN [l.sched EXCEPT ![x] = IF l.sched[x] = "absent" THEN "ENABLED" ELSE l.sched[x]]
                      ELSE IF c.op \in {"pause legacy", "pause"}
                           THEN [l.sched EXCEPT ![x] = IF l.sched[x] = "absent" THEN l.sched[x] ELSE "PAUSED"]
                      ELSE IF c.op = "resume"
                           THEN [l.sched EXCEPT ![x] = IF x \in paused THEN "ENABLED" ELSE l.sched[x]] ELSE l.sched
<1> DEFINE x == c.on
           m == Effect(c, l)
<1> HIDE DEF m
<1>1. CASE c.op = "update job"
  <2>1. m = Made([l.job EXCEPT ![x] = release], l.latest, l.pinned, l.follows, l.tag, l.sched)
    BY <1>1, EffectIs DEF m
  <2>2. /\ m.job = [l.job EXCEPT ![x] = release]
        /\ m.latest = l.latest
        /\ m.pinned = l.pinned
        /\ m.follows = l.follows
        /\ m.tag = l.tag
        /\ m.sched = l.sched
    BY <2>1 DEF Made
  <2> QED BY <1>1, <2>2 DEF m, ToLatest
<1>2. CASE c.op = "restore job"
  <2>1. m = Made([l.job EXCEPT ![x] = before.job[x]], l.latest, l.pinned, l.follows, l.tag, l.sched)
    BY <1>2, EffectIs DEF m
  <2>2. /\ m.job = [l.job EXCEPT ![x] = before.job[x]]
        /\ m.latest = l.latest
        /\ m.pinned = l.pinned
        /\ m.follows = l.follows
        /\ m.tag = l.tag
        /\ m.sched = l.sched
    BY <2>1 DEF Made
  <2> QED BY <1>2, <2>2 DEF m, ToLatest
<1>3. CASE c.op = "new revision"
  <2>1. m = Made(l.job, [l.latest EXCEPT ![x] = release], l.pinned, l.follows, l.tag, l.sched)
    BY <1>3, EffectIs DEF m
  <2>2. /\ m.job = l.job
        /\ m.latest = [l.latest EXCEPT ![x] = release]
        /\ m.pinned = l.pinned
        /\ m.follows = l.follows
        /\ m.tag = l.tag
        /\ m.sched = l.sched
    BY <2>1 DEF Made
  <2> QED BY <1>3, <2>2 DEF m, ToLatest
<1>4. CASE c.op = "candidate"
  <2>1. m = Made(l.job, [l.latest EXCEPT ![x] = release], [l.pinned EXCEPT ![x] = Serving(l, x)], [l.follows EXCEPT ![x] = FALSE], l.tag, l.sched)
    BY <1>4, EffectIs DEF m
  <2>2. /\ m.job = l.job
        /\ m.latest = [l.latest EXCEPT ![x] = release]
        /\ m.pinned = [l.pinned EXCEPT ![x] = Serving(l, x)]
        /\ m.follows = [l.follows EXCEPT ![x] = FALSE]
        /\ m.tag = l.tag
        /\ m.sched = l.sched
    BY <2>1 DEF Made
  <2> QED BY <1>4, <2>2 DEF m, ToLatest
<1>5. CASE c.op = "tagged candidate"
  <2>1. m = Made(l.job, [l.latest EXCEPT ![x] = release], [l.pinned EXCEPT ![x] = Serving(l, x)], [l.follows EXCEPT ![x] = FALSE], [l.tag EXCEPT ![x] = release], l.sched)
    BY <1>5, EffectIs DEF m
  <2>2. /\ m.job = l.job
        /\ m.latest = [l.latest EXCEPT ![x] = release]
        /\ m.pinned = [l.pinned EXCEPT ![x] = Serving(l, x)]
        /\ m.follows = [l.follows EXCEPT ![x] = FALSE]
        /\ m.tag = [l.tag EXCEPT ![x] = release]
        /\ m.sched = l.sched
    BY <2>1 DEF Made
  <2> QED BY <1>5, <2>2 DEF m, ToLatest
<1>6. CASE c.op = "to latest"
  <2>1. m = Made(l.job, l.latest, l.pinned, [l.follows EXCEPT ![x] = TRUE], l.tag, l.sched)
    BY <1>6, EffectIs DEF m
  <2>2. /\ m.job = l.job
        /\ m.latest = l.latest
        /\ m.pinned = l.pinned
        /\ m.follows = [l.follows EXCEPT ![x] = TRUE]
        /\ m.tag = l.tag
        /\ m.sched = l.sched
    BY <2>1 DEF Made
  <2> QED BY <1>6, <2>2 DEF m, ToLatest
<1>7. CASE c.op = "both to latest"
  <2>1. m = Made(l.job, l.latest, l.pinned, [l.follows EXCEPT ![x] = TRUE], [l.tag EXCEPT ![x] = l.latest[x]], l.sched)
    BY <1>7, EffectIs DEF m
  <2>2. /\ m.job = l.job
        /\ m.latest = l.latest
        /\ m.pinned = l.pinned
        /\ m.follows = [l.follows EXCEPT ![x] = TRUE]
        /\ m.tag = [l.tag EXCEPT ![x] = l.latest[x]]
        /\ m.sched = l.sched
    BY <2>1 DEF Made
  <2> QED BY <1>7, <2>2 DEF m, ToLatest
<1>8. CASE c.op = "to release"
  <2>1. m = Made(l.job, l.latest, [l.pinned EXCEPT ![x] = release], [l.follows EXCEPT ![x] = FALSE], l.tag, l.sched)
    BY <1>8, EffectIs DEF m
  <2>2. /\ m.job = l.job
        /\ m.latest = l.latest
        /\ m.pinned = [l.pinned EXCEPT ![x] = release]
        /\ m.follows = [l.follows EXCEPT ![x] = FALSE]
        /\ m.tag = l.tag
        /\ m.sched = l.sched
    BY <2>1 DEF Made
  <2> QED BY <1>8, <2>2 DEF m, ToLatest
<1>9. CASE c.op = "to tag"
  <2>1. m = Made(l.job, l.latest, [l.pinned EXCEPT ![x] = l.tag[x]], [l.follows EXCEPT ![x] = FALSE], l.tag, l.sched)
    BY <1>9, EffectIs DEF m
  <2>2. /\ m.job = l.job
        /\ m.latest = l.latest
        /\ m.pinned = [l.pinned EXCEPT ![x] = l.tag[x]]
        /\ m.follows = [l.follows EXCEPT ![x] = FALSE]
        /\ m.tag = l.tag
        /\ m.sched = l.sched
    BY <2>1 DEF Made
  <2> QED BY <1>9, <2>2 DEF m, ToLatest
<1>10. CASE c.op = "route back"
  <2>1. m = Made(l.job, l.latest, [l.pinned EXCEPT ![x] = Serving(before, x)], [l.follows EXCEPT ![x] = FALSE], l.tag, l.sched)
    BY <1>10, EffectIs DEF m
  <2>2. /\ m.job = l.job
        /\ m.latest = l.latest
        /\ m.pinned = [l.pinned EXCEPT ![x] = Serving(before, x)]
        /\ m.follows = [l.follows EXCEPT ![x] = FALSE]
        /\ m.tag = l.tag
        /\ m.sched = l.sched
    BY <2>1 DEF Made
  <2> QED BY <1>10, <2>2 DEF m, ToLatest
<1>11. CASE c.op = "routes back"
  <2>1. m = Made(l.job, l.latest, [l.pinned EXCEPT ![x] = Serving(before, x)], [l.follows EXCEPT ![x] = FALSE], [l.tag EXCEPT ![x] = before.tag[x]], l.sched)
    BY <1>11, EffectIs DEF m
  <2>2. /\ m.job = l.job
        /\ m.latest = l.latest
        /\ m.pinned = [l.pinned EXCEPT ![x] = Serving(before, x)]
        /\ m.follows = [l.follows EXCEPT ![x] = FALSE]
        /\ m.tag = [l.tag EXCEPT ![x] = before.tag[x]]
        /\ m.sched = l.sched
    BY <2>1 DEF Made
  <2> QED BY <1>11, <2>2 DEF m, ToLatest
<1>12. CASE c.op = "schedule"
  <2>1. m = Made(l.job, l.latest, l.pinned, l.follows, l.tag, [l.sched EXCEPT ![x] = IF l.sched[x] = "absent" THEN "ENABLED" ELSE l.sched[x]])
    BY <1>12, EffectIs DEF m
  <2>2. /\ m.job = l.job
        /\ m.latest = l.latest
        /\ m.pinned = l.pinned
        /\ m.follows = l.follows
        /\ m.tag = l.tag
        /\ m.sched = [l.sched EXCEPT ![x] = IF l.sched[x] = "absent" THEN "ENABLED" ELSE l.sched[x]]
    BY <2>1 DEF Made
  <2> QED BY <1>12, <2>2 DEF m, ToLatest
<1>13. CASE c.op = "pause legacy"
  <2>1. m = Made(l.job, l.latest, l.pinned, l.follows, l.tag, [l.sched EXCEPT ![x] = IF l.sched[x] = "absent" THEN l.sched[x] ELSE "PAUSED"])
    BY <1>13, EffectIs DEF m
  <2>2. /\ m.job = l.job
        /\ m.latest = l.latest
        /\ m.pinned = l.pinned
        /\ m.follows = l.follows
        /\ m.tag = l.tag
        /\ m.sched = [l.sched EXCEPT ![x] = IF l.sched[x] = "absent" THEN l.sched[x] ELSE "PAUSED"]
    BY <2>1 DEF Made
  <2> QED BY <1>13, <2>2 DEF m, ToLatest
<1>14. CASE c.op = "pause"
  <2>1. m = Made(l.job, l.latest, l.pinned, l.follows, l.tag, [l.sched EXCEPT ![x] = IF l.sched[x] = "absent" THEN l.sched[x] ELSE "PAUSED"])
    BY <1>14, EffectIs DEF m
  <2>2. /\ m.job = l.job
        /\ m.latest = l.latest
        /\ m.pinned = l.pinned
        /\ m.follows = l.follows
        /\ m.tag = l.tag
        /\ m.sched = [l.sched EXCEPT ![x] = IF l.sched[x] = "absent" THEN l.sched[x] ELSE "PAUSED"]
    BY <2>1 DEF Made
  <2> QED BY <1>14, <2>2 DEF m, ToLatest
<1>15. CASE c.op = "resume"
  <2>1. m = Made(l.job, l.latest, l.pinned, l.follows, l.tag, [l.sched EXCEPT ![x] = IF x \in paused THEN "ENABLED" ELSE l.sched[x]])
    BY <1>15, EffectIs DEF m
  <2>2. /\ m.job = l.job
        /\ m.latest = l.latest
        /\ m.pinned = l.pinned
        /\ m.follows = l.follows
        /\ m.tag = l.tag
        /\ m.sched = [l.sched EXCEPT ![x] = IF x \in paused THEN "ENABLED" ELSE l.sched[x]]
    BY <2>1 DEF Made
  <2> QED BY <1>15, <2>2 DEF m, ToLatest
<1>16. CASE c.op \in {"look", "execute", "smoke", "smoke candidate", "migrate"}
  <2>1. m = l
    BY <1>16, EffectIs DEF m
  <2> QED BY <1>16, <2>1 DEF m, ToLatest
<1> QED BY <1>1, <1>2, <1>3, <1>4, <1>5, <1>6, <1>7, <1>8, <1>9, <1>10, <1>11, <1>12, <1>13, <1>14, <1>15, <1>16, Operations

LEMMA EffectTyped ==
  ASSUME release \in Nat, NEW l \in Boards(release), before \in Boards(release), NEW c \in Commands
  PROVE  Effect(c, l) \in Boards(release)
<1> DEFINE x == c.on
           Goes == [l.follows EXCEPT ![x] = TRUE]
           Deployed == [l.latest EXCEPT ![x] = release]
           Back == [l.pinned EXCEPT ![x] = Serving(l, x)]
           Stays == [l.follows EXCEPT ![x] = FALSE]
<1>1. /\ l.job \in [Job -> 0 .. release] /\ l.latest \in [Service -> 0 .. release]
      /\ l.pinned \in [Service -> 0 .. release] /\ l.follows \in [Service -> BOOLEAN]
      /\ l.tag \in [Service -> 0 .. release] /\ l.sched \in [Scheduler -> Schedules]
      /\ before.job \in [Job -> 0 .. release] /\ before.latest \in [Service -> 0 .. release]
      /\ before.pinned \in [Service -> 0 .. release] /\ before.tag \in [Service -> 0 .. release]
  BY DEF Boards
<1>2. release \in 0 .. release
  OBVIOUS
<1>3. ASSUME NEW j \in [Job -> 0 .. release], NEW la \in [Service -> 0 .. release],
             NEW p \in [Service -> 0 .. release], NEW fo \in [Service -> BOOLEAN],
             NEW t \in [Service -> 0 .. release], NEW sc \in [Scheduler -> Schedules]
      PROVE  Made(j, la, p, fo, t, sc) \in Boards(release)
  BY DEF Made, Boards
<1>4. [l.job EXCEPT ![x] = release] \in [Job -> 0 .. release]
      /\ [l.job EXCEPT ![x] = before.job[x]] \in [Job -> 0 .. release]
  BY <1>1, <1>2
<1>5. /\ [l.latest EXCEPT ![x] = release] \in [Service -> 0 .. release]
      /\ [l.tag EXCEPT ![x] = release] \in [Service -> 0 .. release]
      /\ [l.tag EXCEPT ![x] = l.latest[x]] \in [Service -> 0 .. release]
      /\ [l.tag EXCEPT ![x] = before.tag[x]] \in [Service -> 0 .. release]
  BY <1>1, <1>2
<1>6. Goes \in [Service -> BOOLEAN] /\ Stays \in [Service -> BOOLEAN]
  BY <1>1
<1> HIDE DEF Goes, Stays
<1>7. x \in Service => Serving(l, x) \in 0 .. release /\ Serving(before, x) \in 0 .. release
  BY <1>1 DEF Serving
<1>8. /\ [l.pinned EXCEPT ![x] = release] \in [Service -> 0 .. release]
      /\ [l.pinned EXCEPT ![x] = l.tag[x]] \in [Service -> 0 .. release]
      /\ [l.pinned EXCEPT ![x] = Serving(l, x)] \in [Service -> 0 .. release]
      /\ [l.pinned EXCEPT ![x] = Serving(before, x)] \in [Service -> 0 .. release]
  BY <1>1, <1>2, <1>7
<1>9. /\ [l.sched EXCEPT ![x] = IF l.sched[x] = "absent" THEN "ENABLED" ELSE l.sched[x]] \in [Scheduler -> Schedules]
      /\ [l.sched EXCEPT ![x] = IF l.sched[x] = "absent" THEN l.sched[x] ELSE "PAUSED"] \in [Scheduler -> Schedules]
      /\ [l.sched EXCEPT ![x] = IF x \in paused THEN "ENABLED" ELSE l.sched[x]] \in [Scheduler -> Schedules]
  BY <1>1 DEF Schedules
<1> HIDE DEF Deployed, Back
<1>a. Deployed \in [Service -> 0 .. release] /\ Back \in [Service -> 0 .. release]
  BY <1>5, <1>8 DEF Deployed, Back
<1>b. /\ l.job \in [Job -> 0 .. release] /\ l.tag \in [Service -> 0 .. release]
      /\ l.sched \in [Scheduler -> Schedules]
  BY <1>1
<1>c. l.latest \in [Service -> 0 .. release]
  BY <1>1
<1>10. CASE c.op \in {"update job", "restore job", "new revision", "candidate", "tagged candidate"}
  <2>1. CASE c.op = "update job"
    <3>1. Effect(c, l) = Made([l.job EXCEPT ![x] = release], l.latest, l.pinned, l.follows, l.tag, l.sched)
      BY <2>1, EffectIs
    <3> QED BY <1>1, <1>3, <1>4, <3>1
  <2>2. CASE c.op = "restore job"
    <3>1. Effect(c, l) = Made([l.job EXCEPT ![x] = before.job[x]], l.latest, l.pinned, l.follows, l.tag, l.sched)
      BY <2>2, EffectIs
    <3> QED BY <1>1, <1>3, <1>4, <3>1
  <2>3. CASE c.op = "new revision"
    <3>1. Effect(c, l) = Made(l.job, Deployed, l.pinned, l.follows, l.tag, l.sched)
      BY <2>3, EffectIs DEF Deployed
    <3> QED BY <1>1, <1>3, <1>a, <3>1
  <2>4. CASE c.op = "candidate"
    <3>1. Effect(c, l) = Made(l.job, Deployed, Back, Stays, l.tag, l.sched)
      BY <2>4, EffectIs DEF Stays, Deployed, Back
    <3>2. Made(l.job, Deployed, Back, Stays, l.tag, l.sched) \in Boards(release)
      BY <1>3, <1>6, <1>a, <1>b
    <3> QED BY <3>1, <3>2
  <2>5. CASE c.op = "tagged candidate"
    <3>1. Effect(c, l) = Made(l.job, Deployed, Back, Stays, [l.tag EXCEPT ![x] = release], l.sched)
      BY <2>5, EffectIs DEF Stays, Deployed, Back
    <3>2. [l.tag EXCEPT ![x] = release] \in [Service -> 0 .. release]
      BY <1>5
    <3>3. Made(l.job, Deployed, Back, Stays, [l.tag EXCEPT ![x] = release], l.sched) \in Boards(release)
      BY <1>3, <1>6, <1>a, <1>b, <3>2
    <3> QED BY <3>1, <3>3
  <2> QED BY <1>10, <2>1, <2>2, <2>3, <2>4, <2>5
<1>11. CASE c.op \in {"to latest", "both to latest", "to release", "to tag", "route back", "routes back"}
  <2>1. CASE c.op = "to latest"
    <3>1. Effect(c, l) = Made(l.job, l.latest, l.pinned, Goes, l.tag, l.sched)
      BY <2>1, EffectIs DEF Goes
    <3> QED BY <1>1, <1>3, <1>5, <1>6, <1>8, <3>1
  <2>2. CASE c.op = "both to latest"
    <3>1. Effect(c, l) = Made(l.job, l.latest, l.pinned, Goes, [l.tag EXCEPT ![x] = l.latest[x]], l.sched)
      BY <2>2, EffectIs DEF Goes
    <3> QED BY <1>1, <1>3, <1>5, <1>6, <1>8, <3>1
  <2>3. CASE c.op = "to release"
    <3>1. Effect(c, l) = Made(l.job, l.latest, [l.pinned EXCEPT ![x] = release], Stays, l.tag, l.sched)
      BY <2>3, EffectIs DEF Stays
    <3> QED BY <1>1, <1>3, <1>5, <1>6, <1>8, <3>1
  <2>4. CASE c.op = "to tag"
    <3>1. Effect(c, l) = Made(l.job, l.latest, [l.pinned EXCEPT ![x] = l.tag[x]], Stays, l.tag, l.sched)
      BY <2>4, EffectIs DEF Stays
    <3>2. [l.pinned EXCEPT ![x] = l.tag[x]] \in [Service -> 0 .. release]
      BY <1>8
    <3>3. l.tag \in [Service -> 0 .. release]
      BY <1>5, <1>b
    <3>4. Made(l.job, l.latest, [l.pinned EXCEPT ![x] = l.tag[x]], Stays, l.tag, l.sched) \in Boards(release)
      BY <1>3, <1>6, <1>b, <1>c, <3>2, <3>3
    <3> QED BY <3>1, <3>4
  <2>5. CASE c.op = "route back"
    <3>1. Effect(c, l) = Made(l.job, l.latest, [l.pinned EXCEPT ![x] = Serving(before, x)], Stays, l.tag, l.sched)
      BY <2>5, EffectIs DEF Stays
    <3>2. [l.pinned EXCEPT ![x] = Serving(before, x)] \in [Service -> 0 .. release]
      BY <1>8
    <3>3. l.tag \in [Service -> 0 .. release]
      BY <1>5, <1>b
    <3>4. Made(l.job, l.latest, [l.pinned EXCEPT ![x] = Serving(before, x)], Stays, l.tag, l.sched) \in Boards(release)
      BY <1>3, <1>6, <1>b, <1>c, <3>2, <3>3
    <3> QED BY <3>1, <3>4
  <2>6. CASE c.op = "routes back"
    <3>1. Effect(c, l) = Made(l.job, l.latest, [l.pinned EXCEPT ![x] = Serving(before, x)], Stays, [l.tag EXCEPT ![x] = before.tag[x]], l.sched)
      BY <2>6, EffectIs DEF Stays
    <3>2. [l.pinned EXCEPT ![x] = Serving(before, x)] \in [Service -> 0 .. release]
      BY <1>8
    <3>3. [l.tag EXCEPT ![x] = before.tag[x]] \in [Service -> 0 .. release]
      BY <1>5, <1>b
    <3>4. Made(l.job, l.latest, [l.pinned EXCEPT ![x] = Serving(before, x)], Stays, [l.tag EXCEPT ![x] = before.tag[x]], l.sched) \in Boards(release)
      BY <1>3, <1>6, <1>b, <1>c, <3>2, <3>3
    <3> QED BY <3>1, <3>4
  <2> QED BY <1>11, <2>1, <2>2, <2>3, <2>4, <2>5, <2>6
<1>12. CASE c.op \in {"schedule", "pause legacy", "pause", "resume"}
  <2>1. CASE c.op = "schedule"
    <3>1. Effect(c, l) = Made(l.job, l.latest, l.pinned, l.follows, l.tag, [l.sched EXCEPT ![x] = IF l.sched[x] = "absent" THEN "ENABLED" ELSE l.sched[x]])
      BY <2>1, EffectIs
    <3> QED BY <1>1, <1>3, <1>9, <3>1
  <2>2. CASE c.op = "pause legacy"
    <3>1. Effect(c, l) = Made(l.job, l.latest, l.pinned, l.follows, l.tag, [l.sched EXCEPT ![x] = IF l.sched[x] = "absent" THEN l.sched[x] ELSE "PAUSED"])
      BY <2>2, EffectIs
    <3> QED BY <1>1, <1>3, <1>9, <3>1
  <2>3. CASE c.op = "pause"
    <3>1. Effect(c, l) = Made(l.job, l.latest, l.pinned, l.follows, l.tag, [l.sched EXCEPT ![x] = IF l.sched[x] = "absent" THEN l.sched[x] ELSE "PAUSED"])
      BY <2>3, EffectIs
    <3> QED BY <1>1, <1>3, <1>9, <3>1
  <2>4. CASE c.op = "resume"
    <3>1. Effect(c, l) = Made(l.job, l.latest, l.pinned, l.follows, l.tag, [l.sched EXCEPT ![x] = IF x \in paused THEN "ENABLED" ELSE l.sched[x]])
      BY <2>4, EffectIs
    <3> QED BY <1>1, <1>3, <1>9, <3>1
  <2> QED BY <1>12, <2>1, <2>2, <2>3, <2>4
<1>13. CASE c.op \in {"look", "execute", "smoke", "smoke candidate", "migrate"}
  BY <1>13, EffectIs
<1> QED BY <1>10, <1>11, <1>12, <1>13, Operations

LEMMA BoardsGrow ==
  ASSUME NEW n \in Nat, NEW l \in Boards(n)
  PROVE  l \in Boards(n + 1)
<1>1. \A k \in 0 .. n : k \in 0 .. n + 1
  OBVIOUS
<1> QED BY <1>1 DEF Boards

LEMMA StandsAt ==
  ASSUME ReleaseTypeOK
  PROVE  /\ release \in Nat /\ (release > 0 => flow \in FlowNames)
         /\ \A r \in 1 .. release : flowOf[r] \in FlowNames
         /\ status # "idle" => release \in 1 .. release
<1>1. release \in Nat /\ \A r \in 1 .. release : flowOf[r] \in FlowNames
  BY LenProperties, ElementOfSeq DEF ReleaseTypeOK, release
<1>2. release > 0 => release \in 1 .. release
  BY <1>1
<1> QED BY <1>1, <1>2 DEF flow, ReleaseTypeOK

LEMMA NowIs ==
  ASSUME ReleaseTypeOK, Running
  PROVE  /\ at \in 1 .. Len(Flows[flow]) /\ at \in Nat /\ release > 0 /\ flow \in FlowNames
         /\ Now.do \in Commands /\ Now.undo \in Seq(Backs)
<1>1. flow \in FlowNames /\ release > 0
  BY StandsAt DEF ReleaseTypeOK, Running
<1>2. Len(Flows[flow]) \in Nat
  BY <1>1, AllTargets
<1>3. at \in 1 .. Len(Flows[flow]) /\ at \in Nat
  BY <1>2 DEF ReleaseTypeOK, Running
<1>4. Now \in AllTasks
  BY <1>1, <1>3, AllTargets DEF Now
<1> QED BY <1>1, <1>3, <1>4 DEF AllTasks

\* What happens to the board: nothing, the step's command, or an undo.
LEMMA Changes ==
  ASSUME ReleaseTypeOK, [ReleaseNext]_releaseVars
  PROVE  \/ UNCHANGED live
         \/ Running /\ live' = Effect(Now.do, live)
         \/ status = "undoing" /\ todo # << >> /\ live' = Effect(Head(todo), live) /\ Undo
<1>1. CASE UNCHANGED releaseVars \/ (\E f \in FlowNames : Start(f)) \/ Succeed \/ Fail \/ UndoFails \/ GiveUp
  BY <1>1 DEF releaseVars, Start, Succeed, Fail, UndoFails, GiveUp
<1>2. CASE Do \/ FailLate
  BY <1>2 DEF Do, FailLate, Take
<1>3. CASE Undo
  BY <1>3 DEF Undo
<1>4. CASE Die
  BY <1>4 DEF Die, Take
<1> QED BY <1>1, <1>2, <1>3, <1>4 DEF ReleaseNext

LEMMA ReleaseTyped ==
  ASSUME ReleaseTypeOK, [ReleaseNext]_releaseVars
  PROVE  ReleaseTypeOK'
<1> DEFINE Stays == UNCHANGED <<flowOf, before>>
<1>1. /\ release \in Nat /\ live \in Boards(release) /\ before \in Boards(release)
      /\ flowOf \in Seq(FlowNames)
  BY StandsAt DEF ReleaseTypeOK
<1>2. CASE UNCHANGED releaseVars
  BY <1>2 DEF releaseVars, ReleaseTypeOK, release, flow
<1>3. ASSUME NEW f \in FlowNames, Start(f) PROVE ReleaseTypeOK'
  <2>1. /\ flowOf' \in Seq(FlowNames) /\ release' = release + 1 /\ flow' = f
    BY <1>1, <1>3, AppendProperties DEF Start, release, flow
  <2>2. /\ live' = live /\ before' = live /\ status' = "running" /\ at' = 1 /\ todo' = << >>
        /\ late' = FALSE /\ UNCHANGED <<schema, smoked, lost>>
    BY <1>3 DEF Start
  <2>3. live' \in Boards(release') /\ before' \in Boards(release') /\ before' \in Boards(release' - 1)
    <3>1. live \in Boards(release + 1) /\ (release + 1) - 1 = release
      BY <1>1, BoardsGrow
    <3> QED BY <1>1, <2>1, <2>2, <3>1
  <2>4. \A r \in 1 .. release : r \in 1 .. release + 1
    BY <1>1
  <2>5. schema' \subseteq 1 .. release' /\ smoked' \subseteq 1 .. release' /\ \A x \in lost' : x[1] \in 1 .. release'
    BY <2>1, <2>2, <2>4 DEF ReleaseTypeOK
  <2>6. at' \in 1 .. Len(Flows[flow'])  + 1
    <3>1. Len(Flows[f]) \in Nat
      BY AllTargets
    <3> QED BY <2>1, <2>2, <3>1
  <2>7. todo' \in Seq(Backs) /\ release' > 0
    BY <1>1, <2>1, <2>2, Empty
  <2> QED BY <2>1, <2>2, <2>3, <2>5, <2>6, <2>7 DEF ReleaseTypeOK
<1>4. ASSUME Do \/ Succeed \/ Fail \/ FailLate \/ Undo \/ UndoFails \/ GiveUp \/ Die
      PROVE  ReleaseTypeOK'
  <2>1. UNCHANGED <<flowOf, before>>
    BY <1>4 DEF Do, Succeed, Fail, FailLate, Undo, UndoFails, GiveUp, Die
  <2>2. release' = release /\ flow' = flow
    BY <2>1 DEF release, flow
  <2>3. live' \in Boards(release)
    <3>1. todo # << >> => Head(todo) \in Commands
      <4>1. todo \in Seq(Backs) /\ Backs \subseteq Commands
        BY DEF ReleaseTypeOK, Backs, Commands
      <4> QED BY <4>1, HeadTailProperties
    <3>2. [ReleaseNext]_releaseVars
      OBVIOUS
    <3> QED BY <1>1, <3>1, <3>2, Changes, NowIs, EffectTyped
  <2>4. /\ todo' \in Seq(Backs) /\ late' \in BOOLEAN
    <3>1. todo # << >> => Tail(todo) \in Seq(Backs)
      BY HeadTailProperties DEF ReleaseTypeOK
    <3>2. todo \in Seq(Backs) /\ late \in BOOLEAN
      BY DEF ReleaseTypeOK
    <3>3. CASE Do \/ Succeed \/ GiveUp \/ Die
      BY <3>2, <3>3 DEF Do, Succeed, GiveUp, Die
    <3>4. CASE Fail \/ FailLate
      BY <3>2, <3>4, NowIs DEF Fail, FailLate
    <3>5. CASE Undo \/ UndoFails
      BY <3>1, <3>2, <3>5 DEF Undo, UndoFails
    <3> QED BY <1>4, <3>3, <3>4, <3>5
  <2>5. schema' \subseteq 1 .. release /\ smoked' \subseteq 1 .. release
    <3>1. schema \subseteq 1 .. release /\ smoked \subseteq 1 .. release
      BY DEF ReleaseTypeOK
    <3>2. Running => release \in 1 .. release
      BY <1>1, NowIs
    <3>3. CASE Do
      BY <3>1, <3>2, <3>3 DEF Do, Take
    <3>4. CASE FailLate \/ Die
      BY <3>1, <3>2, <3>4 DEF FailLate, Die, Take
    <3>5. CASE Succeed \/ Fail \/ Undo \/ UndoFails \/ GiveUp
      BY <3>1, <3>5 DEF Succeed, Fail, Undo, UndoFails, GiveUp
    <3> QED BY <1>4, <3>3, <3>4, <3>5
  <2>6. /\ status' \in {"idle", "running", "undoing", "succeeded", "failed", "died"}
        /\ status # "idle" /\ status' # "idle"
        /\ status' = "running" => Do
    BY <1>4 DEF Do, Succeed, Fail, FailLate, Undo, UndoFails, GiveUp, Die, Running
  <2>7. status' = "running" => at' \in 1 .. Len(Flows[flow]) + 1
    <3> SUFFICES ASSUME Do PROVE at' \in 1 .. Len(Flows[flow]) + 1
      BY <2>6
    <3>1. at' = at + 1 /\ Running
      BY DEF Do
    <3>2. at \in 1 .. Len(Flows[flow]) /\ Len(Flows[flow]) \in Nat
      BY <3>1, NowIs, AllTargets
    <3> QED BY <3>1, <3>2
  <2>8. \A x \in lost' : x[1] \in 1 .. release
    <3>1. \A x \in lost : x[1] \in 1 .. release
      BY DEF ReleaseTypeOK
    <3>2. CASE UndoFails
      <4>1. status = "undoing" /\ lost' = lost \cup {<<release, Head(todo)>>}
        BY <3>2 DEF UndoFails
      <4>2. release \in 1 .. release
        BY <4>1, StandsAt
      <4> QED BY <3>1, <4>1, <4>2
    <3>3. CASE ~UndoFails
      BY <1>4, <3>1, <3>3 DEF Do, Succeed, Fail, FailLate, Undo, GiveUp, Die
    <3> QED BY <3>2, <3>3
  <2>9. release > 0 /\ before \in Boards(release - 1)
    BY <2>6 DEF ReleaseTypeOK
  <2> QED BY <1>1, <2>1, <2>2, <2>3, <2>4, <2>5, <2>6, <2>7, <2>8, <2>9 DEF ReleaseTypeOK
<1> QED BY <1>2, <1>3, <1>4 DEF ReleaseNext

LEMMA ReleaseTypedAtFirst ==
  ASSUME ReleaseInit
  PROVE  ReleaseTypeOK
<1>1. release = 0 /\ flowOf \in Seq(FlowNames) /\ todo \in Seq(Backs)
  BY EmptySeq DEF ReleaseInit, release
<1>2. live \in Boards(0)
  BY DEF ReleaseInit, Boards, Schedules
<1> QED BY <1>1, <1>2 DEF ReleaseInit, ReleaseTypeOK

-----------------------------------------------------------------------------
(* No release is in use before its migration.                              *)
Held(l, r) == \/ \E j \in Job : l.job[j] = r
              \/ \E s \in Service : l.latest[s] = r \/ l.pinned[s] = r \/ l.tag[s] = r

Done(ops) == status = "running" /\ \E i \in 1 .. at - 1 : Flows[flow][i].do.op \in ops

SchemaFirst ==
  /\ \A r \in 1 .. release : Migrates(flowOf[r]) /\ (Held(live, r) \/ Held(before, r)) => r \in schema
  /\ Done({"migrate"}) => release \in schema

\* A command brings this release or what is already held.
LEMMA Brought ==
  ASSUME ReleaseTypeOK, NEW c \in Commands, NEW r, Held(Effect(c, live), r)
  PROVE  Held(live, r) \/ Held(before, r) \/ (r = release /\ c.op \in Brings)
<1> DEFINE x == c.on
           m == Effect(c, live)
<1> SUFFICES ASSUME ~Held(live, r), ~Held(before, r), r = release => c.op \notin Brings
             PROVE  ~Held(m, r)
  OBVIOUS
<1>1. live \in Boards(release)
  BY DEF ReleaseTypeOK
<1>2. /\ live.job \in [Job -> 0 .. release] /\ live.latest \in [Service -> 0 .. release]
      /\ live.pinned \in [Service -> 0 .. release] /\ live.tag \in [Service -> 0 .. release]
  BY DEF ReleaseTypeOK, Boards
<1>3. /\ \A j \in Job : live.job[j] # r /\ before.job[j] # r
      /\ \A s \in Service : /\ live.latest[s] # r /\ live.pinned[s] # r /\ live.tag[s] # r
                            /\ before.latest[s] # r /\ before.pinned[s] # r /\ before.tag[s] # r
                            /\ Serving(live, s) # r /\ Serving(before, s) # r
  BY DEF Held, Serving
<1>4. c.op \in Brings => release # r
  OBVIOUS
<1> HIDE DEF m
<1>6. CASE c.op = "update job"
  <2>1. /\ m.job = [live.job EXCEPT ![x] = release] /\ m.latest = live.latest
        /\ m.pinned = live.pinned /\ m.tag = live.tag
    BY <1>1, <1>6, EffectFields DEF m, ToLatest
  <2>2. \A y \in Job : [live.job EXCEPT ![x] = release][y] # r
    BY <1>2, <1>3, <1>4, <1>6 DEF Brings
  <2> QED BY <1>3, <2>1, <2>2 DEF Held
<1>7. CASE c.op = "restore job"
  <2>1. /\ m.job = [live.job EXCEPT ![x] = before.job[x]] /\ m.latest = live.latest
        /\ m.pinned = live.pinned /\ m.tag = live.tag
    BY <1>1, <1>7, EffectFields DEF m, ToLatest
  <2>2. \A y \in Job : [live.job EXCEPT ![x] = before.job[x]][y] # r
    BY <1>2, <1>3
  <2> QED BY <1>3, <2>1, <2>2 DEF Held
<1>8. CASE c.op = "new revision"
  <2>1. /\ m.job = live.job /\ m.latest = [live.latest EXCEPT ![x] = release]
        /\ m.pinned = live.pinned /\ m.tag = live.tag
    BY <1>1, <1>8, EffectFields DEF m, ToLatest
  <2>2. \A y \in Service : [live.latest EXCEPT ![x] = release][y] # r
    BY <1>2, <1>3, <1>4, <1>8 DEF Brings
  <2> QED BY <1>3, <2>1, <2>2 DEF Held
<1>9. CASE c.op = "candidate"
  <2>1. /\ m.job = live.job /\ m.latest = [live.latest EXCEPT ![x] = release]
        /\ m.pinned = [live.pinned EXCEPT ![x] = Serving(live, x)] /\ m.tag = live.tag
    BY <1>1, <1>9, EffectFields DEF m, ToLatest
  <2>2. \A y \in Service : [live.latest EXCEPT ![x] = release][y] # r
    BY <1>2, <1>3, <1>4, <1>9 DEF Brings
  <2>3. \A y \in Service : [live.pinned EXCEPT ![x] = Serving(live, x)][y] # r
    BY <1>2, <1>3
  <2> QED BY <1>3, <2>1, <2>2, <2>3 DEF Held
<1>10. CASE c.op = "tagged candidate"
  <2>1. /\ m.job = live.job /\ m.latest = [live.latest EXCEPT ![x] = release]
        /\ m.pinned = [live.pinned EXCEPT ![x] = Serving(live, x)] /\ m.tag = [live.tag EXCEPT ![x] = release]
    BY <1>1, <1>10, EffectFields DEF m, ToLatest
  <2>2. \A y \in Service : [live.latest EXCEPT ![x] = release][y] # r
    BY <1>2, <1>3, <1>4, <1>10 DEF Brings
  <2>3. \A y \in Service : [live.pinned EXCEPT ![x] = Serving(live, x)][y] # r
    BY <1>2, <1>3
  <2>4. \A y \in Service : [live.tag EXCEPT ![x] = release][y] # r
    BY <1>2, <1>3, <1>4, <1>10 DEF Brings
  <2> QED BY <1>3, <2>1, <2>2, <2>3, <2>4 DEF Held
<1>11. CASE c.op = "to latest"
  <2>1. /\ m.job = live.job /\ m.latest = live.latest
        /\ m.pinned = live.pinned /\ m.tag = live.tag
    BY <1>1, <1>11, EffectFields DEF m, ToLatest
  <2> QED BY <1>3, <2>1 DEF Held
<1>12. CASE c.op = "both to latest"
  <2>1. /\ m.job = live.job /\ m.latest = live.latest
        /\ m.pinned = live.pinned /\ m.tag = [live.tag EXCEPT ![x] = live.latest[x]]
    BY <1>1, <1>12, EffectFields DEF m, ToLatest
  <2>2. \A y \in Service : [live.tag EXCEPT ![x] = live.latest[x]][y] # r
    BY <1>2, <1>3
  <2> QED BY <1>3, <2>1, <2>2 DEF Held
<1>13. CASE c.op = "to release"
  <2>1. /\ m.job = live.job /\ m.latest = live.latest
        /\ m.pinned = [live.pinned EXCEPT ![x] = release] /\ m.tag = live.tag
    BY <1>1, <1>13, EffectFields DEF m, ToLatest
  <2>2. \A y \in Service : [live.pinned EXCEPT ![x] = release][y] # r
    BY <1>2, <1>3, <1>4, <1>13 DEF Brings
  <2> QED BY <1>3, <2>1, <2>2 DEF Held
<1>14. CASE c.op = "to tag"
  <2>1. /\ m.job = live.job /\ m.latest = live.latest
        /\ m.pinned = [live.pinned EXCEPT ![x] = live.tag[x]] /\ m.tag = live.tag
    BY <1>1, <1>14, EffectFields DEF m, ToLatest
  <2>2. \A y \in Service : [live.pinned EXCEPT ![x] = live.tag[x]][y] # r
    BY <1>2, <1>3
  <2> QED BY <1>3, <2>1, <2>2 DEF Held
<1>15. CASE c.op = "route back"
  <2>1. /\ m.job = live.job /\ m.latest = live.latest
        /\ m.pinned = [live.pinned EXCEPT ![x] = Serving(before, x)] /\ m.tag = live.tag
    BY <1>1, <1>15, EffectFields DEF m, ToLatest
  <2>2. \A y \in Service : [live.pinned EXCEPT ![x] = Serving(before, x)][y] # r
    BY <1>2, <1>3
  <2> QED BY <1>3, <2>1, <2>2 DEF Held
<1>16. CASE c.op = "routes back"
  <2>1. /\ m.job = live.job /\ m.latest = live.latest
        /\ m.pinned = [live.pinned EXCEPT ![x] = Serving(before, x)] /\ m.tag = [live.tag EXCEPT ![x] = before.tag[x]]
    BY <1>1, <1>16, EffectFields DEF m, ToLatest
  <2>2. \A y \in Service : [live.pinned EXCEPT ![x] = Serving(before, x)][y] # r
    BY <1>2, <1>3
  <2>3. \A y \in Service : [live.tag EXCEPT ![x] = before.tag[x]][y] # r
    BY <1>2, <1>3
  <2> QED BY <1>3, <2>1, <2>2, <2>3 DEF Held
<1>17. CASE c.op \in {"schedule"}
  <2>1. m.job = live.job /\ m.latest = live.latest /\ m.pinned = live.pinned /\ m.tag = live.tag
    BY <1>1, <1>17, EffectFields DEF m, ToLatest
  <2> QED BY <1>3, <2>1 DEF Held
<1>18. CASE c.op \in {"pause legacy", "pause"}
  <2>1. m.job = live.job /\ m.latest = live.latest /\ m.pinned = live.pinned /\ m.tag = live.tag
    BY <1>1, <1>18, EffectFields DEF m, ToLatest
  <2> QED BY <1>3, <2>1 DEF Held
<1>19. CASE c.op \in {"resume"}
  <2>1. m.job = live.job /\ m.latest = live.latest /\ m.pinned = live.pinned /\ m.tag = live.tag
    BY <1>1, <1>19, EffectFields DEF m, ToLatest
  <2> QED BY <1>3, <2>1 DEF Held
<1>20. CASE c.op \in {"look", "execute", "smoke", "smoke candidate", "migrate"}
  BY <1>1, <1>20, EffectIs DEF m
<1> QED BY <1>6, <1>7, <1>8, <1>9, <1>10, <1>11, <1>12, <1>13, <1>14, <1>15, <1>16, <1>17, <1>18, <1>19, <1>20, Operations DEF m

LEMMA BacksBringNothing == \A c \in Backs : c \in Commands /\ c.op \notin Brings
  BY DEF Backs, Commands, Undos, Brings

\* A release under way keeps its target, and only Do takes it a step on.
LEMMA Onward ==
  ASSUME ReleaseTypeOK, [ReleaseNext]_releaseVars, ~\E f \in FlowNames : Start(f)
  PROVE  /\ UNCHANGED <<flowOf, before>> /\ release' = release /\ flow' = flow
         /\ schema \subseteq schema' /\ smoked \subseteq smoked' /\ lost \subseteq lost'
         /\ status' = "running" => status = "running" /\ at' \in {at, at + 1} /\ (UNCHANGED releaseVars \/ Do)
<1>1. /\ UNCHANGED <<flowOf, before>>
      /\ schema \subseteq schema' /\ smoked \subseteq smoked' /\ lost \subseteq lost'
      /\ status' = "running" => status = "running" /\ at' \in {at, at + 1} /\ (UNCHANGED releaseVars \/ Do)
  <2>1. CASE UNCHANGED releaseVars
    BY <2>1 DEF releaseVars
  <2>2. CASE Do
    BY <2>2 DEF Do, Take, Running
  <2>3. CASE FailLate \/ Die
    BY <2>3 DEF FailLate, Die, Take
  <2>4. CASE Succeed \/ Fail \/ Undo \/ UndoFails \/ GiveUp
    BY <2>4 DEF Succeed, Fail, Undo, UndoFails, GiveUp
  <2> QED BY <2>1, <2>2, <2>3, <2>4 DEF ReleaseNext
<1> QED BY <1>1 DEF release, flow

\* A dispatch adds a release, which nothing holds yet.
LEMMA Dispatched ==
  ASSUME ReleaseTypeOK, NEW f \in FlowNames, Start(f)
  PROVE  /\ live' = live /\ before' = live /\ status' = "running" /\ at' = 1
         /\ release' = release + 1 /\ flow' = f /\ release \in Nat
         /\ \A r \in 1 .. release : flowOf'[r] = flowOf[r]
         /\ ~Held(live, release + 1)
         /\ UNCHANGED <<schema, smoked, lost>> /\ paused' = {} /\ late' = FALSE /\ todo' = << >>
<1>1. flowOf \in Seq(FlowNames) /\ live \in Boards(release) /\ release \in Nat
  BY StandsAt DEF ReleaseTypeOK
<1>2. release' = release + 1 /\ flow' = f /\ \A r \in 1 .. release : flowOf'[r] = flowOf[r]
  BY <1>1, AppendProperties DEF Start, release, flow
<1>3. release + 1 \notin 0 .. release
  BY <1>1
<1>4. ~Held(live, release + 1)
  BY <1>1, <1>3 DEF Boards, Held
<1> QED BY <1>1, <1>2, <1>4 DEF Start

LEMMA SchemaFirstHolds ==
  ASSUME ReleaseTypeOK, SchemaFirst, [ReleaseNext]_releaseVars
  PROVE  SchemaFirst'
<1>0. release \in Nat
  BY StandsAt
<1>1. ASSUME NEW f \in FlowNames, Start(f) PROVE SchemaFirst'
  <2>1. ~Done({"migrate"})'
    <3>1. at' = 1
      BY <1>1, Dispatched
    <3>2. \A i : i \notin 1 .. at' - 1
      BY <3>1
    <3> QED BY <3>2 DEF Done
  <2>2. ASSUME NEW r \in 1 .. release', Migrates(flowOf'[r]), Held(live', r) \/ Held(before', r)
        PROVE  r \in schema'
    <3>1. live' = live /\ before' = live /\ ~Held(live, release + 1) /\ release' = release + 1
      BY <1>1, Dispatched
    <3>2. Held(live, r)
      BY <2>2, <3>1
    <3>3. r # release + 1
      BY <3>1, <3>2
    <3>4. r \in 1 .. release
      BY <1>0, <3>1, <3>3
    <3>5. Migrates(flowOf[r])
      BY <1>1, <2>2, <3>4, Dispatched
    <3> QED BY <1>1, <3>2, <3>4, <3>5, Dispatched DEF SchemaFirst
  <2> QED BY <2>1, <2>2 DEF SchemaFirst
<1>2. ASSUME ~\E f \in FlowNames : Start(f) PROVE SchemaFirst'
  <2>1. /\ UNCHANGED <<flowOf, before>> /\ release' = release /\ flow' = flow /\ schema \subseteq schema'
        /\ status' = "running" => status = "running" /\ (at' = at \/ Do)
    BY <1>2, Onward DEF releaseVars
  <2>2. Done({"migrate"})' => release \in schema'
    <3> SUFFICES ASSUME Done({"migrate"})' PROVE release \in schema'
      OBVIOUS
    <3>1. status = "running" /\ \E i \in 1 .. at' - 1 : Flows[flow][i].do.op \in {"migrate"}
      BY <2>1 DEF Done
    <3>2. CASE at' = at
      BY <2>1, <3>1, <3>2 DEF Done, SchemaFirst
    <3>3. CASE Do
      <4>1. at' = at + 1 /\ Running /\ Take(Now.do) /\ at \in Nat
        BY <3>3, NowIs DEF Do
      <4>2. PICK i \in 1 .. at' - 1 : Flows[flow][i].do.op \in {"migrate"}
        BY <3>1
      <4>3. i \in 1 .. at - 1 \/ i = at
        BY <4>1
      <4>4. CASE i \in 1 .. at - 1
        BY <2>1, <3>1, <4>2, <4>4 DEF Done, SchemaFirst
      <4>5. CASE i = at
        BY <4>1, <4>2, <4>5 DEF Take, Now
      <4> QED BY <4>3, <4>4, <4>5
    <3> QED BY <2>1, <3>2, <3>3 DEF Done
  <2>3. ASSUME NEW r \in 1 .. release, Migrates(flowOf[r]), Held(live', r), ~Held(live, r), ~Held(before, r)
        PROVE  r \in schema'
    <3>1. CASE Running /\ live' = Effect(Now.do, live)
      <4>1. r = release /\ Now.do.op \in Brings
        BY <2>3, <3>1, NowIs, Brought
      <4>2. at \in 1 .. Len(Flows[flow]) /\ flow \in FlowNames /\ at \in Nat
        BY <3>1, NowIs
      <4>3. \E i \in 1 .. Len(Flows[flow]) : Flows[flow][i].do.op = "migrate"
        BY <2>3, <4>1, <4>2, AllTargets DEF Migrates, flow
      <4>4. \E i \in 1 .. at - 1 : Flows[flow][i].do.op = "migrate"
        BY <4>1, <4>2, <4>3, AllTargets DEF MigratesFirst, Now
      <4>5. Done({"migrate"})
        BY <3>1, <4>4 DEF Done, Running
      <4> QED BY <2>1, <4>1, <4>5 DEF SchemaFirst
    <3>2. CASE todo # << >> /\ live' = Effect(Head(todo), live)
      <4>1. Head(todo) \in Backs
        BY <3>2, HeadTailProperties DEF ReleaseTypeOK
      <4> QED BY <2>3, <3>2, <4>1, BacksBringNothing, Brought
    <3> QED BY <2>3, <3>1, <3>2, Changes
  <2>4. ASSUME NEW r \in 1 .. release', Migrates(flowOf'[r]), Held(live', r) \/ Held(before', r)
        PROVE  r \in schema'
    BY <2>1, <2>3, <2>4 DEF SchemaFirst
  <2> QED BY <2>1, <2>2, <2>4 DEF SchemaFirst
<1> QED BY <1>1, <1>2

LEMMA SchemaFirstAtFirst ==
  ASSUME ReleaseInit
  PROVE  SchemaFirst
<1>1. release = 0
  BY DEF ReleaseInit, release
<1> QED BY <1>1 DEF ReleaseInit, SchemaFirst, Done

-----------------------------------------------------------------------------
(* A resilience release (wi060) takes a route only when its candidate has  *)
(* passed: until then its revision is at most the latest one of a service  *)
(* whose route does not follow the latest.                                 *)
Proven(r) == r > 0 /\ flowOf[r] = "wi060" => r \in smoked

RoutesProven(l) ==
  \A s \in Service : Proven(l.pinned[s]) /\ Proven(l.tag[s]) /\ (l.follows[s] => Proven(l.latest[s]))

JustDeployed ==
  status = "running" /\ at > 1 =>
    LET c == Flows[flow][at - 1].do
    IN  c.op \in {"new revision", "candidate"} /\ c.on \in Service => live.latest[c.on] = release

SmokeFirst ==
  /\ RoutesProven(live) /\ RoutesProven(before) /\ JustDeployed
  /\ Done({"smoke candidate"}) => release \in smoked

LEMMA Wi060Steps ==
  ASSUME NEW i \in 1 .. Len(_deploy_wi060)
  PROVE  /\ _deploy_wi060[i].do.op \notin ToLatest \cup {"new revision", "tagged candidate"}
         /\ _deploy_wi060[i].do.op = "to release" =>
              \E k \in 1 .. i - 1 : _deploy_wi060[k].do.op = "smoke candidate"
<1> DEFINE jobsBack == _rollback_job_definitions(CoreJobs)
           rest == <<Execute, Look, Task(Cmd("to release", "remote"), << >>), Smoke(<<Cmd("route back", "remote")>>)>>
           first == <<Look, Task(Cmd("candidate", "remote"), << >>), SmokeCandidate>>
           body == UpdateCoreJobs \o rest
           g == Guarded(body, jobsBack)
           Kept == {"update job", "execute", "look", "to release", "smoke"}
<1>1. << >> \in Seq(Undos) /\ <<Cmd("route back", "remote")>> \in Seq(Undos) /\ "remote" \in Service
  BY Empty, One, RouteCommands DEF Service
<1>2. jobsBack \in Seq(Undos)
  BY JobLists, RollbackIs
<1>3. PlainTarget(first) /\ PlainTarget(rest)
  BY <1>1, Fixed, Listed
<1>4. _deploy_wi060 = first \o g
  BY DEF _deploy_wi060
<1>5. /\ Len(first) = 3 /\ first[1].do.op = "look" /\ first[2].do.op = "candidate"
      /\ first[3].do.op = "smoke candidate"
  BY DEF Look, SmokeCandidate, Task, Cmd
<1>a. Len(first) = 3
  BY <1>5
<1>6. /\ Len(rest) = 4 /\ rest[1].do.op = "execute" /\ rest[2].do.op = "look"
      /\ rest[3].do.op = "to release" /\ rest[4].do.op = "smoke"
  BY DEF Look, Execute, Smoke, Task, Cmd
<1> HIDE DEF first, rest, jobsBack
<1>7. \A k \in 1 .. Len(rest) : rest[k].do.op \in Kept
  <2>1. \A k \in 1 .. 4 : k = 1 \/ k = 2 \/ k = 3 \/ k = 4
    OBVIOUS
  <2> QED BY <1>6, <2>1
<1>8. \A k \in 1 .. Len(UpdateCoreJobs) : UpdateCoreJobs[k].do.op \in Kept
  <2>1. \A x : Task(Cmd("update job", x), << >>).do.op = "update job"
    BY DEF Task, Cmd
  <2> QED BY <2>1, CoreJobsAre
<1>9. PlainTarget(body)
  BY <1>3, CoreJobsAre, PlainConcat
<1>10. \A k \in 1 .. Len(body) : body[k].do.op \in Kept
  <2> TAKE k \in 1 .. Len(body)
  <2>1. UpdateCoreJobs \in Seq(PlainTasks) /\ rest \in Seq(PlainTasks)
    BY <1>3, CoreJobsAre DEF PlainTarget
  <2>2. CASE k \in 1 .. Len(UpdateCoreJobs) /\ body[k] = UpdateCoreJobs[k]
    BY <1>8, <2>2
  <2>3. CASE k - Len(UpdateCoreJobs) \in 1 .. Len(rest) /\ body[k] = rest[k - Len(UpdateCoreJobs)]
    BY <1>7, <2>3
  <2> QED BY <2>1, <2>2, <2>3, Parts
<1> HIDE DEF body
<1>11. PlainTarget(g) /\ \A k \in 1 .. Len(g) : g[k].do.op \in Kept
  BY <1>2, <1>9, <1>10, GuardedIs
<1> HIDE DEF g
<1>12. first \in Seq(PlainTasks) /\ g \in Seq(PlainTasks) /\ Len(g) \in Nat
  BY <1>3, <1>11, LenProperties DEF PlainTarget
<1>13. (first \o g)[3].do.op = "smoke candidate"
  <2>1. 3 \in 1 .. Len(first) + Len(g) /\ 3 <= Len(first)
    <3>1. Len(g) \in Nat
      BY <1>12
    <3> QED BY <1>a, <3>1
  <2> QED BY <1>5, <1>12, <2>1, ConcatProperties
<1>14. CASE i \in 1 .. Len(first) /\ _deploy_wi060[i] = first[i]
  <2>1. i = 1 \/ i = 2 \/ i = 3
    <3>1. i \in 1 .. 3
      BY <1>a, <1>14
    <3> QED BY <3>1
  <2> QED BY <1>5, <1>14, <2>1 DEF ToLatest
<1>15. CASE i > Len(first) /\ i - Len(first) \in 1 .. Len(g) /\ _deploy_wi060[i] = g[i - Len(first)]
  <2>1. 3 \in 1 .. i - 1
    <3>1. i > 3 /\ i \in Nat
      <4>1. Len(_deploy_wi060) \in Nat /\ i > Len(first)
        BY <1>4, <1>12, <1>15, ConcatProperties, LenProperties
      <4> QED BY <1>a, <4>1
    <3> QED BY <3>1
  <2>2. _deploy_wi060[i].do.op \in Kept
    BY <1>11, <1>15
  <2> QED BY <1>4, <1>13, <2>1, <2>2 DEF ToLatest
<1> QED BY <1>4, <1>12, <1>14, <1>15, Parts

\* A command keeps unproven releases off the routes, if it sends none there.
LEMMA RoutesStayProven ==
  ASSUME ReleaseTypeOK, RoutesProven(live), RoutesProven(before), NEW c \in Commands,
         c.op \in {"new revision", "tagged candidate", "to release"} => Proven(release),
         c.op \in ToLatest /\ c.on \in Service => Proven(live.latest[c.on])
  PROVE  RoutesProven(Effect(c, live))
<1> DEFINE x == c.on
           m == Effect(c, live)
<1>1. live \in Boards(release)
  BY DEF ReleaseTypeOK
<1>2. /\ live.latest \in [Service -> 0 .. release] /\ live.pinned \in [Service -> 0 .. release]
      /\ live.tag \in [Service -> 0 .. release] /\ live.follows \in [Service -> BOOLEAN]
  BY <1>1 DEF Boards
<1>3. \A s \in Service : /\ Proven(live.pinned[s]) /\ Proven(live.tag[s])
                          /\ Proven(Serving(live, s)) /\ Proven(Serving(before, s)) /\ Proven(before.tag[s])
  BY DEF RoutesProven, Serving
<1>a. \A s \in Service : live.follows[s] => Proven(live.latest[s])
  BY DEF RoutesProven
<1>4. m.pinned = IF c.op \in {"candidate", "tagged candidate"} THEN [live.pinned EXCEPT ![x] = Serving(live, x)]
                 ELSE IF c.op = "to release" THEN [live.pinned EXCEPT ![x] = release]
                 ELSE IF c.op = "to tag" THEN [live.pinned EXCEPT ![x] = live.tag[x]]
                 ELSE IF c.op \in {"route back", "routes back"}
                      THEN [live.pinned EXCEPT ![x] = Serving(before, x)] ELSE live.pinned
  BY <1>1, EffectFields
<1>5. m.tag = IF c.op = "tagged candidate" THEN [live.tag EXCEPT ![x] = release]
              ELSE IF c.op = "both to latest" THEN [live.tag EXCEPT ![x] = live.latest[x]]
              ELSE IF c.op = "routes back" THEN [live.tag EXCEPT ![x] = before.tag[x]] ELSE live.tag
  BY <1>1, EffectFields
<1>6. /\ m.follows = IF c.op \in ToLatest THEN [live.follows EXCEPT ![x] = TRUE]
                     ELSE IF c.op \in {"candidate", "tagged candidate", "to release", "to tag", "route back", "routes back"}
                          THEN [live.follows EXCEPT ![x] = FALSE] ELSE live.follows
      /\ m.latest = IF c.op \in {"new revision", "candidate", "tagged candidate"}
                    THEN [live.latest EXCEPT ![x] = release] ELSE live.latest
  BY <1>1, EffectFields
<1> HIDE DEF m
<1>7. ASSUME NEW s \in Service PROVE Proven(m.pinned[s])
  <2>1. \/ m.pinned[s] = live.pinned[s] \/ m.pinned[s] = Serving(live, s)
        \/ m.pinned[s] = live.tag[s] \/ m.pinned[s] = Serving(before, s)
        \/ c.op = "to release" /\ m.pinned[s] = release
    <3>1. CASE c.op \in {"candidate", "tagged candidate"}
      BY <1>2, <1>4, <3>1
    <3>2. CASE c.op = "to release"
      BY <1>2, <1>4, <3>2
    <3>3. CASE c.op = "to tag"
      BY <1>2, <1>4, <3>3
    <3>4. CASE c.op \in {"route back", "routes back"}
      BY <1>2, <1>4, <3>4
    <3>5. CASE c.op \notin {"candidate", "tagged candidate", "to release", "to tag", "route back", "routes back"}
      BY <1>2, <1>4, <3>5
    <3> QED BY <3>1, <3>2, <3>3, <3>4, <3>5
  <2> QED BY <1>3, <2>1
<1>8. ASSUME NEW s \in Service PROVE Proven(m.tag[s])
  <2>1. \/ m.tag[s] = live.tag[s] \/ m.tag[s] = before.tag[s]
        \/ c.op = "tagged candidate" /\ m.tag[s] = release
        \/ c.op = "both to latest" /\ s = x /\ m.tag[s] = live.latest[s]
    <3>1. CASE c.op = "tagged candidate"
      BY <1>2, <1>5, <3>1
    <3>2. CASE c.op = "both to latest"
      BY <1>2, <1>5, <3>2
    <3>3. CASE c.op = "routes back"
      BY <1>2, <1>5, <3>3
    <3>4. CASE c.op \notin {"tagged candidate", "both to latest", "routes back"}
      BY <1>2, <1>5, <3>4
    <3> QED BY <3>1, <3>2, <3>3, <3>4
  <2> QED BY <1>3, <2>1 DEF ToLatest
<1>9. ASSUME NEW s \in Service, m.follows[s] PROVE Proven(m.latest[s])
  <2>1. CASE c.op \in ToLatest
    <3>1. m.latest = live.latest /\ m.follows = [live.follows EXCEPT ![x] = TRUE]
      BY <1>6, <2>1 DEF ToLatest
    <3>2. CASE s = x
      BY <2>1, <3>1, <3>2
    <3>3. CASE s # x
      BY <1>2, <1>a, <1>9, <3>1, <3>3
    <3> QED BY <3>2, <3>3
  <2>2. CASE c.op = "new revision"
    <3>1. m.latest = [live.latest EXCEPT ![x] = release] /\ m.follows = live.follows
      BY <1>6, <2>2 DEF ToLatest
    <3>2. m.latest[s] = release \/ m.latest[s] = live.latest[s]
      BY <1>2, <3>1
    <3> QED BY <1>a, <1>9, <2>2, <3>1, <3>2
  <2>3. CASE c.op \in {"candidate", "tagged candidate"}
    <3>1. /\ m.latest = [live.latest EXCEPT ![x] = release]
          /\ m.follows = [live.follows EXCEPT ![x] = FALSE]
      BY <1>6, <2>3 DEF ToLatest
    <3>2. s # x
      BY <1>2, <1>9, <3>1
    <3>3. m.latest[s] = live.latest[s] /\ live.follows[s]
      BY <1>2, <1>9, <3>1, <3>2
    <3> QED BY <1>a, <3>3
  <2>4. CASE c.op \in {"to release", "to tag", "route back", "routes back"}
    <3>1. m.latest = live.latest /\ m.follows = [live.follows EXCEPT ![x] = FALSE]
      BY <1>6, <2>4 DEF ToLatest
    <3>2. live.follows[s]
      BY <1>2, <1>9, <3>1
    <3> QED BY <1>a, <3>1, <3>2
  <2>5. CASE c.op \notin ToLatest \cup {"new revision", "candidate", "tagged candidate", "to release", "to tag", "route back", "routes back"}
    <3>1. m.latest = live.latest /\ m.follows = live.follows
      BY <1>6, <2>5 DEF ToLatest
    <3> QED BY <1>a, <1>9, <3>1
  <2> QED BY <2>1, <2>2, <2>3, <2>4, <2>5
<1> QED BY <1>7, <1>8, <1>9 DEF RoutesProven, m

LEMMA SmokeFirstHolds ==
  ASSUME ReleaseTypeOK, SmokeFirst, [ReleaseNext]_releaseVars
  PROVE  SmokeFirst'
<1>0. /\ release \in Nat /\ live \in Boards(release)
      /\ RoutesProven(live) /\ RoutesProven(before) /\ JustDeployed
      /\ Done({"smoke candidate"}) => release \in smoked
  BY StandsAt DEF SmokeFirst, ReleaseTypeOK
<1>1. ASSUME NEW f \in FlowNames, Start(f) PROVE SmokeFirst'
  <2>1. at' = 1 /\ live' = live /\ before' = live /\ smoked' = smoked /\ \A r \in 1 .. release : flowOf'[r] = flowOf[r]
    BY <1>1, Dispatched
  <2>2. \A i : i \notin 1 .. at' - 1
    BY <2>1
  <2>3. ASSUME NEW r \in 0 .. release, Proven(r)
        PROVE  r > 0 /\ flowOf'[r] = "wi060" => r \in smoked'
    <3>1. r > 0 => r \in 1 .. release
      <4>1. release \in Nat
        BY <1>0
      <4> QED BY <4>1
    <3> QED BY <2>1, <2>3, <3>1 DEF Proven
  <2>4. \A s \in Service : live.latest[s] \in 0 .. release /\ live.pinned[s] \in 0 .. release /\ live.tag[s] \in 0 .. release
    BY <1>0 DEF Boards
  <2>a. \A s \in Service : Proven(live.pinned[s])' /\ Proven(live.tag[s])'
    <3>1. \A s \in Service : Proven(live.pinned[s]) /\ Proven(live.tag[s])
      BY <1>0 DEF RoutesProven
    <3> QED BY <2>1, <2>3, <2>4, <3>1 DEF Proven
  <2>5. \A s \in Service : live.follows[s] => Proven(live.latest[s])'
    <3>1. \A s \in Service : live.follows[s] => Proven(live.latest[s])
      BY <1>0 DEF RoutesProven
    <3> QED BY <2>1, <2>3, <2>4, <3>1 DEF Proven
  <2>6. RoutesProven(live)' /\ RoutesProven(before)'
    <3>3. live' = live /\ before' = live
      BY <2>1
    <3>4. RoutesProven(live)'
      BY <2>a, <2>5, <3>3 DEF RoutesProven, Proven
    <3>5. RoutesProven(before)'
      BY <2>a, <2>5, <3>3 DEF RoutesProven, Proven
    <3> QED BY <3>4, <3>5
  <2>7. JustDeployed' /\ ~Done({"smoke candidate"})'
    BY <2>1, <2>2 DEF JustDeployed, Done
  <2> QED BY <2>6, <2>7 DEF SmokeFirst
<1>2. ASSUME ~\E f \in FlowNames : Start(f) PROVE SmokeFirst'
  <2>1. /\ UNCHANGED <<flowOf, before>> /\ release' = release /\ flow' = flow /\ smoked \subseteq smoked'
        /\ status' = "running" => status = "running" /\ (UNCHANGED releaseVars \/ Do)
    BY <1>2, Onward
  <2>2. RoutesProven(live')
    <3>1. CASE Running /\ live' = Effect(Now.do, live)
      <4> DEFINE c == Now.do
      <4>1. /\ at \in 1 .. Len(Flows[flow]) /\ flow \in FlowNames /\ at \in Nat /\ c \in Commands
            /\ c = Flows[flow][at].do /\ status = "running"
        BY <3>1, NowIs DEF Now, Running
      <4> HIDE DEF c
      <4>2. ASSUME flow = "wi060"
            PROVE  /\ c.op \notin ToLatest \cup {"new revision", "tagged candidate"}
                   /\ c.op = "to release" => release \in smoked
        <5>1. Flows[flow] = _deploy_wi060
          BY <4>2 DEF Flows
        <5>2. c.op = "to release" => \E k \in 1 .. at - 1 : Flows[flow][k].do.op = "smoke candidate"
          BY <4>1, <5>1, Wi060Steps
        <5>3. c.op = "to release" => Done({"smoke candidate"})
          BY <4>1, <5>2 DEF Done
        <5>4. c.op \notin ToLatest \cup {"new revision", "tagged candidate"}
          BY <4>1, <5>1, Wi060Steps
        <5> QED BY <1>0, <5>3, <5>4
      <4>3. c.op \in {"new revision", "tagged candidate", "to release"} => Proven(release)
        BY <4>2 DEF Proven, flow
      <4>4. ASSUME c.op \in ToLatest, c.on \in Service
            PROVE  Proven(live.latest[c.on])
        <5>1. /\ at > 1 /\ Flows[flow][at - 1].do.op \in {"new revision", "candidate"}
              /\ Flows[flow][at - 1].do.on = c.on
          BY <4>1, <4>4, AllTargets DEF Paired
        <5>2. live.latest[c.on] = release
          BY <1>0, <4>1, <4>4, <5>1 DEF JustDeployed
        <5>3. flow # "wi060"
          BY <4>2, <4>4
        <5> QED BY <5>2, <5>3 DEF Proven, flow
      <4>5. RoutesProven(Effect(c, live))
        BY <1>0, <4>1, <4>3, <4>4, RoutesStayProven
      <4> QED BY <3>1, <4>5 DEF c
    <3>2. CASE todo # << >> /\ live' = Effect(Head(todo), live)
      <4>1. Head(todo) \in Backs
        BY <3>2, HeadTailProperties DEF ReleaseTypeOK
      <4>2. /\ Head(todo) \in Commands
            /\ Head(todo).op \notin ToLatest \cup {"new revision", "tagged candidate", "to release"}
        BY <4>1 DEF Backs, Undos, Commands, ToLatest
      <4> QED BY <1>0, <3>2, <4>2, RoutesStayProven
    <3>3. CASE UNCHANGED live
      BY <1>0, <3>3
    <3> QED BY <3>1, <3>2, <3>3, Changes
  <2>3. \A r : Proven(r) => Proven(r)'
    BY <2>1 DEF Proven
  <2>4. RoutesProven(live)' /\ RoutesProven(before)'
    <3>1. \A s \in Service : Proven(live'.pinned[s]) /\ Proven(live'.tag[s])
      BY <2>2 DEF RoutesProven
    <3>2. \A s \in Service : live'.follows[s] => Proven(live'.latest[s])
      BY <2>2 DEF RoutesProven
    <3>3. \A s \in Service : Proven(before.pinned[s]) /\ Proven(before.tag[s])
      BY <1>0 DEF RoutesProven
    <3>4. \A s \in Service : before.follows[s] => Proven(before.latest[s])
      BY <1>0 DEF RoutesProven
    <3>5. RoutesProven(live)'
      BY <2>1, <3>1, <3>2 DEF RoutesProven, Proven
    <3>6. RoutesProven(before)'
      BY <2>1, <3>3, <3>4 DEF RoutesProven, Proven
    <3> QED BY <3>5, <3>6
  <2>5. CASE status' # "running"
    BY <2>4, <2>5 DEF SmokeFirst, JustDeployed, Done
  <2>6. CASE UNCHANGED releaseVars
    BY <1>0, <2>1, <2>4, <2>6 DEF SmokeFirst, JustDeployed, Done, releaseVars
  <2>7. CASE Do
    <3>0. at \in Nat
      BY <2>7, NowIs DEF Do
    <3>1. /\ at' = at + 1 /\ at' - 1 = at /\ Running /\ live' = Effect(Now.do, live)
          /\ Now.do \in Commands /\ Now.do = Flows[flow][at].do
      <4>1. Running /\ at' = at + 1 /\ live' = Effect(Now.do, live)
        BY <2>7 DEF Do, Take
      <4>2. Now.do \in Commands
        BY <4>1, NowIs
      <4>3. at' - 1 = at
        BY <3>0, <4>1
      <4> QED BY <4>1, <4>2, <4>3 DEF Now
    <3>2. JustDeployed'
      <4> SUFFICES ASSUME Now.do.op \in {"new revision", "candidate"}, Now.do.on \in Service
                   PROVE  live'.latest[Now.do.on] = release
        BY <2>1, <3>1 DEF JustDeployed
      <4>1. live'.latest = [live.latest EXCEPT ![Now.do.on] = release]
        BY <1>0, <3>1, EffectFields
      <4>2. live.latest \in [Service -> 0 .. release]
        BY <1>0 DEF Boards
      <4> QED BY <4>1, <4>2
    <3>3. Done({"smoke candidate"})' => release' \in smoked'
      <4> SUFFICES ASSUME Done({"smoke candidate"})' PROVE release \in smoked'
        BY <2>1
      <4>1. PICK i \in 1 .. at : Flows[flow][i].do.op \in {"smoke candidate"}
        BY <2>1, <3>1 DEF Done
      <4>2. i \in 1 .. at - 1 \/ i = at
        BY <3>0, <4>1, LastOne
      <4>3. CASE i \in 1 .. at - 1
        BY <1>0, <2>1, <3>1, <4>1, <4>3 DEF Done, Running
      <4>4. CASE i = at
        BY <2>7, <3>1, <4>1, <4>4 DEF Do
      <4> QED BY <4>2, <4>3, <4>4
    <3> QED BY <2>4, <3>2, <3>3 DEF SmokeFirst
  <2> QED BY <2>1, <2>5, <2>6, <2>7
<1> QED BY <1>1, <1>2

LEMMA SmokeFirstAtFirst ==
  ASSUME ReleaseInit
  PROVE  SmokeFirst
<1>1. \A s \in Service : live.pinned[s] = 0 /\ live.tag[s] = 0 /\ live.latest[s] = 0
  BY DEF ReleaseInit
<1>2. ~(0 > 0)
  OBVIOUS
<1> QED BY <1>1, <1>2 DEF ReleaseInit, SmokeFirst, RoutesProven, Proven, JustDeployed, Done

-----------------------------------------------------------------------------
\* Type correctness: what a release holds, its place in its target, its undo list.
THEOREM ReleaseTypeCorrect == ReleaseSpec => []ReleaseTypeOK
<1>1. ReleaseInit => ReleaseTypeOK
  BY ReleaseTypedAtFirst
<1>2. ReleaseTypeOK /\ [ReleaseNext]_releaseVars => ReleaseTypeOK'
  BY ReleaseTyped
<1> QED BY <1>1, <1>2, PTL DEF ReleaseSpec

\* What is in use is held, and the two invariants say the rest.
LEMMA InUseIsHeld ==
  ASSUME ReleaseTypeOK, NEW r, r \in InUse
  PROVE  Held(live, r)
<1>1. /\ live.job \in [Job -> 0 .. release] /\ live.tag \in [Service -> 0 .. release]
  BY DEF ReleaseTypeOK, Boards
<1>2. CASE r \in Range(live.job)
  BY <1>1, <1>2 DEF Range, Held
<1>3. CASE r \in Range(live.tag)
  BY <1>1, <1>3 DEF Range, Held
<1>4. CASE r \in {Serving(live, s) : s \in Service}
  BY <1>4 DEF Serving, Held
<1> QED BY <1>2, <1>3, <1>4 DEF InUse

LEMMA SafeToUse ==
  ASSUME ReleaseTypeOK, SchemaFirst, SmokeFirst
  PROVE  NothingBeforeItsSchema
<1> SUFFICES ASSUME NEW r \in 1 .. release
             PROVE  /\ r \in InUse /\ Migrates(flowOf[r]) => r \in schema
                    /\ r = Serving(live, "remote") /\ flowOf[r] = "wi060" => r \in smoked
  BY DEF NothingBeforeItsSchema
<1>1. r \in InUse /\ Migrates(flowOf[r]) => r \in schema
  BY InUseIsHeld DEF SchemaFirst
<1>2. Proven(Serving(live, "remote"))
  <2>1. "remote" \in Service
    BY DEF Service
  <2>2. Proven(live.pinned["remote"])
    BY <2>1 DEF SmokeFirst, RoutesProven
  <2>3. live.follows["remote"] => Proven(live.latest["remote"])
    BY <2>1 DEF SmokeFirst, RoutesProven
  <2> QED BY <2>2, <2>3 DEF Serving
<1>3. r > 0
  BY StandsAt
<1> QED BY <1>1, <1>2, <1>3 DEF Proven

\* Whatever is cancelled, fails or follows, a Job or a route stands at a release
\* only after that release's migration, and the resilience release takes stable
\* traffic only after its zero-traffic candidate passed the smoke.
THEOREM SchemaSafe == ReleaseSpec => []NothingBeforeItsSchema
<1> DEFINE Inv == ReleaseTypeOK /\ SchemaFirst /\ SmokeFirst
<1>1. ReleaseInit => Inv
  BY ReleaseTypedAtFirst, SchemaFirstAtFirst, SmokeFirstAtFirst
<1>2. Inv /\ [ReleaseNext]_releaseVars => Inv'
  BY ReleaseTyped, SchemaFirstHolds, SmokeFirstHolds
<1>3. Inv => NothingBeforeItsSchema
  BY SafeToUse
<1> QED BY <1>1, <1>2, <1>3, PTL DEF ReleaseSpec

-----------------------------------------------------------------------------
(* One schedule per trade scope.  Only the cut-over (wi063) creates a new  *)
(* schedule, pauses an old one, and lists them in its undo commands: there *)
(* the pause of each new schedule comes before the resume of the old one.  *)
Old(i) == <<"legacy", i>>
New(i) == <<"trade", i>>
Scopes == DOMAIN TradeJobs
ScheduleBacks == Undos \cup {Cmd("pause", New(i)) : i \in Scopes} \cup {Cmd("resume", Old(i)) : i \in Scopes}

PausedBy(u, k, i) == \E m \in 1 .. k - 1 : u[m] = Cmd("pause", New(i))
PauseLost == \E x \in lost : x[2].op = "pause"

OneSchedule ==
  /\ OneSchedulePerScope
  /\ \A i \in Scopes : live.sched[Old(i)] # "absent"
  /\ status = "running" /\ flow = "wi063" =>
       \A i \in Scopes : Len(Opening) + i < at => live.sched[Old(i)] = "PAUSED"
  /\ todo \in Seq(ScheduleBacks)
  /\ status = "undoing" /\ ~PauseLost =>
       \A k \in 1 .. Len(todo), i \in Scopes : todo[k] = Cmd("resume", Old(i)) =>
         live.sched[New(i)] # "ENABLED" \/ PausedBy(todo, k, i)

Scheduling == {"schedule", "pause legacy", "pause", "resume"}

LEMMA ScopesAre ==
  /\ Scopes = 1 .. Len(TradeJobs) /\ Len(TradeJobs) \in Nat
  /\ \A i \in Scopes : Old(i) \in Scheduler /\ New(i) \in Scheduler
  BY JobLists DEF Scopes, Old, New, Scheduler

LEMMA ScopesCount == Len(Opening) \in Nat /\ \A i \in Scopes : i \in Nat /\ i > 0
<1>1. Len(Opening) \in Nat
  BY Wi063
<1>2. \A i \in 1 .. Len(TradeJobs) : i \in Nat /\ i > 0
  OBVIOUS
<1> QED BY <1>1, <1>2, ScopesAre

\* What the undo commands of any step are, and their order.
LEMMA CutOverUndo ==
  ASSUME NEW j \in 1 .. Len(Flows["wi063"]), j \notin 1 .. Len(Opening)
  PROVE  Flows["wi063"][j].undo = CutBack
<1>1. Flows["wi063"] = _deploy_wi063
  BY DEF Flows
<1>2. \/ \E k \in 1 .. Len(TradeJobs) : j = Len(Opening) + k
      \/ \E k \in 1 .. Len(TradeJobs) : j = (Len(Opening) + Len(TradeJobs)) + k
  BY <1>1, Wi063Indices
<1>3. ASSUME NEW k \in 1 .. Len(TradeJobs), j = Len(Opening) + k PROVE Flows["wi063"][j].undo = CutBack
  <2>1. Flows["wi063"][j] = Task(Cmd("pause legacy", <<"legacy", k>>), CutBack)
    BY <1>1, <1>3, Wi063
  <2> QED BY <2>1, TaskIs
<1>4. ASSUME NEW k \in 1 .. Len(TradeJobs), j = (Len(Opening) + Len(TradeJobs)) + k
      PROVE  Flows["wi063"][j].undo = CutBack
  <2>1. Flows["wi063"][j] = Task(Cmd("schedule", <<"trade", k>>), CutBack)
    BY <1>1, <1>4, Wi063
  <2> QED BY <2>1, TaskIs
<1> QED BY <1>2, <1>3, <1>4

LEMMA UndosOfSchedules ==
  ASSUME NEW f \in FlowNames, NEW j \in 1 .. Len(Flows[f])
  PROVE  /\ Flows[f][j].undo \in Seq(ScheduleBacks)
         /\ \A k \in 1 .. Len(Flows[f][j].undo), i \in Scopes :
              Flows[f][j].undo[k] = Cmd("resume", Old(i)) => PausedBy(Flows[f][j].undo, k, i)
<1>1. ASSUME NEW u \in Seq(Undos)
      PROVE  /\ u \in Seq(ScheduleBacks)
             /\ \A k \in 1 .. Len(u), i \in Scopes : u[k] # Cmd("resume", Old(i))
  <2>1. u \in Seq(ScheduleBacks)
    BY <1>1, SeqMonotonic DEF ScheduleBacks
  <2>2. \A k \in 1 .. Len(u) : u[k].op # "resume"
    <3>1. \A k \in 1 .. Len(u) : u[k] \in Undos
      BY <1>1, ElementOfSeq
    <3> QED BY <3>1 DEF Undos
  <2>3. \A x : Cmd("resume", x).op = "resume"
    BY DEF Cmd
  <2> QED BY <2>1, <2>2, <2>3
<1>2. CASE f # "wi063"
  <2>1. Flows[f] \in Seq(Tasks)
    BY <1>2, Targets, FlowsAreTargets DEF Target
  <2>2. Flows[f][j] \in Tasks
    BY <2>1, ElementOfSeq
  <2>3. Flows[f][j].undo \in Seq(Undos)
    BY <2>2 DEF Tasks
  <2> QED BY <1>1, <2>3
<1>3. ASSUME f = "wi063", j \in 1 .. Len(Opening)
      PROVE  Flows[f][j].undo \in Seq(Undos)
  <2>1. Flows[f][j] = Opening[j] /\ Opening[j].undo = << >>
    BY <1>3, Wi063, OpeningIs DEF Flows
  <2> QED BY <2>1, Empty
<1>4. ASSUME f = "wi063", j \notin 1 .. Len(Opening)
      PROVE  Flows[f][j].undo = CutBack
  BY <1>4, CutOverUndo
<1>5. CutBack \in Seq(ScheduleBacks)
  <2>1. CutBack \in Seq(Backs) /\ Len(CutBack) = Len(TradeJobs) + Len(TradeJobs)
    BY CutBackIs
  <2>2. ASSUME NEW k \in 1 .. Len(CutBack) PROVE CutBack[k] \in ScheduleBacks
    <3>1. k \in 1 .. Len(TradeJobs) \/ (k - Len(TradeJobs) \in 1 .. Len(TradeJobs) /\ k = Len(TradeJobs) + (k - Len(TradeJobs)))
      BY <2>1, ScopesAre
    <3>2. CASE k \in 1 .. Len(TradeJobs)
      BY <3>2, CutBackIs, ScopesAre DEF ScheduleBacks, New
    <3>3. CASE k - Len(TradeJobs) \in 1 .. Len(TradeJobs) /\ k = Len(TradeJobs) + (k - Len(TradeJobs))
      <4>1. PICK i \in 1 .. Len(TradeJobs) : CutBack[Len(TradeJobs) + (k - Len(TradeJobs))] = Cmd("resume", <<"legacy", i>>)
        BY <3>3, CutBackIs
      <4> QED BY <3>3, <4>1, ScopesAre DEF ScheduleBacks, Old
    <3> QED BY <3>1, <3>2, <3>3
  <2> QED BY <2>1, <2>2, SeqDef, LenProperties
<1>6. ASSUME NEW k \in 1 .. Len(CutBack), NEW i \in Scopes, CutBack[k] = Cmd("resume", Old(i))
      PROVE  PausedBy(CutBack, k, i)
  <2>1. k \notin 1 .. Len(TradeJobs)
    <3>1. \A x, y : Cmd("resume", x) # Cmd("pause", y)
      BY DEF Cmd
    <3> QED BY <1>6, <3>1, CutBackIs
  <2>2. i \in 1 .. k - 1 /\ i \in 1 .. Len(TradeJobs)
    <3>1. Len(CutBack) = Len(TradeJobs) + Len(TradeJobs)
      BY CutBackIs
    <3> QED BY <2>1, <3>1, ScopesAre
  <2> QED BY <2>2, CutBackIs DEF PausedBy, New
<1> QED BY <1>1, <1>2, <1>3, <1>4, <1>5, <1>6

\* What the steps do to the schedules.
LEMMA StepsOfSchedules ==
  ASSUME NEW f \in FlowNames, NEW j \in 1 .. Len(Flows[f])
  PROVE  LET c == Flows[f][j].do
             n == Len(TradeJobs)
             m == Len(Opening)
         IN  \/ c.op \notin Scheduling
             \/ f # "wi063" /\ c.op = "schedule" /\ c.on \in OldSchedules
             \/ f = "wi063" /\ \E k \in Scopes : j = m + k /\ c = Cmd("pause legacy", Old(k))
             \/ f = "wi063" /\ \E k \in Scopes : j = (m + n) + k /\ c = Cmd("schedule", New(k))
<1>1. CASE f # "wi063"
  <2>1. Flows[f] \in Seq(Tasks)
    BY <1>1, Targets, FlowsAreTargets DEF Target
  <2>2. Flows[f][j] \in Tasks
    BY <2>1, ElementOfSeq
  <2> QED BY <1>1, <2>2 DEF Tasks, PlainCommands, Quiet, Brings, ToLatest, Scheduling
<1>2. CASE f = "wi063"
  <2>1. Flows[f] = _deploy_wi063
    BY <1>2 DEF Flows
  <2>2. CASE j \in 1 .. Len(Opening)
    <3>1. Opening[j] \in PlainTasks /\ Opening[j].do.op # "schedule"
      BY <2>2, OpeningIs, ElementOfSeq DEF PlainTarget
    <3>2. Flows[f][j] = Opening[j]
      BY <2>1, <2>2, Wi063
    <3> QED BY <3>1, <3>2 DEF PlainTasks, PlainCommands, Quiet, Brings, ToLatest, Scheduling
  <2>3. ASSUME NEW k \in 1 .. Len(TradeJobs), j = Len(Opening) + k
        PROVE  Flows[f][j].do = Cmd("pause legacy", Old(k))
    BY <2>1, <2>3, Wi063, TaskIs DEF Old
  <2>4. ASSUME NEW k \in 1 .. Len(TradeJobs), j = (Len(Opening) + Len(TradeJobs)) + k
        PROVE  Flows[f][j].do = Cmd("schedule", New(k))
    BY <2>1, <2>4, Wi063, TaskIs DEF New
  <2> QED BY <1>2, <2>1, <2>2, <2>3, <2>4, Wi063Indices, ScopesAre
<1> QED BY <1>1, <1>2

\* What a command does to the two schedules of a scope.
LEMMA ScopeEffect ==
  ASSUME ReleaseTypeOK, NEW c \in Commands, NEW i \in Scopes
  PROVE  LET m == Effect(c, live).sched
             old == live.sched[Old(i)]
             new == live.sched[New(i)]
         IN
         /\ c.op \notin Scheduling => m = live.sched
         /\ c.op = "schedule" /\ c.on \in OldSchedules /\ old # "absent" => m[Old(i)] = old /\ m[New(i)] = new
         /\ \A k \in Scopes : c = Cmd("pause legacy", Old(k)) =>
              m[New(i)] = new /\ m[Old(i)] = IF i = k /\ old # "absent" THEN "PAUSED" ELSE old
         /\ \A k \in Scopes : c = Cmd("schedule", New(k)) => m[Old(i)] = old /\ (i # k => m[New(i)] = new)
         /\ \A k \in Scopes : c = Cmd("pause", New(k)) =>
              m[Old(i)] = old /\ m[New(i)] = IF i = k /\ new # "absent" THEN "PAUSED" ELSE new
         /\ \A k \in Scopes : c = Cmd("resume", Old(k)) =>
              /\ m[New(i)] = new
              /\ m[Old(i)] = IF i = k /\ Old(i) \in paused THEN "ENABLED" ELSE old
<1> DEFINE m == Effect(c, live).sched
           x == c.on
           old == live.sched[Old(i)]
           new == live.sched[New(i)]
<1>1. live \in Boards(release) /\ live.sched \in [Scheduler -> Schedules]
  BY DEF ReleaseTypeOK, Boards
<1>2. m = IF c.op = "schedule"
          THEN [live.sched EXCEPT ![x] = IF live.sched[x] = "absent" THEN "ENABLED" ELSE live.sched[x]]
          ELSE IF c.op \in {"pause legacy", "pause"}
               THEN [live.sched EXCEPT ![x] = IF live.sched[x] = "absent" THEN live.sched[x] ELSE "PAUSED"]
               ELSE IF c.op = "resume"
                    THEN [live.sched EXCEPT ![x] = IF x \in paused THEN "ENABLED" ELSE live.sched[x]] ELSE live.sched
  BY <1>1, EffectFields
<1> HIDE DEF m
<1>3. \A k \in Scopes : /\ Old(i) \in Scheduler /\ New(i) \in Scheduler
                        /\ Old(i) # New(k) /\ New(i) # Old(k)
                        /\ (Old(i) = Old(k) <=> i = k) /\ (New(i) = New(k) <=> i = k)
  <2>1. "legacy" # "trade"
    OBVIOUS
  <2> QED BY <2>1, ScopesAre DEF Old, New
<1>4. c.op \notin Scheduling => m = live.sched
  BY <1>2 DEF Scheduling
<1>5. ASSUME c.op = "schedule", c.on \in OldSchedules, old # "absent"
      PROVE  m[Old(i)] = old /\ m[New(i)] = new
  <2>1. x # New(i)
    BY <1>5 DEF OldSchedules, New
  <2> QED BY <1>1, <1>2, <1>3, <1>5, <2>1
<1>6. ASSUME NEW k \in Scopes, c = Cmd("pause legacy", Old(k))
      PROVE  m[New(i)] = new /\ m[Old(i)] = IF i = k /\ old # "absent" THEN "PAUSED" ELSE old
  <2>1. c.op = "pause legacy" /\ c.on = Old(k)
    BY <1>6 DEF Cmd
  <2> QED BY <1>1, <1>2, <1>3, <2>1
<1>7. ASSUME NEW k \in Scopes, c = Cmd("schedule", New(k))
      PROVE  m[Old(i)] = old /\ (i # k => m[New(i)] = new)
  <2>1. c.op = "schedule" /\ c.on = New(k)
    BY <1>7 DEF Cmd
  <2> QED BY <1>1, <1>2, <1>3, <2>1
<1>8. ASSUME NEW k \in Scopes, c = Cmd("pause", New(k))
      PROVE  m[Old(i)] = old /\ m[New(i)] = IF i = k /\ new # "absent" THEN "PAUSED" ELSE new
  <2>1. c.op = "pause" /\ c.on = New(k)
    BY <1>8 DEF Cmd
  <2> QED BY <1>1, <1>2, <1>3, <2>1
<1>9. ASSUME NEW k \in Scopes, c = Cmd("resume", Old(k))
      PROVE  m[New(i)] = new /\ m[Old(i)] = IF i = k /\ Old(i) \in paused THEN "ENABLED" ELSE old
  <2>1. c.op = "resume" /\ c.on = Old(k)
    BY <1>9 DEF Cmd
  <2> QED BY <1>1, <1>2, <1>3, <2>1
<1> QED BY <1>4, <1>5, <1>6, <1>7, <1>8, <1>9 DEF m

\* A scope that had one schedule has one after a step's command.
LEMMA TakesOneSchedule ==
  ASSUME ReleaseTypeOK, OneSchedule, Running, NEW i \in Scopes
  PROVE  LET m == Effect(Now.do, live).sched
             old == live.sched[Old(i)]
             new == live.sched[New(i)]
         IN  /\ m[Old(i)] # "absent"
             /\ m[Old(i)] = "ENABLED" => old = "ENABLED" /\ m[New(i)] = new
             /\ flow = "wi063" /\ Len(Opening) + i <= at => m[Old(i)] = "PAUSED"
<1> DEFINE c == Now.do
           m == Effect(c, live).sched
           old == live.sched[Old(i)]
           new == live.sched[New(i)]
           n == Len(TradeJobs)
           o == Len(Opening)
<1>1. /\ at \in 1 .. Len(Flows[flow]) /\ at \in Nat /\ flow \in FlowNames /\ c \in Commands
      /\ c = Flows[flow][at].do
  BY NowIs DEF Now
<1>2. at \in Nat /\ n \in Nat /\ o \in Nat /\ i \in Nat /\ i \in 1 .. n
  <2>1. n \in Nat /\ i \in 1 .. n
    BY ScopesAre
  <2>2. o \in Nat
    BY Wi063
  <2>3. at \in Nat
    BY <1>1
  <2> QED BY <2>1, <2>2, <2>3
<1>3. /\ old # "absent"
      /\ flow = "wi063" => (\A k \in Scopes : o + k < at => live.sched[Old(k)] = "PAUSED")
  BY DEF OneSchedule, Running
<1> HIDE DEF c, n, o
<1>4. CASE c.op \notin Scheduling \/ (c.op = "schedule" /\ c.on \in OldSchedules)
  <2>1. m[Old(i)] = old /\ m[New(i)] = new
    BY <1>1, <1>3, <1>4, ScopeEffect
  <2>2. ASSUME flow = "wi063", o + i <= at PROVE o + i < at
    <3>1. at # o + i
      <4>1. SUFFICES ASSUME at = o + i PROVE FALSE
        OBVIOUS
      <4>2. Flows[flow] = _deploy_wi063
        BY <2>2 DEF Flows
      <4>3. c = Cmd("pause legacy", Old(i))
        BY <1>1, <1>2, <4>1, <4>2, Wi063, TaskIs DEF n, o, Old
      <4>4. c.op = "pause legacy"
        BY <4>3 DEF Cmd
      <4> QED BY <1>4, <4>4 DEF Scheduling
    <3> QED BY <1>2, <2>2, <3>1
  <2> QED BY <1>3, <2>1, <2>2 DEF c, o
<1>5. ASSUME NEW k \in Scopes, flow = "wi063", at = o + k, c = Cmd("pause legacy", Old(k))
      PROVE  /\ m[Old(i)] # "absent"
             /\ m[Old(i)] = "ENABLED" => old = "ENABLED" /\ m[New(i)] = new
             /\ o + i <= at => m[Old(i)] = "PAUSED"
  <2>1. m[New(i)] = new /\ m[Old(i)] = IF i = k THEN "PAUSED" ELSE old
    BY <1>1, <1>3, <1>5, ScopeEffect
  <2>2. k \in Nat /\ at = o + k
    BY <1>5, ScopesCount
  <2>3. o + i <= at /\ i # k => o + i < at
    BY <1>2, <2>2
  <2> QED BY <1>3, <1>5, <2>1, <2>3
<1>6. ASSUME NEW k \in Scopes, flow = "wi063", at = (o + n) + k, c = Cmd("schedule", New(k))
      PROVE  m[Old(i)] = "PAUSED"
  <2>1. o + i < at
    <3>1. k \in Nat /\ k > 0 /\ i <= n
      BY <1>2, <1>6, ScopesAre
    <3> QED BY <1>2, <1>6, <3>1
  <2>2. old = "PAUSED"
    BY <1>3, <1>6, <2>1
  <2> QED BY <1>1, <1>6, <2>2, ScopeEffect
<1>7. \/ c.op \notin Scheduling \/ (c.op = "schedule" /\ c.on \in OldSchedules)
      \/ \E k \in Scopes : flow = "wi063" /\ at = o + k /\ c = Cmd("pause legacy", Old(k))
      \/ \E k \in Scopes : flow = "wi063" /\ at = (o + n) + k /\ c = Cmd("schedule", New(k))
  BY <1>1, StepsOfSchedules DEF n, o
<1>8. CASE \E k \in Scopes : flow = "wi063" /\ at = o + k /\ c = Cmd("pause legacy", Old(k))
  BY <1>5, <1>8 DEF c, o
<1>9. CASE \E k \in Scopes : flow = "wi063" /\ at = (o + n) + k /\ c = Cmd("schedule", New(k))
  BY <1>6, <1>9 DEF c
<1> QED BY <1>4, <1>7, <1>8, <1>9

\* The same after an undo command, unless a pause was lost.
LEMMA UndoesOneSchedule ==
  ASSUME ReleaseTypeOK, OneSchedule, status = "undoing", todo # << >>, NEW i \in Scopes
  PROVE  LET m == Effect(Head(todo), live).sched
             old == live.sched[Old(i)]
             new == live.sched[New(i)]
         IN  /\ m[Old(i)] # "absent"
             /\ new # "ENABLED" \/ Head(todo) = Cmd("pause", New(i)) => m[New(i)] # "ENABLED"
             /\ \/ m[Old(i)] = old /\ (m[New(i)] = "ENABLED" => new = "ENABLED")
                \/ PauseLost
                \/ m[New(i)] # "ENABLED"
<1> DEFINE c == Head(todo)
           m == Effect(c, live).sched
           old == live.sched[Old(i)]
           new == live.sched[New(i)]
<1>1. c \in ScheduleBacks /\ todo \in Seq(ScheduleBacks) /\ c = todo[1] /\ 1 \in 1 .. Len(todo)
  BY HeadTailProperties, EmptySeq, LenProperties DEF OneSchedule
<1>2. c \in Commands
  <2>1. todo \in Seq(Backs)
    BY DEF ReleaseTypeOK
  <2>2. Head(todo) \in Backs
    BY <2>1, HeadTailProperties
  <2> QED BY <2>2, BacksBringNothing
<1>3. old # "absent"
  BY DEF OneSchedule
<1> HIDE DEF c
<1>4. CASE c \in Undos
  <2>1. c.op \notin Scheduling
    BY <1>4 DEF Undos, Scheduling
  <2>2. c # Cmd("pause", New(i))
    <3>1. Cmd("pause", New(i)).op = "pause"
      BY DEF Cmd
    <3> QED BY <2>1, <3>1 DEF Scheduling
  <2> QED BY <1>2, <1>3, <2>1, <2>2, ScopeEffect DEF c
<1>5. ASSUME NEW k \in Scopes, c = Cmd("pause", New(k))
      PROVE  /\ m[Old(i)] = old /\ (m[New(i)] = "ENABLED" => new = "ENABLED")
             /\ c = Cmd("pause", New(i)) => m[New(i)] # "ENABLED"
  <2>1. m[Old(i)] = old /\ m[New(i)] = IF i = k /\ new # "absent" THEN "PAUSED" ELSE new
    BY <1>2, <1>5, ScopeEffect
  <2>2. c = Cmd("pause", New(i)) => i = k
    BY <1>5 DEF Cmd, New
  <2> QED BY <2>1, <2>2
<1>6. ASSUME NEW k \in Scopes, c = Cmd("resume", Old(k))
      PROVE  /\ m[New(i)] = new /\ m[Old(i)] # "absent"
             /\ m[Old(i)] = old \/ PauseLost \/ new # "ENABLED"
             /\ c # Cmd("pause", New(i))
  <2>1. m[New(i)] = new /\ m[Old(i)] = IF i = k /\ Old(i) \in paused THEN "ENABLED" ELSE old
    BY <1>2, <1>6, ScopeEffect
  <2>2. ASSUME ~PauseLost, i = k PROVE new # "ENABLED"
    <3>1. todo[1] = Cmd("resume", Old(i))
      BY <1>1, <1>6, <2>2
    <3>2. ~PausedBy(todo, 1, i)
      BY DEF PausedBy
    <3> QED BY <1>1, <2>2, <3>1, <3>2 DEF OneSchedule
  <2>3. c # Cmd("pause", New(i))
    BY <1>6 DEF Cmd
  <2> QED BY <1>3, <2>1, <2>2, <2>3
<1>7. c \in Undos \/ (\E k \in Scopes : c = Cmd("pause", New(k))) \/ (\E k \in Scopes : c = Cmd("resume", Old(k)))
  BY <1>1 DEF ScheduleBacks
<1>8. CASE \E k \in Scopes : c = Cmd("pause", New(k))
  BY <1>3, <1>5, <1>8 DEF c
<1>9. CASE \E k \in Scopes : c = Cmd("resume", Old(k))
  BY <1>6, <1>9 DEF c
<1> QED BY <1>4, <1>7, <1>8, <1>9

LEMMA OneScheduleHolds ==
  ASSUME ReleaseTypeOK, OneSchedule, [ReleaseNext]_releaseVars
  PROVE  OneSchedule'
<1>1. ASSUME NEW f \in FlowNames, Start(f) PROVE OneSchedule'
  <2>1. /\ live' = live /\ lost' = lost /\ at' = 1 /\ status' = "running" /\ todo' = << >>
    BY <1>1, Dispatched
  <2>2. \A i \in Scopes : ~(Len(Opening) + i < at')
    <3>1. Len(Opening) \in Nat /\ \A i \in Scopes : i \in Nat /\ i > 0
      BY ScopesCount
    <3> QED BY <2>1, <3>1
  <2>3. OneSchedulePerScope'
    BY <2>1 DEF OneSchedule, OneSchedulePerScope
  <2>4. todo' \in Seq(ScheduleBacks)
    BY <2>1, Empty
  <2> QED BY <2>1, <2>2, <2>3, <2>4 DEF OneSchedule
<1>2. ASSUME ~\E f \in FlowNames : Start(f) PROVE OneSchedule'
  <2>1. /\ flow' = flow /\ lost \subseteq lost'
        /\ status' = "running" => status = "running" /\ (UNCHANGED releaseVars \/ Do)
    BY <1>2, Onward
  <2>2. PauseLost => PauseLost'
    BY <2>1 DEF PauseLost
  <2>3. ASSUME NEW i \in Scopes
        PROVE  /\ live'.sched[Old(i)] # "absent"
               /\ live'.sched[Old(i)] = "ENABLED" /\ live'.sched[New(i)] = "ENABLED" => PauseLost
    <3>1. /\ live.sched[Old(i)] # "absent"
          /\ live.sched[Old(i)] = "ENABLED" /\ live.sched[New(i)] = "ENABLED" => PauseLost
      BY DEF OneSchedule, OneSchedulePerScope, PauseLost, Old, New, Scopes
    <3>2. CASE UNCHANGED live
      BY <3>1, <3>2
    <3>3. CASE Running /\ live' = Effect(Now.do, live)
      BY <3>1, <3>3, TakesOneSchedule
    <3>4. CASE status = "undoing" /\ todo # << >> /\ live' = Effect(Head(todo), live)
      BY <3>1, <3>4, UndoesOneSchedule
    <3> QED BY <3>2, <3>3, <3>4, Changes
  <2>4. OneSchedulePerScope' /\ \A i \in Scopes : live'.sched[Old(i)] # "absent"
    <3>1. OneSchedulePerScope'
      BY <2>2, <2>3 DEF OneSchedulePerScope, PauseLost, Old, New, Scopes
    <3> QED BY <2>3, <3>1
  <2>5. ASSUME status' = "running", flow' = "wi063", NEW i \in Scopes, Len(Opening) + i < at'
        PROVE  live'.sched[Old(i)] = "PAUSED"
    <3>1. CASE UNCHANGED releaseVars
      BY <2>1, <2>5, <3>1 DEF OneSchedule, releaseVars
    <3>2. CASE Do
      <4>1. Running /\ live' = Effect(Now.do, live) /\ at' = at + 1
        BY <3>2 DEF Do, Take
      <4>2. Len(Opening) + i <= at
        <5>1. at \in Nat /\ i \in Nat /\ Len(Opening) \in Nat /\ Len(Opening) + i < at + 1
          BY <2>5, <4>1, NowIs, ScopesCount
        <5> QED BY <5>1
      <4> QED BY <2>1, <2>5, <4>1, <4>2, TakesOneSchedule
    <3> QED BY <2>1, <2>5, <3>1, <3>2
  <2>6. todo' \in Seq(ScheduleBacks)
    <3>1. todo \in Seq(ScheduleBacks)
      BY DEF OneSchedule
    <3>2. CASE UNCHANGED todo
      BY <3>1, <3>2
    <3>3. CASE Fail \/ FailLate
      BY <3>3, NowIs, UndosOfSchedules DEF Fail, FailLate, Now
    <3>4. CASE Undo \/ UndoFails
      BY <3>1, <3>4, HeadTailProperties DEF Undo, UndoFails
    <3> QED BY <1>2, <3>2, <3>3, <3>4 DEF ReleaseNext, releaseVars, Do, Succeed, GiveUp, Die
  <2>7. ASSUME status' = "undoing", ~PauseLost', NEW k \in 1 .. Len(todo'), NEW i \in Scopes,
               todo'[k] = Cmd("resume", Old(i))
        PROVE  live'.sched[New(i)] # "ENABLED" \/ PausedBy(todo', k, i)
    <3>1. CASE UNCHANGED releaseVars
      BY <2>7, <3>1 DEF OneSchedule, PauseLost, PausedBy, releaseVars
    <3>2. CASE Fail \/ FailLate
      BY <2>7, <3>2, NowIs, UndosOfSchedules DEF Fail, FailLate, Now
    <3>3. CASE Undo \/ UndoFails
      <4>1. /\ status = "undoing" /\ todo # << >> /\ todo' = Tail(todo) /\ todo \in Seq(ScheduleBacks)
            /\ ~PauseLost
        BY <2>2, <2>7, <3>3 DEF Undo, UndoFails, OneSchedule
      <4>2. /\ k + 1 \in 1 .. Len(todo) /\ todo[k + 1] = Cmd("resume", Old(i)) /\ Head(todo) = todo[1]
            /\ \A j \in 1 .. Len(todo) - 1 : todo'[j] = todo[j + 1]
            /\ Len(todo) \in Nat /\ k \in Nat
        BY <2>7, <4>1, HeadTailProperties, LenProperties
      <4>3. ASSUME live.sched[New(i)] # "ENABLED" \/ Head(todo) = Cmd("pause", New(i))
            PROVE  live'.sched[New(i)] # "ENABLED"
        <5>1. CASE Undo
          <6>1. live' = Effect(Head(todo), live)
            BY <5>1 DEF Undo
          <6> QED BY <4>1, <4>3, <6>1, UndoesOneSchedule
        <5>2. CASE UndoFails
          <6>1. live' = live /\ <<release, Head(todo)>> \in lost'
            BY <5>2 DEF UndoFails
          <6>2. Head(todo).op # "pause"
            BY <2>7, <6>1 DEF PauseLost
          <6>3. Cmd("pause", New(i)).op = "pause"
            BY DEF Cmd
          <6> QED BY <4>3, <6>1, <6>2, <6>3
        <5> QED BY <3>3, <5>1, <5>2
      <4>4. live.sched[New(i)] # "ENABLED" \/ PausedBy(todo, k + 1, i)
        BY <4>1, <4>2 DEF OneSchedule
      <4>5. ASSUME NEW m \in 1 .. (k + 1) - 1, todo[m] = Cmd("pause", New(i)), m # 1
            PROVE  PausedBy(todo', k, i)
        <5>1. m - 1 \in 1 .. k - 1 /\ m - 1 \in 1 .. Len(todo) - 1 /\ (m - 1) + 1 = m
          BY <4>2, <4>5
        <5> QED BY <4>2, <4>5, <5>1 DEF PausedBy
      <4> QED BY <4>2, <4>3, <4>4, <4>5 DEF PausedBy
    <3> QED BY <1>2, <2>7, <3>1, <3>2, <3>3 DEF ReleaseNext, Do, Succeed, GiveUp, Die, Running
  <2> QED BY <2>4, <2>5, <2>6, <2>7 DEF OneSchedule
<1> QED BY <1>1, <1>2

LEMMA OneScheduleAtFirst ==
  ASSUME ReleaseInit
  PROVE  OneSchedule
<1>1. \A i \in Scopes : live.sched[Old(i)] = "ENABLED" /\ live.sched[New(i)] = "absent"
  BY ScopesAre DEF ReleaseInit, Old, New
<1>2. todo \in Seq(ScheduleBacks) /\ status = "idle"
  BY Empty DEF ReleaseInit
<1>3. OneSchedulePerScope
  BY <1>1 DEF OneSchedulePerScope, Old, New, Scopes
<1> QED BY <1>1, <1>2, <1>3 DEF OneSchedule

\* The old and the new schedule of a trade scope are never both enabled, unless
\* an undo could not pause the new one.
THEOREM OneScheduleAtATime == ReleaseSpec => []OneSchedulePerScope
<1> DEFINE Inv == ReleaseTypeOK /\ OneSchedule
<1>1. ReleaseInit => Inv
  BY ReleaseTypedAtFirst, OneScheduleAtFirst
<1>2. Inv /\ [ReleaseNext]_releaseVars => Inv'
  BY ReleaseTyped, OneScheduleHolds
<1>3. Inv => OneSchedulePerScope
  BY DEF OneSchedule
<1> QED BY <1>1, <1>2, <1>3, PTL DEF ReleaseSpec

-----------------------------------------------------------------------------
(* What a failed release puts back.  The undo command that puts back what  *)
(* a command changes: back is how the target puts its routes back.         *)
Routing == {"new revision", "tagged candidate", "to latest", "both to latest", "to release", "to tag"}

Fix(c, back) == IF c.op = "update job" THEN {Cmd("restore job", c.on)}
                ELSE IF c.op \in Routing /\ back # "none" THEN {Cmd(back, c.on)} ELSE {}

CoveredBy(s, U, back) == \A k \in 1 .. Len(s) : Fix(s[k].do, back) \subseteq U

\* Every step undoes its own command and those before it.
Undoes(s, back) ==
  \A i \in 1 .. Len(s) : /\ s[i].do.op \notin Scheduling
                         /\ \A k \in 1 .. i : Fix(s[k].do, back) \subseteq Range(s[i].undo)

LEMMA UndoesConcat ==
  ASSUME NEW s \in Seq(Tasks), NEW t \in Seq(Tasks), NEW back, Undoes(s, back), Undoes(t, back),
         \A i \in 1 .. Len(t) : CoveredBy(s, Range(t[i].undo), back)
  PROVE  Undoes(s \o t, back)
<1>1. Len(s) \in Nat /\ Len(t) \in Nat /\ Len(s \o t) = Len(s) + Len(t)
  BY LenProperties, ConcatProperties
<1>2. ASSUME NEW i \in 1 .. Len(s \o t)
      PROVE  /\ (s \o t)[i].do.op \notin Scheduling
             /\ \A k \in 1 .. i : Fix((s \o t)[k].do, back) \subseteq Range((s \o t)[i].undo)
  <2>0. \A k \in 1 .. i : k \in 1 .. Len(s \o t)
    BY <1>1
  <2>1. CASE i \in 1 .. Len(s) /\ (s \o t)[i] = s[i]
    <3>1. \A k \in 1 .. i : (s \o t)[k] = s[k]
      <4> TAKE k \in 1 .. i
      <4>1. k \in 1 .. Len(s) + Len(t) /\ k <= Len(s)
        BY <1>1, <2>1
      <4> QED BY <4>1, ConcatProperties
    <3> QED BY <2>1, <3>1 DEF Undoes
  <2>2. CASE i > Len(s) /\ i - Len(s) \in 1 .. Len(t) /\ (s \o t)[i] = t[i - Len(s)]
    <3>1. ASSUME NEW k \in 1 .. i
          PROVE  Fix((s \o t)[k].do, back) \subseteq Range(t[i - Len(s)].undo)
      <4>1. CASE k \in 1 .. Len(s) /\ (s \o t)[k] = s[k]
        BY <2>2, <4>1 DEF CoveredBy
      <4>2. CASE k > Len(s) /\ (s \o t)[k] = t[k - Len(s)]
        <5>1. k - Len(s) \in 1 .. i - Len(s)
          BY <1>1, <2>2, <4>2
        <5> QED BY <2>2, <4>2, <5>1 DEF Undoes
      <4> QED BY <2>0, <4>1, <4>2, Parts
    <3> QED BY <2>2, <3>1 DEF Undoes
  <2> QED BY <2>1, <2>2, Parts
<1> QED BY <1>2 DEF Undoes

LEMMA CoveredConcat ==
  ASSUME NEW s \in Seq(Tasks), NEW t \in Seq(Tasks), NEW back, NEW U,
         CoveredBy(s, U, back), CoveredBy(t, U, back)
  PROVE  CoveredBy(s \o t, U, back)
  BY Parts DEF CoveredBy

\* Steps guarded by what puts all of them back.
LEMMA GuardedUndoes ==
  ASSUME NEW s, PlainTarget(s), NEW u \in Seq(Undos), NEW back, CoveredBy(s, Range(u), back),
         \A i \in 1 .. Len(s) : s[i].do.op \notin Scheduling
  PROVE  /\ Guarded(s, u) \in Seq(Tasks) /\ Undoes(Guarded(s, u), back)
         /\ \A i \in 1 .. Len(Guarded(s, u)) : Range(u) \subseteq Range(Guarded(s, u)[i].undo)
<1> DEFINE g == Guarded(s, u)
<1>1. /\ PlainTarget(g) /\ Len(g) = Len(s) /\ Len(s) \in Nat
      /\ \A i \in 1 .. Len(s) : g[i].do = s[i].do /\ g[i].undo = s[i].undo \o u /\ s[i].undo \in Seq(Undos)
  BY GuardedIs, LenProperties DEF PlainTarget
<1> HIDE DEF g
<1>2. \A i \in 1 .. Len(s) : Range(u) \subseteq Range(g[i].undo)
  <2> TAKE i \in 1 .. Len(s)
  <2>1. g[i].undo = s[i].undo \o u /\ s[i].undo \in Seq(Undos)
    BY <1>1
  <2>2. Range(s[i].undo \o u) = Range(s[i].undo) \cup Range(u)
    BY <2>1, RangeConcatenation
  <2> QED BY <2>1, <2>2
<1>3. g \in Seq(Tasks)
  BY <1>1, PlainIsTarget DEF Target
<1>4. \A i \in 1 .. Len(g) : \A k \in 1 .. i : k \in 1 .. Len(s)
  BY <1>1
<1>5. Undoes(g, back)
  BY <1>1, <1>2, <1>4 DEF Undoes, CoveredBy
<1> QED BY <1>1, <1>2, <1>3, <1>5 DEF g

\* Commands that nothing puts back.
LEMMA NothingToFix ==
  ASSUME NEW c, NEW back, c.op \notin Routing \cup {"update job"}
  PROVE  Fix(c, back) = {}
  BY DEF Fix

LEMMA HeadUndoes ==
  ASSUME NEW h \in Heads \cup {<<Look>>}, NEW back
  PROVE  h \in Seq(Tasks) /\ Undoes(h, back) /\ \A U : CoveredBy(h, U, back)
<1>1. h \in Seq(Tasks)
  <2>1. CASE h \in Heads
    BY <2>1, HeadMigrates DEF Migrating, Target
  <2>2. CASE h = <<Look>>
    BY <2>2, SingleSteps, Empty, PlainIsTarget DEF Target
  <2> QED BY <2>1, <2>2
<1>2. \A x \in {Look, Migrate, Execute} : x.do.op \in {"look", "migrate", "execute"}
  BY DEF Look, Migrate, Execute, Task, Cmd
<1>3. \A i \in 1 .. Len(h) : h[i] \in {Look, Migrate, Execute}
  BY DEF Heads
<1>4. \A i \in 1 .. Len(h) : h[i].do.op \notin Routing \cup {"update job"} \cup Scheduling
  BY <1>2, <1>3 DEF Routing, Scheduling
<1>5. \A i \in 1 .. Len(h) : Fix(h[i].do, back) = {}
  BY <1>4, NothingToFix
<1>6. Len(h) \in Nat
  BY <1>1, LenProperties
<1>7. \A i \in 1 .. Len(h) : \A k \in 1 .. i : k \in 1 .. Len(h)
  BY <1>6
<1> QED BY <1>1, <1>4, <1>5, <1>7 DEF Undoes, CoveredBy

LEMMA SomeJobsUndoes ==
  ASSUME NEW list \in Seq(Job), NEW routes \in Seq(Undos), NEW back
  PROVE  LET u == UpdateSomeJobs(list, routes) IN
         /\ u \in Seq(Tasks) /\ Undoes(u, back)
         /\ CoveredBy(u, Range(_rollback_job_definitions(list)), back)
<1> DEFINE u == UpdateSomeJobs(list, routes)
<1>1. /\ PlainTarget(u) /\ Len(u) = Len(list)
      /\ \A i \in 1 .. Len(list) : /\ u[i].do = Cmd("update job", list[i])
                                    /\ \A k \in 1 .. i : Cmd("restore job", list[k]) \in Range(u[i].undo)
  BY SomeJobsAre
<1> HIDE DEF u
<1>2. \A i \in 1 .. Len(list) : u[i].do.op = "update job" /\ Fix(u[i].do, back) = {Cmd("restore job", list[i])}
  <2> TAKE i \in 1 .. Len(list)
  <2>1. u[i].do = Cmd("update job", list[i])
    BY <1>1
  <2>2. Cmd("update job", list[i]).op = "update job" /\ Cmd("update job", list[i]).on = list[i]
    BY DEF Cmd
  <2>3. Fix(Cmd("update job", list[i]), back) = {Cmd("restore job", list[i])}
    BY <2>2 DEF Fix
  <2> QED BY <2>1, <2>2, <2>3
<1>3. u \in Seq(Tasks) /\ Len(list) \in Nat
  BY <1>1, PlainIsTarget, LenProperties DEF Target
<1>4. \A i \in 1 .. Len(list) : \A k \in 1 .. i : k \in 1 .. Len(list)
  BY <1>3
<1>5. Undoes(u, back)
  BY <1>1, <1>2, <1>4 DEF Undoes, Scheduling
<1>6. CoveredBy(u, Range(_rollback_job_definitions(list)), back)
  <2>1. \A k \in 1 .. Len(list) : Cmd("restore job", list[k]) \in Range(_rollback_job_definitions(list))
    BY RollbackIs
  <2>2. \A k \in 1 .. Len(u) : Fix(u[k].do, back) = {Cmd("restore job", list[k])}
    BY <1>1, <1>2
  <2> QED BY <1>1, <2>1, <2>2 DEF CoveredBy
<1> QED BY <1>3, <1>5, <1>6 DEF u

LEMMA Wi065Undone ==
  ASSUME NEW u \in Seq(Undos), Cmd("routes back", "remote") \in Range(u)
  PROVE  LET g == Guarded(_deploy_wi065, u) IN
         /\ g \in Seq(Tasks) /\ Undoes(g, "routes back")
         /\ \A i \in 1 .. Len(g) : Range(u) \subseteq Range(g[i].undo)
<1> DEFINE t == Steps(<<Cmd("new revision", "remote"), Cmd("both to latest", "remote")>>)
           Fine == {x \in PlainTasks : x.do.op \notin Scheduling /\ Fix(x.do, "routes back") \subseteq Range(u)}
<1>1. /\ t \in Seq(PlainTasks) /\ Len(t) = 2
      /\ t[1] = Task(Cmd("new revision", "remote"), << >>) /\ t[2] = Task(Cmd("both to latest", "remote"), << >>)
  BY NewThenLatest DEF Service, ToLatest, PlainTarget
<1>2. Look \in PlainTasks /\ Smoke(RoutesBack) \in PlainTasks
  BY Fixed, RoutesBackIs
<1>3. Look \in Fine /\ Smoke(RoutesBack) \in Fine
  <2>1. Look.do.op = "look" /\ Smoke(RoutesBack).do.op = "smoke"
    BY DEF Look, Smoke, Task, Cmd
  <2> QED BY <1>2, <2>1, NothingToFix DEF Routing, Scheduling
<1>4. t[1] \in Fine /\ t[2] \in Fine
  <2>1. /\ t[1].do.op = "new revision" /\ t[1].do.on = "remote"
        /\ t[2].do.op = "both to latest" /\ t[2].do.on = "remote"
    <3>1. /\ Task(Cmd("new revision", "remote"), << >>).do.op = "new revision"
          /\ Task(Cmd("new revision", "remote"), << >>).do.on = "remote"
          /\ Task(Cmd("both to latest", "remote"), << >>).do.op = "both to latest"
          /\ Task(Cmd("both to latest", "remote"), << >>).do.on = "remote"
      BY DEF Task, Cmd
    <3> QED BY <1>1, <3>1
  <2>2. /\ t[1].do.op \notin Scheduling /\ Fix(t[1].do, "routes back") \subseteq Range(u)
        /\ t[2].do.op \notin Scheduling /\ Fix(t[2].do, "routes back") \subseteq Range(u)
    BY <2>1 DEF Fix, Routing, Scheduling
  <2>3. t[1] \in PlainTasks /\ t[2] \in PlainTasks
    <3>1. Len(t) = 2
      BY <1>1
    <3>2. 1 \in 1 .. Len(t) /\ 2 \in 1 .. Len(t)
      BY <3>1, TwoOfThem
    <3> QED BY <1>1, <3>2, ElementOfSeq
  <2> QED BY <2>2, <2>3
<1> HIDE DEF t, Fine
<1>5. t \in Seq(Fine)
  <2>1. t \in [1 .. 2 -> PlainTasks]
    BY <1>1, LenProperties
  <2>2. \A i \in 1 .. 2 : t[i] \in Fine
    BY <1>4, FewIndices
  <2> QED BY <2>1, <2>2, Sequence
<1>6. <<Look>> \in Seq(Fine) /\ <<Smoke(RoutesBack)>> \in Seq(Fine)
  BY <1>3, One
<1>7. _deploy_wi065 = (<<Look>> \o t) \o <<Smoke(RoutesBack)>>
  BY DEF _deploy_wi065, t
<1>8. _deploy_wi065 \in Seq(Fine)
  BY <1>5, <1>6, <1>7, ConcatProperties
<1>9. \A i \in 1 .. Len(_deploy_wi065) : _deploy_wi065[i] \in Fine
  BY <1>8, ElementOfSeq
<1>10. /\ CoveredBy(_deploy_wi065, Range(u), "routes back")
       /\ \A i \in 1 .. Len(_deploy_wi065) : _deploy_wi065[i].do.op \notin Scheduling
  BY <1>9 DEF CoveredBy, Fine
<1> QED BY <1>10, Wi065, GuardedUndoes

\* The targets that put back everything, whichever command fails.
FullFlows == {"wi063_s02", "wi064", "wi066", "wi068", "wi071"}

LEMMA SomeThenRevision ==
  ASSUME NEW h \in Heads \cup {<<Look>>}, NEW list \in Seq(Job)
  PROVE  Undoes((h \o UpdateSomeJobs(list, RoutesBack))
                \o Guarded(_deploy_wi065, _rollback_job_definitions(list) \o RoutesBack), "routes back")
<1> DEFINE u == UpdateSomeJobs(list, RoutesBack)
           b == _rollback_job_definitions(list) \o RoutesBack
           g == Guarded(_deploy_wi065, b)
<1>1. _rollback_job_definitions(list) \in Seq(Undos) /\ RoutesBack \in Seq(Undos)
  BY RollbackIs, RoutesBackIs
<1>2. /\ b \in Seq(Undos) /\ Range(b) = Range(_rollback_job_definitions(list)) \cup Range(RoutesBack)
      /\ Cmd("routes back", "remote") \in Range(b)
  <2>1. b \in Seq(Undos)
    BY <1>1, ConcatProperties
  <2>2. Range(b) = Range(_rollback_job_definitions(list)) \cup Range(RoutesBack)
    BY <1>1, RangeConcatenation
  <2> QED BY <2>1, <2>2, RoutesBackIs
<1>3. /\ g \in Seq(Tasks) /\ Undoes(g, "routes back")
      /\ \A i \in 1 .. Len(g) : Range(b) \subseteq Range(g[i].undo)
  BY <1>2, Wi065Undone
<1>4. /\ u \in Seq(Tasks) /\ Undoes(u, "routes back")
      /\ CoveredBy(u, Range(_rollback_job_definitions(list)), "routes back")
  BY <1>1, SomeJobsUndoes
<1>5. h \in Seq(Tasks) /\ Undoes(h, "routes back") /\ \A U : CoveredBy(h, U, "routes back")
  BY HeadUndoes
<1> HIDE DEF u, b, g
<1>6. h \o u \in Seq(Tasks) /\ Undoes(h \o u, "routes back")
  BY <1>4, <1>5, UndoesConcat, ConcatProperties
<1>7. ASSUME NEW i \in 1 .. Len(g) PROVE CoveredBy(h \o u, Range(g[i].undo), "routes back")
  <2>1. Range(_rollback_job_definitions(list)) \subseteq Range(g[i].undo)
    BY <1>2, <1>3
  <2>2. CoveredBy(u, Range(g[i].undo), "routes back")
    BY <1>4, <2>1 DEF CoveredBy
  <2> QED BY <1>4, <1>5, <2>2, CoveredConcat
<1>8. Undoes((h \o u) \o g, "routes back")
  BY <1>3, <1>6, <1>7, UndoesConcat
<1> QED BY <1>8 DEF u, b, g

LEMMA Wi066Undoes == Undoes(_deploy_wi066, "routes back")
<1> DEFINE a == Task(Cmd("candidate", "remote"), << >>)
           b == Task(Cmd("both to latest", "remote"), RoutesBack)
           c == Smoke(RoutesBack)
           t == <<a, b, c>>
<1>1. _deploy_wi066 = <<Look, Migrate>> \o t
  BY DEF _deploy_wi066
<1>2. /\ a.do.op = "candidate" /\ b.do.op = "both to latest" /\ b.do.on = "remote" /\ c.do.op = "smoke"
      /\ b.undo = RoutesBack /\ c.undo = RoutesBack
  BY DEF Smoke, Task, Cmd
<1>3. /\ Fix(a.do, "routes back") = {} /\ Fix(c.do, "routes back") = {}
      /\ Fix(b.do, "routes back") = {Cmd("routes back", "remote")}
      /\ a.do.op \notin Scheduling /\ b.do.op \notin Scheduling /\ c.do.op \notin Scheduling
  BY <1>2 DEF Fix, Routing, Scheduling
<1>4. t \in Seq(Tasks)
  <2>1. RoutesBack \in Seq(Undos) /\ << >> \in Seq(Undos) /\ "remote" \in Service
    BY RoutesBackIs, Empty DEF Service
  <2>2. a \in PlainTasks /\ c \in PlainTasks
    BY <2>1, Fixed
  <2>3. b \in PlainTasks
    BY <2>1, PlainCommand, PlainTask DEF Names, Quiet, ToLatest
  <2>4. PlainTasks \subseteq Tasks
    BY DEF PlainTasks, Tasks
  <2> HIDE DEF a, b, c
  <2> QED BY <2>2, <2>3, <2>4
<1> HIDE DEF a, b, c
<1>5. Len(t) = 3 /\ t[1] = a /\ t[2] = b /\ t[3] = c
  OBVIOUS
<1> HIDE DEF t
<1>6. ASSUME NEW i \in 1 .. Len(t)
      PROVE  /\ t[i].do.op \notin Scheduling
             /\ \A k \in 1 .. i : Fix(t[k].do, "routes back") \subseteq Range(t[i].undo)
  <2>1. i = 1 \/ i = 2 \/ i = 3
    <3>1. i \in 1 .. 3
      BY <1>5
    <3> QED BY <3>1, FewIndices
  <2>2. CASE i = 1
    <3>1. \A k \in 1 .. i : k = 1
      BY <2>2
    <3> QED BY <1>3, <1>5, <2>2, <3>1
  <2>3. CASE i = 2 \/ i = 3
    <3>1. \A k \in 1 .. i : k = 1 \/ k = 2 \/ k = 3
      BY <2>3
    <3>2. Range(t[i].undo) = {Cmd("routes back", "remote")} /\ t[i].do.op \notin Scheduling
      BY <1>2, <1>3, <1>5, <2>3, RoutesBackIs
    <3>3. \A k \in 1 .. i : Fix(t[k].do, "routes back") \subseteq {Cmd("routes back", "remote")}
      BY <1>3, <1>5, <3>1
    <3> QED BY <3>2, <3>3
  <2> QED BY <2>1, <2>2, <2>3
<1>7. Undoes(t, "routes back")
  BY <1>6 DEF Undoes
<1> QED BY <1>1, <1>4, <1>7, HeadUndoes, UndoesConcat DEF Heads

LEMMA FullFlowsUndo ==
  ASSUME NEW f \in FullFlows
  PROVE  Undoes(Flows[f], "routes back")
<1>1. <<Look>> \in Heads \cup {<<Look>>} /\ <<Look, Migrate>> \in Heads \cup {<<Look>>}
  BY DEF Heads
<1>2. Undoes(_deploy_wi063_s02, "routes back")
  BY <1>1, JobLists, SomeThenRevision DEF _deploy_wi063_s02
<1>3. Undoes(_deploy_wi071, "routes back")
  BY <1>1, JobLists, SomeThenRevision DEF _deploy_wi071
<1>4. Undoes(_deploy_wi064, "routes back")
  <2> DEFINE h == <<Look, Migrate>>
             u == UpdateSomeJobs(TradeJobs, << >>)
  <2>1. u \in Seq(Tasks) /\ Undoes(u, "routes back")
    BY JobLists, Empty, SomeJobsUndoes
  <2>2. h \in Seq(Tasks) /\ Undoes(h, "routes back") /\ \A U : CoveredBy(h, U, "routes back")
    BY <1>1, HeadUndoes
  <2> HIDE DEF h, u
  <2>3. Undoes(h \o u, "routes back")
    BY <2>1, <2>2, UndoesConcat
  <2> QED BY <2>3 DEF h, u, _deploy_wi064
<1>5. CASE f = "wi063_s02"
  BY <1>2, <1>5 DEF Flows
<1>6. CASE f = "wi071"
  BY <1>3, <1>6 DEF Flows
<1>7. CASE f = "wi064"
  BY <1>4, <1>7 DEF Flows
<1>8. CASE f = "wi066"
  BY <1>8, Wi066Undoes DEF Flows
<1>9. CASE f = "wi068"
  BY <1>9, Wi066Undoes DEF Flows, _deploy_wi068
<1> QED BY <1>5, <1>6, <1>7, <1>8, <1>9 DEF FullFlows

\* The targets that promote a candidate: the smoke after it sends the route back.
RouteFlows == {"wi060", "wi046_auth", "wi046_remote"}

Promotes(s) ==
  \A i \in 1 .. Len(s) :
    /\ s[i].do.op \notin {"tagged candidate", "both to latest"}
    /\ \A k \in 1 .. i - 1 : s[k].do.op \in Routing => Cmd("route back", s[k].do.on) \in Range(s[i].undo)

LEMMA Wi046Promotes ==
  ASSUME NEW x
  PROVE  Promotes(<<Look, Task(Cmd("to tag", x), << >>), Smoke(<<Cmd("route back", x)>>)>>)
<1> DEFINE b == Task(Cmd("to tag", x), << >>)
           c == Smoke(<<Cmd("route back", x)>>)
           t == <<Look, b, c>>
<1>1. /\ Look.do.op = "look" /\ b.do.op = "to tag" /\ b.do.on = x
      /\ c.do.op = "smoke" /\ c.undo = <<Cmd("route back", x)>>
  BY DEF Look, Smoke, Task, Cmd
<1>2. Cmd("route back", x) \in Range(c.undo)
  BY <1>1, OneRange
<1> HIDE DEF b, c
<1>3. Len(t) = 3 /\ t[1] = Look /\ t[2] = b /\ t[3] = c
  OBVIOUS
<1> HIDE DEF t
<1>4. ASSUME NEW i \in 1 .. 3
      PROVE  t[i].do.op \notin {"tagged candidate", "both to latest"}
  BY <1>1, <1>3, FewIndices
<1>5. ASSUME NEW i \in 1 .. 3, NEW k \in 1 .. i - 1, t[k].do.op \in Routing
      PROVE  Cmd("route back", t[k].do.on) \in Range(t[i].undo)
  <2>1. k # 1
    BY <1>1, <1>3, <1>5 DEF Routing
  <2>2. k = 2 /\ i = 3
    BY <2>1
  <2> QED BY <1>1, <1>2, <1>3, <2>2
<1> QED BY <1>3, <1>4, <1>5 DEF Promotes, t, b, c

LEMMA Wi060Undoes == Undoes(_deploy_wi060, "none") /\ Promotes(_deploy_wi060)
<1> DEFINE jobsBack == _rollback_job_definitions(CoreJobs)
           last == Smoke(<<Cmd("route back", "remote")>>)
           rest == <<Execute, Look, Task(Cmd("to release", "remote"), << >>), last>>
           first == <<Look, Task(Cmd("candidate", "remote"), << >>), SmokeCandidate>>
           body == UpdateCoreJobs \o rest
           g == Guarded(body, jobsBack)
           n == Len(CoreJobs)
<1>1. << >> \in Seq(Undos) /\ <<Cmd("route back", "remote")>> \in Seq(Undos) /\ "remote" \in Service
  BY Empty, One, RouteCommands DEF Service
<1>2. jobsBack \in Seq(Undos) /\ \A k \in 1 .. n : Cmd("restore job", CoreJobs[k]) \in Range(jobsBack)
  BY JobLists, RollbackIs
<1>3. PlainTarget(first) /\ PlainTarget(rest)
  BY <1>1, Fixed, Listed
<1>4. _deploy_wi060 = first \o g
  BY DEF _deploy_wi060
<1>5. /\ Len(first) = 3 /\ first[1].do.op = "look" /\ first[2].do.op = "candidate"
      /\ first[3].do.op = "smoke candidate"
  BY DEF Look, SmokeCandidate, Task, Cmd
<1>6. /\ Len(rest) = 4 /\ rest[1].do.op = "execute" /\ rest[2].do.op = "look"
      /\ rest[3].do.op = "to release" /\ rest[3].do.on = "remote" /\ rest[4].do.op = "smoke"
      /\ rest[4].undo = <<Cmd("route back", "remote")>>
  BY DEF Look, Execute, Smoke, Task, Cmd
<1>7. Len(first) = 3 /\ Len(rest) = 4 /\ n \in Nat
  BY <1>5, <1>6, JobLists
<1> HIDE DEF first, rest, jobsBack, n, last
<1>8. \A k \in 1 .. Len(first) : first[k].do.op \notin Scheduling \cup Routing \cup {"update job"}
  BY <1>5, <1>7, FewIndices DEF Scheduling, Routing
<1>9. \A k \in 1 .. Len(rest) : /\ rest[k].do.op \notin Scheduling \cup {"update job"}
                                /\ rest[k].do.op \in Routing => k = 3
  <2>1. \A k \in 1 .. 4 : k = 1 \/ k = 2 \/ k = 3 \/ k = 4
    BY FewIndices
  <2> QED BY <1>6, <1>7, <2>1 DEF Scheduling, Routing
<1>10. /\ UpdateCoreJobs \in Seq(PlainTasks) /\ Len(UpdateCoreJobs) = n
       /\ \A k \in 1 .. n : /\ UpdateCoreJobs[k].do.op = "update job"
                              /\ Fix(UpdateCoreJobs[k].do, "none") = {Cmd("restore job", CoreJobs[k])}
  <2>1. \A x : Cmd("update job", x).op = "update job" /\ Cmd("update job", x).on = x
    BY DEF Cmd
  <2>2. \A x : Fix(Cmd("update job", x), "none") = {Cmd("restore job", x)}
    BY <2>1 DEF Fix
  <2>3. \A k \in 1 .. n : UpdateCoreJobs[k].do = Cmd("update job", CoreJobs[k])
    BY CoreJobsAre, TaskIs DEF n
  <2> QED BY <2>1, <2>2, <2>3, CoreJobsAre DEF PlainTarget, n
<1>11. \A k \in 1 .. Len(rest) : Fix(rest[k].do, "none") = {}
  BY <1>9 DEF Fix
<1>12. rest \in Seq(PlainTasks) /\ first \in Seq(PlainTasks) /\ first \in Seq(Tasks)
  BY <1>3, PlainIsTarget DEF PlainTarget, Target
<1>13. PlainTarget(body) /\ body \in Seq(PlainTasks) /\ Len(body) = n + 4
  <2>1. PlainTarget(body)
    BY <1>3, CoreJobsAre, PlainConcat
  <2>2. Len(body) = Len(UpdateCoreJobs) + Len(rest)
    BY <1>10, <1>12, ConcatProperties
  <2> QED BY <1>7, <1>10, <2>1, <2>2 DEF PlainTarget
<1>14. ASSUME NEW k \in 1 .. Len(body)
       PROVE  \/ k \in 1 .. n /\ body[k] = UpdateCoreJobs[k]
              \/ k - n \in 1 .. 4 /\ body[k] = rest[k - n]
  BY <1>7, <1>10, <1>12, Parts
<1> HIDE DEF body
<1>15. CoveredBy(body, Range(jobsBack), "none") /\ \A k \in 1 .. Len(body) : body[k].do.op \notin Scheduling
  <2>1. ASSUME NEW k \in 1 .. Len(body) PROVE Fix(body[k].do, "none") \subseteq Range(jobsBack)
    <3>1. CASE k \in 1 .. n /\ body[k] = UpdateCoreJobs[k]
      BY <1>2, <1>10, <3>1
    <3>2. CASE k - n \in 1 .. 4 /\ body[k] = rest[k - n]
      BY <1>7, <1>11, <3>2
    <3> QED BY <1>14, <3>1, <3>2
  <2>2. \A k \in 1 .. Len(body) : body[k].do.op \notin Scheduling
    BY <1>7, <1>9, <1>10, <1>14 DEF Scheduling
  <2> QED BY <2>1, <2>2 DEF CoveredBy
<1>16. /\ g \in Seq(Tasks) /\ Undoes(g, "none")
       /\ \A i \in 1 .. Len(g) : Range(jobsBack) \subseteq Range(g[i].undo)
  BY <1>2, <1>13, <1>15, GuardedUndoes
<1>17. Undoes(first, "none") /\ \A U : CoveredBy(first, U, "none")
  <2>1. \A k \in 1 .. Len(first) : Fix(first[k].do, "none") = {}
    BY <1>8, NothingToFix
  <2>2. \A i \in 1 .. Len(first) : \A k \in 1 .. i : k \in 1 .. Len(first)
    BY <1>7
  <2> QED BY <1>8, <2>1, <2>2 DEF Undoes, CoveredBy
<1>18. Len(g) = n + 4 /\ \A k \in 1 .. Len(body) : g[k].do = body[k].do /\ g[k].undo = body[k].undo \o jobsBack
  BY <1>2, <1>13, GuardedIs
<1> HIDE DEF g
<1>19. Undoes(_deploy_wi060, "none")
  BY <1>4, <1>12, <1>16, <1>17, UndoesConcat
<1>20. ASSUME NEW k \in 1 .. Len(_deploy_wi060), _deploy_wi060[k].do.op \in Routing
       PROVE  k = n + 6 /\ _deploy_wi060[k].do.on = "remote"
  <2>1. CASE k \in 1 .. Len(first) /\ _deploy_wi060[k] = first[k]
    BY <1>8, <1>20, <2>1
  <2>2. CASE k - 3 \in 1 .. Len(g) /\ _deploy_wi060[k] = g[k - 3]
    <3>1. k - 3 \in 1 .. Len(body) /\ _deploy_wi060[k].do = body[k - 3].do
      BY <1>13, <1>18, <2>2
    <3>2. CASE k - 3 \in 1 .. n /\ body[k - 3] = UpdateCoreJobs[k - 3]
      BY <1>10, <1>20, <3>1, <3>2 DEF Routing
    <3>3. CASE (k - 3) - n \in 1 .. 4 /\ body[k - 3] = rest[(k - 3) - n]
      <4>1. (k - 3) - n = 3
        BY <1>7, <1>9, <1>20, <3>1, <3>3
      <4>2. _deploy_wi060[k].do.on = "remote"
        BY <1>6, <3>1, <3>3, <4>1
      <4>3. k = n + 6
        BY <1>7, <4>1
      <4> QED BY <4>2, <4>3
    <3> QED BY <1>14, <3>1, <3>2, <3>3
  <2> QED BY <1>4, <1>7, <1>12, <1>16, <2>1, <2>2, Parts
<1>21. Len(_deploy_wi060) = n + 7
  <2>1. Len(_deploy_wi060) = Len(first) + Len(g)
    BY <1>4, <1>12, <1>16, ConcatProperties
  <2> QED BY <1>7, <1>18, <2>1
<1>22. Cmd("route back", "remote") \in Range(_deploy_wi060[n + 7].undo)
  <2>1. n + 7 \in 1 .. 3 + (n + 4) /\ ~(n + 7 <= 3) /\ (n + 7) - 3 = n + 4 /\ n + 4 \in 1 .. n + 4
        /\ ~(n + 4 <= n) /\ (n + 4) - n = 4
    BY <1>7
  <2>2. _deploy_wi060[n + 7] = g[n + 4]
    <3>1. \A k \in 1 .. Len(first) + Len(g) : (first \o g)[k] = IF k <= Len(first) THEN first[k] ELSE g[k - Len(first)]
      BY <1>12, <1>16, ConcatProperties
    <3>2. n + 7 \in 1 .. Len(first) + Len(g) /\ ~(n + 7 <= Len(first)) /\ (n + 7) - Len(first) = n + 4
      BY <1>7, <1>18, <2>1
    <3>3. (first \o g)[n + 7] = g[(n + 7) - Len(first)]
      BY <3>1, <3>2
    <3> QED BY <1>4, <3>2, <3>3
  <2>3. body[n + 4] = rest[4]
    <3>1. \A k \in 1 .. n + 4 : body[k] = IF k <= n THEN UpdateCoreJobs[k] ELSE rest[k - n]
      <4>1. \A k \in 1 .. Len(UpdateCoreJobs) + Len(rest) :
              body[k] = IF k <= Len(UpdateCoreJobs) THEN UpdateCoreJobs[k] ELSE rest[k - Len(UpdateCoreJobs)]
        BY <1>10, <1>12, ConcatProperties DEF body
      <4> QED BY <1>7, <1>10, <4>1
    <3> QED BY <2>1, <3>1
  <2>4. g[n + 4].undo = <<Cmd("route back", "remote")>> \o jobsBack
    <3>1. n + 4 \in 1 .. Len(body)
      BY <1>13, <2>1
    <3>2. g[n + 4].undo = body[n + 4].undo \o jobsBack
      BY <1>18, <3>1
    <3> QED BY <1>6, <2>3, <3>2
  <2>5. Range(<<Cmd("route back", "remote")>> \o jobsBack) = Range(<<Cmd("route back", "remote")>>) \cup Range(jobsBack)
    BY <1>1, <1>2, RangeConcatenation
  <2>6. Cmd("route back", "remote") \in Range(<<Cmd("route back", "remote")>>)
    BY OneRange
  <2> QED BY <2>2, <2>4, <2>5, <2>6
<1>23. ASSUME NEW i \in 1 .. Len(_deploy_wi060), NEW k \in 1 .. i - 1, _deploy_wi060[k].do.op \in Routing
       PROVE  Cmd("route back", _deploy_wi060[k].do.on) \in Range(_deploy_wi060[i].undo)
  <2>1. k \in 1 .. Len(_deploy_wi060)
    BY <1>7, <1>21
  <2>2. k = n + 6 /\ _deploy_wi060[k].do.on = "remote"
    BY <1>20, <1>23, <2>1
  <2>3. i = n + 7
    BY <1>7, <1>21, <2>2
  <2> QED BY <1>22, <2>2, <2>3
<1>24. \A i \in 1 .. Len(_deploy_wi060) : _deploy_wi060[i].do.op \notin {"tagged candidate", "both to latest"}
  BY Wi060Steps DEF ToLatest
<1> QED BY <1>19, <1>23, <1>24 DEF Promotes

LEMMA RouteFlowsUndo ==
  ASSUME NEW f \in RouteFlows
  PROVE  Promotes(Flows[f])
<1>1. CASE f = "wi060"
  BY <1>1, Wi060Undoes DEF Flows
<1>2. CASE f = "wi046_auth"
  BY <1>2, Wi046Promotes DEF Flows, _promote_wi046_auth
<1>3. CASE f = "wi046_remote"
  BY <1>3, Wi046Promotes DEF Flows, _promote_wi046_remote
<1> QED BY <1>1, <1>2, <1>3 DEF RouteFlows

-----------------------------------------------------------------------------
(* Between a change of this release and the command that undoes it: what   *)
(* differs from what the release found was touched by a step already       *)
(* taken, then is in the undo list, and at the end an undo was lost.       *)
LostNow == \E x \in lost : x[1] = release

JobsBack ==
  flow \in FullFlows \cup {"wi060"} =>
    \A j \in Job : live.job[j] # before.job[j] =>
      /\ status = "running" => \E k \in 1 .. at - 1 : Flows[flow][k].do = Cmd("update job", j)
      /\ status = "undoing" => LostNow \/ Cmd("restore job", j) \in Range(todo)
      /\ status = "failed" => LostNow

LEMMA CommandIs == \A c \in Commands : c = Cmd(c.op, c.on)
<1>1. \A A, B : \A c \in [op : A, on : B] : c = [op |-> c.op, on |-> c.on]
  OBVIOUS
<1>2. \A c \in Commands : \E A, B : c \in [op : A, on : B]
  BY DEF Commands, PlainCommands, Undos
<1> QED BY <1>1, <1>2 DEF Cmd

LEMMA RestoreIs == \A x : Cmd("restore job", x).op = "restore job" /\ Cmd("restore job", x).on = x
  BY DEF Cmd

LEMMA JobEffect ==
  ASSUME ReleaseTypeOK, NEW c \in Commands, NEW j \in Job, Effect(c, live).job[j] # before.job[j]
  PROVE  \/ live.job[j] # before.job[j] /\ c # Cmd("restore job", j)
         \/ c = Cmd("update job", j)
<1> DEFINE m == Effect(c, live)
           x == c.on
<1>1. live \in Boards(release) /\ live.job \in [Job -> 0 .. release]
  BY DEF ReleaseTypeOK, Boards
<1>2. m.job = IF c.op = "update job" THEN [live.job EXCEPT ![x] = release]
              ELSE IF c.op = "restore job" THEN [live.job EXCEPT ![x] = before.job[x]] ELSE live.job
  BY <1>1, EffectFields
<1> HIDE DEF m
<1>3. m.job[j] # before.job[j]
  BY DEF m
<1>4. CASE c.op = "update job"
  <2>1. m.job = [live.job EXCEPT ![x] = release]
    BY <1>2, <1>4
  <2>2. CASE j = x
    BY <1>4, <2>2, CommandIs
  <2>3. CASE j # x
    <3>1. c # Cmd("restore job", j)
      BY <1>4, RestoreIs
    <3> QED BY <1>1, <1>3, <2>1, <2>3, <3>1
  <2> QED BY <2>2, <2>3
<1>5. CASE c.op = "restore job"
  <2>1. m.job = [live.job EXCEPT ![x] = before.job[x]]
    BY <1>2, <1>5
  <2>2. j # x
    BY <1>1, <1>3, <2>1
  <2>3. c # Cmd("restore job", j)
    BY <2>2, RestoreIs
  <2> QED BY <1>1, <1>3, <2>1, <2>2, <2>3
<1>6. CASE c.op \notin {"update job", "restore job"}
  <2>1. c # Cmd("restore job", j)
    BY <1>6, RestoreIs
  <2> QED BY <1>2, <1>3, <1>6, <2>1
<1> QED BY <1>4, <1>5, <1>6

\* How a release comes to be under way, undoing and failed.
LEMMA Turns ==
  ASSUME ReleaseTypeOK, [ReleaseNext]_releaseVars, ~\E f \in FlowNames : Start(f)
  PROVE  /\ status' = "running" => UNCHANGED releaseVars \/ Do
         /\ status' = "undoing" => UNCHANGED releaseVars \/ Fail \/ FailLate \/ Undo \/ UndoFails
         /\ status' = "failed" => UNCHANGED releaseVars \/ GiveUp
         /\ LostNow => LostNow'
         /\ UndoFails => LostNow'
<1>1. /\ status' = "running" => UNCHANGED releaseVars \/ Do
      /\ status' = "undoing" => UNCHANGED releaseVars \/ Fail \/ FailLate \/ Undo \/ UndoFails
      /\ status' = "failed" => UNCHANGED releaseVars \/ GiveUp
  BY DEF ReleaseNext, releaseVars, Do, Succeed, Fail, FailLate, Undo, UndoFails, GiveUp, Die, Running
<1>2. LostNow => LostNow'
  BY Onward DEF LostNow
<1>3. UndoFails => LostNow'
  <2> SUFFICES ASSUME UndoFails PROVE LostNow'
    OBVIOUS
  <2>1. <<release, Head(todo)>> \in lost' /\ release' = release
    BY Onward DEF UndoFails
  <2> QED BY <2>1 DEF LostNow
<1> QED BY <1>1, <1>2, <1>3

\* What is in the undo list and is not the command just issued is still in it.
LEMMA StillToDo ==
  ASSUME ReleaseTypeOK, todo # << >>, NEW c \in Range(todo), c # Head(todo)
  PROVE  c \in Range(Tail(todo))
<1>1. todo \in Seq(Backs)
  BY DEF ReleaseTypeOK
<1>2. /\ Len(todo) \in Nat /\ DOMAIN todo = 1 .. Len(todo) /\ Head(todo) = todo[1]
      /\ Tail(todo) \in Seq(Backs) /\ Len(Tail(todo)) = Len(todo) - 1
      /\ \A i \in 1 .. Len(todo) - 1 : Tail(todo)[i] = todo[i + 1]
  BY <1>1, HeadTailProperties, LenProperties
<1>3. PICK k \in 1 .. Len(todo) : todo[k] = c
  BY <1>2 DEF Range
<1>4. k # 1
  BY <1>2, <1>3
<1>5. k - 1 \in 1 .. Len(todo) - 1 /\ (k - 1) + 1 = k
  BY <1>2, <1>4
<1>6. Tail(todo)[k - 1] = c /\ k - 1 \in 1 .. Len(Tail(todo))
  BY <1>2, <1>3, <1>5
<1>7. DOMAIN Tail(todo) = 1 .. Len(Tail(todo))
  BY <1>2, LenProperties
<1> QED BY <1>6, <1>7 DEF Range

LEMMA NothingToDo == Range(<< >>) = {}
  BY DEF Range

LEMMA HeadIs ==
  ASSUME ReleaseTypeOK, todo # << >>
  PROVE  Head(todo) \in Backs /\ Head(todo) \in Commands
  BY HeadTailProperties, BacksBringNothing DEF ReleaseTypeOK

LEMMA JobFlowsUndo ==
  ASSUME NEW f \in FullFlows \cup {"wi060"}
  PROVE  \E back : Undoes(Flows[f], back)
<1>1. CASE f \in FullFlows
  BY <1>1, FullFlowsUndo
<1>2. CASE f = "wi060"
  BY <1>2, Wi060Undoes DEF Flows
<1> QED BY <1>1, <1>2

LEMMA JobsBackHolds ==
  ASSUME ReleaseTypeOK, JobsBack, [ReleaseNext]_releaseVars
  PROVE  JobsBack'
<1>1. ASSUME NEW f \in FlowNames, Start(f) PROVE JobsBack'
  BY <1>1, Dispatched DEF JobsBack
<1>2. ASSUME ~\E f \in FlowNames : Start(f) PROVE JobsBack'
  <2>1. flow' = flow /\ before' = before
    BY <1>2, Onward
  <2> SUFFICES ASSUME flow \in FullFlows \cup {"wi060"}, NEW j \in Job, live'.job[j] # before.job[j]
               PROVE  /\ status' = "running" => \E k \in 1 .. at' - 1 : Flows[flow][k].do = Cmd("update job", j)
                      /\ status' = "undoing" => LostNow' \/ Cmd("restore job", j) \in Range(todo')
                      /\ status' = "failed" => LostNow'
    BY <2>1 DEF JobsBack
  <2>2. /\ live.job[j] # before.job[j] /\ status = "running" =>
             \E k \in 1 .. at - 1 : Flows[flow][k].do = Cmd("update job", j)
        /\ live.job[j] # before.job[j] /\ status = "undoing" =>
             LostNow \/ Cmd("restore job", j) \in Range(todo)
        /\ live.job[j] # before.job[j] /\ status = "failed" => LostNow
    BY DEF JobsBack
  <2>3. CASE UNCHANGED releaseVars
    BY <2>1, <2>2, <2>3 DEF releaseVars, LostNow, release
  <2>4. ASSUME Running, UNCHANGED live \/ live' = Effect(Now.do, live)
        PROVE  \E k \in 1 .. at : Flows[flow][k].do = Cmd("update job", j)
    <3>1. at \in Nat /\ at \in 1 .. at
      BY <2>4, NowIs
    <3>2. \A k \in 1 .. at - 1 : k \in 1 .. at
      BY <3>1
    <3>3. live.job[j] # before.job[j] \/ Now.do = Cmd("update job", j)
      BY <2>4, NowIs, JobEffect
    <3> QED BY <2>2, <2>4, <3>1, <3>2, <3>3 DEF Now, Running
  <2>5. ASSUME Do PROVE \E k \in 1 .. at' - 1 : Flows[flow][k].do = Cmd("update job", j)
    <3>1. Running /\ live' = Effect(Now.do, live) /\ at' = at + 1
      BY <2>5 DEF Do, Take
    <3>2. at \in Nat
      BY <3>1, NowIs
    <3>3. at' - 1 = at
      BY <3>1, <3>2
    <3> QED BY <2>4, <3>1, <3>3
  <2>6. ASSUME Fail \/ FailLate PROVE Cmd("restore job", j) \in Range(todo')
    <3>1. Running /\ (UNCHANGED live \/ live' = Effect(Now.do, live)) /\ todo' = Now.undo
      BY <2>6 DEF Fail, FailLate, Take
    <3>2. PICK k \in 1 .. at : Flows[flow][k].do = Cmd("update job", j)
      BY <2>4, <3>1
    <3>3. at \in 1 .. Len(Flows[flow])
      BY <3>1, NowIs
    <3>4. PICK back : Undoes(Flows[flow], back)
      BY JobFlowsUndo
    <3>5. Fix(Flows[flow][k].do, back) \subseteq Range(Now.undo)
      BY <3>3, <3>4 DEF Undoes, Now
    <3>6. Cmd("update job", j).op = "update job" /\ Cmd("update job", j).on = j
      BY DEF Cmd
    <3>7. Cmd("restore job", j) \in Fix(Flows[flow][k].do, back)
      BY <3>2, <3>6 DEF Fix
    <3> QED BY <3>1, <3>5, <3>7
  <2>7. ASSUME Undo PROVE LostNow' \/ Cmd("restore job", j) \in Range(todo')
    <3>1. status = "undoing" /\ todo # << >> /\ live' = Effect(Head(todo), live) /\ todo' = Tail(todo)
      BY <2>7 DEF Undo
    <3>2. Head(todo).op # "update job"
      BY <3>1, HeadIs, BacksBringNothing DEF Brings
    <3>3. Cmd("update job", j).op = "update job"
      BY DEF Cmd
    <3>4. live.job[j] # before.job[j] /\ Head(todo) # Cmd("restore job", j)
      BY <3>1, <3>2, <3>3, HeadIs, JobEffect
    <3>5. LostNow \/ Cmd("restore job", j) \in Range(todo)
      BY <2>2, <3>1, <3>4
    <3> QED BY <1>2, <3>1, <3>4, <3>5, StillToDo, Turns
  <2>8. ASSUME GiveUp PROVE LostNow'
    <3>1. status = "undoing" /\ todo = << >> /\ live' = live
      BY <2>8 DEF GiveUp
    <3> QED BY <1>2, <2>2, <3>1, NothingToDo, Turns
  <2>9. UndoFails => LostNow'
    BY <1>2, Turns
  <2>10. CASE status' = "running"
    BY <1>2, <2>3, <2>5, <2>10, Turns
  <2>11. CASE status' = "undoing"
    BY <1>2, <2>3, <2>6, <2>7, <2>9, <2>11, Turns
  <2>12. CASE status' = "failed"
    BY <1>2, <2>3, <2>8, <2>12, Turns
  <2> QED BY <2>10, <2>11, <2>12
<1> QED BY <1>1, <1>2

\* The same for the routes.
SameRoute(l, x) == Serving(l, x) = Serving(before, x) /\ l.tag[x] = before.tag[x]
BackOf(f) == IF f \in FullFlows THEN "routes back" ELSE "route back"

RoutesKept ==
  /\ flow \in FullFlows \/ (flow \in RouteFlows /\ ~late) =>
       \A x \in Service : ~SameRoute(live, x) =>
         /\ status = "running" =>
              \E k \in 1 .. at - 1 : Flows[flow][k].do.op \in Routing /\ Flows[flow][k].do.on = x
         /\ status = "undoing" => LostNow \/ Cmd(BackOf(flow), x) \in Range(todo)
         /\ status = "failed" => LostNow
  /\ flow \in RouteFlows => \A x \in Service : live.tag[x] = before.tag[x]

LEMMA RouteEffect ==
  ASSUME ReleaseTypeOK, NEW c \in Commands, NEW s \in Service
  PROVE  LET m == Effect(c, live) IN
         /\ SameRoute(live, s) => SameRoute(m, s) \/ (c.op \in Routing /\ c.on = s)
         /\ c = Cmd("routes back", s) => SameRoute(m, s)
         /\ c = Cmd("route back", s) /\ live.tag[s] = before.tag[s] => SameRoute(m, s)
         /\ c.op \notin {"tagged candidate", "both to latest"} /\ live.tag[s] = before.tag[s] => m.tag[s] = before.tag[s]
<1> DEFINE m == Effect(c, live)
           x == c.on
<1>1. live \in Boards(release)
  BY DEF ReleaseTypeOK
<1>2. /\ live.latest \in [Service -> 0 .. release] /\ live.pinned \in [Service -> 0 .. release]
      /\ live.tag \in [Service -> 0 .. release] /\ live.follows \in [Service -> BOOLEAN]
  BY <1>1 DEF Boards
<1>3. m.pinned = IF c.op \in {"candidate", "tagged candidate"} THEN [live.pinned EXCEPT ![x] = Serving(live, x)]
                 ELSE IF c.op = "to release" THEN [live.pinned EXCEPT ![x] = release]
                 ELSE IF c.op = "to tag" THEN [live.pinned EXCEPT ![x] = live.tag[x]]
                 ELSE IF c.op \in {"route back", "routes back"}
                      THEN [live.pinned EXCEPT ![x] = Serving(before, x)] ELSE live.pinned
  BY <1>1, EffectFields
<1>4. m.tag = IF c.op = "tagged candidate" THEN [live.tag EXCEPT ![x] = release]
              ELSE IF c.op = "both to latest" THEN [live.tag EXCEPT ![x] = live.latest[x]]
              ELSE IF c.op = "routes back" THEN [live.tag EXCEPT ![x] = before.tag[x]] ELSE live.tag
  BY <1>1, EffectFields
<1>5. m.follows = IF c.op \in ToLatest THEN [live.follows EXCEPT ![x] = TRUE]
                  ELSE IF c.op \in {"candidate", "tagged candidate", "to release", "to tag", "route back", "routes back"}
                       THEN [live.follows EXCEPT ![x] = FALSE] ELSE live.follows
  BY <1>1, EffectFields
<1>6. m.latest = IF c.op \in {"new revision", "candidate", "tagged candidate"}
                 THEN [live.latest EXCEPT ![x] = release] ELSE live.latest
  BY <1>1, EffectFields
<1> HIDE DEF m
<1>7. CASE x # s
  <2>1. m.pinned[s] = live.pinned[s]
    BY <1>2, <1>3, <1>7
  <2>2. m.tag[s] = live.tag[s]
    BY <1>2, <1>4, <1>7
  <2>3. m.follows[s] = live.follows[s]
    BY <1>2, <1>5, <1>7
  <2>4. m.latest[s] = live.latest[s]
    BY <1>2, <1>6, <1>7
  <2>5. Serving(m, s) = Serving(live, s)
    BY <2>1, <2>3, <2>4 DEF Serving
  <2>6. c # Cmd("routes back", s) /\ c # Cmd("route back", s)
    BY <1>7, CmdIs
  <2> QED BY <2>2, <2>5, <2>6 DEF SameRoute, m
<1>8. CASE x = s /\ c.op \in {"route back", "routes back"}
  <2>1. m.pinned[s] = Serving(before, s)
    BY <1>2, <1>3, <1>8
  <2>2. ~m.follows[s]
    BY <1>2, <1>5, <1>8 DEF ToLatest
  <2>3. Serving(m, s) = Serving(before, s)
    BY <2>1, <2>2 DEF Serving
  <2>4. CASE c.op = "routes back"
    <3>1. m.tag[s] = before.tag[s]
      BY <1>2, <1>4, <1>8, <2>4
    <3> QED BY <2>3, <3>1 DEF SameRoute, m
  <2>5. CASE c.op = "route back"
    <3>1. m.tag[s] = live.tag[s]
      BY <1>4, <2>5
    <3>2. Cmd("routes back", s).op = "routes back"
      BY DEF Cmd
    <3>3. c # Cmd("routes back", s)
      BY <2>5, <3>2
    <3> QED BY <2>3, <3>1, <3>3 DEF SameRoute, m
  <2> QED BY <1>8, <2>4, <2>5
<1>9. CASE c.op \notin {"route back", "routes back"}
  <2>1. c # Cmd("routes back", s) /\ c # Cmd("route back", s)
    <3>1. /\ Cmd("routes back", s).op = "routes back" /\ Cmd("route back", s).op = "route back"
      BY DEF Cmd
    <3> QED BY <1>9, <3>1
  <2>2. c.op \notin {"tagged candidate", "both to latest"} => m.tag = live.tag
    BY <1>4, <1>9
  <2>3. ASSUME c.op \notin Routing \/ x # s PROVE SameRoute(live, s) => SameRoute(m, s)
    <3>1. CASE x # s
      BY <1>7, <3>1 DEF m
    <3>2. CASE c.op \notin Routing \cup {"candidate"}
      <4>1. m.pinned = live.pinned /\ m.follows = live.follows /\ m.latest = live.latest /\ m.tag = live.tag
        BY <1>3, <1>4, <1>5, <1>6, <1>9, <3>2 DEF Routing, ToLatest
      <4> QED BY <4>1 DEF SameRoute, Serving
    <3>3. CASE x = s /\ c.op = "candidate"
      <4>1. m.pinned[s] = Serving(live, s) /\ m.tag = live.tag
        BY <1>2, <1>3, <1>4, <3>3
      <4>2. ~m.follows[s]
        BY <1>2, <1>5, <3>3 DEF ToLatest
      <4> QED BY <4>1, <4>2 DEF SameRoute, Serving
    <3> QED BY <2>3, <3>1, <3>2, <3>3
  <2> QED BY <2>1, <2>2, <2>3 DEF m
<1> QED BY <1>7, <1>8, <1>9

LEMMA RoutesKeptHolds ==
  ASSUME ReleaseTypeOK, RoutesKept, [ReleaseNext]_releaseVars
  PROVE  RoutesKept'
<1>1. ASSUME NEW f \in FlowNames, Start(f) PROVE RoutesKept'
  BY <1>1, Dispatched DEF RoutesKept, SameRoute, Serving
<1>2. ASSUME ~\E f \in FlowNames : Start(f) PROVE RoutesKept'
  <2>1. flow' = flow /\ before' = before /\ (late => late')
    <3>1. late => late'
      BY <1>2 DEF ReleaseNext, releaseVars, Do, Succeed, Fail, FailLate, Undo, UndoFails, GiveUp, Die
    <3> QED BY <1>2, <3>1, Onward
  <2>2. \A x : SameRoute(live, x)' <=> SameRoute(live', x)
    BY <2>1 DEF SameRoute, Serving
  <2>3. ASSUME flow \in RouteFlows, NEW x \in Service PROVE live'.tag[x] = before.tag[x]
    <3>1. live.tag[x] = before.tag[x]
      BY <2>3 DEF RoutesKept
    <3>2. ASSUME NEW c \in Commands, c.op \notin {"tagged candidate", "both to latest"}, live' = Effect(c, live)
          PROVE  live'.tag[x] = before.tag[x]
      BY <3>1, <3>2, RouteEffect
    <3>3. CASE Running /\ live' = Effect(Now.do, live)
      <4>1. Now.do \in Commands /\ at \in 1 .. Len(Flows[flow])
        BY <3>3, NowIs
      <4>2. Now.do.op \notin {"tagged candidate", "both to latest"}
        BY <2>3, <4>1, RouteFlowsUndo DEF Promotes, Now
      <4> QED BY <3>2, <3>3, <4>1, <4>2
    <3>4. CASE todo # << >> /\ live' = Effect(Head(todo), live)
      <4>1. Head(todo) \in Commands /\ Head(todo) \in Backs
        BY <3>4, HeadIs
      <4>2. Head(todo).op \notin {"tagged candidate", "both to latest"}
        BY <4>1 DEF Backs, Undos
      <4> QED BY <3>2, <3>4, <4>1, <4>2
    <3> QED BY <3>1, <3>3, <3>4, Changes
  <2> SUFFICES ASSUME flow \in FullFlows \/ (flow \in RouteFlows /\ ~late'), NEW x \in Service, ~SameRoute(live', x)
               PROVE  /\ status' = "running" =>
                           \E k \in 1 .. at' - 1 : Flows[flow][k].do.op \in Routing /\ Flows[flow][k].do.on = x
                      /\ status' = "undoing" => LostNow' \/ Cmd(BackOf(flow), x) \in Range(todo')
                      /\ status' = "failed" => LostNow'
    BY <2>1, <2>2, <2>3 DEF RoutesKept, BackOf
  <2>4. ~SameRoute(live, x) =>
         /\ status = "running" =>
              \E k \in 1 .. at - 1 : Flows[flow][k].do.op \in Routing /\ Flows[flow][k].do.on = x
         /\ status = "undoing" => LostNow \/ Cmd(BackOf(flow), x) \in Range(todo)
         /\ status = "failed" => LostNow
    BY <2>1 DEF RoutesKept
  <2>5. CASE UNCHANGED releaseVars
    <3>1. live' = live /\ status' = status /\ at' = at /\ todo' = todo
      BY <2>5 DEF releaseVars
    <3>2. LostNow => LostNow'
      BY <1>2, Turns
    <3> QED BY <2>4, <3>1, <3>2
  <2>6. ASSUME Running, UNCHANGED live \/ live' = Effect(Now.do, live)
        PROVE  \E k \in 1 .. at : Flows[flow][k].do.op \in Routing /\ Flows[flow][k].do.on = x
    <3>1. at \in Nat /\ at \in 1 .. at
      BY <2>6, NowIs
    <3>2. \A k \in 1 .. at - 1 : k \in 1 .. at
      BY <3>1
    <3>3. ~SameRoute(live, x) \/ (Now.do.op \in Routing /\ Now.do.on = x)
      BY <2>6, NowIs, RouteEffect
    <3> QED BY <2>4, <2>6, <3>1, <3>2, <3>3 DEF Now, Running
  <2>7. ASSUME Do
        PROVE  \E k \in 1 .. at' - 1 : Flows[flow][k].do.op \in Routing /\ Flows[flow][k].do.on = x
    <3>1. Running /\ live' = Effect(Now.do, live) /\ at' = at + 1
      BY <2>7 DEF Do, Take
    <3>2. at \in Nat
      BY <3>1, NowIs
    <3>3. at' - 1 = at
      BY <3>1, <3>2
    <3> QED BY <2>6, <3>1, <3>3
  <2>8. ASSUME Fail \/ FailLate, flow \in FullFlows PROVE Cmd(BackOf(flow), x) \in Range(todo')
    <3>1. Running /\ (UNCHANGED live \/ live' = Effect(Now.do, live)) /\ todo' = Now.undo
      BY <2>8 DEF Fail, FailLate, Take
    <3>2. PICK k \in 1 .. at : Flows[flow][k].do.op \in Routing /\ Flows[flow][k].do.on = x
      BY <2>6, <3>1
    <3>3. at \in 1 .. Len(Flows[flow])
      BY <3>1, NowIs
    <3>4. Fix(Flows[flow][k].do, "routes back") \subseteq Range(Now.undo)
      BY <2>8, <3>3, FullFlowsUndo DEF Undoes, Now
    <3>5. Flows[flow][k].do.op # "update job"
      BY <3>2 DEF Routing
    <3>6. "routes back" # "none"
      OBVIOUS
    <3>7. Cmd("routes back", x) \in Fix(Flows[flow][k].do, "routes back")
      BY <3>2, <3>5, <3>6 DEF Fix
    <3> QED BY <2>8, <3>1, <3>4, <3>7 DEF BackOf
  <2>9. ASSUME Fail, flow \in RouteFlows PROVE Cmd(BackOf(flow), x) \in Range(todo')
    <3>1. Running /\ UNCHANGED live /\ todo' = Now.undo /\ status = "running"
      BY <2>9 DEF Fail, Running
    <3>2. PICK k \in 1 .. at - 1 : Flows[flow][k].do.op \in Routing /\ Flows[flow][k].do.on = x
      BY <2>4, <3>1
    <3>3. at \in 1 .. Len(Flows[flow])
      BY <3>1, NowIs
    <3>4. Cmd("route back", x) \in Range(Now.undo)
      BY <2>9, <3>2, <3>3, RouteFlowsUndo DEF Promotes, Now
    <3>5. flow \notin FullFlows
      BY <2>9 DEF FullFlows, RouteFlows
    <3> QED BY <3>1, <3>4, <3>5 DEF BackOf
  <2>10. FailLate => late'
    BY DEF FailLate
  <2>11. ASSUME Undo PROVE LostNow' \/ Cmd(BackOf(flow), x) \in Range(todo')
    <3>1. status = "undoing" /\ todo # << >> /\ live' = Effect(Head(todo), live) /\ todo' = Tail(todo)
      BY <2>11 DEF Undo
    <3>2. Head(todo) \in Backs /\ Head(todo) \in Commands
      BY <3>1, HeadIs
    <3>3. Head(todo).op \notin Routing
      BY <3>2 DEF Backs, Undos, Routing
    <3>4. ~SameRoute(live, x)
      BY <3>1, <3>2, <3>3, RouteEffect
    <3>5. Head(todo) # Cmd(BackOf(flow), x)
      <4>1. CASE flow \in FullFlows
        BY <3>1, <3>2, <4>1, RouteEffect DEF BackOf
      <4>2. CASE flow \notin FullFlows
        <5>1. live.tag[x] = before.tag[x]
          BY <4>2 DEF RoutesKept
        <5> QED BY <3>1, <3>2, <4>2, <5>1, RouteEffect DEF BackOf
      <4> QED BY <4>1, <4>2
    <3>6. LostNow \/ Cmd(BackOf(flow), x) \in Range(todo)
      BY <2>4, <3>1, <3>4
    <3> QED BY <1>2, <3>1, <3>5, <3>6, StillToDo, Turns
  <2>12. ASSUME GiveUp PROVE LostNow'
    <3>1. status = "undoing" /\ todo = << >> /\ live' = live
      BY <2>12 DEF GiveUp
    <3> QED BY <1>2, <2>4, <3>1, NothingToDo, Turns
  <2>13. UndoFails => LostNow'
    BY <1>2, Turns
  <2>14. CASE status' = "running"
    BY <1>2, <2>5, <2>7, <2>14, Turns
  <2>15. CASE status' = "undoing"
    BY <1>2, <2>5, <2>8, <2>9, <2>10, <2>11, <2>13, <2>15, Turns
  <2>16. CASE status' = "failed"
    BY <1>2, <2>5, <2>12, <2>16, Turns
  <2> QED BY <2>14, <2>15, <2>16
<1> QED BY <1>1, <1>2

\* The schedules: these targets leave them alone, and the cut-over resumes what it paused.
SchedulesKept ==
  /\ flow \in FullFlows => live.sched = before.sched /\ todo \in Seq(Undos)
  /\ flow = "wi063" => \A i \in Scopes :
       /\ Old(i) \in paused => before.sched[Old(i)] = "ENABLED"
       /\ live.sched[Old(i)] # before.sched[Old(i)] =>
            /\ status = "running" => Old(i) \in paused /\ Len(Opening) + i < at
            /\ status = "undoing" /\ ~late =>
                 LostNow \/ (Old(i) \in paused /\ Cmd("resume", Old(i)) \in Range(todo))
            /\ status = "failed" /\ ~late => LostNow

LEMMA QuietEffect ==
  ASSUME ReleaseTypeOK, NEW c \in Commands, c.op \notin Scheduling
  PROVE  Effect(c, live).sched = live.sched
<1>1. live \in Boards(release)
  BY DEF ReleaseTypeOK
<1> QED BY <1>1, EffectFields DEF Scheduling

LEMMA FullSchedulesHold ==
  ASSUME ReleaseTypeOK, SchedulesKept, [ReleaseNext]_releaseVars, flow \in FullFlows,
         ~\E f \in FlowNames : Start(f)
  PROVE  live'.sched = before'.sched /\ todo' \in Seq(Undos)
<1>1. live.sched = before.sched /\ todo \in Seq(Undos) /\ before' = before
  BY Onward DEF SchedulesKept
<1>2. live'.sched = live.sched
  <2>1. CASE Running /\ live' = Effect(Now.do, live)
    <3>1. Now.do \in Commands /\ at \in 1 .. Len(Flows[flow])
      BY <2>1, NowIs
    <3>2. Now.do.op \notin Scheduling
      BY <3>1, FullFlowsUndo DEF Undoes, Now
    <3> QED BY <2>1, <3>1, <3>2, QuietEffect
  <2>2. CASE todo # << >> /\ live' = Effect(Head(todo), live)
    <3>1. Head(todo) \in Commands /\ Head(todo) \in Undos
      BY <1>1, <2>2, HeadIs, HeadTailProperties
    <3>2. Head(todo).op \notin Scheduling
      BY <3>1 DEF Undos, Scheduling
    <3> QED BY <2>2, <3>1, <3>2, QuietEffect
  <2> QED BY <2>1, <2>2, Changes
<1>3. todo' \in Seq(Undos)
  <2>1. CASE Fail \/ FailLate
    <3>1. todo' = Now.undo /\ Running
      BY <2>1 DEF Fail, FailLate
    <3>2. at \in 1 .. Len(Flows[flow]) /\ flow \in DOMAIN Flows \ {"wi063"}
      BY <3>1, NowIs, FlowsAreTargets DEF FullFlows
    <3>3. Now \in Tasks
      BY <3>2, Targets, ElementOfSeq DEF Target, Now
    <3> QED BY <3>1, <3>3 DEF Tasks
  <2>2. CASE Undo \/ UndoFails
    BY <1>1, <2>2, HeadTailProperties DEF Undo, UndoFails
  <2>3. CASE UNCHANGED todo
    BY <1>1, <2>3
  <2> QED BY <2>1, <2>2, <2>3 DEF ReleaseNext, releaseVars, Do, Succeed, GiveUp, Die
<1> QED BY <1>1, <1>2, <1>3

\* A step of the cut-over and the schedules it has paused.
LEMMA CutOverTakes ==
  ASSUME ReleaseTypeOK, OneSchedule, SchedulesKept, flow = "wi063", Do, NEW i \in Scopes
  PROVE  /\ Old(i) \in paused' => before.sched[Old(i)] = "ENABLED"
         /\ live'.sched[Old(i)] # before.sched[Old(i)] => Old(i) \in paused' /\ Len(Opening) + i < at'
<1> DEFINE c == Now.do
           o == Len(Opening)
           n == Len(TradeJobs)
           was == live.sched[Old(i)]
<1>1. /\ at \in 1 .. Len(Flows[flow]) /\ at \in Nat /\ flow \in FlowNames /\ c \in Commands
      /\ c = Flows[flow][at].do
  BY NowIs DEF Now, Do
<1>2. /\ live' = Effect(c, live) /\ at' = at + 1 /\ status = "running"
      /\ paused' = IF c.op = "pause legacy" /\ live.sched[c.on] = "ENABLED" THEN paused \cup {c.on} ELSE paused
  BY DEF Do, Take, Running
<1>3. /\ Old(i) \in paused => before.sched[Old(i)] = "ENABLED"
      /\ was # before.sched[Old(i)] => Old(i) \in paused /\ o + i < at
  BY <1>2 DEF SchedulesKept
<1>4. was \in {"ENABLED", "PAUSED"}
  <2>1. live.sched \in [Scheduler -> Schedules] /\ was # "absent"
    BY DEF ReleaseTypeOK, Boards, OneSchedule
  <2> QED BY <2>1, ScopesAre DEF Schedules
<1>5. o \in Nat /\ i \in Nat
  BY ScopesCount
<1> HIDE DEF c, o, n
<1>6. o + i < at => o + i < at + 1
  BY <1>1, <1>5
<1>7. CASE c.op \notin Scheduling
  <2>1. live'.sched = live.sched /\ paused' = paused
    BY <1>1, <1>2, <1>7, QuietEffect DEF Scheduling
  <2> QED BY <1>2, <1>3, <1>6, <2>1 DEF o
<1>8. ASSUME NEW k \in Scopes, at = o + k, c = Cmd("pause legacy", Old(k))
      PROVE  /\ Old(i) \in paused' => before.sched[Old(i)] = "ENABLED"
             /\ live'.sched[Old(i)] # before.sched[Old(i)] => Old(i) \in paused' /\ o + i < at'
  <2>1. live'.sched[Old(i)] = IF i = k THEN "PAUSED" ELSE was
    BY <1>1, <1>2, <1>4, <1>8, ScopeEffect
  <2>2. c.op = "pause legacy" /\ c.on = Old(k)
    BY <1>8 DEF Cmd
  <2>3. paused' = IF live.sched[Old(k)] = "ENABLED" THEN paused \cup {Old(k)} ELSE paused
    BY <1>2, <2>2
  <2>4. CASE i = k
    <3>1. o + i < at'
      <4>1. at' = (o + i) + 1
        BY <1>2, <1>8, <2>4
      <4> QED BY <1>5, <4>1
    <3>2. was = before.sched[Old(i)] /\ before.sched[Old(i)] # "PAUSED" => was = "ENABLED"
      BY <1>4
    <3> QED BY <1>3, <1>4, <2>1, <2>3, <2>4, <3>1, <3>2
  <2>5. CASE i # k
    <3>1. Old(i) # Old(k)
      BY <2>5 DEF Old
    <3> QED BY <1>2, <1>3, <1>6, <2>1, <2>3, <2>5, <3>1
  <2> QED BY <2>4, <2>5
<1>9. ASSUME NEW k \in Scopes, c = Cmd("schedule", New(k))
      PROVE  live'.sched[Old(i)] = was /\ paused' = paused
  <2>1. c.op = "schedule"
    BY <1>9 DEF Cmd
  <2> QED BY <1>1, <1>2, <1>9, <2>1, ScopeEffect
<1>10. \/ c.op \notin Scheduling
       \/ \E k \in Scopes : at = o + k /\ c = Cmd("pause legacy", Old(k))
       \/ \E k \in Scopes : c = Cmd("schedule", New(k))
  BY <1>1, StepsOfSchedules DEF o
<1>11. CASE \E k \in Scopes : at = o + k /\ c = Cmd("pause legacy", Old(k))
  BY <1>8, <1>11 DEF o
<1>12. CASE \E k \in Scopes : c = Cmd("schedule", New(k))
  BY <1>2, <1>3, <1>6, <1>9, <1>12 DEF o
<1> QED BY <1>7, <1>10, <1>11, <1>12

\* An undo command of the cut-over resumes what it paused, and pauses no old schedule.
LEMMA CutOverUndoes ==
  ASSUME ReleaseTypeOK, OneSchedule, SchedulesKept, flow = "wi063", Undo, ~late, NEW i \in Scopes,
         live'.sched[Old(i)] # before.sched[Old(i)]
  PROVE  LostNow \/ (Old(i) \in paused /\ Cmd("resume", Old(i)) \in Range(todo'))
<1> DEFINE c == Head(todo)
<1>1. status = "undoing" /\ todo # << >> /\ live' = Effect(c, live) /\ todo' = Tail(todo)
  BY DEF Undo
<1>2. c \in Commands /\ c \in ScheduleBacks
  <2>1. todo \in Seq(ScheduleBacks)
    BY DEF OneSchedule
  <2> QED BY <1>1, <2>1, HeadIs, HeadTailProperties
<1>3. /\ Old(i) \in paused => before.sched[Old(i)] = "ENABLED"
      /\ live.sched[Old(i)] # before.sched[Old(i)] =>
           LostNow \/ (Old(i) \in paused /\ Cmd("resume", Old(i)) \in Range(todo))
  BY <1>1 DEF SchedulesKept
<1> HIDE DEF c
<1>4. ASSUME live'.sched[Old(i)] = live.sched[Old(i)], c # Cmd("resume", Old(i))
      PROVE  LostNow \/ (Old(i) \in paused /\ Cmd("resume", Old(i)) \in Range(todo'))
  BY <1>1, <1>3, <1>4, StillToDo DEF c
<1>5. CASE c \in Undos
  <2>1. c.op \notin Scheduling
    BY <1>5 DEF Undos, Scheduling
  <2>2. Cmd("resume", Old(i)).op = "resume"
    BY DEF Cmd
  <2> QED BY <1>1, <1>2, <1>4, <2>1, <2>2, QuietEffect DEF Scheduling
<1>6. ASSUME NEW k \in Scopes, c = Cmd("pause", New(k))
      PROVE  LostNow \/ (Old(i) \in paused /\ Cmd("resume", Old(i)) \in Range(todo'))
  <2>1. c # Cmd("resume", Old(i))
    BY <1>6 DEF Cmd
  <2> QED BY <1>1, <1>2, <1>4, <1>6, <2>1, ScopeEffect
<1>7. ASSUME NEW k \in Scopes, c = Cmd("resume", Old(k))
      PROVE  LostNow \/ (Old(i) \in paused /\ Cmd("resume", Old(i)) \in Range(todo'))
  <2>1. live'.sched[Old(i)] = IF i = k /\ Old(i) \in paused THEN "ENABLED" ELSE live.sched[Old(i)]
    BY <1>1, <1>2, <1>7, ScopeEffect
  <2>2. CASE i = k
    BY <1>3, <2>1, <2>2
  <2>3. CASE i # k
    <3>1. c # Cmd("resume", Old(i))
      BY <1>7, <2>3 DEF Cmd, Old
    <3> QED BY <1>4, <2>1, <2>3, <3>1
  <2> QED BY <2>2, <2>3
<1> QED BY <1>2, <1>5, <1>6, <1>7 DEF ScheduleBacks

LEMMA SchedulesKeptHolds ==
  ASSUME ReleaseTypeOK, OneSchedule, SchedulesKept, [ReleaseNext]_releaseVars
  PROVE  SchedulesKept'
<1>1. ASSUME NEW f \in FlowNames, Start(f) PROVE SchedulesKept'
  BY <1>1, Dispatched, Empty DEF SchedulesKept
<1>2. ASSUME ~\E f \in FlowNames : Start(f) PROVE SchedulesKept'
  <2>1. /\ flow' = flow /\ before' = before /\ (late => late') /\ (LostNow => LostNow')
        /\ Do \/ UNCHANGED paused
    <3>1. (late => late') /\ (Do \/ UNCHANGED paused)
      <4>1. CASE UNCHANGED releaseVars
        BY <4>1 DEF releaseVars
      <4>2. CASE Do
        BY <4>2 DEF Do
      <4>3. CASE FailLate
        BY <4>3 DEF FailLate
      <4>4. CASE Succeed \/ Fail \/ Undo \/ UndoFails \/ GiveUp
        BY <4>4 DEF Succeed, Fail, Undo, UndoFails, GiveUp
      <4>5. CASE Die
        BY <4>5 DEF Die
      <4> QED BY <1>2, <4>1, <4>2, <4>3, <4>4, <4>5 DEF ReleaseNext
    <3> QED BY <1>2, <3>1, Onward, Turns
  <2> SUFFICES ASSUME flow = "wi063", NEW i \in Scopes
               PROVE  /\ Old(i) \in paused' => before.sched[Old(i)] = "ENABLED"
                      /\ live'.sched[Old(i)] # before.sched[Old(i)] =>
                           /\ status' = "running" => Old(i) \in paused' /\ Len(Opening) + i < at'
                           /\ status' = "undoing" /\ ~late' =>
                                LostNow' \/ (Old(i) \in paused' /\ Cmd("resume", Old(i)) \in Range(todo'))
                           /\ status' = "failed" /\ ~late' => LostNow'
    BY <1>2, <2>1, FullSchedulesHold DEF SchedulesKept
  <2>2. /\ Old(i) \in paused => before.sched[Old(i)] = "ENABLED"
        /\ live.sched[Old(i)] # before.sched[Old(i)] =>
             /\ status = "running" => Old(i) \in paused /\ Len(Opening) + i < at
             /\ status = "undoing" /\ ~late =>
                  LostNow \/ (Old(i) \in paused /\ Cmd("resume", Old(i)) \in Range(todo))
             /\ status = "failed" /\ ~late => LostNow
    BY DEF SchedulesKept
  <2>3. Old(i) \in paused' => before.sched[Old(i)] = "ENABLED"
    BY <2>1, <2>2, CutOverTakes
  <2> SUFFICES ASSUME live'.sched[Old(i)] # before.sched[Old(i)]
               PROVE  /\ status' = "running" => Old(i) \in paused' /\ Len(Opening) + i < at'
                      /\ status' = "undoing" /\ ~late' =>
                           LostNow' \/ (Old(i) \in paused' /\ Cmd("resume", Old(i)) \in Range(todo'))
                      /\ status' = "failed" /\ ~late' => LostNow'
    BY <2>3
  <2>4. CASE UNCHANGED releaseVars
    <3>1. live' = live /\ status' = status /\ at' = at /\ todo' = todo /\ paused' = paused /\ late' = late
      BY <2>4 DEF releaseVars
    <3> QED BY <2>1, <2>2, <3>1
  <2>5. Do => Old(i) \in paused' /\ Len(Opening) + i < at'
    BY CutOverTakes
  <2>6. ASSUME Fail PROVE Old(i) \in paused' /\ Cmd("resume", Old(i)) \in Range(todo')
    <3>1. Running /\ live' = live /\ paused' = paused /\ todo' = Now.undo /\ status = "running"
      BY <2>6 DEF Fail, Running
    <3>2. Old(i) \in paused /\ Len(Opening) + i < at
      BY <2>2, <3>1
    <3>3. at \in Nat /\ Len(Opening) \in Nat /\ i \in Nat
      BY <3>1, NowIs, ScopesCount
    <3>4. at \notin 1 .. Len(Opening)
      BY <3>2, <3>3
    <3>5. Now.undo = CutBack
      BY <3>1, <3>4, NowIs, CutOverUndo DEF Now
    <3> QED BY <3>1, <3>2, <3>5, CutBackIs, ScopesAre DEF Old
  <2>7. FailLate => late'
    BY DEF FailLate
  <2>8. ASSUME Undo, ~late' PROVE LostNow' \/ (Old(i) \in paused' /\ Cmd("resume", Old(i)) \in Range(todo'))
    <3>1. paused' = paused
      BY <2>8 DEF Undo
    <3> QED BY <2>1, <2>8, <3>1, CutOverUndoes
  <2>9. ASSUME GiveUp, ~late' PROVE LostNow'
    <3>1. status = "undoing" /\ todo = << >> /\ live' = live
      BY <2>9 DEF GiveUp
    <3> QED BY <2>1, <2>2, <2>9, <3>1, NothingToDo
  <2>10. UndoFails => LostNow'
    BY <1>2, Turns
  <2>11. CASE status' = "running"
    BY <1>2, <2>4, <2>5, <2>11, Turns
  <2>12. CASE status' = "undoing"
    BY <1>2, <2>4, <2>6, <2>7, <2>8, <2>10, <2>12, Turns
  <2>13. CASE status' = "failed"
    BY <1>2, <2>4, <2>9, <2>13, Turns
  <2> QED BY <2>11, <2>12, <2>13
<1> QED BY <1>1, <1>2

LEMMA Untouched ==
  ASSUME ReleaseInit
  PROVE  JobsBack /\ RoutesKept /\ SchedulesKept
<1>1. live = before /\ paused = {} /\ todo = << >>
  BY DEF ReleaseInit
<1>2. \A x : SameRoute(live, x)
  BY <1>1 DEF SameRoute
<1> QED BY <1>1, <1>2, Empty DEF JobsBack, RoutesKept, SchedulesKept

\* A release that fails and whose undo commands all work leaves what it found:
\* the Jobs, the routes and the schedules its target answers for.
THEOREM FailedRestores == ReleaseSpec => []FailedReleaseRestores
<1> DEFINE Inv == ReleaseTypeOK /\ OneSchedule /\ JobsBack /\ RoutesKept /\ SchedulesKept
<1>1. ReleaseInit => Inv
  BY ReleaseTypedAtFirst, OneScheduleAtFirst, Untouched
<1>2. Inv /\ [ReleaseNext]_releaseVars => Inv'
  BY ReleaseTyped, OneScheduleHolds, JobsBackHolds, RoutesKeptHolds, SchedulesKeptHolds
<1>3. Inv => FailedReleaseRestores
  <2> SUFFICES ASSUME Inv, status = "failed", \A x \in lost : x[1] # release
               PROVE  /\ flow \in FullFlows => SameJobs /\ SameRoutes /\ SameSchedules
                      /\ flow = "wi060" => SameJobs
                      /\ flow \in RouteFlows /\ ~late => SameRoutes
                      /\ flow = "wi063" /\ ~late => \A i \in DOMAIN TradeJobs :
                            live.sched[<<"legacy", i>>] = before.sched[<<"legacy", i>>]
    BY DEF FailedReleaseRestores, FullFlows, RouteFlows
  <2>1. ~LostNow
    BY DEF LostNow
  <2>2. ASSUME flow \in FullFlows \cup {"wi060"} PROVE SameJobs
    <3>1. live.job \in [Job -> 0 .. release] /\ before.job \in [Job -> 0 .. release]
      BY DEF ReleaseTypeOK, Boards
    <3>2. \A j \in Job : live.job[j] = before.job[j]
      BY <2>1, <2>2 DEF JobsBack
    <3> QED BY <3>1, <3>2 DEF SameJobs
  <2>3. ASSUME flow \in FullFlows \/ (flow \in RouteFlows /\ ~late) PROVE SameRoutes
    <3>1. \A x \in Service : SameRoute(live, x)
      BY <2>1, <2>3 DEF RoutesKept
    <3> QED BY <3>1 DEF SameRoutes, SameRoute
  <2>4. flow \in FullFlows => SameSchedules
    BY DEF SchedulesKept, SameSchedules
  <2>5. ASSUME flow = "wi063", ~late, NEW i \in DOMAIN TradeJobs
        PROVE  live.sched[<<"legacy", i>>] = before.sched[<<"legacy", i>>]
    BY <2>1, <2>5 DEF SchedulesKept, Old, Scopes
  <2> QED BY <2>2, <2>3, <2>4, <2>5
<1> QED BY <1>1, <1>2, <1>3, PTL DEF ReleaseSpec
=============================================================================
