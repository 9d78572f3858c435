------------------------------ MODULE AlertState ------------------------------
(***************************************************************************)
(* The state of one alert identity: an instrument under the shadow rule.   *)
(* Jobs evaluate it at slots (services/shadow_alerts.py), write what they  *)
(* observed as an immutable candidate, and apply the candidate to the      *)
(* state by an optimistic append (AlertWarehouseRepository.apply_candidate *)
(* of adapters/outbound/alert_warehouse.py, decide_alert_transition of     *)
(* modules/monitoring/alerts.py).  A transition that is to be delivered    *)
(* gets a shadow claim and attempt, and a slot that is complete a marker.  *)
(*                                                                         *)
(* Statements commit by themselves, but for the transactions.  Jobs        *)
(* overlap, slots are run again and out of their order, observations       *)
(* change between runs, and jobs fail or die at every statement.  The      *)
(* other instruments of a slot, the public context and the text of rules   *)
(* are left out; claims for Telegram are AlertDelivery's.                  *)
(***************************************************************************)
EXTENDS Naturals, Sequences

CONSTANTS Job,          \* processes that evaluate slots
          Slot,         \* session and slot: one candidate each
          Observation,  \* what a job may observe: when it was known, the signal
                        \* (its rank and key; rank 0 is normal), whether its quality
                        \* passes, and the date of the run
          Floor,        \* the rank from which the rule delivers
          MaxFailures   \* bound: statements and processes that fail

ASSUME ObservationAssumption ==
  \A o \in Observation :
    /\ o.at \in Nat \ {0} /\ o.signal.rank \in Nat /\ o.pass \in BOOLEAN /\ o.day \in Nat
    /\ o.pass \/ o.signal.rank = 0
ASSUME BoundAssumption == MaxFailures \in Nat /\ Floor \in Nat

VARIABLES candidate,    \* gold.alert_candidates, by slot
          revs,         \* control.alert_state_revisions, in the order of revision
          outcome,      \* control.alert_candidate_outcomes
          claim,        \* control.alert_dispatch_claims of the shadow channel
          marker,       \* shadow-slot-terminal-v1 of a date and slot
          failures,
          pc, slot, day, head   \* of each job; head is the revision it has read

ledger == <<candidate, revs, outcome, claim, marker>>
vars == <<ledger, failures, pc, slot, day, head>>

None == [at |-> 0]

Active(o) == o.signal.rank > 0

Revision == [slot : Slot, episode : Nat, deliver : BOOLEAN, against : Nat]

Init ==
  /\ candidate = [c \in Slot |-> None] /\ revs = <<>>
  /\ outcome = [c \in Slot |-> "none"] /\ claim = [c \in Slot |-> "none"] /\ marker = {}
  /\ failures = 0
  /\ pc = [j \in Job |-> "idle"] /\ slot = [j \in Job |-> "none"]
  /\ day = [j \in Job |-> 1] /\ head = [j \in Job |-> 0]

Goto(j, p) ==
  /\ pc' = [pc EXCEPT ![j] = p] /\ head' = [head EXCEPT ![j] = IF p = "committing" THEN @ ELSE 0]
  /\ UNCHANGED <<slot, day>>

(* The job has ended or raised; the next trigger remembers nothing of it.  *)
End(j) ==
  /\ pc' = [pc EXCEPT ![j] = "idle"] /\ slot' = [slot EXCEPT ![j] = "none"]
  /\ day' = [day EXCEPT ![j] = 1] /\ head' = [head EXCEPT ![j] = 0]

(* The observation behind revision n.                                      *)
State(n) == candidate[revs[n].slot]

-----------------------------------------------------------------------------
(* decide_alert_transition of candidate c against revision n.              *)
Changes(n, c) ==
  /\ candidate[c].pass
  /\ n = 0 \/ State(n).signal # candidate[c].signal

Enters(n, c) == Active(candidate[c]) /\ (n = 0 \/ ~Active(State(n)))

EpisodeAfter(n, c) == (IF n = 0 THEN 0 ELSE revs[n].episode) + (IF Enters(n, c) THEN 1 ELSE 0)

Deliver(n, c) ==
  LET rank == candidate[c].signal.rank
      old == IF n = 0 THEN 0 ELSE State(n).signal.rank
  IN  \/ rank > 0 /\ rank >= old /\ rank >= Floor
      \/ rank = 0 /\ old > 0 /\ old >= Floor

(* A candidate that was known no later than the state is out of order.     *)
OutOfOrder(n, c) == n > 0 /\ candidate[c].at <= State(n).at

Verdict(n, c) ==
  CASE OutOfOrder(n, c) -> "out_of_order"
    [] ~OutOfOrder(n, c) /\ Changes(n, c) -> "transition"
    [] ~OutOfOrder(n, c) /\ ~Changes(n, c) ->
         IF candidate[c].pass THEN "no_change" ELSE "suppressed_quality"

-----------------------------------------------------------------------------
(* A job observes a slot and writes its candidate.  A session that was     *)
(* evaluated on an earlier date is reused as it is; a candidate that       *)
(* differs from the one that is there raises, and leaves nothing; so does  *)
(* a race of two INSERTs, which Die stands for.                            *)
Observe(j, c, o) ==
  /\ pc[j] = "idle"
  /\ candidate[c] # None => candidate[c].day < o.day \/ candidate[c] = o
  /\ candidate' = [candidate EXCEPT ![c] = IF @ = None THEN o ELSE @]
  /\ slot' = [slot EXCEPT ![j] = c] /\ day' = [day EXCEPT ![j] = o.day]
  /\ pc' = [pc EXCEPT ![j] = IF candidate[c] # None /\ candidate[c].day < o.day
                             THEN "closing" ELSE "applying"]
  /\ UNCHANGED <<revs, outcome, claim, marker, failures, head>>

(* A candidate that has its outcome is not applied again.                  *)
ReadOutcome(j) ==
  /\ pc[j] = "applying"
  /\ Goto(j, IF outcome[slot[j]] = "none" THEN "reading" ELSE "closing")
  /\ UNCHANGED <<ledger, failures>>

(* SELECT of alert_states_current, and the decision on it.                 *)
ReadState(j) ==
  /\ pc[j] = "reading"
  /\ head' = [head EXCEPT ![j] = Len(revs)]
  /\ pc' = [pc EXCEPT ![j] = IF Verdict(Len(revs), slot[j]) = "transition"
                             THEN "checking" ELSE "recording"]
  /\ UNCHANGED <<ledger, failures, slot, day>>

(* INSERT of an outcome that leaves the state; its key is the candidate.   *)
RecordOutcome(j) ==
  /\ pc[j] = "recording"
  /\ IF outcome[slot[j]] = "none"
     THEN /\ outcome' = [outcome EXCEPT ![slot[j]] = Verdict(head[j], slot[j])]
          /\ Goto(j, "closing")
     ELSE End(j) /\ UNCHANGED outcome
  /\ UNCHANGED <<candidate, revs, claim, marker, failures>>

CheckRevision(j) ==
  /\ pc[j] = "checking"
  /\ IF Len(revs) = head[j] THEN Goto(j, "committing") ELSE End(j)
  /\ UNCHANGED <<ledger, failures>>

Appended(j) ==
  Append(revs, [slot |-> slot[j], episode |-> EpisodeAfter(head[j], slot[j]),
                deliver |-> Deliver(head[j], slot[j]), against |-> head[j]])

\* Mutation: the revision takes the next number that is free.
CommitNextNumber(j) ==
  /\ pc[j] = "committing"
  /\ IF outcome[slot[j]] = "none"
     THEN /\ revs' = Appended(j) /\ outcome' = [outcome EXCEPT ![slot[j]] = "transition"]
          /\ Goto(j, IF Deliver(head[j], slot[j]) THEN "claiming" ELSE "closing")
     ELSE End(j) /\ UNCHANGED <<revs, outcome>>
  /\ UNCHANGED <<candidate, claim, marker, failures>>

(* One transaction: INSERT of the revision, whose number and candidate are *)
(* unique, and of the outcome.  A number that is taken raises.             *)
Commit(j) ==
  /\ pc[j] = "committing"
  /\ IF Len(revs) = head[j] /\ outcome[slot[j]] = "none"
     THEN /\ revs' = Appended(j) /\ outcome' = [outcome EXCEPT ![slot[j]] = "transition"]
          /\ Goto(j, IF Deliver(head[j], slot[j]) THEN "claiming" ELSE "closing")
     ELSE End(j) /\ UNCHANGED <<revs, outcome>>
  /\ UNCHANGED <<candidate, claim, marker, failures>>

-----------------------------------------------------------------------------
(* claim_dispatch for the shadow channel.  Its clock is the evaluation     *)
(* time, at which no claim of the candidate has expired: a claim that is   *)
(* there is not acquired.                                                  *)
ClaimShadow(j) ==
  /\ pc[j] = "claiming"
  /\ IF claim[slot[j]] = "none"
     THEN claim' = [claim EXCEPT ![slot[j]] = "claimed"] /\ Goto(j, "attempting")
     ELSE Goto(j, "closing") /\ UNCHANGED claim
  /\ UNCHANGED <<candidate, revs, outcome, marker, failures>>

(* record_attempt: one transaction.                                        *)
RecordAttempt(j) ==
  /\ pc[j] = "attempting"
  /\ claim' = [claim EXCEPT ![slot[j]] = "completed"] /\ Goto(j, "closing")
  /\ UNCHANGED <<candidate, revs, outcome, marker, failures>>

(* The transition of candidate c is to be delivered.                       *)
Delivered(c) == \E n \in 1..Len(revs) : revs[n].slot = c /\ revs[n].deliver

(* A slot may not end with a candidate of its own run that has no outcome, *)
(* or was to be delivered and has no attempt.                              *)
Incomplete(c, d) ==
  /\ candidate[c] # None /\ candidate[c].day = d
  /\ \/ outcome[c] = "none"
     \/ claim[c] # "completed" /\ Delivered(c)

\* Mutation: a slot is complete when its candidate has its outcome.
CloseOnOutcome(j) ==
  /\ pc[j] = "closing" /\ End(j)
  /\ marker' = IF outcome[slot[j]] = "none" THEN marker ELSE marker \cup {<<day[j], slot[j]>>}
  /\ UNCHANGED <<candidate, revs, outcome, claim, failures>>

Close(j) ==
  /\ pc[j] = "closing" /\ End(j)
  /\ marker' = IF Incomplete(slot[j], day[j]) THEN marker ELSE marker \cup {<<day[j], slot[j]>>}
  /\ UNCHANGED <<candidate, revs, outcome, claim, failures>>

(* A statement raises, a transaction is rolled back, the process dies.     *)
Die(j) ==
  /\ pc[j] # "idle" /\ failures < MaxFailures
  /\ failures' = failures + 1 /\ End(j)
  /\ UNCHANGED ledger

Work(j) ==
  \/ ReadOutcome(j) \/ ReadState(j) \/ RecordOutcome(j) \/ CheckRevision(j) \/ Commit(j)
  \/ ClaimShadow(j) \/ RecordAttempt(j) \/ Close(j)

Next ==
  \E j \in Job :
    \/ \E c \in Slot, o \in Observation : Observe(j, c, o)
    \/ Work(j) \/ Die(j)

Spec == Init /\ [][Next]_vars

-----------------------------------------------------------------------------
Point == {"idle", "applying", "reading", "recording", "checking", "committing", "claiming", "attempting",
          "closing"}

TypeOK ==
  /\ candidate \in [Slot -> Observation \cup {None}]
  /\ revs \in Seq(Revision)
  /\ outcome \in [Slot -> {"none", "transition", "no_change", "suppressed_quality", "out_of_order"}]
  /\ claim \in [Slot -> {"none", "claimed", "completed"}]
  /\ marker \subseteq Nat \X Slot
  /\ failures \in 0..MaxFailures
  /\ pc \in [Job -> Point] /\ slot \in [Job -> Slot \cup {"none"}]
  /\ day \in [Job -> Nat] /\ head \in [Job -> Nat]
  /\ \A j \in Job : pc[j] # "idle" => slot[j] \in Slot

(* The revisions are one history, whatever jobs overlap: each was decided  *)
(* against the one before it, by a candidate that passed and was known     *)
(* later; it changes the signal, and an episode begins where the state     *)
(* becomes active.  A candidate is in it once, and then says so.           *)
OneHistory ==
  /\ \A n \in 1..Len(revs) :
       /\ revs[n].against = n - 1
       /\ outcome[revs[n].slot] = "transition" /\ State(n) # None /\ State(n).pass
       /\ revs[n].episode = EpisodeAfter(n - 1, revs[n].slot)
       /\ n > 1 => State(n - 1).at < State(n).at /\ State(n - 1).signal # State(n).signal
       /\ \A m \in 1..Len(revs) : revs[m].slot = revs[n].slot => m = n
  /\ \A c \in Slot : outcome[c] = "transition" => \E n \in 1..Len(revs) : revs[n].slot = c

(* A slot is marked terminal, for good, only when its candidate is: what   *)
(* was to be delivered has its attempt, and what was not has none.         *)
MarkedIsTerminal ==
  /\ \A m \in marker : ~Incomplete(m[2], m[1])
  /\ \A c \in Slot : claim[c] # "none" => Delivered(c)

=============================================================================
