---------------------------- MODULE AlertDelivery ----------------------------
(***************************************************************************)
(* Telegram delivery of alert candidates: services/telegram_delivery.py     *)
(* run_telegram_delivery with the claim ledger of                           *)
(* adapters/outbound/alert_warehouse.py.                                    *)
(*                                                                          *)
(* Several delivery runs may overlap.  Every SQL statement commits by       *)
(* itself, so the read of a claim and the statement that relies on it are   *)
(* separate steps.  A run takes its clock once, at the start.               *)
(***************************************************************************)
EXTENDS Integers, FiniteSets

CONSTANTS
  Run,        \* runs of the delivery job; each draws lease tokens of its own
  Candidate,  \* candidates whose transition requires a delivery
  Lease,      \* lease_seconds, in ticks
  SlowRuns,   \* may a run last longer than the lease it claims with?
  MaxTime     \* bound: the clock stops here

ASSUME LeaseAssumption == Lease \in Nat \ {0} /\ MaxTime \in Nat
ASSUME SlowAssumption == SlowRuns \in BOOLEAN

Nobody == "nobody"
Nothing == "nothing"
ASSUME NameAssumption == Nobody \notin Run /\ Nothing \notin Candidate

VARIABLES
  now,       \* the clock
  approved,  \* the owner's latest decision on the rule is "approved"
  row,       \* row[k]: the row of alert_dispatch_claims
  ledger,    \* ledger[k]: <<attempt_no, outcome>> in alert_delivery_attempts
  accepted,  \* history: posts of k that Telegram has or may have accepted
  pc,        \* where each run is
  stamp,     \* stamp[r]: `timestamp`, the clock when r started
  todo,      \* todo[r]: candidates r has selected and not dealt with
  cur,       \* cur[r]: the candidate r is dealing with
  result,    \* result[r]: the outcome of r's post
  number     \* number[r]: attempt_no of record_attempt

vars == <<now, approved, row, ledger, accepted, pc, stamp, todo, cur,
          result, number>>
local == <<stamp, todo, cur, result, number>>

Terminal == {"completed", "unknown", "permanent_failure"}
Status == Terminal \cup {"none", "claimed", "retryable"}
Outcome == {"sent", "retryable_failure", "permanent_failure", "unknown"}
Ended == {"done", "failed"}
Active(r) == pc[r] \notin Ended \cup {"idle"}
Dealing(r) == pc[r] \in {"inserting", "updating", "posting", "recording", "committing"}

\* `statuses` of record_attempt.
StatusOf(outcome) ==
  CASE outcome = "sent" -> "completed"
    [] outcome = "retryable_failure" -> "retryable"
    [] OTHER -> outcome

NoRow == [status |-> "none", holder |-> Nobody, expires |-> 0, attempts |-> 0]

Init ==
  /\ now = 0 /\ approved = TRUE
  /\ row = [k \in Candidate |-> NoRow]
  /\ ledger = [k \in Candidate |-> {}]
  /\ accepted = [k \in Candidate |-> 0]
  /\ pc = [r \in Run |-> "idle"]
  /\ stamp = [r \in Run |-> 0]
  /\ todo = [r \in Run |-> {}]
  /\ cur = [r \in Run |-> Nothing]
  /\ result = [r \in Run |-> "unknown"]
  /\ number = [r \in Run |-> 0]

-----------------------------------------------------------------------------

Goto(r, l) == pc' = [pc EXCEPT ![r] = l]

Start(r) ==
  /\ pc[r] = "idle"
  /\ stamp' = [stamp EXCEPT ![r] = now]
  /\ Goto(r, "expiring")
  /\ UNCHANGED <<now, approved, row, ledger, accepted, todo, cur, result, number>>

Expired(k, t) == row[k].status = "claimed" /\ row[k].expires <= t

\* Mutation: an abandoned claim is offered again.
ExpireToRetryable(r) ==
  /\ pc[r] = "expiring"
  /\ row' = [k \in Candidate |->
               IF Expired(k, stamp[r])
               THEN [row[k] EXCEPT !.status = "retryable"] ELSE row[k]]
  /\ Goto(r, "selecting")
  /\ UNCHANGED <<now, approved, ledger, accepted, local>>

\* Mutation: a claim that ends at the very time of the run is left alone.
ExpireLate(r) ==
  /\ pc[r] = "expiring"
  /\ row' = [k \in Candidate |->
               IF Expired(k, stamp[r]) /\ row[k].expires # stamp[r]
               THEN [row[k] EXCEPT !.status = "unknown"] ELSE row[k]]
  /\ Goto(r, "selecting")
  /\ UNCHANGED <<now, approved, ledger, accepted, local>>

\* eligible_telegram_dispatches: nobody knows what became of an expired claim.
ExpireStale(r) ==
  /\ pc[r] = "expiring"
  /\ row' = [k \in Candidate |->
               IF Expired(k, stamp[r])
               THEN [row[k] EXCEPT !.status = "unknown"] ELSE row[k]]
  /\ Goto(r, "selecting")
  /\ UNCHANGED <<now, approved, ledger, accepted, local>>

\* eligible_telegram_dispatches: candidates never claimed or retryable, all
\* of them (the instances stay below its limit of 20).
Select(r) ==
  /\ pc[r] = "selecting"
  /\ todo' = [todo EXCEPT ![r] =
       {k \in Candidate : approved /\ row[k].status \in {"none", "retryable"}}]
  /\ Goto(r, "next")
  /\ UNCHANGED <<now, approved, row, ledger, accepted, stamp, cur, result, number>>

\* claim_dispatch: the rule's approval and the prior row are read again.
LookAtClaim(r) ==
  /\ pc[r] = "next"
  /\ \E k \in todo[r] :
       /\ cur' = [cur EXCEPT ![r] = k]
       /\ todo' = [todo EXCEPT ![r] = @ \ {k}]
       /\ Goto(r, IF ~approved THEN "failed"
                  ELSE CASE row[k].status = "none" -> "inserting"
                         [] row[k].status = "retryable" -> "updating"
                         [] OTHER -> "next")
  /\ UNCHANGED <<now, approved, row, ledger, accepted, stamp, result, number>>

\* r is given the claim on k until its lease is over.
Give(r, k) ==
  row' = [row EXCEPT ![k].status = "claimed", ![k].holder = r,
                     ![k].expires = stamp[r] + Lease]

\* claim_dispatch without a prior row: a second insert breaks the key.
InsertClaim(r) ==
  /\ pc[r] = "inserting"
  /\ IF row[cur[r]].status = "none"
     THEN Give(r, cur[r]) /\ Goto(r, "posting")
     ELSE UNCHANGED row /\ Goto(r, "failed")
  /\ UNCHANGED <<now, approved, ledger, accepted, local>>

\* Mutation: the update is not conditional on the row.
UpdateUnconditionally(r) ==
  /\ pc[r] = "updating"
  /\ Give(r, cur[r]) /\ Goto(r, "posting")
  /\ UNCHANGED <<now, approved, ledger, accepted, local>>

\* claim_dispatch with a retryable prior row.
UpdateClaim(r) ==
  /\ pc[r] = "updating"
  /\ IF row[cur[r]].status = "retryable" \/ Expired(cur[r], stamp[r])
     THEN Give(r, cur[r]) /\ Goto(r, "posting")
     ELSE UNCHANGED row /\ Goto(r, "next")
  /\ UNCHANGED <<now, approved, ledger, accepted, local>>

\* send_rich_message, or no request at all for an unsafe payload.  Telegram
\* has not accepted what it refuses with 4xx, 429 or 5xx.
Post(r) ==
  /\ pc[r] = "posting"
  /\ \E o \in Outcome :
       /\ result' = [result EXCEPT ![r] = o]
       /\ accepted' = IF o \in {"sent", "unknown"}
                      THEN [accepted EXCEPT ![cur[r]] = @ + 1] ELSE accepted
  /\ Goto(r, "recording")
  /\ UNCHANGED <<now, approved, row, ledger, stamp, todo, cur, number>>

\* The run dies after Telegram took the message and before it could tell.
DieInPost(r) ==
  /\ pc[r] = "posting"
  /\ accepted' = [accepted EXCEPT ![cur[r]] = @ + 1]
  /\ Goto(r, "failed")
  /\ UNCHANGED <<now, approved, row, ledger, local>>

\* The claim on k is still r's.
Owns(r, k) == row[k].status = "claimed" /\ row[k].holder = r

\* record_attempt: a claim that is no longer the run's ends the run.
CheckClaim(r) ==
  /\ pc[r] = "recording"
  /\ IF Owns(r, cur[r])
     THEN Goto(r, "committing") /\ number' = [number EXCEPT ![r] = row[cur[r]].attempts + 1]
     ELSE Goto(r, "failed") /\ UNCHANGED number
  /\ UNCHANGED <<now, approved, row, ledger, accepted, stamp, todo, cur, result>>

\* The attempt with this number is already in the ledger.
Numbered(k, n) == \E o \in Outcome : <<n, o>> \in ledger[k]

\* Mutation: the attempt is not counted on the claim.
CommitUncounted(r) ==
  LET k == cur[r] IN
  /\ pc[r] = "committing" /\ ~Numbered(k, number[r])
  /\ ledger' = [ledger EXCEPT ![k] = @ \cup {<<number[r], result[r]>>}]
  /\ row' = IF Owns(r, k)
            THEN [row EXCEPT ![k].status = StatusOf(result[r])] ELSE row
  /\ Goto(r, "next")
  /\ UNCHANGED <<now, approved, accepted, local>>

\* record_attempt: the transaction that writes the attempt and closes the
\* claim, if it is still r's.  A number used before breaks the ledger's key.
Commit(r) ==
  LET k == cur[r] IN
  /\ pc[r] = "committing" /\ ~Numbered(k, number[r])
  /\ ledger' = [ledger EXCEPT ![k] = @ \cup {<<number[r], result[r]>>}]
  /\ row' = IF Owns(r, k)
            THEN [row EXCEPT ![k].status = StatusOf(result[r]), ![k].attempts = number[r]]
            ELSE row
  /\ Goto(r, "next")
  /\ UNCHANGED <<now, approved, accepted, local>>

Finish(r) ==
  /\ pc[r] = "next" /\ todo[r] = {}
  /\ Goto(r, "done")
  /\ UNCHANGED <<now, approved, row, ledger, accepted, local>>

\* The run dies, or a statement fails: the second insert of one attempt_no
\* does, and every conflict of two transactions.
Crash(r) ==
  /\ Active(r)
  /\ Goto(r, "failed")
  /\ UNCHANGED <<now, approved, row, ledger, accepted, local>>

\* The owner withdraws the approval.
Revoke ==
  /\ approved
  /\ approved' = FALSE
  /\ UNCHANGED <<now, row, ledger, accepted, pc, local>>

\* Time passes; unless SlowRuns, every run is over before its leases are.
Tick ==
  /\ now < MaxTime
  /\ ~SlowRuns => \A r \in Run : Active(r) => now + 1 < stamp[r] + Lease
  /\ now' = now + 1
  /\ UNCHANGED <<approved, row, ledger, accepted, pc, local>>

Step(r) ==
  \/ Start(r) \/ ExpireStale(r) \/ Select(r) \/ LookAtClaim(r) \/ InsertClaim(r)
  \/ UpdateClaim(r) \/ Post(r) \/ DieInPost(r) \/ CheckClaim(r) \/ Commit(r)
  \/ Finish(r) \/ Crash(r)

Next == (\E r \in Run : Step(r)) \/ Revoke \/ Tick

Spec == Init /\ [][Next]_vars

-----------------------------------------------------------------------------

TypeOK ==
  /\ now \in Nat /\ approved \in BOOLEAN
  /\ row \in [Candidate -> [status : Status, holder : Run \cup {Nobody},
                            expires : Nat, attempts : Nat]]
  /\ ledger \in [Candidate -> SUBSET (Nat \X Outcome)]
  /\ accepted \in [Candidate -> Nat]
  /\ pc \in [Run -> {"idle", "expiring", "selecting", "next", "inserting",
                     "updating", "posting", "recording", "committing"} \cup Ended]
  /\ stamp \in [Run -> Nat]
  /\ todo \in [Run -> SUBSET Candidate]
  /\ cur \in [Run -> Candidate \cup {Nothing}]
  /\ \A r \in Run : Dealing(r) => cur[r] \in Candidate
  /\ result \in [Run -> Outcome]
  /\ number \in [Run -> Nat]

\* services/telegram_delivery.py:118, "Send each eligible claim at most once":
\* Telegram never has, or may have, accepted a candidate's message twice,
\* whatever overlaps, fails or is retried.
AtMostOnce == \A k \in Candidate : accepted[k] <= 1

\* A claim with a terminal outcome, unknown included, is never taken or
\* changed again, not even by the run that lost it while it was posting.
TerminalIsFinal ==
  [][\A k \in Candidate : row[k].status \in Terminal => row'[k] = row[k]]_vars

\* The claim ledger and the attempt ledger agree: the claim counts the
\* attempts, and a completed claim has one that was sent.
LedgersAgree ==
  \A k \in Candidate :
    /\ Cardinality(ledger[k]) = row[k].attempts
    /\ row[k].status = "completed" => <<row[k].attempts, "sent">> \in ledger[k]

\* A claim whose run died is settled by the next run that starts after the
\* lease: none survives that run's first statement.
StaleClaimsSettled ==
  \A r \in Run, k \in Candidate :
    pc[r] \notin {"idle", "expiring"} \cup Ended => ~Expired(k, stamp[r])
=============================================================================
