---------------------------- MODULE Telegram_proofs ----------------------------
(***************************************************************************)
(* Proofs about what goes out over Telegram.  Of AlertDelivery: its types, *)
(* the finality of terminal claims, and, while no run outlives its leases, *)
(* that no message is sent twice.  Of OwnerReports, for any set of jobs    *)
(* and any number of failures: its types, the truth of what is told, and   *)
(* that it implements SendPromise.                                         *)
(***************************************************************************)
EXTENDS AlertDelivery, OwnerReports, FiniteSetTheorems, TLAPS

\* The type invariant holds of every behaviour of the delivery runs.
THEOREM TypeCorrect == Spec => []TypeOK
<1>1. Init => TypeOK
  BY NameAssumption DEF Init, TypeOK, NoRow, Status, Outcome, Ended, Dealing
<1>2. TypeOK /\ [Next]_vars => TypeOK'
  <2> SUFFICES ASSUME TypeOK, [Next]_vars PROVE TypeOK'
    OBVIOUS
  <2> USE LeaseAssumption DEF TypeOK, Goto, Ended, Dealing
  <2>1. ASSUME NEW r \in Run, Start(r) PROVE TypeOK'
    BY <2>1 DEF Start
  <2>2. ASSUME NEW r \in Run, ExpireStale(r) PROVE TypeOK'
    <3>1. row' \in [Candidate -> [status : Status, holder : Run \cup {Nobody},
                                  expires : Nat, attempts : Nat]]
      BY <2>2 DEF ExpireStale, Status, Terminal
    <3> QED BY <3>1, <2>2, SMTT(60) DEF ExpireStale, local
  <2>3. ASSUME NEW r \in Run, Select(r) PROVE TypeOK'
    BY <2>3 DEF Select
  <2>4. ASSUME NEW r \in Run, LookAtClaim(r) PROVE TypeOK'
    <3>1. PICK k \in todo[r] : LookAtClaim(r)!2!(k)
      BY <2>4 DEF LookAtClaim
    <3>2. k \in Candidate
      OBVIOUS
    <3>3. pc' \in [Run -> {"idle", "expiring", "selecting", "next", "inserting",
                     "updating", "posting", "recording", "committing"} \cup Ended]
      BY <3>1
    <3> QED BY <3>1, <3>2, <3>3, <2>4 DEF LookAtClaim
  <2>5. ASSUME NEW r \in Run, InsertClaim(r) \/ UpdateClaim(r) PROVE TypeOK'
    <3>1. row' \in [Candidate -> [status : Status, holder : Run \cup {Nobody},
                                  expires : Nat, attempts : Nat]]
      BY <2>5 DEF InsertClaim, UpdateClaim, Give, Status
    <3>2. pc' \in [Run -> {"idle", "expiring", "selecting", "next", "inserting",
                     "updating", "posting", "recording", "committing"} \cup Ended]
      BY <2>5 DEF InsertClaim, UpdateClaim
    <3> QED BY <3>1, <3>2, <2>5 DEF InsertClaim, UpdateClaim, local
  <2>6. ASSUME NEW r \in Run, Post(r) \/ DieInPost(r) PROVE TypeOK'
    <3>1. accepted' \in [Candidate -> Nat]
      BY <2>6 DEF Post, DieInPost
    <3>2. result' \in [Run -> Outcome]
      BY <2>6 DEF Post, DieInPost, local
    <3>3. pc' \in [Run -> {"idle", "expiring", "selecting", "next", "inserting",
                     "updating", "posting", "recording", "committing"} \cup Ended]
      <4>1. Goto(r, "recording") \/ Goto(r, "failed")
        BY <2>6 DEF Post, DieInPost
      <4> QED BY <4>1 DEF Goto
    <3>4. /\ UNCHANGED <<now, approved, row, ledger, stamp, todo, cur, number>>
          /\ \A s \in Run : Dealing(s)' => Dealing(s)
      BY <2>6 DEF Post, DieInPost, local
    <3>5. \A s \in Run : Dealing(s)' => cur'[s] \in Candidate
      BY <3>4
    <3> QED BY <3>1, <3>2, <3>3, <3>4, <3>5, SMTT(60)
  <2>7. ASSUME NEW r \in Run, CheckClaim(r) PROVE TypeOK'
    <3>1. number' \in [Run -> Nat]
      <4>1. CASE Owns(r, cur[r])
        <5>1. cur[r] \in Candidate /\ row[cur[r]].attempts + 1 \in Nat
          BY <2>7 DEF CheckClaim
        <5>2. number' = [number EXCEPT ![r] = row[cur[r]].attempts + 1]
          BY <4>1, <2>7 DEF CheckClaim
        <5> QED BY <5>1, <5>2, <4>1
      <4>2. CASE ~Owns(r, cur[r])
        BY <4>2, <2>7 DEF CheckClaim
      <4> QED BY <4>1, <4>2
    <3> QED BY <3>1, <2>7 DEF CheckClaim
  <2>8. ASSUME NEW r \in Run, Commit(r) PROVE TypeOK'
    <3>1. row' \in [Candidate -> [status : Status, holder : Run \cup {Nobody},
                                  expires : Nat, attempts : Nat]]
      <4>1. StatusOf(result[r]) \in Status /\ number[r] \in Nat
        BY DEF StatusOf, Status, Terminal, Outcome
      <4>2. \/ row' = row
            \/ row' = [row EXCEPT ![cur[r]].status = StatusOf(result[r]),
                                  ![cur[r]].attempts = number[r]]
        BY <2>8 DEF Commit
      <4> QED BY <4>1, <4>2
    <3>2. ledger' \in [Candidate -> SUBSET (Nat \X Outcome)]
      <4> DEFINE P == Nat \X Outcome
                 a == <<number[r], result[r]>>
      <4>1. a \in P /\ ledger \in [Candidate -> SUBSET P]
        OBVIOUS
      <4>2. ledger' = [ledger EXCEPT ![cur[r]] = @ \cup {a}]
        BY <2>8 DEF Commit
      <4> HIDE DEF P, a
      <4>3. ledger' \in [Candidate -> SUBSET P]
        BY <4>1, <4>2
      <4> QED BY <4>3 DEF P
    <3> QED BY <3>1, <3>2, <2>8 DEF Commit, local, Terminal
  <2>9. ASSUME NEW r \in Run, Finish(r) \/ Crash(r) PROVE TypeOK'
    BY <2>9 DEF Finish, Crash, local
  <2>10. CASE Revoke
    BY <2>10 DEF Revoke, local
  <2>11. CASE Tick
    <3>1. now' \in Nat
      BY <2>11 DEF Tick
    <3> QED BY <3>1, <2>11 DEF Tick, local
  <2>12. CASE UNCHANGED vars
    BY <2>12 DEF vars, local
  <2> QED BY <2>1, <2>2, <2>3, <2>4, <2>5, <2>6, <2>7, <2>8, <2>9, <2>10, <2>11,
             <2>12 DEF Next, Step
<1> QED BY <1>1, <1>2, PTL DEF Spec

\* A terminal claim is final, however long the runs last.
THEOREM Finality == Spec => TerminalIsFinal
<1>1. TypeOK /\ [Next]_vars =>
        [\A k \in Candidate : row[k].status \in Terminal => row'[k] = row[k]]_vars
  <2> SUFFICES ASSUME TypeOK, Next, NEW k \in Candidate, row[k].status \in Terminal
               PROVE row'[k] = row[k]
    OBVIOUS
  <2>1. row[k].status \notin {"none", "claimed", "retryable"}
    BY DEF Terminal
  <2>2. ASSUME NEW r \in Run, ExpireStale(r) PROVE row'[k] = row[k]
    BY <2>1, <2>2 DEF ExpireStale, Expired
  <2>3. ASSUME NEW r \in Run, InsertClaim(r) \/ UpdateClaim(r) PROVE row'[k] = row[k]
    BY <2>1, <2>3 DEF InsertClaim, UpdateClaim, Give, Expired, TypeOK
  <2>4. ASSUME NEW r \in Run, Commit(r) PROVE row'[k] = row[k]
    BY <2>1, <2>4 DEF Commit, Owns, TypeOK
  <2> QED BY <2>2, <2>3, <2>4 DEF Next, Step, Start, Select, LookAtClaim, Post,
             DieInPost, CheckClaim, Finish, Crash, Revoke, Tick
<1> QED BY <1>1, TypeCorrect, PTL DEF Spec, TerminalIsFinal

-----------------------------------------------------------------------------
(***************************************************************************)
(* No run outlives the leases it claims with.                               *)
(***************************************************************************)

\* An active run is younger than a lease.
Young == \A r \in Run : Active(r) => stamp[r] <= now /\ now < stamp[r] + Lease

\* A claim ends a lease after the clock of the run it was given to.
Dated ==
  \A k \in Candidate : row[k].status = "claimed" =>
    /\ row[k].holder \in Run /\ pc[row[k].holder] # "idle"
    /\ row[k].expires = stamp[row[k].holder] + Lease

\* A run that posts or records has the claim.
Holding ==
  \A r \in Run :
    pc[r] \in {"posting", "recording", "committing"} => Owns(r, cur[r])

\* A message that may be posted has not been accepted.
Unsent ==
  /\ \A k \in Candidate : row[k].status \in {"none", "retryable"} => accepted[k] = 0
  /\ \A r \in Run : pc[r] = "posting" => accepted[cur[r]] = 0
  /\ \A r \in Run :
       /\ pc[r] \in {"recording", "committing"}
       /\ result[r] \in {"retryable_failure", "permanent_failure"}
       => accepted[cur[r]] = 0

\* The attempts recorded are those the claim counts.
Counted ==
  /\ \A k \in Candidate : IsFiniteSet(ledger[k])
  /\ \A r \in Run : pc[r] = "committing" => number[r] = row[cur[r]].attempts + 1

SafeInv ==
  TypeOK /\ Young /\ Dated /\ StaleClaimsSettled /\ Holding /\ Unsent /\ AtMostOnce
  /\ Counted /\ LedgersAgree

LEMMA InitSafe == Init => SafeInv
<1> SUFFICES ASSUME Init PROVE SafeInv
  OBVIOUS
<1>1. TypeOK
  BY NameAssumption DEF Init, TypeOK, NoRow, Status, Outcome, Ended, Dealing
<1>2. Young /\ Dated /\ StaleClaimsSettled /\ Holding /\ Unsent /\ AtMostOnce
  BY DEF Init, NoRow, Young, Dated, StaleClaimsSettled, Holding, Unsent, AtMostOnce,
         Active, Expired
<1>3. Counted /\ LedgersAgree
  BY FS_EmptySet DEF Init, NoRow, Counted, LedgersAgree
<1> QED BY <1>1, <1>2, <1>3 DEF SafeInv

\* The steps that leave the claims alone.
LEMMA ReadSafe ==
  ASSUME SafeInv, TypeOK', NEW r \in Run,
         Start(r) \/ Select(r) \/ LookAtClaim(r) \/ Finish(r) \/ Crash(r)
  PROVE  SafeInv'
<1> USE LeaseAssumption DEF SafeInv, local
<1>1. /\ UNCHANGED <<now, row, ledger, accepted, result, number>>
      /\ \A q \in Run : q # r => pc'[q] = pc[q] /\ cur'[q] = cur[q] /\ stamp'[q] = stamp[q]
      /\ pc'[r] \notin {"idle", "posting", "recording", "committing"}
  BY DEF Start, Select, LookAtClaim, Finish, Crash, Goto, local, TypeOK
<1>2. \/ stamp'[r] = stamp[r] /\ pc[r] # "idle"
      \/ stamp'[r] = now /\ pc[r] = "idle"
  <2>1. ASSUME Start(r) PROVE stamp'[r] = now /\ pc[r] = "idle"
    BY <2>1 DEF Start, TypeOK
  <2>2. ASSUME Select(r) \/ LookAtClaim(r) \/ Finish(r) \/ Crash(r)
        PROVE  stamp'[r] = stamp[r] /\ pc[r] # "idle"
    <3>1. CASE Select(r) \/ LookAtClaim(r)
      BY <3>1 DEF Select, LookAtClaim
    <3>2. CASE Finish(r) \/ Crash(r)
      <4>1. pc[r] # "idle"
        BY <3>2 DEF Finish, Crash, Active
      <4> QED BY <4>1, <3>2 DEF Finish, Crash
    <3> QED BY <2>2, <3>1, <3>2
  <2> QED BY <2>1, <2>2
<1>3. Young'
  <2>1. Active(r) \/ stamp'[r] = now
    BY DEF Start, Select, LookAtClaim, Finish, Crash, Goto, local, TypeOK, Active, Ended
  <2> QED BY <1>1, <1>2, <2>1 DEF Young, Active, TypeOK
<1>4. Dated'
  BY <1>1, <1>2 DEF Dated, TypeOK
<1>5. StaleClaimsSettled'
  <2>1. \/ pc'[r] \in {"expiring"} \cup Ended
        \/ pc[r] \notin {"idle", "expiring"} \cup Ended
    BY DEF Start, Select, LookAtClaim, Finish, Crash, Goto, local, TypeOK, Ended
  <2> QED BY <1>1, <1>2, <2>1 DEF StaleClaimsSettled, Expired
<1>6. Holding' /\ Unsent' /\ AtMostOnce'
  BY <1>1 DEF Holding, Unsent, AtMostOnce, Owns
<1>7. Counted' /\ LedgersAgree'
  BY <1>1 DEF Counted, LedgersAgree
<1> QED BY <1>3, <1>4, <1>5, <1>6, <1>7

LEMMA ExpireSafe ==
  ASSUME SafeInv, TypeOK', NEW r \in Run, ExpireStale(r)
  PROVE  SafeInv'
<1> USE LeaseAssumption DEF SafeInv, local
<1>1. /\ UNCHANGED <<now, ledger, accepted, local>>
      /\ pc[r] = "expiring" /\ pc' = [pc EXCEPT ![r] = "selecting"]
      /\ \A k \in Candidate :
           row'[k] = IF Expired(k, stamp[r])
                     THEN [row[k] EXCEPT !.status = "unknown"] ELSE row[k]
  BY DEF ExpireStale, Goto
<1>2. Young'
  BY <1>1 DEF Young, Active, TypeOK, local, Ended
<1>3. \A k \in Candidate : row'[k].status = "claimed" => row'[k] = row[k]
  BY <1>1 DEF TypeOK
<1>4. Dated'
  BY <1>1, <1>3 DEF Dated, TypeOK, local
<1>5. StaleClaimsSettled'
  BY <1>1, <1>3 DEF StaleClaimsSettled, Expired, TypeOK, local
<1>6. ASSUME NEW q \in Run, pc[q] \in {"posting", "recording", "committing"}
      PROVE  row'[cur[q]] = row[cur[q]] /\ cur[q] \in Candidate
  <2>1. Active(q) /\ Active(r) /\ cur[q] \in Candidate
    BY <1>1, <1>6 DEF Active, Ended, TypeOK, Dealing
  <2>2. ~Expired(cur[q], stamp[r])
    BY <2>1, <1>6 DEF Young, Dated, Holding, Owns, Expired, TypeOK
  <2> QED BY <1>1, <2>1, <2>2
<1>7. Holding'
  BY <1>1, <1>6 DEF Holding, Owns, TypeOK, local
<1>8. Unsent' /\ AtMostOnce'
  BY <1>1 DEF Unsent, AtMostOnce, TypeOK, local
<1>9. \A k \in Candidate : row'[k].attempts = row[k].attempts
  BY <1>1 DEF TypeOK
<1>10. Counted' /\ LedgersAgree'
  BY <1>1, <1>6, <1>9 DEF Counted, LedgersAgree, TypeOK, local
<1> QED BY <1>2, <1>4, <1>5, <1>7, <1>8, <1>10

\* A claim is given only for a candidate whose row is free.
LEMMA ClaimSafe ==
  ASSUME SafeInv, TypeOK', NEW r \in Run, InsertClaim(r) \/ UpdateClaim(r)
  PROVE  SafeInv'
<1> USE LeaseAssumption DEF SafeInv, local
<1> DEFINE k == cur[r]
<1>1. k \in Candidate /\ Active(r) /\ pc[r] \in {"inserting", "updating"}
  BY DEF InsertClaim, UpdateClaim, TypeOK, Dealing, Active, Ended
<1>2. CASE /\ row[k].status \in {"none", "retryable"}
           /\ Give(r, k) /\ pc' = [pc EXCEPT ![r] = "posting"]
           /\ UNCHANGED <<now, ledger, accepted, local>>
  <2>1. /\ row'[k] = [row[k] EXCEPT !.status = "claimed", !.holder = r,
                                   !.expires = stamp[r] + Lease]
        /\ \A j \in Candidate : j # k => row'[j] = row[j]
    BY <1>1, <1>2 DEF Give, TypeOK
  <2>2. /\ row'[k].status = "claimed" /\ row'[k].holder = r
        /\ row'[k].expires = stamp[r] + Lease /\ row'[k].attempts = row[k].attempts
    BY <1>1, <2>1 DEF TypeOK
  <2>3. pc'[r] = "posting" /\ \A q \in Run : q # r => pc'[q] = pc[q]
    BY <1>2 DEF TypeOK
  <2>4. Young'
    BY <1>1, <1>2, <2>3 DEF Young, Active
  <2>5. Dated'
    <3> SUFFICES ASSUME NEW j \in Candidate, row'[j].status = "claimed"
                 PROVE  /\ row'[j].holder \in Run /\ pc'[row'[j].holder] # "idle"
                        /\ row'[j].expires = stamp'[row'[j].holder] + Lease
      BY DEF Dated
    <3>1. CASE j = k
      BY <1>2, <2>2, <2>3, <3>1
    <3>2. CASE j # k
      BY <1>2, <2>1, <2>3, <3>2 DEF Dated
    <3> QED BY <3>1, <3>2
  <2>6. StaleClaimsSettled'
    <3> SUFFICES ASSUME NEW q \in Run, NEW j \in Candidate,
                        pc'[q] \notin {"idle", "expiring"} \cup Ended
                 PROVE  ~Expired(j, stamp[q])'
      BY DEF StaleClaimsSettled
    <3>1. Active(q) /\ pc[q] \notin {"idle", "expiring"} \cup Ended
      BY <1>1, <2>3 DEF Active, Ended
    <3>2. stamp[q] < stamp[r] + Lease
      BY <1>1, <3>1 DEF Young, TypeOK
    <3>3. CASE j = k
      BY <1>2, <2>2, <3>2, <3>3 DEF Expired, TypeOK
    <3>4. CASE j # k
      BY <1>2, <2>1, <3>1, <3>4 DEF Expired, StaleClaimsSettled
    <3> QED BY <3>3, <3>4
  <2>7. ASSUME NEW q \in Run, pc[q] \in {"posting", "recording", "committing"}
        PROVE  cur[q] # k /\ cur[q] \in Candidate /\ q # r
    BY <1>1, <1>2, <2>7 DEF Holding, Owns, TypeOK, Dealing
  <2>8. Holding'
    <3> SUFFICES ASSUME NEW q \in Run, pc'[q] \in {"posting", "recording", "committing"}
                 PROVE  row'[cur[q]].status = "claimed" /\ row'[cur[q]].holder = q
      BY <1>2 DEF Holding, Owns
    <3>1. CASE q = r
      BY <2>2, <3>1
    <3>2. CASE q # r
      BY <2>1, <2>3, <2>7, <3>2 DEF Holding, Owns
    <3> QED BY <3>1, <3>2
  <2>9. Unsent' /\ AtMostOnce'
    BY <1>1, <1>2, <2>1, <2>2, <2>3, <2>7 DEF Unsent, AtMostOnce
  <2>10. Counted'
    BY <1>2, <2>1, <2>3, <2>7 DEF Counted
  <2>11. LedgersAgree'
    BY <1>2, <2>1, <2>2 DEF LedgersAgree
  <2> QED BY <2>4, <2>5, <2>6, <2>8, <2>9, <2>10, <2>11
<1>3. CASE /\ \E l \in {"next", "failed"} : pc' = [pc EXCEPT ![r] = l]
           /\ UNCHANGED <<now, row, ledger, accepted, local>>
  <2>1. /\ pc'[r] \in {"next", "failed"}
        /\ \A q \in Run : q # r => pc'[q] = pc[q]
    BY <1>3 DEF TypeOK
  <2>2. Young' /\ Dated'
    BY <1>1, <1>3, <2>1 DEF Young, Active, Dated, TypeOK
  <2>3. StaleClaimsSettled'
    BY <1>1, <1>3, <2>1 DEF StaleClaimsSettled, Expired, Ended
  <2>4. Holding' /\ Unsent' /\ AtMostOnce' /\ Counted' /\ LedgersAgree'
    BY <1>3, <2>1 DEF Holding, Owns, Unsent, AtMostOnce, Counted, LedgersAgree
  <2> QED BY <2>2, <2>3, <2>4
<1>4. ~Expired(k, stamp[r])
  BY <1>1 DEF StaleClaimsSettled, Ended
<1> QED
  <2>1. CASE InsertClaim(r)
    BY <1>2, <1>3, <2>1 DEF InsertClaim, Goto
  <2>2. CASE UpdateClaim(r)
    BY <1>2, <1>3, <1>4, <2>2 DEF UpdateClaim, Goto
  <2> QED BY <2>1, <2>2

\* Only the holder posts, and it posts what has not been accepted.
LEMMA PostSafe ==
  ASSUME SafeInv, TypeOK', NEW r \in Run, Post(r) \/ DieInPost(r)
  PROVE  SafeInv'
<1> USE LeaseAssumption DEF SafeInv, local
<1> DEFINE k == cur[r]
<1>1. k \in Candidate /\ Active(r) /\ pc[r] = "posting" /\ Owns(r, k) /\ accepted[k] = 0
  BY DEF Post, DieInPost, TypeOK, Dealing, Active, Ended, Holding, Unsent
<1>2. /\ UNCHANGED <<now, row, ledger, stamp, todo, cur, number>>
      /\ \A q \in Run : q # r => pc'[q] = pc[q] /\ result'[q] = result[q]
      /\ pc'[r] \in {"recording", "failed"}
  BY DEF Post, DieInPost, Goto, TypeOK
<1>3. /\ \A j \in Candidate : j # k => accepted'[j] = accepted[j]
      /\ accepted'[k] \in {0, 1}
      /\ \/ pc'[r] = "failed"
         \/ result'[r] \in {"sent", "unknown"}
         \/ accepted'[k] = 0
  <2>1. CASE Post(r)
    BY <1>1, <2>1 DEF Post, TypeOK
  <2>2. CASE DieInPost(r)
    BY <1>1, <2>2 DEF DieInPost, Goto, TypeOK
  <2> QED BY <2>1, <2>2
<1>4. Young' /\ Dated'
  <2>1. Young'
    BY <1>1, <1>2 DEF Young, Active
  <2>2. Dated'
    BY <1>1, <1>2 DEF Dated
  <2> QED BY <2>1, <2>2
<1>5. StaleClaimsSettled'
  BY <1>1, <1>2 DEF StaleClaimsSettled, Expired, Ended
<1>6. ASSUME NEW q \in Run, q # r, pc[q] \in {"posting", "recording", "committing"}
      PROVE  cur[q] # k /\ cur[q] \in Candidate
  BY <1>1, <1>6 DEF Holding, Owns, TypeOK, Dealing
<1>7. Holding' /\ Counted' /\ LedgersAgree'
  BY <1>1, <1>2 DEF Holding, Owns, Counted, LedgersAgree
<1>8. AtMostOnce'
  BY <1>3 DEF AtMostOnce
<1>9. Unsent'
  <2>1. row[k].status = "claimed"
    BY <1>1 DEF Owns
  <2>2. \A j \in Candidate : row'[j].status \in {"none", "retryable"} => accepted'[j] = 0
    BY <1>2, <1>3, <2>1 DEF Unsent
  <2>3. \A q \in Run : pc'[q] = "posting" => accepted'[cur'[q]] = 0
    BY <1>2, <1>3, <1>6 DEF Unsent
  <2>4. ASSUME NEW q \in Run, pc'[q] \in {"recording", "committing"},
               result'[q] \in {"retryable_failure", "permanent_failure"}
        PROVE  accepted'[cur'[q]] = 0
    <3>1. CASE q = r
      BY <1>2, <1>3, <2>4, <3>1
    <3>2. CASE q # r
      BY <1>2, <1>3, <1>6, <2>4, <3>2 DEF Unsent
    <3> QED BY <3>1, <3>2
  <2> QED BY <2>2, <2>3, <2>4 DEF Unsent
<1> QED BY <1>4, <1>5, <1>7, <1>8, <1>9

LEMMA CheckSafe ==
  ASSUME SafeInv, TypeOK', NEW r \in Run, CheckClaim(r)
  PROVE  SafeInv'
<1> USE LeaseAssumption DEF SafeInv, local
<1>1. /\ UNCHANGED <<now, row, ledger, accepted, stamp, todo, cur, result>>
      /\ \A q \in Run : q # r => pc'[q] = pc[q] /\ number'[q] = number[q]
      /\ pc[r] = "recording" /\ Owns(r, cur[r])
      /\ pc'[r] = "committing" /\ number'[r] = row[cur[r]].attempts + 1
  BY DEF CheckClaim, Goto, TypeOK, Holding
<1>2. Young' /\ Dated'
  BY <1>1 DEF Young, Active, Dated, TypeOK, Ended
<1>3. StaleClaimsSettled'
  BY <1>1 DEF StaleClaimsSettled, Expired, Ended
<1>4. Holding' /\ Unsent' /\ AtMostOnce'
  BY <1>1 DEF Holding, Owns, Unsent, AtMostOnce
<1>5. Counted' /\ LedgersAgree'
  BY <1>1 DEF Counted, LedgersAgree
<1> QED BY <1>2, <1>3, <1>4, <1>5

LEMMA CommitSafe ==
  ASSUME SafeInv, TypeOK', NEW r \in Run, Commit(r)
  PROVE  SafeInv'
<1> USE LeaseAssumption DEF SafeInv, local
<1> DEFINE k == cur[r]
           attempt == <<number[r], result[r]>>
<1>1. /\ k \in Candidate /\ Active(r) /\ pc[r] = "committing" /\ Owns(r, k)
      /\ number[r] = row[k].attempts + 1 /\ attempt \notin ledger[k]
      /\ result[r] = "retryable_failure" => accepted[k] = 0
  <2>1. pc[r] = "committing" /\ ~Numbered(k, number[r]) /\ result[r] \in Outcome
    BY DEF Commit, TypeOK
  <2>2. attempt \notin ledger[k]
    BY <2>1 DEF Numbered
  <2> QED BY <2>1, <2>2 DEF TypeOK, Dealing, Active, Ended, Holding, Counted, Unsent
<1>2. /\ UNCHANGED <<now, accepted, stamp, todo, cur, result, number>>
      /\ pc'[r] = "next"
      /\ \A q \in Run : q # r => pc'[q] = pc[q]
  BY DEF Commit, Goto, TypeOK
<1>3. /\ ledger'[k] = ledger[k] \cup {attempt}
      /\ \A j \in Candidate : j # k => ledger'[j] = ledger[j]
  BY <1>1 DEF Commit, TypeOK
<1>4. row' = [row EXCEPT ![k].status = StatusOf(result[r]), ![k].attempts = number[r]]
  BY <1>1 DEF Commit
<1>5. /\ row'[k].status = StatusOf(result[r]) /\ row'[k].attempts = number[r]
      /\ \A j \in Candidate : j # k => row'[j] = row[j]
  BY <1>1, <1>4 DEF TypeOK
<1>6. /\ StatusOf(result[r]) \notin {"none", "claimed"}
      /\ StatusOf(result[r]) = "retryable" => result[r] = "retryable_failure"
      /\ StatusOf(result[r]) = "completed" => result[r] = "sent"
  BY DEF StatusOf, Outcome, TypeOK
<1>7. Young'
  BY <1>1, <1>2 DEF Young, Active
<1>8. Dated'
  BY <1>2, <1>5, <1>6 DEF Dated
<1>9. StaleClaimsSettled'
  BY <1>1, <1>2, <1>5, <1>6 DEF StaleClaimsSettled, Expired, Ended
<1>10. ASSUME NEW q \in Run, q # r, pc[q] \in {"posting", "recording", "committing"}
       PROVE  cur[q] # k /\ cur[q] \in Candidate
  BY <1>1, <1>10 DEF Holding, Owns, TypeOK, Dealing
<1>11. Holding' /\ AtMostOnce'
  BY <1>2, <1>5, <1>10 DEF Holding, Owns, AtMostOnce
<1>12. Unsent'
  <2>1. \A j \in Candidate : row'[j].status \in {"none", "retryable"} => accepted'[j] = 0
    BY <1>1, <1>2, <1>5, <1>6 DEF Unsent
  <2> QED BY <1>2, <2>1 DEF Unsent
<1>13. /\ IsFiniteSet(ledger'[k])
       /\ Cardinality(ledger'[k]) = Cardinality(ledger[k]) + 1
  <2>1. IsFiniteSet(ledger[k])
    BY <1>1 DEF Counted
  <2> HIDE DEF k, attempt
  <2>2. /\ IsFiniteSet(ledger[k] \cup {attempt})
        /\ Cardinality(ledger[k] \cup {attempt}) =
             IF attempt \in ledger[k] THEN Cardinality(ledger[k]) ELSE Cardinality(ledger[k]) + 1
    BY <2>1, FS_AddElement
  <2> QED BY <1>1, <1>3, <2>2
<1>14. Counted'
  BY <1>2, <1>3, <1>5, <1>10, <1>13 DEF Counted
<1>15. LedgersAgree'
  <2> SUFFICES ASSUME NEW j \in Candidate
               PROVE  /\ Cardinality(ledger'[j]) = row'[j].attempts
                      /\ row'[j].status = "completed"
                         => <<row'[j].attempts, "sent">> \in ledger'[j]
    BY DEF LedgersAgree
  <2>1. CASE j = k
    <3>1. Cardinality(ledger'[k]) = row'[k].attempts
      BY <1>1, <1>5, <1>13 DEF LedgersAgree
    <3>2. row'[k].status = "completed" => <<row'[k].attempts, "sent">> \in ledger'[k]
      BY <1>3, <1>5, <1>6
    <3> QED BY <2>1, <3>1, <3>2
  <2>2. CASE j # k
    BY <1>3, <1>5, <2>2 DEF LedgersAgree
  <2> QED BY <2>1, <2>2
<1> QED BY <1>7, <1>8, <1>9, <1>11, <1>12, <1>14, <1>15

\* Time and the owner leave the claims alone; no active run grows a lease old.
LEMMA OutsideSafe ==
  ASSUME SafeInv, TypeOK', ~SlowRuns, Revoke \/ Tick \/ UNCHANGED vars
  PROVE  SafeInv'
<1> USE LeaseAssumption DEF SafeInv, local, vars
<1>1. UNCHANGED <<row, ledger, accepted, pc, stamp, todo, cur, result, number>>
  BY DEF Revoke, Tick
<1>2. Young'
  <2>1. CASE Tick
    BY <1>1, <2>1 DEF Tick, Young, Active, TypeOK
  <2>2. CASE Revoke \/ UNCHANGED vars
    BY <1>1, <2>2 DEF Revoke, Young, Active
  <2> QED BY <2>1, <2>2
<1>3. Dated' /\ StaleClaimsSettled' /\ Holding'
  BY <1>1 DEF Dated, StaleClaimsSettled, Expired, Holding, Owns
<1>4. Unsent' /\ AtMostOnce'
  BY <1>1 DEF Unsent, AtMostOnce
<1>5. Counted' /\ LedgersAgree'
  BY <1>1 DEF Counted, LedgersAgree
<1> QED BY <1>2, <1>3, <1>4, <1>5

\* The invariant behind the three theorems below.
THEOREM Safe == ASSUME ~SlowRuns PROVE Spec => []SafeInv
<1>1. SafeInv /\ TypeOK' /\ [Next]_vars => SafeInv'
  <2> SUFFICES ASSUME SafeInv, TypeOK', [Next]_vars PROVE SafeInv'
    OBVIOUS
  <2>1. CASE Revoke \/ Tick \/ UNCHANGED vars
    BY <2>1, OutsideSafe
  <2>2. ASSUME NEW r \in Run, Step(r) PROVE SafeInv'
    BY <2>2, ReadSafe, ExpireSafe, ClaimSafe, PostSafe, CheckSafe, CommitSafe DEF Step
  <2> QED BY <2>1, <2>2 DEF Next
<1> QED BY <1>1, InitSafe, TypeCorrect, PTL DEF Spec

\* While no run outlives its leases, Telegram never accepts a message twice.
THEOREM SendOnce == ASSUME ~SlowRuns PROVE Spec => []AtMostOnce
<1>1. SafeInv => AtMostOnce
  BY DEF SafeInv
<1> QED BY <1>1, Safe, PTL

\* Under the same condition the two ledgers agree.
THEOREM Ledgers == ASSUME ~SlowRuns PROVE Spec => []LedgersAgree
<1>1. SafeInv => LedgersAgree
  BY DEF SafeInv
<1> QED BY <1>1, Safe, PTL

\* Under the same condition no stale claim survives the first statement of a
\* run.
THEOREM Settled == ASSUME ~SlowRuns PROVE Spec => []StaleClaimsSettled
<1>1. SafeInv => StaleClaimsSettled
  BY DEF SafeInv
<1> QED BY <1>1, Safe, PTL

-----------------------------------------------------------------------------
\* A job moves to a point of the code.
LEMMA GotoType ==
  ASSUME ReportTypeOK, NEW j \in Job, NEW p \in Point, Go(j, p)
  PROVE  jobPc' \in [Job -> Point]
BY DEF Go, ReportTypeOK

\* The type invariant holds of every behaviour of the jobs.
THEOREM ReportsTypeCorrect == ReportSpec => []ReportTypeOK
<1>1. ReportInit => ReportTypeOK
  <2> SUFFICES ASSUME ReportInit PROVE ReportTypeOK
    OBVIOUS
  <2>1. failures \in 0..MaxFailures /\ posts \in Nat
    <3>1. failures = 0 /\ posts = 0
      BY DEF ReportInit
    <3> QED BY <3>1, FailureAssumption
  <2>3. arrived \in BOOLEAN
    BY DEF ReportInit
  <2>2. /\ jobPc \in [Job -> Point]
        /\ seen \in [Job -> {"none", "running", "failed", "succeeded"}]
        /\ jobResult \in [Job -> SendOutcome \cup {"none"}]
        /\ told \in [Job -> SendOutcome \cup {"none"}]
    BY DEF ReportInit, Point
  <2> QED BY <2>1, <2>2, <2>3 DEF ReportInit, ReportTypeOK
<1>2. ReportTypeOK /\ [ReportNext]_(reportVars) => ReportTypeOK'
  <2> SUFFICES ASSUME ReportTypeOK, [ReportNext]_(reportVars) PROVE ReportTypeOK'
    OBVIOUS
  <2> USE FailureAssumption DEF ReportTypeOK, jobLocal, rows, truth, SendOutcome
  <2>1. ASSUME NEW j \in Job, Look(j) PROVE ReportTypeOK'
    <3>1. jobPc' \in [Job -> Point]
      BY <2>1, GotoType DEF Look, Point
    <3> QED BY <3>1, <2>1 DEF Look
  <2>2. ASSUME NEW j \in Job, LookAtSend(j) PROVE ReportTypeOK'
    <3>1. jobPc' \in [Job -> Point]
      BY <2>2, GotoType DEF LookAtSend, Point
    <3>2. told' \in [Job -> SendOutcome \cup {"none"}]
      BY <2>2 DEF LookAtSend
    <3> QED BY <3>1, <3>2, <2>2 DEF LookAtSend
  <2>3. ASSUME NEW j \in Job, SealSend(j) PROVE ReportTypeOK'
    <3>1. jobPc' \in [Job -> Point]
      BY <2>3, GotoType DEF SealSend, Point
    <3> QED BY <3>1, <2>3 DEF SealSend
  <2>4. ASSUME NEW j \in Job, SealRun(j) \/ OpenRun(j) \/ FailRun(j)
        PROVE  ReportTypeOK'
    <3>1. jobPc' \in [Job -> Point]
      BY <2>4, GotoType DEF SealRun, OpenRun, FailRun, Point
    <3> QED BY <3>1, <2>4 DEF SealRun, OpenRun, FailRun
  <2>5. ASSUME NEW j \in Job, InsertRun(j) PROVE ReportTypeOK'
    <3>1. jobPc' \in [Job -> Point]
      BY <2>5, GotoType DEF InsertRun, Point
    <3> QED BY <3>1, <2>5 DEF InsertRun
  <2>6. ASSUME NEW j \in Job, Build(j) PROVE ReportTypeOK'
    <3>1. jobPc' \in [Job -> Point]
      BY <2>6, GotoType DEF Build, Point
    <3> QED BY <3>1, <2>6 DEF Build
  <2>7. ASSUME NEW j \in Job, Claim(j) PROVE ReportTypeOK'
    <3>1. jobPc' \in [Job -> Point]
      BY <2>7, GotoType DEF Claim, Point
    <3> QED BY <3>1, <2>7 DEF Claim
  <2>8. ASSUME NEW j \in Job, PostReport(j) PROVE ReportTypeOK'
    <3>1. jobPc' \in [Job -> Point]
      BY <2>8, GotoType DEF PostReport, Point
    <3>2. PICK o \in SendOutcome, there \in BOOLEAN :
            jobResult' = [jobResult EXCEPT ![j] = o] /\ arrived' = (arrived \/ there)
      BY <2>8 DEF PostReport
    <3>3. jobResult' \in [Job -> SendOutcome \cup {"none"}] /\ arrived' \in BOOLEAN
      BY <3>2
    <3>4. posts' \in Nat
      <4>1. posts' = posts + 1
        BY <2>8 DEF PostReport
      <4>2. posts \in Nat
        OBVIOUS
      <4> HIDE DEF ReportTypeOK
      <4> QED BY <4>1, <4>2
    <3> QED BY <3>1, <3>3, <3>4, <2>8 DEF PostReport
  <2>9. ASSUME NEW j \in Job, RecordSend(j) PROVE ReportTypeOK'
    <3>1. jobPc' \in [Job -> Point]
      BY <2>9, GotoType DEF RecordSend, Point
    <3> QED BY <3>1, <2>9 DEF RecordSend
  <2>10. ASSUME NEW j \in Job, RecordRun(j) PROVE ReportTypeOK'
    <3>1. jobPc' \in [Job -> Point]
      BY <2>10, GotoType DEF RecordRun, Point
    <3>2. told' \in [Job -> SendOutcome \cup {"none"}]
      BY <2>10 DEF RecordRun
    <3> QED BY <3>1, <3>2, <2>10 DEF RecordRun
  <2>11. ASSUME NEW j \in Job, Die(j) \/ DieInReport(j) PROVE ReportTypeOK'
    <3>1. jobPc' \in [Job -> Point]
      BY <2>11, GotoType DEF Die, DieInReport, Point
    <3>2. arrived' \in BOOLEAN
      BY <2>11 DEF Die, DieInReport
    <3>3. posts' \in Nat /\ failures' \in 0..MaxFailures
      BY <2>11 DEF Die, DieInReport
    <3> QED BY <3>1, <3>2, <3>3, <2>11 DEF Die, DieInReport
  <2>12. ASSUME NEW j \in Job, Again(j) PROVE ReportTypeOK'
    <3>1. jobPc' \in [Job -> Point]
      BY <2>12, GotoType DEF Again, Point
    <3> QED BY <3>1, <2>12 DEF Again
  <2>13. CASE UNCHANGED reportVars
    BY <2>13 DEF reportVars
  <2> QED BY <2>1, <2>2, <2>3, <2>4, <2>5, <2>6, <2>7, <2>8, <2>9, <2>10, <2>11, <2>12,
             <2>13
         DEF ReportNext, Work
<1> QED BY <1>1, <1>2, PTL DEF ReportSpec, ReportSafeSpec

-----------------------------------------------------------------------------
\* The points at which a job has the report's claim.
Held == {"posting", "recording send", "recording run"}

\* The points that are reached only when the run has its row.
Opened(j) ==
  \/ jobPc[j] \in Held \cup {"evidence", "claiming", "opening"}
  \/ jobPc[j] = "building" /\ kind = "digest"

\* The send row belongs to a run, and a job that has claimed it, or gone past
\* that, has both rows.
RowsFirst ==
  /\ posts > 0 => send # "none"
  /\ send # "none" => run # "none"
  /\ \A j \in Job : (Opened(j) => run # "none") /\ (jobPc[j] \in Held => send # "none")

\* One job has the claim, and nothing went out before it posts.
OneClaim ==
  /\ \A i, j \in Job : jobPc[i] \in Held /\ jobPc[j] \in Held => i = j
  /\ \A j \in Job : jobPc[j] = "posting" => posts = 0

\* Who knows that the report was sent is right.
KnownSent ==
  /\ outcome = "sent" => arrived
  /\ \A j \in Job : (told[j] = "sent" => arrived) /\ (jobResult[j] = "sent" => arrived)

IInv == RowsFirst /\ OneClaim /\ KnownSent

\* Only a job that goes to a point is there newly.
LEMMA OthersStay ==
  ASSUME ReportTypeOK, NEW j \in Job, NEW p \in Point, Go(j, p)
  PROVE  jobPc'[j] = p /\ \A i \in Job \ {j} : jobPc'[i] = jobPc[i]
BY DEF Go, ReportTypeOK

\* The rows and the claim survive a step that claims nothing, posts nothing,
\* and takes its job to a point past which the run has its row.
LEMMA QuietStep ==
  ASSUME ReportTypeOK, RowsFirst, OneClaim, NEW j \in Job,
         kind' = kind, posts' = posts, send = "none" => send' = "none", send # "none" => send' # "none",
         run # "none" => run' # "none",
         \A i \in Job \ {j} : jobPc'[i] = jobPc[i],
         jobPc'[j] \in Held => jobPc[j] \in Held /\ jobPc'[j] # "posting",
         Opened(j)' => run' # "none"
  PROVE  RowsFirst' /\ OneClaim'
<1>1. \A i \in Job \ {j} : Opened(i)' <=> Opened(i)
  BY DEF Opened
<1>2. \A i \in Job : Opened(i)' => run' # "none"
  BY <1>1 DEF RowsFirst
<1>3. \A i \in Job : jobPc'[i] \in Held => jobPc[i] \in Held
  OBVIOUS
<1>4. RowsFirst'
  BY <1>2, <1>3 DEF RowsFirst
<1>5. \A i \in Job : jobPc'[i] = "posting" => jobPc[i] = "posting"
  BY DEF Held
<1>6. OneClaim'
  BY <1>3, <1>5 DEF OneClaim
<1> QED BY <1>4, <1>6

\* What is known stays right in a step that tells nothing but what is known.
LEMMA StaysKnown ==
  ASSUME ReportTypeOK, KnownSent, arrived => arrived',
         outcome' = "sent" => arrived',
         \A j \in Job : told'[j] = "sent" => arrived',
         \A j \in Job : jobResult'[j] = "sent" => arrived'
  PROVE  KnownSent'
BY DEF KnownSent

\* The invariant is inductive.
THEOREM ReportsInductive == ReportSpec => []IInv
<1>1. ReportInit => IInv
  BY DEF ReportInit, IInv, RowsFirst, OneClaim, KnownSent, Opened, Held
<1>2. ReportTypeOK /\ IInv /\ [ReportNext]_(reportVars) => IInv'
  <2> SUFFICES ASSUME ReportTypeOK, IInv, [ReportNext]_(reportVars) PROVE IInv'
    OBVIOUS
  <2> USE DEF jobLocal, rows, truth
  <2>0. RowsFirst /\ OneClaim /\ KnownSent
    BY DEF IInv
  <2>1. ASSUME NEW j \in Job,
               Look(j) \/ LookAtSend(j) \/ SealSend(j) \/ SealRun(j) \/ OpenRun(j) \/ FailRun(j)
               \/ Build(j) \/ InsertRun(j) \/ RecordSend(j) \/ RecordRun(j) \/ Die(j) \/ Again(j)
        PROVE  RowsFirst' /\ OneClaim'
    <3>1. kind' = kind /\ posts' = posts
      BY <2>1 DEF Look, LookAtSend, SealSend, SealRun, OpenRun, FailRun,
                  Build, InsertRun, RecordSend,
                  RecordRun, Die, Again
    <3>2. (send = "none" => send' = "none") /\ (send # "none" => send' # "none")
      BY <2>0, <2>1 DEF RowsFirst, Held, Look, LookAtSend, SealSend, SealRun,
                        OpenRun, FailRun, Build, InsertRun,
                  RecordSend, RecordRun, Die, Again
    <3>3. run # "none" => run' # "none"
      BY <2>1 DEF Look, LookAtSend, SealSend, SealRun, OpenRun, FailRun,
                  Build, InsertRun, RecordSend,
                  RecordRun, Die, Again
    <3>4. PICK p \in Point : Go(j, p)
      <4>1. CASE Look(j) \/ LookAtSend(j)
        BY <4>1 DEF Point, Look, LookAtSend, ReportTypeOK
      <4>2. CASE SealSend(j) \/ SealRun(j) \/ OpenRun(j) \/ FailRun(j)
        BY <4>2 DEF Point, SealSend, SealRun, OpenRun, FailRun
      <4>3. CASE Build(j) \/ InsertRun(j)
        BY <4>3 DEF Point, Build, InsertRun
      <4>4. CASE RecordSend(j) \/ RecordRun(j) \/ Die(j) \/ Again(j)
        BY <4>4 DEF Point, RecordSend, RecordRun, Die, Again
      <4> QED BY <2>1, <4>1, <4>2, <4>3, <4>4
    <3>5. jobPc'[j] = p /\ \A i \in Job \ {j} : jobPc'[i] = jobPc[i]
      BY <3>4, OthersStay
    <3>6. jobPc'[j] \in Held => jobPc[j] \in Held /\ jobPc'[j] # "posting"
      BY <2>1, <3>5 DEF ReportTypeOK, Go, Held, Look, LookAtSend, SealSend,
                        SealRun, OpenRun, FailRun, Build, InsertRun,
                  RecordSend, RecordRun, Die, Again
    <3>7. Opened(j)' => run' # "none"
      <4>1. ASSUME Look(j) \/ LookAtSend(j) \/ Die(j) \/ Again(j)
            PROVE  Opened(j)' => run' # "none"
        BY <2>0, <4>1, <3>5 DEF ReportTypeOK, Go, Held, Opened, RowsFirst, Look,
                                LookAtSend, Die, Again
      <4>2. ASSUME SealSend(j) \/ SealRun(j) \/ OpenRun(j) \/ FailRun(j)
            PROVE  Opened(j)' => run' # "none"
        BY <2>0, <4>2, <3>5 DEF ReportTypeOK, Go, Held, Opened, RowsFirst, SealSend,
                                SealRun, OpenRun, FailRun
      <4>3. ASSUME Build(j) PROVE Opened(j)' => run' # "none"
        BY <2>0, <4>3, <3>5 DEF ReportTypeOK, Go, Held, Opened, RowsFirst, Build
      <4>4. ASSUME InsertRun(j) PROVE Opened(j)' => run' # "none"
        BY <2>0, <4>4, <3>5 DEF ReportTypeOK, Go, Held, Opened, RowsFirst, InsertRun
      <4>5. ASSUME RecordSend(j) \/ RecordRun(j) PROVE Opened(j)' => run' # "none"
        BY <2>0, <4>5, <3>5 DEF ReportTypeOK, Go, Held, Opened, RowsFirst,
                                RecordSend, RecordRun
      <4> QED BY <2>1, <4>1, <4>2, <4>3, <4>4, <4>5
    <3> QED BY <2>0, <3>1, <3>2, <3>3, <3>5, <3>6, <3>7, QuietStep
  <2>2. ASSUME NEW j \in Job, Claim(j) PROVE RowsFirst' /\ OneClaim'
    <3>1. kind' = kind /\ posts' = posts /\ run' = run /\ run # "none" /\ send' # "none"
      BY <2>0, <2>2 DEF Claim, RowsFirst, Opened
    <3>2. CASE send = "none"
      <4>1. posts = 0 /\ \A i \in Job : jobPc[i] \notin Held
        BY <2>0, <3>2 DEF RowsFirst, ReportTypeOK
      <4>2. jobPc'[j] = "posting" /\ \A i \in Job \ {j} : jobPc'[i] = jobPc[i]
        BY <2>2, <3>2, OthersStay DEF Claim, Point
      <4> QED BY <2>0, <3>1, <4>1, <4>2 DEF RowsFirst, OneClaim
    <3>3. CASE send # "none"
      <4>1. jobPc'[j] = "raised" /\ send' = send /\ \A i \in Job \ {j} : jobPc'[i] = jobPc[i]
        BY <2>2, <3>3, OthersStay DEF Claim, Point
      <4> QED BY <2>0, <3>1, <4>1, QuietStep DEF Held, Opened
    <3> QED BY <3>2, <3>3
  <2>3. ASSUME NEW j \in Job, PostReport(j) \/ DieInReport(j) PROVE RowsFirst' /\ OneClaim'
    <3>1. kind' = kind /\ posts' = posts + 1 /\ run' = run /\ send' = send
      BY <2>3 DEF PostReport, DieInReport
    <3>2. jobPc[j] = "posting" /\ send # "none" /\ run # "none"
      BY <2>0, <2>3 DEF PostReport, DieInReport, RowsFirst, Held, Opened
    <3>3. jobPc'[j] \in {"recording send", "raised"} /\ \A i \in Job \ {j} : jobPc'[i] = jobPc[i]
      BY <2>3, OthersStay DEF PostReport, DieInReport, Point
    <3>4. RowsFirst'
      BY <2>0, <3>1, <3>2 DEF RowsFirst
    <3>5. \A i \in Job \ {j} : jobPc[i] \notin Held
      BY <2>0, <3>2 DEF OneClaim, Held
    <3>6. OneClaim'
      BY <3>3, <3>5 DEF OneClaim, Held
    <3> QED BY <3>4, <3>6
  <2>4. ASSUME NEW j \in Job, Work(j) \/ Die(j) \/ DieInReport(j) \/ Again(j)
        PROVE  KnownSent'
    <3> USE DEF ReportTypeOK
    <3>1. CASE PostReport(j)
      <4>1. PICK o \in SendOutcome, there \in BOOLEAN :
              /\ (o = "sent" => there)
              /\ jobResult' = [jobResult EXCEPT ![j] = o] /\ arrived' = (arrived \/ there)
        BY <3>1 DEF PostReport
      <4>2. told' = told /\ outcome' = outcome
        BY <3>1 DEF PostReport
      <4> QED BY <2>0, <4>1, <4>2 DEF KnownSent
    <3>2. CASE DieInReport(j)
      <4>1. told' = told /\ outcome' = outcome /\ jobResult' = jobResult
        BY <3>2 DEF DieInReport
      <4>2. PICK there \in BOOLEAN : arrived' = (arrived \/ there)
        BY <3>2 DEF DieInReport
      <4> QED BY <2>0, <4>1, <4>2 DEF KnownSent
    <3>3. CASE LookAtSend(j)
      <4>1. arrived' = arrived /\ outcome' = outcome /\ jobResult' = jobResult
        BY <3>3 DEF LookAtSend
      <4>2. \A i \in Job : told'[i] = "sent" => told[i] = "sent" \/ outcome = "sent"
        BY <3>3 DEF LookAtSend
      <4> QED BY <2>0, <4>1, <4>2 DEF KnownSent
    <3>4. CASE RecordRun(j)
      <4>1. arrived' = arrived /\ outcome' = outcome /\ jobResult' = jobResult
        BY <3>4 DEF RecordRun
      <4>2. \A i \in Job : told'[i] = "sent" => told[i] = "sent" \/ jobResult[j] = "sent"
        BY <3>4 DEF RecordRun
      <4> QED BY <2>0, <4>1, <4>2 DEF KnownSent
    <3>5. CASE RecordSend(j) \/ SealSend(j)
      <4>1. arrived' = arrived /\ told' = told /\ jobResult' = jobResult
        BY <3>5 DEF RecordSend, SealSend
      <4>2. outcome' = "sent" => outcome = "sent" \/ jobResult[j] = "sent"
        BY <3>5 DEF RecordSend, SealSend
      <4> QED BY <2>0, <4>1, <4>2 DEF KnownSent
    <3>6. CASE Again(j)
      <4>1. arrived' = arrived /\ outcome' = outcome
        BY <3>6 DEF Again
      <4>2. \A i \in Job : (told'[i] = "sent" => told[i] = "sent") /\ (jobResult'[i] = "sent" => jobResult[i] = "sent")
        BY <3>6 DEF Again
      <4> QED BY <2>0, <4>1, <4>2 DEF KnownSent
    <3>7. CASE Look(j) \/ SealRun(j) \/ InsertRun(j) \/ OpenRun(j) \/ Build(j) \/ FailRun(j) \/ Claim(j) \/ Die(j)
      <4>1. arrived' = arrived /\ outcome' = outcome /\ told' = told /\ jobResult' = jobResult
        BY <3>7 DEF Look, SealRun, InsertRun, OpenRun, Build, FailRun,
                    Claim, Die
      <4> QED BY <2>0, <4>1 DEF KnownSent
    <3> QED BY <2>4, <3>1, <3>2, <3>3, <3>4, <3>5, <3>6, <3>7 DEF Work
  <2>5. CASE UNCHANGED reportVars
    BY <2>0, <2>5 DEF reportVars, IInv, RowsFirst, OneClaim, KnownSent, Opened
  <2>6. ASSUME NEW j \in Job, Work(j) \/ Die(j) \/ DieInReport(j) \/ Again(j)
        PROVE  IInv'
    BY <2>1, <2>2, <2>3, <2>4, <2>6 DEF Work, IInv
  <2> QED BY <2>5, <2>6 DEF ReportNext
<1> QED BY <1>1, <1>2, ReportsTypeCorrect, PTL DEF ReportSpec, ReportSafeSpec

\* Nobody is told that the report was sent unless the owner has it, and a
\* request that was made has its rows.
THEOREM ToldIsTrue == ReportSpec => []SentIsTrue
<1>1. IInv => SentIsTrue
  BY DEF IInv, KnownSent, RowsFirst, SentIsTrue
<1> QED BY <1>1, ReportsInductive, PTL

\* The report is claimed once, and goes out once, after that.
THEOREM SentOnPromise == ReportSpec => NeverReplayed
<1>1. ReportInit => Promise!Init
  BY DEF ReportInit, Promise!Init, Message
<1>2. ASSUME ReportTypeOK, IInv, [ReportNext]_(reportVars)
      PROVE  [Promise!Next]_<<Message, arrived>>
  <2> USE <1>2 DEF jobLocal, rows, truth
  <2>1. ASSUME NEW j \in Job, PostReport(j) \/ DieInReport(j) PROVE Promise!GoOut
    <3>1. posts = 0 /\ send # "none" /\ posts' = posts + 1
      BY <2>1 DEF PostReport, DieInReport, IInv, OneClaim, RowsFirst, Held
    <3>2. Message = "claimed" /\ Message' = "out"
      BY <3>1 DEF Message
    <3>3. arrived' \in BOOLEAN
      BY <2>1 DEF PostReport, DieInReport, ReportTypeOK
    <3> QED BY <3>2, <3>3 DEF Promise!GoOut
  <2>2. ASSUME NEW j \in Job, Claim(j), send = "none" PROVE Promise!Claim
    <3>1. posts = 0 /\ posts' = 0 /\ send' = "running" /\ arrived' = arrived
      BY <2>2 DEF Claim, IInv, RowsFirst, ReportTypeOK
    <3> QED BY <2>2, <3>1 DEF Message, Promise!Claim
  <2>3. ASSUME posts' = posts, arrived' = arrived, send = "none" <=> send' = "none"
        PROVE  UNCHANGED <<Message, arrived>>
    BY <2>3 DEF Message
  <2>4. ASSUME NEW j \in Job, Claim(j), send # "none"
        PROVE  UNCHANGED <<Message, arrived>>
    BY <2>3, <2>4 DEF Claim
  <2>5. ASSUME NEW j \in Job, SealSend(j) \/ RecordSend(j)
        PROVE  UNCHANGED <<Message, arrived>>
    <3>1. send = "none" <=> send' = "none"
      BY <2>5 DEF SealSend, RecordSend, IInv, RowsFirst, Held
    <3> QED BY <2>3, <2>5, <3>1 DEF SealSend, RecordSend
  <2>6. ASSUME NEW j \in Job, Look(j) \/ LookAtSend(j) \/ SealRun(j) \/ InsertRun(j) \/ OpenRun(j)
                              \/ Build(j) \/ FailRun(j) \/ RecordRun(j) \/ Die(j) \/ Again(j)
        PROVE  UNCHANGED <<Message, arrived>>
    <3>1. posts' = posts /\ arrived' = arrived /\ send' = send
      BY <2>6 DEF Look, LookAtSend, SealRun, InsertRun, OpenRun, Build,
                  FailRun, RecordRun, Die, Again
    <3> QED BY <2>3, <3>1
  <2>7. CASE UNCHANGED reportVars
    BY <2>3, <2>7 DEF reportVars
  <2> QED BY <2>1, <2>2, <2>4, <2>5, <2>6, <2>7 DEF ReportNext, Work, Promise!Next
<1> QED BY <1>1, <1>2, ReportsTypeCorrect, ReportsInductive, PTL
        DEF ReportSpec, ReportSafeSpec, NeverReplayed, Promise!Spec
=============================================================================
