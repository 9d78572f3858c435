-------------------------- MODULE KisRequest_proofs --------------------------
(***************************************************************************)
(* Proofs about request_kis for any number of calls and endpoints, with or  *)
(* without cancellation: types, conservation of the bulkhead's permits, the *)
(* bound on what is sent, and the pacing of the starts.                     *)
(***************************************************************************)
EXTENDS KisRequest, FiniteSetTheorems, TLAPS

LEMMA InitType == Init => TypeOK
BY PositiveAssumption DEF Init, TypeOK, Ended

LEMMA NextType == TypeOK /\ [Next]_vars => TypeOK'
<1> SUFFICES ASSUME TypeOK, [Next]_vars PROVE TypeOK' OBVIOUS
<1> USE CallAssumption, PositiveAssumption, NameAssumption
    DEF TypeOK, circuit, limiter, Ended
<1>1. ASSUME NEW e \in Endpoint, CircuitSuccess(e) \/ CircuitFailure(e) \/ ReleaseProbe(e)
      PROVE  /\ failures' \in [Endpoint -> 0..Threshold]
             /\ opened' \in [Endpoint -> BOOLEAN]
             /\ openFor' \in [Endpoint -> 0..OpenTime]
             /\ probe' \in [Endpoint -> BOOLEAN]
  <2>1. CASE CircuitSuccess(e)
    BY <2>1 DEF CircuitSuccess
  <2>2. CASE CircuitFailure(e)
    <3>1. PICK kept \in 0..failures[e] :
             LET n == IF kept + 1 >= Threshold THEN Threshold ELSE kept + 1 IN
             /\ failures' = [failures EXCEPT ![e] = n]
             /\ probe' = [probe EXCEPT ![e] = FALSE]
             /\ IF probe[e] \/ n = Threshold
                THEN /\ opened' = [opened EXCEPT ![e] = TRUE]
                     /\ openFor' = [openFor EXCEPT ![e] = OpenTime]
                ELSE UNCHANGED <<opened, openFor>>
      BY <2>2 DEF CircuitFailure
    <3> DEFINE n == IF kept + 1 >= Threshold THEN Threshold ELSE kept + 1
    <3>2. failures[e] \in 0..Threshold
      OBVIOUS
    <3>3. n \in 0..Threshold
      BY <3>1, <3>2
    <3>4. failures' = [failures EXCEPT ![e] = n]
      BY <3>1
    <3>5. failures' \in [Endpoint -> 0..Threshold]
      <4> HIDE DEF n
      <4> QED BY <3>3, <3>4
    <3>6. probe' \in [Endpoint -> BOOLEAN]
      BY <3>1
    <3>7. \/ /\ opened' = [opened EXCEPT ![e] = TRUE]
             /\ openFor' = [openFor EXCEPT ![e] = OpenTime]
          \/ opened' = opened /\ openFor' = openFor
      BY <3>1
    <3>8. OpenTime \in 0..OpenTime
      OBVIOUS
    <3>9. opened' \in [Endpoint -> BOOLEAN] /\ openFor' \in [Endpoint -> 0..OpenTime]
      <4> HIDE DEF n
      <4>1. CASE opened' = opened /\ openFor' = openFor
        BY <4>1
      <4>2. CASE /\ opened' = [opened EXCEPT ![e] = TRUE]
                 /\ openFor' = [openFor EXCEPT ![e] = OpenTime]
        <5>1. opened' \in [Endpoint -> BOOLEAN]
          BY <4>2
        <5>2. openFor' \in [Endpoint -> 0..OpenTime]
          BY <4>2, <3>8
        <5>3. QED BY <5>1, <5>2
      <4>3. QED BY <3>7, <4>1, <4>2
    <3>10. QED BY <3>5, <3>6, <3>9
  <2>3. CASE ReleaseProbe(e)
    BY <2>3 DEF ReleaseProbe
  <2>4. QED BY <1>1, <2>1, <2>2, <2>3
<1>2. ASSUME NEW c \in Call, Fail(c) \/ NextAttempt(c)
      PROVE  /\ pc' \in [Call -> {"begin", "queued", "pacing", "sleeping", "transport",
                                  "backoff", "pause", "cooldown"} \cup Ended]
             /\ probing' \subseteq Call
             /\ NextAttempt(c) => attempt' \in [Call -> Nat \ {0}]
  BY <1>2 DEF Fail, NextAttempt, Goto, AttemptOver
<1>3. ASSUME NEW c \in Call, LeaveLimiter(c)
      PROVE  /\ pacer' \in Call \cup {Nobody} /\ wait' \in [Call -> Nat]
             /\ nextIn' \in Nat /\ blockedFor' \in Nat
  BY <1>3 DEF LeaveLimiter
<1>4. LeaveBulkhead => permits' \in Nat
  BY DEF LeaveBulkhead
<1>5. ASSUME NEW c \in Call, Step(c) PROVE TypeOK'
  <2>0. EndpointOf[c] \in Endpoint
    OBVIOUS
  <2>1. CASE Shed(c)
    BY <2>1, <1>2 DEF Shed
  <2>2. CASE Enter(c)
    BY <2>0, <2>2, <1>1, <1>2 DEF Enter, Goto
  <2>3. CASE GetPermit(c)
    BY <2>3 DEF GetPermit, Goto
  <2>4. CASE QueueTimeout(c)
    BY <2>0, <2>4, <1>1, <1>2 DEF QueueTimeout
  <2>5. CASE TakeSlot(c)
    BY <2>5 DEF TakeSlot, Goto, MaxOf
  <2>6. CASE Send(c)
    BY <2>6 DEF Send, Goto
  <2>7. CASE DeadlineInside(c)
    BY <2>0, <2>7, <1>1, <1>2, <1>3, <1>4 DEF DeadlineInside
  <2>8. CASE DeadlineAtSlot(c)
    BY <2>0, <2>8, <1>1, <1>2, <1>4 DEF DeadlineAtSlot
  <2>9. CASE Succeed(c)
    BY <2>0, <2>9, <1>1, <1>4 DEF Succeed, Goto, AttemptOver
  <2>10. CASE TransportFails(c)
    BY <2>0, <2>10, <1>1, <1>2, <1>4 DEF TransportFails, Goto, AttemptOver
  <2>11. CASE BackoffOver(c)
    BY <2>11, <1>2, <1>4 DEF BackoffOver
  <2>12. CASE UpstreamFails(c)
    BY <2>0, <2>12, <1>1, <1>2, <1>4 DEF UpstreamFails, Goto, AttemptOver
  <2>13. CASE PauseOver(c)
    BY <2>13, <1>2 DEF PauseOver
  <2>14. CASE RateLimited(c)
    BY <2>0, <2>14, <1>1, <1>4 DEF RateLimited, Goto, AttemptOver
  <2>15. CASE Impose(c)
    BY <2>15, <1>2 DEF Impose, MaxOf
  <2>16. QED
    BY <1>5, <2>1, <2>2, <2>3, <2>4, <2>5, <2>6, <2>7, <2>8, <2>9, <2>10,
       <2>11, <2>12, <2>13, <2>14, <2>15 DEF Step
<1>6. ASSUME NEW c \in Call, Cancel(c) PROVE TypeOK'
  BY <1>6, <1>2, <1>3, <1>4 DEF Cancel
<1>7. CASE Tick
  BY <1>7 DEF Tick, Less
<1>8. CASE UNCHANGED vars
  BY <1>8 DEF vars
<1>9. QED BY <1>5, <1>6, <1>7, <1>8 DEF Next

\* Every variable keeps its type.
THEOREM TypeCorrect == Spec => []TypeOK
BY InitType, NextType, PTL DEF Spec
-----------------------------------------------------------------------------
(* What is sent.                                                           *)

\* An attempt puts at most one request on the wire, one that has not reached
\* the transport none yet, and a call that waits to try again may do so.
SendInv ==
  \A c \in Call :
    /\ attempt[c] <= Attempts
    /\ sent[c] <= attempt[c]
    /\ pc[c] \in {"begin", "queued", "pacing", "sleeping"} => sent[c] < attempt[c]
    /\ pc[c] \in {"backoff", "pause"} => MayRetry(c)
    /\ c \notin RetrySafe => attempt[c] = 1

LEMMA AttemptsNat == Attempts \in Nat \ {0}
BY PositiveAssumption DEF Attempts, MaxOf

LEMMA SendInit == Init => SendInv
BY AttemptsNat DEF Init, SendInv, MayRetry

LEMMA SendNext == TypeOK /\ SendInv /\ [Next]_vars => SendInv'
<1> SUFFICES ASSUME TypeOK, SendInv, [Next]_vars, NEW d \in Call
             PROVE  /\ attempt'[d] <= Attempts
                    /\ sent'[d] <= attempt'[d]
                    /\ pc'[d] \in {"begin", "queued", "pacing", "sleeping"}
                          => sent'[d] < attempt'[d]
                    /\ pc'[d] \in {"backoff", "pause"}
                          => d \in RetrySafe /\ attempt'[d] < Attempts
                    /\ d \notin RetrySafe => attempt'[d] = 1
  BY DEF SendInv, MayRetry
<1> DEFINE Now == /\ attempt[d] <= Attempts
                  /\ sent[d] <= attempt[d]
                  /\ pc[d] \in {"begin", "queued", "pacing", "sleeping"}
                        => sent[d] < attempt[d]
                  /\ pc[d] \in {"backoff", "pause"}
                        => d \in RetrySafe /\ attempt[d] < Attempts
                  /\ d \notin RetrySafe => attempt[d] = 1
<1>1. Now
  BY DEF SendInv, MayRetry
<1>2. /\ attempt \in [Call -> Nat \ {0}] /\ sent \in [Call -> Nat]
      /\ DOMAIN pc = Call /\ attempt[d] \in Nat \ {0} /\ sent[d] \in Nat
  BY DEF TypeOK
<1>3. ASSUME UNCHANGED <<pc, attempt, sent>> PROVE Now'
  BY <1>1, <1>3
<1>4. ASSUME NEW c \in Call, Step(c) \/ Cancel(c), c # d PROVE Now'
  <2>1. pc'[d] = pc[d] /\ attempt'[d] = attempt[d] /\ sent'[d] = sent[d]
    <3>1. CASE Shed(c) \/ Enter(c) \/ GetPermit(c) \/ QueueTimeout(c) \/ TakeSlot(c)
      BY <1>2, <1>4, <3>1 DEF Shed, Enter, GetPermit, QueueTimeout, TakeSlot, Goto, Fail
    <3>2. CASE Send(c) \/ DeadlineInside(c) \/ DeadlineAtSlot(c) \/ Succeed(c)
      BY <1>2, <1>4, <3>2 DEF Send, DeadlineInside, DeadlineAtSlot, Succeed, Goto, Fail
    <3>3. CASE TransportFails(c) \/ BackoffOver(c) \/ UpstreamFails(c)
      BY <1>2, <1>4, <3>3 DEF TransportFails, BackoffOver, UpstreamFails, Goto, Fail,
                              NextAttempt
    <3>4. CASE PauseOver(c) \/ RateLimited(c) \/ Impose(c) \/ Cancel(c)
      BY <1>2, <1>4, <3>4 DEF PauseOver, RateLimited, Impose, Cancel, Goto, Fail,
                              NextAttempt
    <3>5. QED BY <1>4, <3>1, <3>2, <3>3, <3>4 DEF Step
  <2>2. QED BY <1>1, <2>1
<1>5. CASE Step(d)
  <2>1. CASE Shed(d)
    BY <1>1, <1>2, <2>1 DEF Shed, Fail, Goto
  <2>2. CASE Enter(d)
    BY <1>1, <1>2, <2>2 DEF Enter, Fail, Goto
  <2>3. CASE GetPermit(d)
    BY <1>1, <1>2, <2>3 DEF GetPermit, Goto
  <2>4. CASE QueueTimeout(d)
    BY <1>1, <1>2, <2>4 DEF QueueTimeout, Fail, Goto
  <2>5. CASE TakeSlot(d)
    BY <1>1, <1>2, <2>5 DEF TakeSlot, Goto
  <2>6. CASE Send(d)
    BY <1>1, <1>2, <2>6 DEF Send, Goto
  <2>7. CASE DeadlineInside(d)
    BY <1>1, <1>2, <2>7 DEF DeadlineInside, Fail, Goto
  <2>8. CASE DeadlineAtSlot(d)
    BY <1>1, <1>2, <2>8 DEF DeadlineAtSlot, Fail, Goto
  <2>9. CASE Succeed(d)
    BY <1>1, <1>2, <2>9 DEF Succeed, Goto
  <2>10. CASE TransportFails(d)
    BY <1>1, <1>2, <2>10 DEF TransportFails, Fail, Goto, MayRetry
  <2>11. CASE BackoffOver(d)
    BY <1>1, <1>2, <2>11, AttemptsNat DEF BackoffOver, NextAttempt, Goto
  <2>12. CASE UpstreamFails(d)
    BY <1>1, <1>2, <2>12 DEF UpstreamFails, Fail, Goto, MayRetry
  <2>13. CASE PauseOver(d)
    BY <1>1, <1>2, <2>13, AttemptsNat DEF PauseOver, NextAttempt, Fail, Goto
  <2>14. CASE RateLimited(d)
    BY <1>1, <1>2, <2>14 DEF RateLimited, Goto
  <2>15. CASE Impose(d)
    BY <1>1, <1>2, <2>15, AttemptsNat DEF Impose, NextAttempt, Fail, Goto, MayRetry
  <2>16. QED
    BY <1>5, <2>1, <2>2, <2>3, <2>4, <2>5, <2>6, <2>7, <2>8, <2>9, <2>10,
       <2>11, <2>12, <2>13, <2>14, <2>15 DEF Step
<1>6. CASE Cancel(d)
  BY <1>1, <1>2, <1>6 DEF Cancel, Fail, Goto
<1>7. CASE Tick \/ UNCHANGED vars
  BY <1>3, <1>7 DEF Tick, vars
<1>8. QED BY <1>4, <1>5, <1>6, <1>7 DEF Next

\* A request that is not safe to repeat goes out at most once, any other at
\* most as often as its attempts allow, whatever is cancelled or times out.
THEOREM SendBound == Spec => []SendsBounded
<1>1. TypeOK /\ SendInv => SendsBounded
  BY AttemptsNat DEF SendInv, SendsBounded, TypeOK
<1>2. QED BY InitType, NextType, SendInit, SendNext, <1>1, PTL DEF Spec

-----------------------------------------------------------------------------
(* The pacing of the starts.                                               *)

\* A call asleep in the limiter holds its lock, and sleeps at least as long as
\* the interval and the cooldown still last.
PaceInv ==
  \A c \in Call : pc[c] = "sleeping" =>
    pacer = c /\ nextIn <= wait[c] /\ blockedFor <= wait[c]

LEMMA PaceNext == TypeOK /\ PaceInv /\ [Next]_vars => PaceInv'
<1> SUFFICES ASSUME TypeOK, PaceInv, [Next]_vars, NEW d \in Call, pc'[d] = "sleeping"
             PROVE  pacer' = d /\ nextIn' <= wait'[d] /\ blockedFor' <= wait'[d]
  BY DEF PaceInv
<1>1. /\ DOMAIN pc = Call /\ wait \in [Call -> Nat] /\ nextIn \in Nat /\ blockedFor \in Nat
      /\ wait[d] \in Nat
  BY DEF TypeOK
<1>2. pc[d] = "sleeping" => pacer = d /\ nextIn <= wait[d] /\ blockedFor <= wait[d]
  BY DEF PaceInv
<1>4. ASSUME NEW c \in Call, Step(c) \/ Cancel(c)
      PROVE  pacer' = d /\ nextIn' <= wait'[d] /\ blockedFor' <= wait'[d]
  <2>1. CASE TakeSlot(c)
    <3>1. c = d
      BY <1>1, <1>2, <2>1, NameAssumption DEF TakeSlot, Goto
    <3>2. wait'[d] = MaxOf(nextIn, blockedFor)
      BY <1>1, <2>1, <3>1 DEF TakeSlot
    <3>3. QED BY <1>1, <2>1, <3>1, <3>2 DEF TakeSlot, MaxOf
  <2>2. CASE Send(c) \/ DeadlineAtSlot(c)
    <3>1. c # d /\ pc[d] = "sleeping" /\ pc[c] = "sleeping"
      BY <1>1, <2>2 DEF Send, DeadlineAtSlot, Goto, Fail
    <3>2. pacer = c /\ pacer = d
      BY <3>1, <1>2 DEF PaceInv
    <3>3. QED BY <3>1, <3>2
  <2>3. CASE DeadlineInside(c) \/ Cancel(c)
    <3>1. c # d /\ pc[d] = "sleeping" /\ LeaveLimiter(c)
      BY <1>1, <2>3 DEF DeadlineInside, Cancel, Goto, Fail
    <3>2. QED BY <1>1, <1>2, <3>1 DEF LeaveLimiter
  <2>4. CASE Impose(c)
    <3>1. pc[d] = "sleeping"
      BY <1>1, <2>4 DEF Impose, NextAttempt, Goto, Fail
    <3>2. QED BY <1>2, <2>4, <3>1, NameAssumption DEF Impose
  <2>5. CASE Shed(c) \/ Enter(c) \/ GetPermit(c) \/ QueueTimeout(c) \/ Succeed(c)
    BY <1>1, <1>2, <2>5 DEF Shed, Enter, GetPermit, QueueTimeout, Succeed, Goto, Fail, limiter
  <2>6. CASE TransportFails(c) \/ BackoffOver(c) \/ UpstreamFails(c) \/ PauseOver(c)
             \/ RateLimited(c)
    BY <1>1, <1>2, <2>6 DEF TransportFails, BackoffOver, UpstreamFails, PauseOver,
                            RateLimited, NextAttempt, Goto, Fail, limiter
  <2>7. QED BY <1>4, <2>1, <2>2, <2>3, <2>4, <2>5, <2>6 DEF Step
<1>5. CASE Tick
  <2>1. pc[d] = "sleeping" /\ pacer' = pacer /\ wait'[d] = Less(wait[d])
    BY <1>5 DEF Tick
  <2>2. QED BY <1>1, <1>2, <1>5, <2>1 DEF Tick, Less
<1>6. CASE UNCHANGED vars
  BY <1>2, <1>6 DEF vars, limiter
<1>7. QED BY <1>4, <1>5, <1>6 DEF Next

LEMMA PaceStep == TypeOK /\ PaceInv /\ [Next]_vars =>
  [\A c \in Call : pc[c] # "transport" /\ pc'[c] = "transport"
     => nextIn = 0 /\ blockedFor = 0]_vars
<1> SUFFICES ASSUME TypeOK, PaceInv, [Next]_vars, NEW d \in Call,
                    pc[d] # "transport", pc'[d] = "transport"
             PROVE  nextIn = 0 /\ blockedFor = 0
  OBVIOUS
<1>1. DOMAIN pc = Call /\ nextIn \in Nat /\ blockedFor \in Nat
  BY DEF TypeOK
<1>2. PICK c \in Call : Step(c) \/ Cancel(c)
  BY DEF Next, Tick, vars
<1>3. Send(c) /\ c = d
  <2>1. CASE Shed(c) \/ Enter(c) \/ GetPermit(c) \/ QueueTimeout(c) \/ TakeSlot(c)
             \/ Succeed(c) \/ Impose(c)
    BY <1>1, <2>1 DEF Shed, Enter, GetPermit, QueueTimeout, TakeSlot, Succeed, Impose,
                      NextAttempt, Goto, Fail
  <2>2. CASE TransportFails(c) \/ BackoffOver(c) \/ UpstreamFails(c) \/ PauseOver(c)
             \/ RateLimited(c) \/ DeadlineInside(c) \/ DeadlineAtSlot(c) \/ Cancel(c)
    BY <1>1, <2>2 DEF TransportFails, BackoffOver, UpstreamFails, PauseOver, RateLimited,
                      DeadlineInside, DeadlineAtSlot, Cancel, NextAttempt, Goto, Fail
  <2>3. CASE Send(c)
    BY <1>1, <2>3 DEF Send, Goto
  <2>4. QED BY <1>2, <2>1, <2>2, <2>3 DEF Step
<1>4. QED BY <1>1, <1>3 DEF Send, PaceInv

\* No request starts inside the minimum interval or inside a cooldown, also a
\* cooldown imposed while the request was waiting.
THEOREM Pacing == Spec => PacedStarts
<1>1. Init => PaceInv
  BY DEF Init, PaceInv
<1>2. QED BY InitType, NextType, PaceNext, PaceStep, <1>1, PTL DEF Spec, PacedStarts

-----------------------------------------------------------------------------
(* The permits of the bulkhead.                                            *)

Holders == {c \in Call : HoldsPermit(c)}

LEMMA HoldersFinite == IsFiniteSet(Holders)
BY CallAssumption, FS_Subset DEF Holders

\* What a step does to the holders when one call comes in, leaves, or neither.
LEMMA HoldersStep ==
  ASSUME NEW c \in Call, DOMAIN pc = Call, \A d \in Call \ {c} : pc'[d] = pc[d]
  PROVE  /\ HoldsPermit(c) = HoldsPermit(c)' => Cardinality(Holders') = Cardinality(Holders)
         /\ ~HoldsPermit(c) /\ HoldsPermit(c)'
               => Cardinality(Holders') = Cardinality(Holders) + 1
         /\ HoldsPermit(c) /\ ~HoldsPermit(c)'
               => Cardinality(Holders') = Cardinality(Holders) - 1
<1>1. CASE HoldsPermit(c) = HoldsPermit(c)'
  <2>1. Holders' = Holders
    BY <1>1 DEF Holders, HoldsPermit
  <2>2. QED BY <1>1, <2>1
<1>2. CASE ~HoldsPermit(c) /\ HoldsPermit(c)'
  <2>1. Holders' = Holders \cup {c} /\ c \notin Holders
    BY <1>2 DEF Holders, HoldsPermit
  <2>2. QED BY <1>2, <2>1, HoldersFinite, FS_AddElement
<1>3. CASE HoldsPermit(c) /\ ~HoldsPermit(c)'
  <2>1. Holders' = Holders \ {c} /\ c \in Holders
    BY <1>3 DEF Holders, HoldsPermit
  <2>2. QED BY <1>3, <2>1, HoldersFinite, FS_RemoveElement
<1>4. QED BY <1>1, <1>2, <1>3

LEMMA PermitsNext == TypeOK /\ PermitsConserved /\ [Next]_vars => PermitsConserved'
<1> SUFFICES ASSUME TypeOK, PermitsConserved, [Next]_vars PROVE PermitsConserved' OBVIOUS
<1> DEFINE In == {"pacing", "sleeping", "transport", "backoff"}
<1>1. DOMAIN pc = Call /\ permits \in Nat /\ MaxInFlight \in Nat
  BY PositiveAssumption DEF TypeOK
<1>2. /\ permits + Cardinality(Holders) = MaxInFlight
      /\ PermitsConserved' <=> permits' + Cardinality(Holders') = MaxInFlight
      /\ Cardinality(Holders) \in Nat
  BY HoldersFinite, FS_CardinalityType DEF PermitsConserved, Holders
<1>3. CASE UNCHANGED <<pc, permits>>
  BY <1>3 DEF PermitsConserved, HoldsPermit
<1>4. ASSUME NEW c \in Call, Step(c) \/ Cancel(c) PROVE PermitsConserved'
  <2>1. \A d \in Call \ {c} : pc'[d] = pc[d]
    <3>1. CASE Shed(c) \/ Enter(c) \/ GetPermit(c) \/ QueueTimeout(c) \/ TakeSlot(c)
      BY <1>1, <3>1 DEF Shed, Enter, GetPermit, QueueTimeout, TakeSlot, Goto, Fail
    <3>2. CASE Send(c) \/ DeadlineInside(c) \/ DeadlineAtSlot(c) \/ Succeed(c)
      BY <1>1, <3>2 DEF Send, DeadlineInside, DeadlineAtSlot, Succeed, Goto, Fail
    <3>3. CASE TransportFails(c) \/ BackoffOver(c) \/ UpstreamFails(c)
      BY <1>1, <3>3 DEF TransportFails, BackoffOver, UpstreamFails, Goto, Fail, NextAttempt
    <3>4. CASE PauseOver(c) \/ RateLimited(c) \/ Impose(c) \/ Cancel(c)
      BY <1>1, <3>4 DEF PauseOver, RateLimited, Impose, Cancel, Goto, Fail, NextAttempt
    <3>5. QED BY <1>4, <3>1, <3>2, <3>3, <3>4 DEF Step
  <2>2. \/ pc[c] \in In /\ pc'[c] \in In /\ permits' = permits
        \/ pc[c] \notin In /\ pc'[c] \notin In /\ permits' = permits
        \/ pc[c] \notin In /\ pc'[c] \in In /\ permits' = permits - 1
        \/ pc[c] \in In /\ pc'[c] \notin In /\ permits' = permits + 1
    <3>1. CASE Shed(c) \/ QueueTimeout(c) \/ PauseOver(c) \/ Impose(c)
      BY <1>1, <3>1 DEF Shed, QueueTimeout, PauseOver, Impose, NextAttempt, Goto, Fail
    <3>2. CASE Enter(c)
      BY <1>1, <3>2 DEF Enter, Goto, Fail
    <3>3. CASE GetPermit(c) \/ TakeSlot(c) \/ Send(c)
      BY <1>1, <3>3 DEF GetPermit, TakeSlot, Send, Goto
    <3>4. CASE DeadlineInside(c) \/ DeadlineAtSlot(c) \/ Succeed(c) \/ RateLimited(c)
               \/ BackoffOver(c)
      BY <1>1, <3>4 DEF DeadlineInside, DeadlineAtSlot, Succeed, RateLimited, BackoffOver,
                        LeaveBulkhead, NextAttempt, Goto, Fail
    <3>5. CASE TransportFails(c) \/ UpstreamFails(c)
      BY <1>1, <3>5 DEF TransportFails, UpstreamFails, LeaveBulkhead, Goto, Fail
    <3>6. CASE Cancel(c)
      BY <1>1, <3>6 DEF Cancel, HoldsPermit, LeaveBulkhead, Goto, Fail
    <3>7. QED BY <1>4, <3>1, <3>2, <3>3, <3>4, <3>5, <3>6 DEF Step
  <2>3. (HoldsPermit(c) <=> pc[c] \in In) /\ (HoldsPermit(c)' <=> pc'[c] \in In)
    BY DEF HoldsPermit
  <2>4. CASE (pc[c] \in In) <=> (pc'[c] \in In)
    <3>1. HoldsPermit(c) = HoldsPermit(c)'
      BY <2>3, <2>4 DEF HoldsPermit
    <3>2. Cardinality(Holders') = Cardinality(Holders)
      BY <1>1, <2>1, <3>1, HoldersStep
    <3>3. permits' = permits
      BY <2>2, <2>4
    <3>4. QED BY <1>2, <3>2, <3>3
  <2>5. CASE pc[c] \notin In /\ pc'[c] \in In
    <3>1. Cardinality(Holders') = Cardinality(Holders) + 1
      BY <1>1, <2>1, <2>3, <2>5, HoldersStep
    <3>2. permits' = permits - 1
      BY <2>2, <2>5
    <3>3. QED BY <1>1, <1>2, <3>1, <3>2
  <2>6. CASE pc[c] \in In /\ pc'[c] \notin In
    <3>1. Cardinality(Holders') = Cardinality(Holders) - 1
      BY <1>1, <2>1, <2>3, <2>6, HoldersStep
    <3>2. permits' = permits + 1
      BY <2>2, <2>6
    <3>3. QED BY <1>1, <1>2, <3>1, <3>2
  <2>7. QED BY <2>4, <2>5, <2>6
<1>5. QED BY <1>3, <1>4 DEF Next, Tick, vars

\* No permit of the bulkhead is lost or returned twice.
THEOREM Conservation == Spec => []PermitsConserved
<1>1. Init => PermitsConserved
  <2> SUFFICES ASSUME Init PROVE PermitsConserved OBVIOUS
  <2>1. {c \in Call : HoldsPermit(c)} = {}
    BY DEF Init, HoldsPermit
  <2>2. QED BY <2>1, FS_EmptySet, PositiveAssumption DEF Init, PermitsConserved
<1>2. QED BY InitType, NextType, PermitsNext, <1>1, PTL DEF Spec
=============================================================================
