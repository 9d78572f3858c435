----------------------------- MODULE KisRequest ------------------------------
(***************************************************************************)
(* clients/kis.py request_kis with the process-local primitives of          *)
(* clients/kis_resilience.py: the circuit breaker of each endpoint, the     *)
(* bulkhead and the rate limiter with its shared cooldown.                  *)
(*                                                                          *)
(* Calls are coroutines of one event loop; an action is the code between    *)
(* two awaits.  Durations are countdowns that Tick shortens.  Deadlines and *)
(* queue timeouts may strike at every await the code puts under one.  Locks *)
(* and the semaphore are FIFO in the code; here any waiter may be next.     *)
(***************************************************************************)
EXTENDS Integers, FiniteSets

CONSTANTS
  Call,           \* calls of request_kis, each made once
  Endpoint,       \* circuit scopes
  EndpointOf,     \* EndpointOf[c]: the endpoint call c is for
  RetrySafe,      \* calls that may be retried: idempotent, or opted in
  PolicyAttempts, \* max_attempts of the request policy
  RateRetries,    \* rate_limit_retries
  MaxInFlight,    \* KIS_REAL_API_MAX_IN_FLIGHT
  MaxWaiters,     \* KIS_API_MAX_QUEUE_SIZE
  Threshold,      \* KIS_CIRCUIT_FAILURE_THRESHOLD
  OpenTime,       \* KIS_CIRCUIT_OPEN_SECONDS, in ticks
  Interval,       \* KIS_REAL_API_MIN_INTERVAL_SECONDS, in ticks
  MaxCooldown,    \* KIS_RATE_LIMIT_MAX_COOLDOWN_SECONDS, in ticks
  Cancellable     \* calls that may be cancelled, or raise what nobody classifies

ASSUME CallAssumption == EndpointOf \in [Call -> Endpoint] /\ IsFiniteSet(Call)
                         /\ Cancellable \subseteq Call
ASSUME PositiveAssumption ==
  /\ PolicyAttempts \in Nat \ {0} /\ RateRetries \in Nat
  /\ MaxInFlight \in Nat \ {0} /\ MaxWaiters \in Nat \ {0}
  /\ Threshold \in Nat \ {0} /\ OpenTime \in Nat \ {0}
  /\ Interval \in Nat \ {0} /\ MaxCooldown \in Nat \ {0}

Nobody == "nobody"
ASSUME NameAssumption == Nobody \notin Call

VARIABLES
  failures,   \* failures[e]: transient failures inside the window
  opened,     \* opened[e]: open_until is not 0.0
  openFor,    \* openFor[e]: ticks until open_until is reached
  probe,      \* probe[e]: half_open_probe_active
  permits,    \* free permits of the bulkhead's semaphore
  pacer,      \* holder of the rate limiter's lock
  nextIn,     \* ticks until next_allowed_at
  blockedFor, \* ticks until blocked_until
  pc,         \* where each call is
  attempt,    \* attempt[c]: number of the attempt c is in, from 1
  rejected,   \* rejected[c]: rate_rejections
  wait,       \* wait[c]: ticks left of c's sleep inside the limiter
  sent,       \* sent[c]: requests c has put on the wire
  probing     \* history: calls whose current attempt was let in half-open

circuit == <<failures, opened, openFor, probe>>
limiter == <<pacer, nextIn, blockedFor, wait>>
vars == <<circuit, permits, limiter, pc, attempt, rejected, sent, probing>>

MaxOf(a, b) == IF a >= b THEN a ELSE b
Attempts == MaxOf(PolicyAttempts, RateRetries + 1)

\* Inside bulkhead_slot with a permit, and waiting for one.
HoldsPermit(c) == pc[c] \in {"pacing", "sleeping", "transport", "backoff"}
Waiting == {c \in Call : pc[c] = "queued"}
Ended == {"done", "failed"}

Init ==
  /\ failures = [e \in Endpoint |-> 0]
  /\ opened = [e \in Endpoint |-> FALSE]
  /\ openFor = [e \in Endpoint |-> 0]
  /\ probe = [e \in Endpoint |-> FALSE]
  /\ permits = MaxInFlight
  /\ pacer = Nobody /\ nextIn = 0 /\ blockedFor = 0
  /\ pc = [c \in Call |-> "begin"]
  /\ attempt = [c \in Call |-> 1]
  /\ rejected = [c \in Call |-> 0]
  /\ wait = [c \in Call |-> 0]
  /\ sent = [c \in Call |-> 0]
  /\ probing = {}

-----------------------------------------------------------------------------

Goto(c, l) == pc' = [pc EXCEPT ![c] = l]

\* record_circuit_success: whatever state the circuit was in, it closes.
CircuitSuccess(e) ==
  /\ failures' = [failures EXCEPT ![e] = 0]
  /\ opened' = [opened EXCEPT ![e] = FALSE]
  /\ openFor' = [openFor EXCEPT ![e] = 0]
  /\ probe' = [probe EXCEPT ![e] = FALSE]

\* record_circuit_failure: failures older than the window are dropped; a
\* half-open circuit or a full window opens it again.
CircuitFailure(e) ==
  \E kept \in 0..failures[e] :
    LET n == IF kept + 1 >= Threshold THEN Threshold ELSE kept + 1 IN
    /\ failures' = [failures EXCEPT ![e] = n]
    /\ probe' = [probe EXCEPT ![e] = FALSE]
    /\ IF probe[e] \/ n = Threshold
       THEN /\ opened' = [opened EXCEPT ![e] = TRUE]
            /\ openFor' = [openFor EXCEPT ![e] = OpenTime]
       ELSE UNCHANGED <<opened, openFor>>

\* Mutation: a call that ends before its request leaves the flag set.
KeepProbe(e) == UNCHANGED <<failures, opened, openFor, probe>>

\* release_circuit_probe.
ReleaseProbe(e) ==
  /\ probe' = [probe EXCEPT ![e] = FALSE]
  /\ UNCHANGED <<failures, opened, openFor>>

\* The attempt c was in is over.
AttemptOver(c) == probing' = probing \ {c}

\* The call raises.
Fail(c) == Goto(c, "failed") /\ AttemptOver(c)

\* `continue`.
NextAttempt(c) ==
  /\ Goto(c, "begin") /\ AttemptOver(c)
  /\ attempt' = [attempt EXCEPT ![c] = @ + 1]

\* Mutation: retry_safe is not consulted.
MayRetryAlways(c) == attempt[c] < Attempts

MayRetry(c) == c \in RetrySafe /\ attempt[c] < Attempts

LeaveBulkhead == permits' = permits + 1

\* Mutation: a timeout while pacing does not give the limiter's lock back.
LeaveLimiterLocked(c) ==
  /\ wait' = [wait EXCEPT ![c] = 0]
  /\ UNCHANGED <<pacer, nextIn, blockedFor>>

LeaveLimiter(c) ==
  /\ pacer' = IF pacer = c THEN Nobody ELSE pacer
  /\ wait' = [wait EXCEPT ![c] = 0]
  /\ UNCHANGED <<nextIn, blockedFor>>

-----------------------------------------------------------------------------

\* allow_circuit_request refuses, or the deadline is over before a retry.
Shed(c) ==
  LET e == EndpointOf[c] IN
  /\ pc[c] = "begin"
  /\ \/ opened[e] /\ (openFor[e] > 0 \/ probe[e])
     \/ attempt[c] > 1
  /\ Fail(c)
  /\ UNCHANGED <<circuit, permits, limiter, attempt, rejected, sent>>

\* The circuit lets the attempt in, as its probe when it is half-open, and the
\* bulkhead admits it, queues it or turns it away.
Enter(c) ==
  LET e == EndpointOf[c] IN
  /\ pc[c] = "begin"
  /\ opened[e] => openFor[e] = 0 /\ ~probe[e]
  /\ \/ /\ Cardinality(Waiting) >= MaxWaiters
        /\ ReleaseProbe(e)
        /\ Fail(c)
        /\ UNCHANGED permits
     \/ /\ Cardinality(Waiting) < MaxWaiters
        /\ probe' = [probe EXCEPT ![e] = opened[e]]
        /\ probing' = IF opened[e] THEN probing \cup {c} ELSE probing
        /\ UNCHANGED <<failures, opened, openFor>>
        /\ \/ /\ permits > 0 /\ Waiting = {}
              /\ permits' = permits - 1
              /\ Goto(c, "pacing")
           \/ /\ permits = 0 \/ Waiting # {}
              /\ Goto(c, "queued")
              /\ UNCHANGED permits
  /\ UNCHANGED <<limiter, attempt, rejected, sent>>

\* The semaphore admits a waiter.
GetPermit(c) ==
  /\ pc[c] = "queued" /\ permits > 0
  /\ permits' = permits - 1
  /\ Goto(c, "pacing")
  /\ UNCHANGED <<circuit, limiter, attempt, rejected, sent, probing>>

\* queue_timeout_seconds is over.
QueueTimeout(c) ==
  /\ pc[c] = "queued"
  /\ ReleaseProbe(EndpointOf[c])
  /\ Fail(c)
  /\ UNCHANGED <<permits, limiter, attempt, rejected, sent>>

\* wait_for_slot: the delay is fixed once the lock is held, and slept inside.
TakeSlot(c) ==
  /\ pc[c] = "pacing" /\ pacer = Nobody
  /\ pacer' = c
  /\ wait' = [wait EXCEPT ![c] = MaxOf(nextIn, blockedFor)]
  /\ Goto(c, "sleeping")
  /\ UNCHANGED <<circuit, permits, nextIn, blockedFor, attempt, rejected, sent, probing>>

\* The slot has come and the request goes out.
Send(c) ==
  /\ pc[c] = "sleeping" /\ wait[c] = 0
  /\ pacer' = Nobody
  /\ nextIn' = Interval
  /\ sent' = [sent EXCEPT ![c] = @ + 1]
  /\ Goto(c, "transport")
  /\ UNCHANGED <<circuit, permits, blockedFor, wait, attempt, rejected, probing>>

\* KISDeadlineExceeded while waiting for the limiter's lock or its slot.
DeadlineInside(c) ==
  /\ pc[c] \in {"pacing", "sleeping"}
  /\ ReleaseProbe(EndpointOf[c])
  /\ LeaveLimiter(c) /\ LeaveBulkhead
  /\ Fail(c)
  /\ UNCHANGED <<attempt, rejected, sent>>

\* The deadline is found over right after the slot was taken.
DeadlineAtSlot(c) ==
  /\ pc[c] = "sleeping" /\ wait[c] = 0
  /\ pacer' = Nobody /\ nextIn' = Interval
  /\ ReleaseProbe(EndpointOf[c])
  /\ LeaveBulkhead
  /\ Fail(c)
  /\ UNCHANGED <<blockedFor, wait, attempt, rejected, sent>>

\* Any answer but a rate limit or 500, 502, 503, 504.
Succeed(c) ==
  /\ pc[c] = "transport"
  /\ LeaveBulkhead
  /\ CircuitSuccess(EndpointOf[c])
  /\ Goto(c, "done") /\ AttemptOver(c)
  /\ UNCHANGED <<limiter, attempt, rejected, sent>>

\* A transport error or the attempt timeout.  The backoff before a retry is
\* slept with the permit in hand, unless it would outlast the deadline.
TransportFails(c) ==
  /\ pc[c] = "transport"
  /\ CircuitFailure(EndpointOf[c])
  /\ \/ MayRetry(c) /\ Goto(c, "backoff") /\ AttemptOver(c) /\ UNCHANGED permits
     \/ Fail(c) /\ LeaveBulkhead
  /\ UNCHANGED <<limiter, attempt, rejected, sent>>

\* Mutation: the retry begins without returning the permit.
BackoffOverKeepingPermit(c) ==
  /\ pc[c] = "backoff"
  /\ NextAttempt(c)
  /\ UNCHANGED <<circuit, permits, limiter, rejected, sent>>

BackoffOver(c) ==
  /\ pc[c] = "backoff"
  /\ LeaveBulkhead
  /\ NextAttempt(c)
  /\ UNCHANGED <<circuit, limiter, rejected, sent>>

\* 500, 502, 503 or 504.  This backoff comes after the permit is returned.
UpstreamFails(c) ==
  /\ pc[c] = "transport"
  /\ LeaveBulkhead
  /\ CircuitFailure(EndpointOf[c])
  /\ \/ MayRetry(c) /\ Goto(c, "pause") /\ AttemptOver(c)
     \/ Fail(c)
  /\ UNCHANGED <<limiter, attempt, rejected, sent>>

PauseOver(c) ==
  /\ pc[c] = "pause"
  /\ NextAttempt(c)
  /\ UNCHANGED <<circuit, permits, limiter, rejected, sent>>

\* A rate limit answer counts as a success of the circuit.
RateLimited(c) ==
  /\ pc[c] = "transport"
  /\ LeaveBulkhead
  /\ CircuitSuccess(EndpointOf[c])
  /\ rejected' = [rejected EXCEPT ![c] = @ + 1]
  /\ Goto(c, "cooldown") /\ AttemptOver(c)
  /\ UNCHANGED <<limiter, attempt, sent>>

\* Mutation: the cooldown is imposed without taking the limiter's lock.
ImposeUnlocked(c) ==
  /\ pc[c] = "cooldown"
  /\ \E cooldown \in 1..MaxCooldown :
       blockedFor' = MaxOf(blockedFor, cooldown)
  /\ IF MayRetry(c) /\ rejected[c] <= RateRetries
     THEN NextAttempt(c)
     ELSE Fail(c) /\ UNCHANGED attempt
  /\ UNCHANGED <<circuit, permits, pacer, nextIn, wait, rejected, sent>>

\* impose_rate_limit_cooldown under the limiter's lock, then retry or raise.
Impose(c) ==
  /\ pc[c] = "cooldown" /\ pacer = Nobody
  /\ \E cooldown \in 1..MaxCooldown :
       blockedFor' = MaxOf(blockedFor, cooldown)
  /\ IF MayRetry(c) /\ rejected[c] <= RateRetries
     THEN NextAttempt(c)
     ELSE Fail(c) /\ UNCHANGED attempt
  /\ UNCHANGED <<circuit, permits, pacer, nextIn, wait, rejected, sent>>

\* The task is cancelled at an await, or the client raises an error that is no
\* TransportError: only the context managers clean up.
Cancel(c) ==
  /\ c \in Cancellable
  /\ pc[c] \notin Ended \cup {"begin"}
  /\ IF HoldsPermit(c) THEN LeaveBulkhead ELSE UNCHANGED permits
  /\ LeaveLimiter(c)
  /\ Fail(c)
  /\ UNCHANGED <<circuit, attempt, rejected, sent>>

Less(n) == IF n = 0 THEN 0 ELSE n - 1

\* Time passes.
Tick ==
  /\ nextIn > 0 \/ blockedFor > 0 \/ (\E e \in Endpoint : openFor[e] > 0)
     \/ (\E c \in Call : wait[c] > 0)
  /\ nextIn' = Less(nextIn) /\ blockedFor' = Less(blockedFor)
  /\ openFor' = [e \in Endpoint |-> Less(openFor[e])]
  /\ wait' = [c \in Call |-> Less(wait[c])]
  /\ UNCHANGED <<failures, opened, probe, permits, pacer, pc, attempt,
                 rejected, sent, probing>>

Step(c) ==
  \/ Shed(c) \/ Enter(c) \/ GetPermit(c) \/ QueueTimeout(c) \/ TakeSlot(c)
  \/ Send(c) \/ DeadlineInside(c) \/ DeadlineAtSlot(c) \/ Succeed(c)
  \/ TransportFails(c) \/ BackoffOver(c) \/ UpstreamFails(c) \/ PauseOver(c)
  \/ RateLimited(c) \/ Impose(c)

Next == (\E c \in Call : Step(c) \/ Cancel(c)) \/ Tick

Spec == Init /\ [][Next]_vars

\* The event loop runs on what is ready, and time passes.
FairSpec == Spec /\ (\A c \in Call : WF_vars(Step(c))) /\ WF_vars(Tick)

-----------------------------------------------------------------------------

TypeOK ==
  /\ failures \in [Endpoint -> 0..Threshold]
  /\ opened \in [Endpoint -> BOOLEAN]
  /\ openFor \in [Endpoint -> 0..OpenTime]
  /\ probe \in [Endpoint -> BOOLEAN]
  /\ permits \in Nat
  /\ pacer \in Call \cup {Nobody}
  /\ nextIn \in Nat /\ blockedFor \in Nat
  /\ pc \in [Call -> {"begin", "queued", "pacing", "sleeping", "transport",
                      "backoff", "pause", "cooldown"} \cup Ended]
  /\ attempt \in [Call -> Nat \ {0}]
  /\ rejected \in [Call -> Nat]
  /\ wait \in [Call -> Nat]
  /\ sent \in [Call -> Nat]
  /\ probing \subseteq Call

\* Every permit is either free or in the hands of one call: no way out of the
\* bulkhead, by success, failure, timeout, backoff or cancellation, loses one
\* or returns it twice.
PermitsConserved ==
  permits + Cardinality({c \in Call : HoldsPermit(c)}) = MaxInFlight

\* A request that is not known to be safe to repeat, such as an order, is sent
\* at most once; any other at most as often as its budget of attempts allows.
SendsBounded ==
  \A c \in Call : sent[c] <= IF c \in RetrySafe THEN Attempts ELSE 1

\* No request goes out before the minimum interval since the one before it, or
\* before the end of a cooldown, also when the cooldown was imposed while the
\* request was already waiting for its slot.
PacedStarts ==
  [][\A c \in Call : pc[c] # "transport" /\ pc'[c] = "transport"
       => nextIn = 0 /\ blockedFor = 0]_vars

\* An endpoint none of whose calls is cancelled, or raises an unknown error.
Undisturbed(e) == \A c \in Cancellable : EndpointOf[c] # e

\* Every call ends with an answer or an error.
EveryCallEnds == <>(\A c \in Call : pc[c] \in Ended)

\* A call that came now would be let in.
LetsIn(e) == opened[e] => openFor[e] = 0 /\ ~probe[e]

\* An open circuit does not stay shut, whatever happens to the calls of other
\* endpoints that share its bulkhead and limiter.
CircuitReopens == \A e \in Endpoint : Undisturbed(e) => (opened[e] ~> LetsIn(e))

\* docs/kis-api-resilience.md:43: after its cooldown a circuit lets in a probe,
\* whatever became of its calls.
CircuitAlwaysReopens == \A e \in Endpoint : opened[e] ~> LetsIn(e)
=============================================================================
