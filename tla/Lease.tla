-------------------------------- MODULE Lease --------------------------------
(***************************************************************************)
(* The lease half of StateStorePort (ports/state.py) on one resource: the   *)
(* claim and release of FirestoreStateStore and of InMemoryStateStore, as   *)
(* used by several processes on machines with clocks of their own.          *)
(*                                                                          *)
(* claim() reads the caller's clock first and only then runs the            *)
(* transaction, which may be retried and so commit much later: the two are  *)
(* separate steps.  A process may crash between any two steps, and the      *)
(* answer of a committed call may be lost.                                  *)
(***************************************************************************)
EXTENDS LeaseRecord

CONSTANTS
  Proc,      \* the processes that contend for the resource
  OwnerOf,   \* the owner_id each one claims under: not necessarily distinct
  Ttl,       \* the ttl argument of claim
  Skew,      \* how far apart two processes' clocks can be
  Backends,  \* the stores that KIS_STATE_BACKEND may name
  MaxClock,  \* bound: clocks stop here
  MaxToken   \* bound: grants made

ASSUME OwnerAssumption == NoOwner \notin {OwnerOf[p] : p \in Proc}
ASSUME NumberAssumption == /\ Ttl \in Nat /\ Skew \in Nat
                           /\ MaxClock \in Nat /\ MaxToken \in Nat
ASSUME BackendAssumption == Backends \subseteq {"firestore", "memory"}

VARIABLES
  backend, \* get_state_backend(), the same for every process
  lease,  \* the document, as the store holds it
  clock,  \* clock[p]: what datetime.now(UTC) returns to p
  pc,     \* where p is in its use of the lease
  seen,   \* `current`: the clock value p's pending claim carries
  held    \* the ClaimResult p last obtained: fencing token and expiry

vars == <<backend, lease, clock, pc, seen, held>>

NoGrant == [token |-> 0, expires |-> 0]

Init ==
  /\ backend \in Backends
  /\ lease = Unclaimed
  /\ clock = [p \in Proc |-> 0]
  /\ pc = [p \in Proc |-> "idle"]
  /\ seen = [p \in Proc |-> 0]
  /\ held = [p \in Proc |-> NoGrant]

-----------------------------------------------------------------------------

\* p's call is over, and its local variables with it.
Forget(p) ==
  /\ pc' = [pc EXCEPT ![p] = "idle"]
  /\ seen' = [seen EXCEPT ![p] = 0]
  /\ held' = [held EXCEPT ![p] = NoGrant]

\* claim: `current = now or datetime.now(UTC)`.
StartClaim(p) ==
  /\ pc[p] = "idle"
  /\ lease.token < MaxToken
  /\ pc' = [pc EXCEPT ![p] = "claiming"]
  /\ seen' = [seen EXCEPT ![p] = clock[p]]
  /\ UNCHANGED <<backend, lease, clock, held>>

\* claim: the transaction finds an unexpired lease and refuses.
RefuseClaim(p) ==
  /\ pc[p] = "claiming"
  /\ Unexpired(lease, seen[p])
  /\ Forget(p)
  /\ UNCHANGED <<backend, lease, clock>>

\* Mutation: the transaction does not look at the recorded expiry.
GrantUnchecked(p) ==
  /\ pc[p] = "claiming"
  /\ lease' = Granted(lease, OwnerOf[p], seen[p], Ttl)
  /\ held' = [held EXCEPT ![p] = [token |-> lease'.token,
                                  expires |-> lease'.expires]]
  /\ seen' = [seen EXCEPT ![p] = 0]
  /\ pc' = [pc EXCEPT ![p] = "holding"]
  /\ UNCHANGED <<backend, clock>>

\* claim: the transaction commits a new grant and the caller learns of it.
GrantClaim(p) ==
  /\ pc[p] = "claiming"
  /\ ~Unexpired(lease, seen[p])
  /\ lease' = Granted(lease, OwnerOf[p], seen[p], Ttl)
  /\ held' = [held EXCEPT ![p] = [token |-> lease'.token,
                                  expires |-> lease'.expires]]
  /\ seen' = [seen EXCEPT ![p] = 0]
  /\ pc' = [pc EXCEPT ![p] = "holding"]
  /\ UNCHANGED <<backend, clock>>

\* claim: the transaction commits, but its answer never reaches the caller.
LoseGrant(p) ==
  /\ pc[p] = "claiming"
  /\ ~Unexpired(lease, seen[p])
  /\ lease' = Granted(lease, OwnerOf[p], seen[p], Ttl)
  /\ Forget(p)
  /\ UNCHANGED <<backend, clock>>

\* The holder has done its work and calls release: from here on it acts no
\* more on the strength of the lease.
StartRelease(p) ==
  /\ pc[p] = "holding"
  /\ pc' = [pc EXCEPT ![p] = "releasing"]
  /\ UNCHANGED <<backend, lease, clock, seen, held>>

\* release: ends the grant, or returns False when it is no longer p's.
Release(p) ==
  /\ pc[p] = "releasing"
  /\ IF Matches(lease, OwnerOf[p], held[p].token)
     THEN lease' = IF backend = "firestore" THEN ExpiredNow(lease, clock[p])
                                            ELSE Forgotten(lease)
     ELSE UNCHANGED lease
  /\ Forget(p)
  /\ UNCHANGED <<backend, clock>>

\* The process dies, or gives up on the call it is in.
Crash(p) ==
  /\ pc[p] # "idle"
  /\ Forget(p)
  /\ UNCHANGED <<backend, lease, clock>>

\* Time passes on some of the machines; clocks never drift further apart
\* than Skew.
Tick(S) ==
  /\ S # {}
  /\ clock' = [p \in Proc |-> IF p \in S THEN clock[p] + 1 ELSE clock[p]]
  /\ \A p \in S : clock[p] < MaxClock
  /\ \A p, q \in Proc : clock'[p] - clock'[q] <= Skew
  /\ UNCHANGED <<backend, lease, pc, seen, held>>

Step(p) == \/ StartClaim(p) \/ RefuseClaim(p) \/ GrantClaim(p) \/ LoseGrant(p)
           \/ StartRelease(p) \/ Release(p) \/ Crash(p)

Next == (\E p \in Proc : Step(p)) \/ (\E S \in SUBSET Proc : Tick(S))

Spec == Init /\ [][Next]_vars

-----------------------------------------------------------------------------

TypeOK ==
  /\ backend \in Backends
  /\ lease \in [owner : {OwnerOf[p] : p \in Proc} \cup {NoOwner},
                token : Nat, expires : Nat]
  /\ clock \in [Proc -> Nat]
  /\ pc \in [Proc -> {"idle", "claiming", "holding", "releasing"}]
  /\ seen \in [Proc -> Nat]
  /\ held \in [Proc -> [token : Nat, expires : Nat]]

\* A holder that leaves a margin of one clock skew before its expiry.
Live(p) == pc[p] = "holding" /\ clock[p] + Skew < held[p].expires

\* Two processes never both act inside an unexpired lease on the same
\* resource, whatever was released, lost or abandoned before, as long as each
\* stops one clock skew before the expiry it was given.  This is what the
\* callers of claim rely on to run a collection or a token refresh alone.
Exclusive == \A p, q \in Proc : Live(p) /\ Live(q) => p = q

\* While a holder is live the store still records its grant: no release of an
\* earlier grant, even one of another process under the same owner_id, and no
\* late transaction has ended or replaced it.
LiveIsRecorded ==
  \A p \in Proc : Live(p) => /\ lease.owner = OwnerOf[p]
                             /\ lease.token = held[p].token
                             /\ lease.expires = held[p].expires

\* An abandoned grant never blocks the resource for longer than its ttl and
\* the clock skew: whoever asks then is not refused.
RefusalIsBounded == \A p \in Proc : lease.expires <= clock[p] + Ttl + Skew

\* Fencing tokens order the grants: the token a holder is given is larger
\* than every token the store handed out before, also to callers that never
\* heard of it, and the store never forgets how many it gave.
FencingGrows ==
  [][/\ lease'.token >= lease.token
     /\ \A p \in Proc : pc[p] # "holding" /\ pc'[p] = "holding"
          => held'[p].token > lease.token]_vars

-----------------------------------------------------------------------------

\* The promise of the store, a lock whose grants are numbered.
Promise == INSTANCE LeasePromise WITH
             granted <- lease.token,
             active <- {held[p].token : p \in {q \in Proc : Live(q)}}

\* The store implements the numbered lock: a new grant only begins when no
\* earlier one is still live, and a grant that is over never becomes live
\* again.
ImplementsPromise == Promise!Spec
=============================================================================
