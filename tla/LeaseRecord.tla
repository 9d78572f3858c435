----------------------------- MODULE LeaseRecord -----------------------------
(***************************************************************************)
(* One document of the "leases" collection and the decisions the two state *)
(* stores take about it (adapters/outbound/firestore_state.py and          *)
(* memory_state.py).  Pure operators, shared by Lease and by the modules    *)
(* of the components that claim a lease.                                    *)
(***************************************************************************)
EXTENDS Integers

NoOwner == "none"

\* What the first claim of a resource finds: no document, fencing token 0.
Unclaimed == [owner |-> NoOwner, token |-> 0, expires |-> 0]

-----------------------------------------------------------------------------
(***************************************************************************)
(* Mutations: what the code must not do, each tried in place of the         *)
(* definition below that it resembles.                                      *)
(***************************************************************************)

\* Trusts a lease one unit less than it was granted for.
UnexpiredEarly(lease, now) == lease.expires > now + 1

\* Applies the ttl twice.
GrantedTwice(lease, owner, now, ttl) ==
  [owner |-> owner, token |-> lease.token + 1, expires |-> now + ttl + ttl]

\* Ignores the fencing token.
MatchesOwner(lease, owner, token) == lease.owner = owner

-----------------------------------------------------------------------------

\* `expires_at is not None and expires_at > current`
Unexpired(lease, now) == lease.expires > now

\* The document an accepted claim writes.
Granted(lease, owner, now, ttl) ==
  [owner |-> owner, token |-> lease.token + 1, expires |-> now + ttl]

\* Only the owner of the current grant may end it.
Matches(lease, owner, token) == lease.owner = owner /\ lease.token = token

\* Firestore keeps the document and lets it expire at once.
ExpiredNow(lease, now) == [lease EXCEPT !.expires = now]

\* The local store deletes the claim and keeps the fencing counter.
Forgotten(lease) == [lease EXCEPT !.owner = NoOwner, !.expires = 0]
=============================================================================
