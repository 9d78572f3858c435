--------------------------- MODULE KisTokenRefresh ---------------------------
(***************************************************************************)
(* The KIS access token of one account: auth.get_access_token, its process  *)
(* memory, the encrypted row shared by all instances, the legacy token file *)
(* and the distributed refresh lease, with the caller of                    *)
(* services/account.py that forces a refresh once KIS rejects its token.    *)
(*                                                                          *)
(* Tokens are numbered in the order KIS issues them, which is also the      *)
(* order in which they stop being reusable; 0 is "no token".  A call is     *)
(* split at every await and at every access to state another instance can  *)
(* touch.  Calls of one process share its event loop; the steps between two *)
(* awaits only touch their own locals and the keyed lock's data, so letting *)
(* other calls of the process run in between adds no behaviour.             *)
(*                                                                          *)
(* The lease is used as module Lease promises: at most one unexpired grant. *)
(***************************************************************************)
EXTENDS Integers, FiniteSets

CONSTANTS
  Proc,         \* instances of the service and its batch jobs
  Call,         \* calls that need the token, each made once
  ProcOf,       \* ProcOf[c]: the process call c runs in
  Warm,         \* calls of the warm-up batch: they force a refresh at once
  Files,        \* processes that start with a legacy token file
  UseLease,     \* get_state_backend() == "firestore"
  SlowHolders,  \* may a holder outlive its two minute lease?
  DbFails,      \* may reads and writes of the token row fail?
  MaxPolls,     \* bound: polls of a call waiting for the lease (40 in code)
  MaxToken,     \* bound: tokens KIS issues
  MaxCrashes    \* bound: process crashes

ASSUME CallAssumption == /\ ProcOf \in [Call -> Proc]
                         /\ Warm \subseteq Call /\ Files \subseteq Proc
ASSUME FlagAssumption == {UseLease, SlowHolders, DbFails} \subseteq BOOLEAN
ASSUME BoundAssumption == /\ MaxPolls \in Nat \ {0, 1}
                          /\ MaxToken \in Nat \ {0} /\ MaxCrashes \in Nat

NoToken == 0
Nobody == "nobody"
Lost == "lost"      \* a granted lease whose owner never learnt of it
ASSUME NameAssumption == Nobody \notin Call /\ Lost \notin Call

VARIABLES
  issued,   \* how many tokens KIS has issued
  stale,    \* tokens 1..stale are within ten minutes of their expiry
  dead,     \* tokens KIS rejects as expired, whatever their row says
  db,       \* the token in the shared encrypted row
  mem,      \* mem[p]: _PROCESS_TOKEN_CACHE of p
  file,     \* file[p]: the legacy token file of p
  lock,     \* lock[p]: holder of the keyed asyncio lock of p
  lease,    \* holder of kis-token-refresh:<cache_key>
  pc,       \* where each call is
  forced,   \* forced[c]: force_refresh of the pass c is in
  tok,      \* tok[c]: the token c was issued, or has been given
  tries,    \* tries[c]: attempts or polls c has made
  crashes

kis == <<issued, stale, dead>>
stores == <<db, mem, file>>
vars == <<kis, stores, lock, lease, pc, forced, tok, tries, crashes>>

\* A holder is between winning the lease and giving it back.
Refreshing == {"request", "parse", "persist", "release"}
UnderLock == Refreshing \cup {"reread", "migrate", "claim", "wait"}
Ended == {"done", "failed"}

\* One token may be around from before, in the row or in a file.
Init ==
  /\ issued = 1 /\ stale \in {0, 1} /\ dead = {}
  /\ db \in {NoToken, 1}
  /\ mem = [p \in Proc |-> NoToken]
  /\ file = [p \in Proc |-> IF p \in Files THEN 1 ELSE NoToken]
  /\ lock = [p \in Proc |-> Nobody]
  /\ lease = Nobody
  /\ pc = [c \in Call |-> IF c \in Warm THEN "locking" ELSE "lookup"]
  /\ forced = [c \in Call |-> c \in Warm]
  /\ tok = [c \in Call |-> NoToken]
  /\ tries = [c \in Call |-> 0]
  /\ crashes = 0

-----------------------------------------------------------------------------

\* Mutation: a token is used up to the start of the safety margin itself.
ReusableAtEdge(t) == t # NoToken /\ t >= stale

\* is_token_valid: more than TOKEN_REFRESH_SAFETY before its expiry.
Reusable(t) == t # NoToken /\ t > stale

\* Whether the row is seen at all: Firestore hides an expired document, and a
\* token that is no longer reusable may or may not have expired yet.
RecordMissing == db = NoToken \/ (UseLease /\ ~Reusable(db))
RecordPresent == db # NoToken

Goto(c, l) == pc' = [pc EXCEPT ![c] = l]

\* Leaving `async with` gives the keyed lock back.
Unlock(c) ==
  lock' = [p \in Proc |-> IF lock[p] = c THEN Nobody ELSE lock[p]]

\* release: only the owner of the grant ends it.
GiveBack(c) == lease' = IF lease = c THEN Nobody ELSE lease

\* get_access_token returns t.
Return(c, t) ==
  /\ tok' = [tok EXCEPT ![c] = t]
  /\ tries' = [tries EXCEPT ![c] = 0]
  /\ Goto(c, "use")
  /\ Unlock(c)

\* Mutation: an exception leaves the keyed lock taken.
RaiseKeepingLock(c) ==
  /\ tok' = [tok EXCEPT ![c] = NoToken]
  /\ tries' = [tries EXCEPT ![c] = 0]
  /\ Goto(c, "failed")
  /\ UNCHANGED lock

\* get_access_token raises.
Raise(c) ==
  /\ tok' = [tok EXCEPT ![c] = NoToken]
  /\ tries' = [tries EXCEPT ![c] = 0]
  /\ Goto(c, "failed")
  /\ Unlock(c)

\* The token the row answers with, or NoToken for a miss.  A failed read is
\* answered by process memory alone, a miss falls back to it.
CachedBy(p, dbRead) ==
  IF dbRead /\ Reusable(db) THEN db
  ELSE IF Reusable(mem[p]) THEN mem[p] ELSE NoToken

-----------------------------------------------------------------------------

\* The row's token does not decrypt: the one error of a lookup that is not
\* answered by process memory.
CannotDecrypt == DbFails /\ Reusable(db)

\* The lookup before the lock; forced calls skip it.
LookUp(c) ==
  /\ pc[c] = "lookup"
  /\ \/ \E dbRead \in {TRUE, ~DbFails} :
          LET t == CachedBy(ProcOf[c], dbRead) IN
          IF t # NoToken
          THEN Return(c, t)
          ELSE Goto(c, "locking") /\ UNCHANGED <<tok, tries, lock>>
     \/ CannotDecrypt /\ Raise(c)
  /\ UNCHANGED <<kis, stores, lease, forced, crashes>>

\* Mutation: the caches are not read again under the lock.
AcquireLockOnly(c) ==
  /\ pc[c] = "locking"
  /\ lock[ProcOf[c]] = Nobody
  /\ lock' = [lock EXCEPT ![ProcOf[c]] = c]
  /\ Goto(c, "claim")
  /\ UNCHANGED <<kis, stores, lease, forced, tok, tries, crashes>>

\* async with _get_refresh_lock(cache_key).
AcquireLock(c) ==
  /\ pc[c] = "locking"
  /\ lock[ProcOf[c]] = Nobody
  /\ lock' = [lock EXCEPT ![ProcOf[c]] = c]
  /\ Goto(c, IF forced[c] THEN "claim" ELSE "reread")
  /\ UNCHANGED <<kis, stores, lease, forced, tok, tries, crashes>>

\* The second lookup, under the lock.  Only a call that saw there is no
\* record goes on to look for a legacy file.
Reread(c) ==
  /\ pc[c] = "reread"
  /\ \/ \E dbRead \in {TRUE, ~DbFails} :
          LET t == CachedBy(ProcOf[c], dbRead) IN
          \/ t # NoToken /\ Return(c, t)
          \/ /\ t = NoToken
             /\ \/ dbRead /\ RecordMissing /\ Goto(c, "migrate")
                \/ (dbRead => RecordPresent) /\ Goto(c, "claim")
             /\ UNCHANGED <<tok, tries, lock>>
     \/ CannotDecrypt /\ Raise(c)
  /\ UNCHANGED <<kis, stores, lease, forced, crashes>>

\* _migrate_legacy_token_if_available: the file's token becomes the row.
Migrate(c) ==
  LET p == ProcOf[c] IN
  /\ pc[c] = "migrate"
  /\ \/ /\ Reusable(file[p])
        /\ db' = file[p]
        /\ file' = [file EXCEPT ![p] = NoToken]
        /\ Return(c, file[p])
     \/ /\ Reusable(file[p]) /\ DbFails
        /\ Raise(c)
        /\ UNCHANGED <<db, file>>
     \/ /\ ~Reusable(file[p])
        /\ Goto(c, "claim")
        /\ UNCHANGED <<db, file, lock, tok, tries>>
  /\ UNCHANGED <<kis, mem, lease, forced, crashes>>

\* Mutation: the call goes on whether or not it was given the lease.
ClaimUnchecked(c) ==
  /\ pc[c] = "claim"
  /\ Goto(c, "request")
  /\ lease' = IF lease = Nobody THEN c ELSE lease
  /\ UNCHANGED <<kis, stores, lock, forced, tok, tries, crashes>>

\* The distributed lease: whoever does not get it waits for the row.
Claim(c) ==
  /\ pc[c] = "claim"
  /\ IF ~UseLease
     THEN Goto(c, "request") /\ UNCHANGED lease
     ELSE IF lease = Nobody
          THEN Goto(c, "request") /\ lease' = c
          ELSE Goto(c, "wait") /\ UNCHANGED lease
  /\ UNCHANGED <<kis, stores, lock, forced, tok, tries, crashes>>

\* The claim raises, perhaps after it was granted.
ClaimFails(c) ==
  /\ pc[c] = "claim" /\ UseLease /\ DbFails
  /\ lease' \in {lease, IF lease = Nobody THEN Lost ELSE lease}
  /\ Raise(c)
  /\ UNCHANGED <<kis, stores, forced, crashes>>

\* One poll of the row while another instance refreshes it.  Nobody looks at
\* force_refresh here, and a failed read is not caught.
Poll(c) ==
  /\ pc[c] = "wait"
  /\ \/ Reusable(db) /\ Return(c, db)
     \/ /\ ~Reusable(db) /\ tries[c] + 1 < MaxPolls
        /\ tries' = [tries EXCEPT ![c] = @ + 1]
        /\ UNCHANGED <<pc, tok, lock>>
     \/ /\ ~Reusable(db) /\ tries[c] + 1 = MaxPolls
        /\ Raise(c)
     \/ DbFails /\ Raise(c)
  /\ UNCHANGED <<kis, stores, lease, forced, crashes>>

\* _request_new_token_with_retry: KIS answers 200 with a new token.
Issue(c) ==
  /\ pc[c] = "request"
  /\ issued < MaxToken
  /\ issued' = issued + 1
  /\ tok' = [tok EXCEPT ![c] = issued']
  /\ tries' = [tries EXCEPT ![c] = 0]
  /\ Goto(c, "parse")
  /\ UNCHANGED <<stale, dead, stores, lock, lease, forced, crashes>>

\* 429 or 5xx: once more, after a pause.
RetryRequest(c) ==
  /\ pc[c] = "request" /\ tries[c] = 0
  /\ tries' = [tries EXCEPT ![c] = 1]
  /\ UNCHANGED <<kis, stores, lock, lease, pc, forced, tok, crashes>>

\* Any other refusal, a second 429 or 5xx, or a network error: the lease is
\* given back.  On a read timeout KIS may have issued a token nobody gets.
RequestFails(c) ==
  /\ pc[c] = "request"
  /\ issued' \in {issued, IF issued < MaxToken THEN issued + 1 ELSE issued}
  /\ GiveBack(c)
  /\ Raise(c)
  /\ UNCHANGED <<stale, dead, stores, forced, crashes>>

\* Mutation: the lease is given back before the row is written.
StoreAndGiveBack(c) ==
  /\ pc[c] = "parse"
  /\ mem' = [mem EXCEPT ![ProcOf[c]] = tok[c]]
  /\ GiveBack(c)
  /\ Goto(c, "persist")
  /\ UNCHANGED <<kis, db, file, lock, forced, tok, tries, crashes>>

\* The answer is parsed and kept in process memory.
StoreInMemory(c) ==
  /\ pc[c] = "parse"
  /\ mem' = [mem EXCEPT ![ProcOf[c]] = tok[c]]
  /\ Goto(c, "persist")
  /\ UNCHANGED <<kis, db, file, lock, lease, forced, tok, tries, crashes>>

\* _persist_token_record: a failure is only logged.
Persist(c) ==
  /\ pc[c] = "persist"
  /\ \/ db' = tok[c]
     \/ DbFails /\ UNCHANGED db
  /\ Goto(c, "release")
  /\ UNCHANGED <<kis, mem, file, lock, lease, forced, tok, tries, crashes>>

\* The lease is given back and the new token returned.
Finish(c) ==
  /\ pc[c] = "release"
  /\ GiveBack(c)
  /\ Return(c, tok[c])
  /\ UNCHANGED <<kis, stores, forced, crashes>>

\* An answer without an access_token, or a release that raises: nothing
\* catches it, and the lease stays behind until it runs out.
Abandon(c) ==
  /\ pc[c] = "parse" \/ (pc[c] = "release" /\ UseLease /\ DbFails)
  /\ Raise(c)
  /\ UNCHANGED <<kis, stores, lease, forced, crashes>>

\* The task is cancelled at an await.  `except Exception` does not see it, so
\* a call that was asking KIS leaves its lease behind.
Cancel(c) ==
  /\ pc[c] \in {"locking", "wait", "request"}
  /\ Raise(c)
  /\ UNCHANGED <<kis, stores, lease, forced, crashes>>

\* fetch_balance_snapshot: KIS answers, or rejects the token as expired and
\* the call asks for a new one, once.
Use(c) ==
  /\ pc[c] = "use"
  /\ IF tok[c] \in dead /\ ~forced[c]
     THEN Goto(c, "locking") /\ forced' = [forced EXCEPT ![c] = TRUE]
     ELSE Goto(c, "done") /\ UNCHANGED forced
  /\ tok' = [tok EXCEPT ![c] = NoToken]
  /\ UNCHANGED <<kis, stores, lock, lease, tries, crashes>>

\* A process dies with everything it kept in memory.  Calls that have not
\* looked at anything yet are made by the process that is started instead.
Crash(p) ==
  /\ crashes < MaxCrashes
  /\ crashes' = crashes + 1
  /\ mem' = [mem EXCEPT ![p] = NoToken]
  /\ lock' = [lock EXCEPT ![p] = Nobody]
  /\ pc' = [c \in Call |-> IF ProcOf[c] = p /\ pc[c] \notin Ended \cup {"lookup"}
                           THEN "failed" ELSE pc[c]]
  /\ tok' = [c \in Call |-> IF pc'[c] = "failed" THEN NoToken ELSE tok[c]]
  /\ tries' = [c \in Call |-> IF pc'[c] = "failed" THEN 0 ELSE tries[c]]
  /\ UNCHANGED <<kis, db, file, lease, forced>>

\* Mutation: the lease is claimed without a ttl.
LeaseNeverRunsOut == FALSE /\ UNCHANGED vars

\* The lease's ttl is over: of a holder that is gone, unless a holder may
\* also take longer than that.
LeaseRunsOut ==
  /\ lease # Nobody
  /\ ~SlowHolders /\ lease \in Call => pc[lease] \notin Refreshing
  /\ lease' = Nobody
  /\ UNCHANGED <<kis, stores, lock, pc, forced, tok, tries, crashes>>

\* Time passes for the oldest reusable token; KIS revokes one early.
Expire ==
  /\ stale < issued
  /\ stale' = stale + 1
  /\ UNCHANGED <<issued, dead, stores, lock, lease, pc, forced, tok, tries, crashes>>

Revoke ==
  /\ dead = {}
  /\ \E t \in 1..issued : dead' = {t}
  /\ UNCHANGED <<issued, stale, stores, lock, lease, pc, forced, tok, tries, crashes>>

Step(c) ==
  \/ LookUp(c) \/ AcquireLock(c) \/ Reread(c) \/ Migrate(c) \/ Claim(c)
  \/ ClaimFails(c) \/ Poll(c) \/ Issue(c) \/ RetryRequest(c) \/ RequestFails(c)
  \/ StoreInMemory(c) \/ Persist(c) \/ Finish(c) \/ Abandon(c) \/ Use(c)

Next ==
  \/ \E c \in Call : Step(c) \/ Cancel(c)
  \/ \E p \in Proc : Crash(p)
  \/ LeaseRunsOut \/ Expire \/ Revoke

Spec == Init /\ [][Next]_vars

\* Every started call is run on by its event loop, and an abandoned lease runs
\* out.  Nothing makes KIS issue, expire or revoke a token.
FairSpec == Spec /\ (\A c \in Call : WF_vars(Step(c))) /\ WF_vars(LeaseRunsOut)

-----------------------------------------------------------------------------

TypeOK ==
  /\ issued \in Nat /\ stale \in Nat /\ dead \subseteq Nat
  /\ db \in Nat /\ mem \in [Proc -> Nat] /\ file \in [Proc -> Nat]
  /\ lock \in [Proc -> Call \cup {Nobody}]
  /\ lease \in Call \cup {Nobody, Lost}
  /\ pc \in [Call -> {"lookup", "locking", "use"} \cup UnderLock \cup Ended]
  /\ forced \in [Call -> BOOLEAN]
  /\ tok \in [Call -> Nat]
  /\ tries \in [Call -> 0..(MaxPolls - 1)]
  /\ crashes \in Nat

\* Across all instances at most one call is asking KIS for a token, or has
\* one in hand that it has not stored yet, as long as no holder outlives its
\* lease: failures, lost claims and crashes included.
OneRefreshAtATime ==
  UseLease /\ ~SlowHolders =>
    \A c, d \in Call : pc[c] \in Refreshing /\ pc[d] \in Refreshing => c = d

\* The shared row never goes back to an older token than it had: a refresh
\* that was overtaken never overwrites the newer result.  Only the token of a
\* legacy file may, of a call that saw no row before another instance wrote it.
RowNeverGoesBack == [][db' < db => \E c \in Call : Migrate(c)]_vars

\* A call that did not force a refresh is only ever given a token that is
\* still reusable at that moment, unless it had that token issued itself.
ReturnsReusable ==
  [][\A c \in Call : pc[c] \notin {"use", "release"} /\ pc'[c] = "use"
       => tok'[c] > stale /\ tok'[c] <= issued]_vars

\* Calls of one process never ask KIS twice in turn: whoever waited for the
\* keyed lock of the process finds what its predecessor was issued, whatever
\* the row and the other instances do meanwhile.
AskedOnlyWhenNeeded ==
  [][\A c \in Call : ~forced[c] /\ pc[c] # "request" /\ pc'[c] = "request"
       => ~Reusable(mem[ProcOf[c]])]_vars

\* Every call returns or raises: no failure, lost claim or crash of another
\* one leaves it waiting for the lock or for the row forever.
EveryCallEnds == <>(\A c \in Call : pc[c] \in Ended)

\* The lease does not stay taken when nobody refreshes any more.
LeaseComesBack == (lease # Nobody) ~> (lease = Nobody)
=============================================================================
