----------------------- MODULE KisTokenRefresh_proofs ------------------------
(***************************************************************************)
(* Proofs about the token refresh for any number of instances and calls:    *)
(* type correctness, one refresh at a time, a row that never goes back, and *)
(* two facts about single steps: what a call is given, and when it asks.    *)
(***************************************************************************)
EXTENDS KisTokenRefresh, TLAPS

LEMMA InitType == Init => TypeOK
BY CallAssumption, NameAssumption, BoundAssumption
   DEF Init, TypeOK, NoToken, UnderLock, Refreshing, Ended

\* Every step of a call, of a process or of the environment keeps the types.
LEMMA NextType == TypeOK /\ [Next]_vars => TypeOK'
<1> SUFFICES ASSUME TypeOK, [Next]_vars PROVE TypeOK' OBVIOUS
<1> USE CallAssumption, NameAssumption, BoundAssumption
    DEF TypeOK, NoToken, UnderLock, Refreshing, Ended, kis, stores
<1>0. ASSUME NEW c \in Call
      PROVE  CachedBy(ProcOf[c], TRUE) \in Nat /\ CachedBy(ProcOf[c], FALSE) \in Nat
  BY <1>0 DEF CachedBy
<1>1. ASSUME NEW c \in Call, NEW t \in Nat, Return(c, t)
      PROVE  /\ tok' \in [Call -> Nat] /\ tries' \in [Call -> 0..(MaxPolls - 1)]
             /\ pc' \in [Call -> {"lookup", "locking", "use"} \cup UnderLock \cup Ended]
             /\ lock' \in [Proc -> Call \cup {Nobody}]
  BY <1>1 DEF Return, Goto, Unlock
<1>2. ASSUME NEW c \in Call, Raise(c)
      PROVE  /\ tok' \in [Call -> Nat] /\ tries' \in [Call -> 0..(MaxPolls - 1)]
             /\ pc' \in [Call -> {"lookup", "locking", "use"} \cup UnderLock \cup Ended]
             /\ lock' \in [Proc -> Call \cup {Nobody}]
  BY <1>2 DEF Raise, Goto, Unlock
<1>3. ASSUME NEW c \in Call, LookUp(c) PROVE TypeOK'
  BY <1>0, <1>1, <1>2, <1>3 DEF LookUp, Goto
<1>4. ASSUME NEW c \in Call, AcquireLock(c) PROVE TypeOK'
  BY <1>4 DEF AcquireLock, Goto
<1>5. ASSUME NEW c \in Call, Reread(c) PROVE TypeOK'
  BY <1>0, <1>1, <1>2, <1>5 DEF Reread, Goto
<1>6. ASSUME NEW c \in Call, Migrate(c) PROVE TypeOK'
  BY <1>1, <1>2, <1>6 DEF Migrate, Goto
<1>7. ASSUME NEW c \in Call, Claim(c) PROVE TypeOK'
  BY <1>7 DEF Claim, Goto
<1>8. ASSUME NEW c \in Call, ClaimFails(c) PROVE TypeOK'
  BY <1>2, <1>8 DEF ClaimFails
<1>9. ASSUME NEW c \in Call, Poll(c) PROVE TypeOK'
  BY <1>1, <1>2, <1>9 DEF Poll
<1>10. ASSUME NEW c \in Call, Issue(c) PROVE TypeOK'
  BY <1>10 DEF Issue, Goto
<1>11. ASSUME NEW c \in Call, RetryRequest(c) PROVE TypeOK'
  BY <1>11 DEF RetryRequest
<1>12. ASSUME NEW c \in Call, RequestFails(c) PROVE TypeOK'
  BY <1>2, <1>12 DEF RequestFails, GiveBack
<1>13. ASSUME NEW c \in Call, StoreInMemory(c) PROVE TypeOK'
  BY <1>13 DEF StoreInMemory, Goto
<1>14. ASSUME NEW c \in Call, Persist(c) PROVE TypeOK'
  BY <1>14 DEF Persist, Goto
<1>15. ASSUME NEW c \in Call, Finish(c) PROVE TypeOK'
  BY <1>1, <1>15 DEF Finish, GiveBack
<1>16. ASSUME NEW c \in Call, Abandon(c) PROVE TypeOK'
  BY <1>2, <1>16 DEF Abandon
<1>17. ASSUME NEW c \in Call, Use(c) PROVE TypeOK'
  BY <1>17 DEF Use, Goto
<1>18. ASSUME NEW p \in Proc, Crash(p) PROVE TypeOK'
  BY <1>18 DEF Crash
<1>19. CASE LeaseRunsOut
  BY <1>19 DEF LeaseRunsOut
<1>20. CASE Expire
  BY <1>20 DEF Expire
<1>21. CASE Revoke
  BY <1>21 DEF Revoke
<1>22. CASE UNCHANGED vars
  BY <1>22 DEF vars
<1>23. ASSUME NEW c \in Call, Cancel(c) PROVE TypeOK'
  BY <1>2, <1>23 DEF Cancel
<1>24. QED
  BY <1>23, <1>3, <1>4, <1>5, <1>6, <1>7, <1>8, <1>9, <1>10, <1>11, <1>12, <1>13,
     <1>14, <1>15, <1>16, <1>17, <1>18, <1>19, <1>20, <1>21, <1>22
     DEF Next, Step

\* Every variable keeps its type.
THEOREM TypeCorrect == Spec => []TypeOK
BY InitType, NextType, PTL DEF Spec

-----------------------------------------------------------------------------

\* Whoever refreshes holds the lease.
HolderRefreshes == \A c \in Call : pc[c] \in Refreshing => lease = c

\* A step keeps HolderRefreshes when it makes c the only call that may have
\* begun to refresh, with the lease, and takes the lease from nobody else who
\* refreshes.
LEMMA HolderKept ==
  ASSUME TypeOK, HolderRefreshes, NEW c \in Call,
         pc' = [pc EXCEPT ![c] = pc'[c]],
         pc'[c] \in Refreshing => lease' = c,
         lease' = lease \/ lease \in {Nobody, c}
  PROVE  HolderRefreshes'
<1> SUFFICES ASSUME NEW d \in Call, pc'[d] \in Refreshing PROVE lease' = d
  BY DEF HolderRefreshes
<1>1. CASE d = c
  BY <1>1
<1>2. CASE d # c
  BY <1>2, NameAssumption DEF TypeOK, HolderRefreshes
<1>3. QED BY <1>1, <1>2

LEMMA NextHolder ==
  ASSUME UseLease, ~SlowHolders, TypeOK, HolderRefreshes, [Next]_vars
  PROVE  HolderRefreshes'
<1> USE CallAssumption, NameAssumption
<1>1. ASSUME NEW c \in Call, Step(c) \/ Cancel(c) PROVE HolderRefreshes'
  <2>1. /\ pc' = [pc EXCEPT ![c] = pc'[c]]
        /\ pc'[c] \in Refreshing => lease' = c
        /\ lease' = lease \/ lease \in {Nobody, c}
    <3> USE DEF TypeOK, HolderRefreshes, Refreshing, Goto, Return, Raise, GiveBack
    <3>1. CASE LookUp(c) \/ AcquireLock(c) \/ Reread(c)
      BY <3>1 DEF LookUp, AcquireLock, Reread
    <3>2. CASE Migrate(c) \/ Poll(c)
      BY <3>2 DEF Migrate, Poll
    <3>3. CASE Claim(c) \/ ClaimFails(c)
      BY <3>3 DEF Claim, ClaimFails
    <3>4. CASE Issue(c) \/ RetryRequest(c) \/ RequestFails(c)
      BY <3>4 DEF Issue, RetryRequest, RequestFails
    <3>5. CASE StoreInMemory(c) \/ Persist(c) \/ Finish(c)
      BY <3>5 DEF StoreInMemory, Persist, Finish
    <3>6. CASE Abandon(c) \/ Use(c) \/ Cancel(c)
      BY <3>6 DEF Abandon, Use, Cancel
    <3>7. QED BY <1>1, <3>1, <3>2, <3>3, <3>4, <3>5, <3>6 DEF Step
  <2>2. QED BY <2>1, HolderKept
<1>2. ASSUME NEW p \in Proc, Crash(p) PROVE HolderRefreshes'
  BY <1>2 DEF Crash, HolderRefreshes, Refreshing, TypeOK
<1>3. CASE LeaseRunsOut
  BY <1>3 DEF LeaseRunsOut, HolderRefreshes, TypeOK
<1>4. CASE Expire \/ Revoke
  BY <1>4 DEF Expire, Revoke, HolderRefreshes
<1>5. CASE UNCHANGED vars
  BY <1>5 DEF vars, HolderRefreshes
<1>6. QED BY <1>1, <1>2, <1>3, <1>4, <1>5 DEF Next

THEOREM Holding ==
  ASSUME UseLease, ~SlowHolders
  PROVE  Spec => [](TypeOK /\ HolderRefreshes)
<1>1. Init => HolderRefreshes
  BY DEF Init, HolderRefreshes, Refreshing
<1>2. TypeOK /\ HolderRefreshes /\ [Next]_vars => (TypeOK /\ HolderRefreshes)'
  BY NextType, NextHolder
<1>3. QED BY <1>1, <1>2, InitType, PTL DEF Spec

\* At most one call refreshes the token, across all instances.
THEOREM OneAtATime == Spec => []OneRefreshAtATime
<1>1. CASE UseLease /\ ~SlowHolders
  <2>1. HolderRefreshes => OneRefreshAtATime
    BY DEF HolderRefreshes, OneRefreshAtATime
  <2>2. QED BY <1>1, <2>1, Holding, PTL
<1>2. CASE ~(UseLease /\ ~SlowHolders)
  <2>1. OneRefreshAtATime
    BY <1>2 DEF OneRefreshAtATime
  <2>2. QED BY <2>1, PTL
<1>3. QED BY <1>1, <1>2

-----------------------------------------------------------------------------

\* A token on its way to the row is the last one KIS issued.
LatestInHand ==
  /\ db <= issued
  /\ \A c \in Call : pc[c] \in {"parse", "persist"} => tok[c] = issued
  /\ \A p \in Proc : file[p] <= issued

\* Apart from a legacy file's token, the row only changes to the token the
\* holder of the lease has in hand.
LEMMA NextLatest ==
  ASSUME TypeOK, HolderRefreshes, LatestInHand, [Next]_vars
  PROVE  LatestInHand' /\ (db' < db => \E c \in Call : Migrate(c))
<1> USE CallAssumption DEF TypeOK, LatestInHand, NoToken, kis, stores
<1>1. ASSUME NEW c \in Call, Step(c) \/ Cancel(c)
      PROVE  LatestInHand' /\ (db' >= db \/ Migrate(c))
  <2> USE DEF Goto, Return, Raise
  <2>1. CASE LookUp(c) \/ AcquireLock(c) \/ Reread(c)
    <3>1. /\ UNCHANGED <<kis, stores>>
          /\ \A d \in Call : pc'[d] \in {"parse", "persist"}
               => pc[d] = pc'[d] /\ tok'[d] = tok[d]
      <4>1. CASE LookUp(c)
        BY <4>1 DEF LookUp
      <4>2. CASE AcquireLock(c)
        BY <4>2 DEF AcquireLock
      <4>3. CASE Reread(c)
        BY <4>3 DEF Reread
      <4>4. QED BY <2>1, <4>1, <4>2, <4>3
    <3>2. QED BY <3>1
  <2>2. CASE Migrate(c) \/ Poll(c)
    BY <2>2 DEF Migrate, Poll, Reusable
  <2>3. CASE Claim(c) \/ ClaimFails(c)
    BY <2>3 DEF Claim, ClaimFails
  <2>4. CASE Issue(c) \/ RetryRequest(c) \/ RequestFails(c)
    <3>1. pc[c] = "request"
      BY <2>4 DEF Issue, RetryRequest, RequestFails
    <3>2. \A d \in Call : d # c => pc[d] \notin {"parse", "persist"}
      BY <3>1 DEF HolderRefreshes, Refreshing
    <3>3. CASE Issue(c)
      BY <3>2, <3>3 DEF Issue
    <3>4. CASE RetryRequest(c)
      BY <3>4 DEF RetryRequest
    <3>5. CASE RequestFails(c)
      BY <3>2, <3>5 DEF RequestFails
    <3>6. QED BY <2>4, <3>3, <3>4, <3>5
  <2>5. CASE StoreInMemory(c) \/ Persist(c) \/ Finish(c)
    BY <2>5 DEF StoreInMemory, Persist, Finish
  <2>6. CASE Abandon(c) \/ Use(c) \/ Cancel(c)
    BY <2>6 DEF Abandon, Use, Cancel
  <2>7. QED BY <1>1, <2>1, <2>2, <2>3, <2>4, <2>5, <2>6 DEF Step
<1>2. ASSUME NEW p \in Proc, Crash(p) PROVE LatestInHand' /\ db' >= db
  BY <1>2 DEF Crash
<1>3. CASE LeaseRunsOut \/ Expire \/ Revoke
  BY <1>3 DEF LeaseRunsOut, Expire, Revoke
<1>4. CASE UNCHANGED vars
  BY <1>4 DEF vars
<1>5. db \in Nat /\ db' \in Nat
  BY NextType
<1>6. QED BY <1>1, <1>2, <1>3, <1>4, <1>5 DEF Next

\* With the lease the row never goes back, except to the token of a legacy file.
THEOREM RowMonotone ==
  ASSUME UseLease, ~SlowHolders
  PROVE  Spec => RowNeverGoesBack
<1>1. Init => LatestInHand
  BY DEF Init, LatestInHand, NoToken
<1>2. Spec => [](TypeOK /\ HolderRefreshes)
  BY Holding
<1>3. TypeOK /\ HolderRefreshes /\ LatestInHand /\ [Next]_vars => LatestInHand'
  BY NextLatest
<1>4. TypeOK /\ HolderRefreshes /\ LatestInHand /\ [Next]_vars => [db' < db => \E c \in Call : Migrate(c)]_vars
  BY NextLatest
<1>5. QED BY <1>1, <1>2, <1>3, <1>4, PTL DEF Spec, RowNeverGoesBack

-----------------------------------------------------------------------------

\* Nothing is kept or handed on that KIS has not issued.
OnlyIssued ==
  /\ db <= issued
  /\ \A p \in Proc : mem[p] <= issued /\ file[p] <= issued
  /\ \A c \in Call : tok[c] <= issued

\* Whatever a lookup answers with is reusable, and was issued.
LEMMA CachedIsReusable ==
  ASSUME TypeOK, OnlyIssued, NEW c \in Call, NEW dbRead \in BOOLEAN,
         CachedBy(ProcOf[c], dbRead) # NoToken
  PROVE  /\ CachedBy(ProcOf[c], dbRead) \in Nat
         /\ CachedBy(ProcOf[c], dbRead) > stale
         /\ CachedBy(ProcOf[c], dbRead) <= issued
BY CallAssumption DEF CachedBy, Reusable, TypeOK, OnlyIssued, NoToken

\* A call that is given a token without having asked KIS can use it.
GivenReusable(c) ==
  pc[c] \notin {"use", "release"} /\ pc'[c] = "use"
    => tok'[c] > stale /\ tok'[c] <= issued

LEMMA ReturnKeepsIssued ==
  ASSUME TypeOK, OnlyIssued, NEW c \in Call, NEW t \in Nat,
         Return(c, t), t <= issued, UNCHANGED <<issued, mem>>,
         db' \in {db, t}, \A p \in Proc : file'[p] <= issued
  PROVE  OnlyIssued'
BY DEF Return, TypeOK, OnlyIssued

LEMMA RaiseKeepsIssued ==
  ASSUME TypeOK, OnlyIssued, NEW c \in Call, Raise(c), UNCHANGED stores,
         issued' \in Nat, issued <= issued'
  PROVE  OnlyIssued'
<1>1. \A n \in Nat : n <= issued => n <= issued'
  BY DEF TypeOK
<1>2. \A d \in Call : tok'[d] \in {tok[d], 0}
  BY DEF Raise, TypeOK, NoToken
<1>3. QED BY <1>1, <1>2 DEF OnlyIssued, TypeOK, stores

\* One step of one call.
LEMMA StepIssued ==
  ASSUME TypeOK, OnlyIssued, NEW c \in Call, Step(c) \/ Cancel(c)
  PROVE  OnlyIssued' /\ \A d \in Call : GivenReusable(d)
<1> USE CallAssumption
<1>1. ASSUME NEW t \in Nat, Return(c, t), t > stale, t <= issued
      PROVE  \A d \in Call : GivenReusable(d)
  BY <1>1 DEF Return, Goto, GivenReusable, TypeOK
<1>2. ASSUME NEW l, l # "use", pc' = [pc EXCEPT ![c] = l]
      PROVE  \A d \in Call : GivenReusable(d)
  BY <1>2 DEF GivenReusable, TypeOK
<1>3. Raise(c) => \A d \in Call : GivenReusable(d)
  BY <1>2 DEF Raise, Goto
<1>4. CASE LookUp(c)
  <2>1. UNCHANGED <<kis, stores>>
    BY <1>4 DEF LookUp
  <2>2. CASE Raise(c)
    BY <2>1, <2>2, <1>3, RaiseKeepsIssued DEF kis, TypeOK
  <2>3. CASE Goto(c, "locking") /\ UNCHANGED tok
    BY <2>1, <2>3, <1>2 DEF Goto, OnlyIssued, kis, stores
  <2>4. ASSUME NEW dbRead \in BOOLEAN, CachedBy(ProcOf[c], dbRead) # NoToken,
               Return(c, CachedBy(ProcOf[c], dbRead))
        PROVE  OnlyIssued' /\ \A d \in Call : GivenReusable(d)
    BY <2>1, <2>4, <1>1, CachedIsReusable, ReturnKeepsIssued
       DEF kis, stores, OnlyIssued
  <2>5. \/ Raise(c)
        \/ Goto(c, "locking") /\ UNCHANGED tok
        \/ \E dbRead \in BOOLEAN : /\ CachedBy(ProcOf[c], dbRead) # NoToken
                                   /\ Return(c, CachedBy(ProcOf[c], dbRead))
    BY <1>4, FlagAssumption DEF LookUp
  <2>6. QED BY <2>2, <2>3, <2>4, <2>5
<1>5. CASE Reread(c)
  <2>1. UNCHANGED <<kis, stores>>
    BY <1>5 DEF Reread
  <2>2. CASE Raise(c)
    BY <2>1, <2>2, <1>3, RaiseKeepsIssued DEF kis, TypeOK
  <2>3. CASE (Goto(c, "migrate") \/ Goto(c, "claim")) /\ UNCHANGED tok
    BY <2>1, <2>3, <1>2 DEF Goto, OnlyIssued, kis, stores
  <2>4. ASSUME NEW dbRead \in BOOLEAN, CachedBy(ProcOf[c], dbRead) # NoToken,
               Return(c, CachedBy(ProcOf[c], dbRead))
        PROVE  OnlyIssued' /\ \A d \in Call : GivenReusable(d)
    BY <2>1, <2>4, <1>1, CachedIsReusable, ReturnKeepsIssued
       DEF kis, stores, OnlyIssued
  <2>5. \/ Raise(c)
        \/ (Goto(c, "migrate") \/ Goto(c, "claim")) /\ UNCHANGED tok
        \/ \E dbRead \in BOOLEAN : /\ CachedBy(ProcOf[c], dbRead) # NoToken
                                   /\ Return(c, CachedBy(ProcOf[c], dbRead))
    BY <1>5, FlagAssumption DEF Reread
  <2>6. QED BY <2>2, <2>3, <2>4, <2>5
<1>6. CASE Migrate(c)
  <2> DEFINE t == file[ProcOf[c]]
  <2>1. /\ t \in Nat /\ t <= issued
        /\ UNCHANGED <<issued, mem>>
        /\ Reusable(t) => t > stale
    BY <1>6 DEF Migrate, TypeOK, OnlyIssued, Reusable, kis
  <2>2. CASE Raise(c) /\ UNCHANGED <<db, file>>
    BY <2>1, <2>2, <1>3, RaiseKeepsIssued DEF stores, TypeOK
  <2>3. CASE Goto(c, "claim") /\ UNCHANGED <<db, file, tok>>
    BY <2>1, <2>3, <1>2 DEF Goto, OnlyIssued
  <2>4. CASE /\ Reusable(t) /\ db' = t
             /\ file' = [file EXCEPT ![ProcOf[c]] = NoToken]
             /\ Return(c, t)
    <3>1. \A p \in Proc : file'[p] <= issued
      BY <2>4 DEF OnlyIssued, TypeOK, NoToken
    <3>2. QED BY <2>1, <2>4, <3>1, <1>1, ReturnKeepsIssued
  <2>5. QED BY <1>6, <2>2, <2>3, <2>4 DEF Migrate
<1>7. CASE Poll(c)
  <2>1. UNCHANGED <<kis, stores>>
    BY <1>7 DEF Poll
  <2>2. CASE Raise(c)
    BY <2>1, <2>2, <1>3, RaiseKeepsIssued DEF kis, TypeOK
  <2>3. CASE UNCHANGED <<pc, tok>>
    BY <2>1, <2>3 DEF GivenReusable, OnlyIssued, kis, stores
  <2>4. CASE Reusable(db) /\ Return(c, db)
    <3>1. db \in Nat /\ db > stale /\ db <= issued
      BY <2>4 DEF Reusable, TypeOK, OnlyIssued
    <3>2. QED BY <2>1, <2>4, <3>1, <1>1, ReturnKeepsIssued DEF OnlyIssued, kis, stores
  <2>5. QED BY <1>7, <2>2, <2>3, <2>4 DEF Poll
<1>8. CASE AcquireLock(c) \/ Claim(c)
  <2>1. UNCHANGED <<kis, stores, tok>>
    BY <1>8 DEF AcquireLock, Claim
  <2>2. \/ Goto(c, "claim") \/ Goto(c, "reread")
        \/ Goto(c, "request") \/ Goto(c, "wait")
    BY <1>8 DEF AcquireLock, Claim, Goto
  <2>3. QED BY <2>1, <2>2, <1>2 DEF Goto, OnlyIssued, kis, stores
<1>9. CASE ClaimFails(c) \/ RequestFails(c) \/ Abandon(c) \/ Cancel(c)
  <2>1. /\ Raise(c) /\ UNCHANGED stores
        /\ issued' \in Nat /\ issued <= issued'
    BY <1>9 DEF ClaimFails, RequestFails, Abandon, Cancel, kis, TypeOK
  <2>2. QED BY <2>1, <1>3, RaiseKeepsIssued
<1>10. CASE Issue(c)
  <2>1. /\ issued \in Nat /\ issued' = issued + 1
        /\ tok' = [tok EXCEPT ![c] = issued']
        /\ UNCHANGED <<db, mem, file>>
    BY <1>10 DEF Issue, TypeOK, stores
  <2>2. \A n \in Nat : n <= issued => n <= issued'
    BY <2>1
  <2>3. \A d \in Call : tok'[d] \in {tok[d], issued'}
    BY <2>1 DEF TypeOK
  <2>4. OnlyIssued'
    BY <2>1, <2>2, <2>3 DEF OnlyIssued, TypeOK
  <2>5. QED BY <1>10, <1>2, <2>4 DEF Issue, Goto
<1>11. CASE RetryRequest(c)
  BY <1>11 DEF RetryRequest, GivenReusable, OnlyIssued, kis, stores
<1>12. CASE StoreInMemory(c) \/ Persist(c)
  BY <1>12, <1>2 DEF StoreInMemory, Persist, Goto, OnlyIssued, TypeOK, kis, stores
<1>13. CASE Finish(c)
  <2>1. tok[c] \in Nat /\ tok[c] <= issued /\ pc[c] = "release"
    BY <1>13 DEF Finish, TypeOK, OnlyIssued
  <2>2. OnlyIssued'
    BY <1>13, <2>1, ReturnKeepsIssued DEF Finish, OnlyIssued, kis, stores
  <2>3. QED BY <1>13, <2>1, <2>2 DEF Finish, Return, Goto, GivenReusable, TypeOK
<1>14. CASE Use(c)
  <2>1. Goto(c, "locking") \/ Goto(c, "done")
    BY <1>14 DEF Use
  <2>2. QED BY <1>14, <2>1, <1>2 DEF Use, Goto, OnlyIssued, TypeOK, NoToken, kis, stores
<1>15. QED
  BY <1>4, <1>5, <1>6, <1>7, <1>8, <1>9, <1>10, <1>11, <1>12, <1>13, <1>14 DEF Step

LEMMA NextIssued ==
  ASSUME TypeOK, OnlyIssued, [Next]_vars
  PROVE  OnlyIssued' /\ \A d \in Call : GivenReusable(d)
<1>1. ASSUME NEW p \in Proc, Crash(p)
      PROVE  OnlyIssued' /\ \A d \in Call : GivenReusable(d)
  <2>1. OnlyIssued'
    BY <1>1 DEF Crash, OnlyIssued, TypeOK, NoToken, kis
  <2>2. \A d \in Call : GivenReusable(d)
    BY <1>1 DEF Crash, GivenReusable
  <2>3. QED BY <2>1, <2>2
<1>2. CASE LeaseRunsOut \/ Expire \/ Revoke
  BY <1>2 DEF LeaseRunsOut, Expire, Revoke, OnlyIssued, GivenReusable, kis, stores
<1>3. CASE UNCHANGED vars
  BY <1>3 DEF vars, OnlyIssued, GivenReusable, kis, stores
<1>4. QED BY <1>1, <1>2, <1>3, StepIssued DEF Next

\* A call that did not ask KIS itself is given a token that is still reusable
\* at that moment, of all the stores a lookup, a migration or a poll reads.
THEOREM GivenTokensReusable == Spec => ReturnsReusable
<1>1. Init => OnlyIssued
  BY DEF Init, OnlyIssued, NoToken
<1>2. TypeOK /\ OnlyIssued /\ [Next]_vars => OnlyIssued'
  BY NextIssued
<1>3. TypeOK /\ OnlyIssued /\ [Next]_vars
        => [\A c \in Call : pc[c] \notin {"use", "release"} /\ pc'[c] = "use"
              => tok'[c] > stale /\ tok'[c] <= issued]_vars
  BY NextIssued DEF GivenReusable
<1>4. QED BY <1>1, <1>2, <1>3, TypeCorrect, PTL DEF Spec, ReturnsReusable

-----------------------------------------------------------------------------

\* A call past `async with` holds the keyed lock of its process.
LockHeld == \A c \in Call : pc[c] \in UnderLock => lock[ProcOf[c]] = c

\* A call that goes on to ask KIS unforced found nothing reusable in the memory
\* of its process, and nothing has been put there since.
FoundNothing ==
  \A c \in Call : pc[c] \in {"migrate", "claim"} /\ ~forced[c]
    => ~Reusable(mem[ProcOf[c]])

\* A step of c that keeps the locks of the other calls, and only writes to the
\* memory of a process whose lock c holds, keeps both.
LEMMA OwnLockOnly ==
  ASSUME TypeOK, LockHeld, FoundNothing, NEW c \in Call,
         pc' = [pc EXCEPT ![c] = pc'[c]], UNCHANGED stale,
         \A d \in Call : d # c => forced'[d] = forced[d],
         pc'[c] \in UnderLock => lock'[ProcOf[c]] = c,
         \A p \in Proc : lock'[p] # lock[p] => lock[p] \in {Nobody, c},
         \A p \in Proc : mem'[p] # mem[p] => lock[p] = c,
         pc'[c] \in {"migrate", "claim"} /\ ~forced'[c]
           => ~Reusable(mem'[ProcOf[c]])
  PROVE  LockHeld' /\ FoundNothing'
<1> USE CallAssumption, NameAssumption
<1>1. LockHeld'
  <2> SUFFICES ASSUME NEW d \in Call, pc'[d] \in UnderLock PROVE lock'[ProcOf[d]] = d
    BY DEF LockHeld
  <2>1. CASE d = c
    BY <2>1
  <2>2. CASE d # c
    <3>1. pc[d] = pc'[d] /\ ProcOf[d] \in Proc
      BY <2>2 DEF TypeOK
    <3>2. lock[ProcOf[d]] = d
      BY <3>1 DEF LockHeld
    <3>3. QED BY <2>2, <3>1, <3>2
  <2>3. QED BY <2>1, <2>2
<1>2. ASSUME NEW d \in Call, d # c, pc'[d] \in {"migrate", "claim"}, ~forced'[d]
      PROVE  ~Reusable(mem'[ProcOf[d]])
  <2>1. pc[d] = pc'[d] /\ forced[d] = forced'[d]
    BY <1>2 DEF TypeOK
  <2>2. lock[ProcOf[d]] = d
    BY <1>2, <2>1 DEF LockHeld, UnderLock
  <2>3. mem'[ProcOf[d]] = mem[ProcOf[d]]
    BY <1>2, <2>2
  <2>4. QED BY <1>2, <2>1, <2>3 DEF FoundNothing
<1>3. FoundNothing' <=>
        \A d \in Call : pc'[d] \in {"migrate", "claim"} /\ ~forced'[d]
          => ~Reusable(mem'[ProcOf[d]])
  BY DEF FoundNothing, Reusable
<1>4. QED BY <1>1, <1>2, <1>3

LEMMA StepFound ==
  ASSUME TypeOK, LockHeld, FoundNothing, NEW c \in Call, Step(c) \/ Cancel(c)
  PROVE  /\ LockHeld' /\ FoundNothing'
         /\ \A d \in Call : ~forced[d] /\ pc[d] # "request" /\ pc'[d] = "request"
              => ~Reusable(mem[ProcOf[d]])
<1> USE CallAssumption, NameAssumption
<1> DEFINE Asked == \A d \in Call :
                      ~forced[d] /\ pc[d] # "request" /\ pc'[d] = "request"
                        => ~Reusable(mem[ProcOf[d]])
<1>1. /\ pc' = [pc EXCEPT ![c] = pc'[c]]
      /\ pc'[c] = "request" => pc[c] \in {"claim", "request"}
  <2> USE DEF TypeOK, Goto, Return, Raise
  <2>1. CASE LookUp(c) \/ AcquireLock(c) \/ Reread(c)
    BY <2>1 DEF LookUp, AcquireLock, Reread
  <2>2. CASE Migrate(c) \/ Poll(c)
    BY <2>2 DEF Migrate, Poll
  <2>3. CASE Claim(c)
    BY <2>3 DEF Claim
  <2>4. CASE ClaimFails(c) \/ RequestFails(c) \/ Abandon(c) \/ Cancel(c)
    BY <2>4 DEF ClaimFails, RequestFails, Abandon, Cancel
  <2>5. CASE Issue(c) \/ RetryRequest(c)
    BY <2>5 DEF Issue, RetryRequest
  <2>6. CASE StoreInMemory(c) \/ Persist(c) \/ Finish(c) \/ Use(c)
    BY <2>6 DEF StoreInMemory, Persist, Finish, Use
  <2>7. QED BY <2>1, <2>2, <2>3, <2>4, <2>5, <2>6 DEF Step
<1>2. Asked
  BY <1>1 DEF FoundNothing, TypeOK
<1> DEFINE OwnLock == /\ pc'[c] \in UnderLock => lock'[ProcOf[c]] = c
                      /\ \A p \in Proc : lock'[p] # lock[p] => lock[p] \in {Nobody, c}
                      /\ \A p \in Proc : mem'[p] # mem[p] => lock[p] = c
                      /\ pc'[c] \in {"migrate", "claim"} /\ ~forced'[c]
                           => ~Reusable(mem'[ProcOf[c]])
           Leaves == Unlock(c) /\ pc'[c] \in {"use", "failed"} /\ UNCHANGED mem
<1>3. Leaves => OwnLock
  BY DEF Unlock, TypeOK, UnderLock, Refreshing
<1>4. /\ UNCHANGED stale
      /\ \A d \in Call : d # c => forced'[d] = forced[d]
  BY DEF Step, LookUp, AcquireLock, Reread, Migrate, Poll, Claim, ClaimFails,
         RequestFails, Abandon, Cancel, Issue, RetryRequest, StoreInMemory,
         Persist, Finish, Use, kis, TypeOK
<1>5. OwnLock
  <2> USE DEF TypeOK, LockHeld, UnderLock, Refreshing, Goto, stores
  <2>1. Raise(c) => Unlock(c) /\ pc'[c] \in {"use", "failed"}
    BY DEF Raise
  <2>2. ASSUME NEW t, Return(c, t) PROVE Unlock(c) /\ pc'[c] \in {"use", "failed"}
    BY <2>2 DEF Return
  <2> HIDE <1>3
  <2>3. CASE LookUp(c)
    <3>1. UNCHANGED mem /\ ((pc'[c] = "locking" /\ UNCHANGED lock) \/ Leaves)
      BY <2>1, <2>2, <2>3 DEF LookUp
    <3>2. QED BY <3>1, <1>3
  <2>4. CASE AcquireLock(c)
    BY <2>4 DEF AcquireLock
  <2>5. CASE Reread(c)
    <3>1. /\ pc[c] = "reread" /\ lock[ProcOf[c]] = c /\ UNCHANGED mem
          /\ Leaves \/ (UNCHANGED lock /\ ~Reusable(mem[ProcOf[c]]))
      BY <2>1, <2>2, <2>5 DEF Reread, CachedBy, RecordMissing, RecordPresent, Reusable
    <3>2. ~Reusable(mem[ProcOf[c]]) => ~Reusable(mem'[ProcOf[c]])
      BY <3>1, <1>4 DEF Reusable
    <3>3. QED BY <3>1, <3>2, <1>3
  <2>6. CASE Migrate(c)
    <3>1. /\ pc[c] = "migrate" /\ lock[ProcOf[c]] = c /\ UNCHANGED <<mem, forced>>
          /\ Leaves \/ UNCHANGED lock
      BY <2>1, <2>2, <2>6 DEF Migrate
    <3>2. ~forced[c] => ~Reusable(mem'[ProcOf[c]])
      BY <3>1, <1>4 DEF FoundNothing, Reusable
    <3>3. QED BY <3>1, <3>2, <1>3
  <2>7. CASE Claim(c) \/ ClaimFails(c) \/ Poll(c)
    <3>1. /\ pc[c] \in {"claim", "wait"} /\ lock[ProcOf[c]] = c /\ UNCHANGED mem
          /\ Leaves \/ (UNCHANGED lock /\ pc'[c] \in {"request", "wait"})
      BY <2>1, <2>2, <2>7 DEF Claim, ClaimFails, Poll
    <3>2. QED BY <3>1, <1>3
  <2>8. CASE Issue(c) \/ RetryRequest(c) \/ RequestFails(c)
    <3>1. /\ pc[c] = "request" /\ lock[ProcOf[c]] = c /\ UNCHANGED mem
          /\ Leaves \/ (UNCHANGED lock /\ pc'[c] \in {"request", "parse"})
      BY <2>1, <2>8 DEF Issue, RetryRequest, RequestFails
    <3>2. QED BY <3>1, <1>3
  <2>9. CASE StoreInMemory(c) \/ Persist(c)
    <3>1. /\ lock[ProcOf[c]] = c /\ UNCHANGED lock /\ pc'[c] \in {"persist", "release"}
          /\ \A p \in Proc : mem'[p] # mem[p] => p = ProcOf[c]
      BY <2>9 DEF StoreInMemory, Persist
    <3>2. QED BY <3>1
  <2>10. CASE Finish(c) \/ Abandon(c) \/ Cancel(c)
    <3>1. Leaves
      BY <2>1, <2>2, <2>10 DEF Finish, Abandon, Cancel
    <3>2. QED BY <3>1, <1>3
  <2>11. CASE Use(c)
    BY <2>11 DEF Use
  <2>12. QED BY <2>3, <2>4, <2>5, <2>6, <2>7, <2>8, <2>9, <2>10, <2>11 DEF Step
<1>6. QED BY <1>1, <1>2, <1>4, <1>5, OwnLockOnly

LEMMA NextFound ==
  ASSUME TypeOK, LockHeld, FoundNothing, [Next]_vars
  PROVE  /\ LockHeld' /\ FoundNothing'
         /\ \A d \in Call : ~forced[d] /\ pc[d] # "request" /\ pc'[d] = "request"
              => ~Reusable(mem[ProcOf[d]])
<1> DEFINE Asked == \A d \in Call :
                      ~forced[d] /\ pc[d] # "request" /\ pc'[d] = "request"
                        => ~Reusable(mem[ProcOf[d]])
<1>1. ASSUME NEW p \in Proc, Crash(p)
      PROVE  LockHeld' /\ FoundNothing' /\ Asked
  <2>1. /\ \A d \in Call : pc'[d] \in UnderLock => pc[d] = pc'[d] /\ ProcOf[d] # p
        /\ UNCHANGED <<stale, forced>>
        /\ \A q \in Proc : q # p => lock'[q] = lock[q] /\ mem'[q] = mem[q]
    BY <1>1 DEF Crash, TypeOK, UnderLock, Refreshing, Ended, kis
  <2>2. \A d \in Call : /\ pc'[d] \in {"migrate", "claim"} => pc'[d] \in UnderLock
                        /\ pc'[d] = "request" => pc'[d] \in UnderLock
    BY DEF UnderLock, Refreshing
  <2>3. QED BY <2>1, <2>2, CallAssumption DEF LockHeld, FoundNothing, Reusable
<1>2. CASE LeaseRunsOut \/ Revoke
  BY <1>2 DEF LeaseRunsOut, Revoke, LockHeld, FoundNothing, Reusable, kis, stores
<1>3. CASE Expire
  BY <1>3, CallAssumption
     DEF Expire, LockHeld, FoundNothing, Reusable, TypeOK, stores
<1>4. CASE UNCHANGED vars
  BY <1>4 DEF vars, LockHeld, FoundNothing, Reusable, kis, stores
<1>5. QED BY <1>1, <1>2, <1>3, <1>4, StepFound DEF Next

\* A call that was not forced asks KIS only while the memory of its process
\* holds nothing reusable: what the holder of the keyed lock before it was
\* issued cannot have been overlooked.
THEOREM NeverAskedTwice == Spec => AskedOnlyWhenNeeded
<1>1. Init => LockHeld /\ FoundNothing
  BY DEF Init, LockHeld, FoundNothing, UnderLock, Refreshing
<1>2. TypeOK /\ LockHeld /\ FoundNothing /\ [Next]_vars => LockHeld' /\ FoundNothing'
  BY NextFound
<1>3. TypeOK /\ LockHeld /\ FoundNothing /\ [Next]_vars
        => [\A c \in Call : ~forced[c] /\ pc[c] # "request" /\ pc'[c] = "request"
              => ~Reusable(mem[ProcOf[c]])]_vars
  BY NextFound
<1>4. QED BY <1>1, <1>2, <1>3, TypeCorrect, PTL DEF Spec, AskedOnlyWhenNeeded
=============================================================================
