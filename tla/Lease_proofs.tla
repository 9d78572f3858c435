---------------------------- MODULE Lease_proofs -----------------------------
(***************************************************************************)
(* Proofs that the lease store keeps its promises for every number of       *)
(* processes, every ttl, every clock skew and both back ends.               *)
(***************************************************************************)
EXTENDS Lease, TLAPS

\* p has been told of a grant that it has not given up yet.
Told(p) == pc[p] \in {"holding", "releasing"}

ClocksTogether == \A p, q \in Proc : clock[p] - clock[q] <= Skew

SeenInThePast == \A p \in Proc : pc[p] = "claiming" => seen[p] <= clock[p]

\* The grants processes know of are distinct and were made by this store.
GrantsDistinct ==
  /\ \A p \in Proc : Told(p) => held[p].token <= lease.token
  /\ \A p, q \in Proc : Told(p) /\ Told(q) /\ held[p].token = held[q].token
       => p = q

\* The last grant is recorded as its holder was told it.
LastGrantRecorded ==
  \A p \in Proc : pc[p] = "holding" /\ held[p].token = lease.token =>
    lease.owner = OwnerOf[p] /\ lease.expires = held[p].expires

\* Every earlier grant is over, on its own holder's clock and with the margin.
EarlierGrantsOver ==
  \A p \in Proc : pc[p] = "holding" /\ held[p].token < lease.token =>
    held[p].expires <= clock[p] + Skew

IInv == /\ TypeOK /\ ClocksTogether /\ SeenInThePast /\ RefusalIsBounded
        /\ GrantsDistinct /\ LastGrantRecorded /\ EarlierGrantsOver

-----------------------------------------------------------------------------

LEMMA InitIInv == Init => IInv
<1> SUFFICES ASSUME Init PROVE IInv OBVIOUS
<1> USE NumberAssumption DEF Init
<1>1. Unclaimed \in [owner : {OwnerOf[p] : p \in Proc} \cup {NoOwner},
                    token : Nat, expires : Nat]
      /\ Unclaimed.token = 0 /\ Unclaimed.expires = 0
  BY DEF Unclaimed
<1>2. TypeOK
  BY <1>1 DEF TypeOK, NoGrant
<1>3. ClocksTogether /\ SeenInThePast /\ RefusalIsBounded
  BY <1>1 DEF ClocksTogether, SeenInThePast, RefusalIsBounded
<1>4. GrantsDistinct /\ LastGrantRecorded /\ EarlierGrantsOver
  BY DEF GrantsDistinct, LastGrantRecorded, EarlierGrantsOver, Told
<1>5. QED BY <1>2, <1>3, <1>4 DEF IInv

\* The steps that only end p's use of the lease.
LEMMA ForgetIInv ==
  ASSUME IInv, NEW p \in Proc, Forget(p), UNCHANGED <<backend, lease, clock>>
  PROVE  IInv'
<1> USE NumberAssumption DEF Forget, NoGrant
<1>1. TypeOK'
  BY DEF IInv, TypeOK
<1>2. ClocksTogether' /\ SeenInThePast' /\ RefusalIsBounded'
  BY DEF IInv, TypeOK, ClocksTogether, SeenInThePast, RefusalIsBounded
<1>3. GrantsDistinct'
  BY DEF IInv, TypeOK, GrantsDistinct, Told
<1>4. LastGrantRecorded' /\ EarlierGrantsOver'
  BY DEF IInv, TypeOK, LastGrantRecorded, EarlierGrantsOver
<1>5. QED BY <1>1, <1>2, <1>3, <1>4 DEF IInv

\* What a new grant does to the invariant, whether or not it is heard of.
LEMMA GrantIInv ==
  ASSUME IInv, NEW p \in Proc,
         pc[p] = "claiming", ~Unexpired(lease, seen[p]),
         lease' = Granted(lease, OwnerOf[p], seen[p], Ttl),
         UNCHANGED <<backend, clock>>
  PROVE  /\ lease'.token = lease.token + 1
         /\ lease'.expires = seen[p] + Ttl
         /\ lease'.owner = OwnerOf[p]
         /\ lease' \in [owner : {OwnerOf[q] : q \in Proc} \cup {NoOwner},
                        token : Nat, expires : Nat]
         /\ RefusalIsBounded'
         /\ \A q \in Proc : pc[q] = "holding" => held[q].expires <= clock[q] + Skew
<1> USE NumberAssumption
<1>1. /\ lease'.token = lease.token + 1
      /\ lease'.expires = seen[p] + Ttl
      /\ lease'.owner = OwnerOf[p]
      /\ lease' \in [owner : {OwnerOf[q] : q \in Proc} \cup {NoOwner},
                     token : Nat, expires : Nat]
  BY DEF Granted, IInv, TypeOK
<1>2. lease.expires <= seen[p] /\ seen[p] <= clock[p]
  BY DEF IInv, TypeOK, SeenInThePast, Unexpired
<1>3. RefusalIsBounded'
  BY <1>1, <1>2 DEF IInv, TypeOK, RefusalIsBounded, ClocksTogether
<1>4. ASSUME NEW q \in Proc, pc[q] = "holding"
      PROVE  held[q].expires <= clock[q] + Skew
  <2>1. CASE held[q].token = lease.token
    BY <2>1, <1>2, <1>4 DEF IInv, TypeOK, LastGrantRecorded, ClocksTogether
  <2>2. CASE held[q].token # lease.token
    <3>1. held[q].token \in Nat /\ lease.token \in Nat
      BY DEF IInv, TypeOK
    <3>2. held[q].token < lease.token
      BY <3>1, <2>2, <1>4 DEF IInv, GrantsDistinct, Told
    <3>3. QED BY <3>2, <1>4 DEF IInv, EarlierGrantsOver
  <2>3. QED BY <2>1, <2>2
<1>5. QED BY <1>1, <1>3, <1>4

LEMMA NextIInv == IInv /\ [Next]_vars => IInv'
<1> SUFFICES ASSUME IInv, [Next]_vars PROVE IInv' OBVIOUS
<1> USE NumberAssumption
<1>1. ASSUME NEW p \in Proc, StartClaim(p) PROVE IInv'
  BY <1>1 DEF StartClaim, IInv, TypeOK, ClocksTogether, SeenInThePast,
              RefusalIsBounded, GrantsDistinct, LastGrantRecorded,
              EarlierGrantsOver, Told
<1>2. ASSUME NEW p \in Proc, RefuseClaim(p) PROVE IInv'
  BY <1>2, ForgetIInv DEF RefuseClaim
<1>3. ASSUME NEW p \in Proc, GrantClaim(p) PROVE IInv'
  <2>1. /\ lease'.token = lease.token + 1
        /\ lease'.expires = seen[p] + Ttl
        /\ lease'.owner = OwnerOf[p]
        /\ lease' \in [owner : {OwnerOf[q] : q \in Proc} \cup {NoOwner},
                       token : Nat, expires : Nat]
        /\ RefusalIsBounded'
        /\ \A q \in Proc : pc[q] = "holding" => held[q].expires <= clock[q] + Skew
    BY <1>3, GrantIInv DEF GrantClaim
  <2>2. /\ held' = [held EXCEPT ![p] = [token |-> lease'.token,
                                        expires |-> lease'.expires]]
        /\ pc' = [pc EXCEPT ![p] = "holding"]
        /\ seen' = [seen EXCEPT ![p] = 0]
        /\ clock' = clock /\ backend' = backend
    BY <1>3 DEF GrantClaim
  <2>3. TypeOK'
    BY <2>1, <2>2 DEF IInv, TypeOK
  <2>4. ClocksTogether' /\ SeenInThePast'
    BY <2>2 DEF IInv, TypeOK, ClocksTogether, SeenInThePast
  <2>5. GrantsDistinct'
    BY <2>1, <2>2 DEF IInv, TypeOK, GrantsDistinct, Told
  <2>6. LastGrantRecorded'
    BY <2>1, <2>2 DEF IInv, TypeOK, GrantsDistinct, Told, LastGrantRecorded
  <2>7. EarlierGrantsOver'
    BY <2>1, <2>2 DEF IInv, TypeOK, EarlierGrantsOver
  <2>8. QED BY <2>1, <2>3, <2>4, <2>5, <2>6, <2>7 DEF IInv
<1>4. ASSUME NEW p \in Proc, LoseGrant(p) PROVE IInv'
  <2>1. /\ lease'.token = lease.token + 1
        /\ lease'.expires = seen[p] + Ttl
        /\ lease'.owner = OwnerOf[p]
        /\ lease' \in [owner : {OwnerOf[q] : q \in Proc} \cup {NoOwner},
                       token : Nat, expires : Nat]
        /\ RefusalIsBounded'
        /\ \A q \in Proc : pc[q] = "holding" => held[q].expires <= clock[q] + Skew
    BY <1>4, GrantIInv DEF LoseGrant
  <2>2. Forget(p) /\ clock' = clock /\ backend' = backend
    BY <1>4 DEF LoseGrant
  <2>3. TypeOK'
    BY <2>1, <2>2 DEF IInv, TypeOK, Forget, NoGrant
  <2>4. ClocksTogether' /\ SeenInThePast'
    BY <2>2 DEF IInv, TypeOK, ClocksTogether, SeenInThePast, Forget
  <2>5. GrantsDistinct'
    BY <2>1, <2>2 DEF IInv, TypeOK, GrantsDistinct, Told, Forget, NoGrant
  <2>6. LastGrantRecorded' /\ EarlierGrantsOver'
    BY <2>1, <2>2 DEF IInv, TypeOK, GrantsDistinct, Told, LastGrantRecorded,
                      EarlierGrantsOver, Forget, NoGrant
  <2>7. QED BY <2>1, <2>3, <2>4, <2>5, <2>6 DEF IInv
<1>5. ASSUME NEW p \in Proc, StartRelease(p) PROVE IInv'
  BY <1>5 DEF StartRelease, IInv, TypeOK, ClocksTogether, SeenInThePast,
              RefusalIsBounded, GrantsDistinct, LastGrantRecorded,
              EarlierGrantsOver, Told
<1>6. ASSUME NEW p \in Proc, Release(p) PROVE IInv'
  <2>1. CASE Matches(lease, OwnerOf[p], held[p].token)
    <3>1. /\ lease'.token = lease.token
          /\ lease'.expires \in {0, clock[p]}
          /\ lease' \in [owner : {OwnerOf[q] : q \in Proc} \cup {NoOwner},
                         token : Nat, expires : Nat]
      <4>1. \/ lease' = [lease EXCEPT !.expires = clock[p]]
            \/ lease' = [lease EXCEPT !.owner = NoOwner, !.expires = 0]
        BY <1>6, <2>1 DEF Release, ExpiredNow, Forgotten
      <4>2. clock[p] \in Nat /\ 0 \in Nat
        BY DEF IInv, TypeOK
      <4>3. QED BY <4>1, <4>2 DEF IInv, TypeOK
    <3>2. /\ Forget(p)
          /\ clock' = clock /\ backend' = backend
          /\ held[p].token = lease.token
          /\ pc[p] = "releasing"
      BY <1>6, <2>1 DEF Release, Matches
    <3>3. \A q \in Proc : pc[q] = "holding" => held[q].token # lease.token
      BY <3>2 DEF IInv, GrantsDistinct, Told
    <3>4. TypeOK'
      BY <3>1, <3>2 DEF IInv, TypeOK, Forget, NoGrant
    <3>5. ClocksTogether' /\ SeenInThePast' /\ RefusalIsBounded'
      BY <3>1, <3>2 DEF IInv, TypeOK, ClocksTogether, SeenInThePast,
                        RefusalIsBounded, Forget
    <3>6. GrantsDistinct'
      BY <3>1, <3>2 DEF IInv, TypeOK, GrantsDistinct, Told, Forget, NoGrant
    <3>7. LastGrantRecorded' /\ EarlierGrantsOver'
      BY <3>1, <3>2, <3>3 DEF IInv, TypeOK, LastGrantRecorded,
                              EarlierGrantsOver, Forget, NoGrant
    <3>8. QED BY <3>4, <3>5, <3>6, <3>7 DEF IInv
  <2>2. CASE ~Matches(lease, OwnerOf[p], held[p].token)
    BY <1>6, <2>2, ForgetIInv DEF Release
  <2>3. QED BY <2>1, <2>2
<1>7. ASSUME NEW p \in Proc, Crash(p) PROVE IInv'
  BY <1>7, ForgetIInv DEF Crash
<1>8. ASSUME NEW S \in SUBSET Proc, Tick(S) PROVE IInv'
  <2>1. /\ lease' = lease /\ pc' = pc /\ seen' = seen /\ held' = held
        /\ backend' = backend
        /\ clock' \in [Proc -> Nat]
        /\ \A p \in Proc : clock'[p] >= clock[p]
        /\ ClocksTogether'
    BY <1>8 DEF Tick, ClocksTogether, IInv, TypeOK
  <2>2. TypeOK' /\ GrantsDistinct' /\ LastGrantRecorded'
    BY <2>1 DEF IInv, TypeOK, GrantsDistinct, LastGrantRecorded, Told
  <2>3. SeenInThePast' /\ RefusalIsBounded' /\ EarlierGrantsOver'
    BY <2>1 DEF IInv, TypeOK, SeenInThePast, RefusalIsBounded,
                EarlierGrantsOver
  <2>4. QED BY <2>1, <2>2, <2>3 DEF IInv
<1>9. CASE UNCHANGED vars
  BY <1>9 DEF vars, IInv, TypeOK, ClocksTogether, SeenInThePast,
              RefusalIsBounded, GrantsDistinct, LastGrantRecorded,
              EarlierGrantsOver, Told
<1>10. QED
  BY <1>1, <1>2, <1>3, <1>4, <1>5, <1>6, <1>7, <1>8, <1>9 DEF Next, Step

\* The strengthening of the safety properties is an invariant.
THEOREM Inductive == Spec => []IInv
BY InitIInv, NextIInv, PTL DEF Spec

\* Every variable keeps its type.
THEOREM TypeCorrect == Spec => []TypeOK
BY Inductive, PTL DEF IInv

\* A live holder's grant is the one the store records, and no release or late
\* transaction of another process has touched it.
LEMMA RecordedFromIInv == IInv => LiveIsRecorded
<1> SUFFICES ASSUME IInv, NEW p \in Proc, Live(p)
             PROVE  /\ lease.owner = OwnerOf[p]
                    /\ lease.token = held[p].token
                    /\ lease.expires = held[p].expires
  BY DEF LiveIsRecorded
<1>1. /\ held[p].token \in Nat /\ held[p].expires \in Nat
      /\ lease.token \in Nat /\ clock[p] + Skew \in Nat
  BY NumberAssumption DEF IInv, TypeOK
<1>2. ~(held[p].token < lease.token)
  BY <1>1 DEF IInv, EarlierGrantsOver, Live
<1>3. held[p].token = lease.token
  BY <1>1, <1>2 DEF IInv, GrantsDistinct, Told, Live
<1>4. QED BY <1>3 DEF IInv, LastGrantRecorded, Live

THEOREM Recorded == Spec => []LiveIsRecorded
BY Inductive, RecordedFromIInv, PTL

\* At most one process acts inside an unexpired lease, for every skew.
LEMMA ExclusiveFromIInv == IInv => Exclusive
BY RecordedFromIInv DEF LiveIsRecorded, Exclusive, IInv, GrantsDistinct,
   Told, Live

THEOREM MutualExclusion == Spec => []Exclusive
BY Inductive, ExclusiveFromIInv, PTL

\* An abandoned grant blocks nobody for longer than ttl and skew.
THEOREM BoundedRefusal == Spec => []RefusalIsBounded
BY Inductive, PTL DEF IInv

\* Every grant carries a larger fencing token than all grants before it.
THEOREM Fencing == Spec => FencingGrows
<1>1. ASSUME IInv, [Next]_vars
      PROVE  [/\ lease'.token >= lease.token
              /\ \A p \in Proc : pc[p] # "holding" /\ pc'[p] = "holding"
                   => held'[p].token > lease.token]_vars
  <2> SUFFICES ASSUME Next
               PROVE  /\ lease'.token >= lease.token
                      /\ \A p \in Proc : pc[p] # "holding" /\ pc'[p] = "holding"
                           => held'[p].token > lease.token
    BY <1>1
  <2>1. lease.token \in Nat /\ pc \in [Proc -> {"idle", "claiming", "holding", "releasing"}]
    BY <1>1 DEF IInv, TypeOK
  <2>2. CASE UNCHANGED lease /\ \A p \in Proc : pc'[p] = "holding" => pc[p] = "holding"
    BY <2>1, <2>2
  <2>3. ASSUME NEW p \in Proc, Step(p)
        PROVE  \/ UNCHANGED lease /\ \A q \in Proc : pc'[q] = "holding" => pc[q] = "holding"
               \/ Release(p) \/ GrantClaim(p) \/ LoseGrant(p)
    BY <2>1, <2>3 DEF Step, StartClaim, RefuseClaim, StartRelease, Crash, Forget
  <2>4. ASSUME NEW S \in SUBSET Proc, Tick(S)
        PROVE  UNCHANGED lease /\ \A p \in Proc : pc'[p] = "holding" => pc[p] = "holding"
    BY <2>4 DEF Tick
  <2>5. ASSUME NEW p \in Proc, GrantClaim(p)
        PROVE  /\ lease'.token >= lease.token
               /\ \A q \in Proc : pc[q] # "holding" /\ pc'[q] = "holding"
                    => held'[q].token > lease.token
    <3>1. lease'.token = lease.token + 1
      BY <2>5 DEF GrantClaim, Granted
    <3>2. /\ pc' = [pc EXCEPT ![p] = "holding"]
          /\ held' = [held EXCEPT ![p] = [token |-> lease'.token,
                                          expires |-> lease'.expires]]
          /\ held \in [Proc -> [token : Nat, expires : Nat]]
      BY <2>5, <1>1 DEF GrantClaim, IInv, TypeOK
    <3>3. QED BY <2>1, <3>1, <3>2
  <2>6. ASSUME NEW p \in Proc, LoseGrant(p)
        PROVE  /\ lease'.token >= lease.token
               /\ \A q \in Proc : pc'[q] = "holding" => pc[q] = "holding"
    <3>1. lease'.token = lease.token + 1
      BY <2>6 DEF LoseGrant, Granted
    <3>2. pc' = [pc EXCEPT ![p] = "idle"]
      BY <2>6 DEF LoseGrant, Forget
    <3>3. QED BY <2>1, <3>1, <3>2
  <2>7. ASSUME NEW p \in Proc, Release(p)
        PROVE  /\ lease'.token = lease.token
               /\ \A q \in Proc : pc'[q] = "holding" => pc[q] = "holding"
    <3>1. lease'.token = lease.token
      BY <2>7, <1>1 DEF Release, ExpiredNow, Forgotten, IInv, TypeOK
    <3>2. pc' = [pc EXCEPT ![p] = "idle"]
      BY <2>7 DEF Release, Forget
    <3>3. QED BY <2>1, <3>1, <3>2
  <2>8. QED BY <2>1, <2>2, <2>3, <2>4, <2>5, <2>6, <2>7 DEF Next
<1>2. QED BY <1>1, Inductive, PTL DEF Spec, FencingGrows

-----------------------------------------------------------------------------

\* The grants somebody may act on.
Active == {held[p].token : p \in {q \in Proc : Live(q)}}

\* Nobody becomes live except by a grant, and a grant is only made when
\* nobody is live.
LEMMA OnlyGrantsActivate ==
  ASSUME IInv, NEW p \in Proc,
         pc[p] = "claiming", ~Unexpired(lease, seen[p])
  PROVE  Active = {}
<1> SUFFICES ASSUME NEW q \in Proc, Live(q) PROVE FALSE BY DEF Active
<1>1. lease.expires = held[q].expires
  BY RecordedFromIInv DEF LiveIsRecorded
<1>2. lease.expires <= seen[p] /\ seen[p] <= clock[p]
  BY DEF IInv, TypeOK, SeenInThePast, Unexpired
<1>3. QED
  BY <1>1, <1>2, NumberAssumption DEF IInv, TypeOK, ClocksTogether, Live

\* A step after which every live process was live already, with the same
\* grant, ends a grant or none.
LEMMA ShrinkingIsEnd ==
  ASSUME IInv, Exclusive,
         lease'.token = lease.token,
         \A p \in Proc : Live(p)' => Live(p) /\ held'[p].token = held[p].token
  PROVE  [Promise!Next]_(Promise!vars)
<1>1. Active' \subseteq Active
  BY DEF Active
<1>2. \A s, t \in Active : s = t
  BY DEF Active, Exclusive
<1>3. Active' = Active \/ (Active # {} /\ Active' = {})
  BY <1>1, <1>2
<1>4. QED
  BY <1>3 DEF Active, Promise!Next, Promise!End, Promise!vars

\* The store implements the numbered lock.
THEOREM Refinement == Spec => ImplementsPromise
<1>1. Init => Promise!Init
  BY NumberAssumption DEF Init, Promise!Init, Unclaimed, Live
<1>2. ASSUME IInv, Exclusive, [Next]_vars
      PROVE  [Promise!Next]_(Promise!vars)
  <2> USE NumberAssumption
  <2>0. /\ pc \in [Proc -> {"idle", "claiming", "holding", "releasing"}] /\ held \in [Proc -> [token : Nat, expires : Nat]]
        /\ clock \in [Proc -> Nat] /\ lease.token \in Nat
    BY <1>2 DEF IInv, TypeOK
  <2>1. ASSUME NEW p \in Proc, GrantClaim(p) PROVE Promise!Grant
    <3>1. Active = {}
      BY <1>2, <2>1, OnlyGrantsActivate DEF GrantClaim
    <3>2. lease'.token = lease.token + 1
      BY <2>1 DEF GrantClaim, Granted
    <3>3. /\ pc' = [pc EXCEPT ![p] = "holding"] /\ clock' = clock
          /\ held' = [held EXCEPT ![p] = [token |-> lease'.token,
                                          expires |-> lease'.expires]]
      BY <2>1 DEF GrantClaim
    <3>4. \A q \in Proc : Live(q)' => q = p
      <4>1. \A q \in Proc : ~Live(q)
        BY <3>1 DEF Active
      <4>2. QED BY <2>0, <3>3, <4>1 DEF Live
    <3>5. held'[p].token = lease'.token
      BY <2>0, <3>3
    <3>6. Active' \in {{}, {lease'.token}}
      BY <3>4, <3>5 DEF Active
    <3>7. QED BY <3>1, <3>2, <3>6 DEF Promise!Grant, Active
  <2>2. ASSUME NEW p \in Proc, LoseGrant(p) PROVE Promise!Grant
    <3>1. Active = {}
      BY <1>2, <2>2, OnlyGrantsActivate DEF LoseGrant
    <3>2. lease'.token = lease.token + 1
      BY <2>2 DEF LoseGrant, Granted
    <3>3. /\ pc' = [pc EXCEPT ![p] = "idle"] /\ clock' = clock
          /\ held' = [held EXCEPT ![p] = NoGrant]
      BY <2>2 DEF LoseGrant, Forget
    <3>4. \A q \in Proc : ~Live(q)'
      <4>1. \A q \in Proc : ~Live(q)
        BY <3>1 DEF Active
      <4>2. QED BY <2>0, <3>3, <4>1 DEF Live
    <3>5. Active' = {}
      BY <3>4 DEF Active
    <3>6. QED BY <3>1, <3>2, <3>5 DEF Promise!Grant, Active
  <2>3. ASSUME NEW p \in Proc, Forget(p), clock' = clock, lease'.token = lease.token
        PROVE  [Promise!Next]_(Promise!vars)
    <3>1. \A q \in Proc : Live(q)' => Live(q) /\ held'[q].token = held[q].token
      BY <2>0, <2>3 DEF Forget, Live
    <3>2. QED BY <1>2, <2>3, <3>1, ShrinkingIsEnd
  <2>4. ASSUME NEW p \in Proc, StartClaim(p) \/ StartRelease(p)
        PROVE  [Promise!Next]_(Promise!vars)
    <3>1. \A q \in Proc : Live(q)' => Live(q) /\ held'[q].token = held[q].token
      BY <2>0, <2>4 DEF StartClaim, StartRelease, Live
    <3>2. lease' = lease
      BY <2>4 DEF StartClaim, StartRelease
    <3>3. QED BY <1>2, <3>1, <3>2, ShrinkingIsEnd
  <2>5. ASSUME NEW p \in Proc, Release(p) PROVE [Promise!Next]_(Promise!vars)
    <3>1. lease'.token = lease.token
      BY <1>2, <2>5 DEF Release, ExpiredNow, Forgotten, IInv, TypeOK
    <3>2. QED BY <2>3, <2>5, <3>1 DEF Release
  <2>6. ASSUME NEW p \in Proc, RefuseClaim(p) \/ Crash(p)
        PROVE  [Promise!Next]_(Promise!vars)
    BY <2>3, <2>6 DEF RefuseClaim, Crash
  <2>7. ASSUME NEW S \in SUBSET Proc, Tick(S) PROVE [Promise!Next]_(Promise!vars)
    <3>1. \A q \in Proc : Live(q)' => Live(q) /\ held'[q].token = held[q].token
      BY <2>0, <2>7 DEF Tick, Live
    <3>2. lease' = lease
      BY <2>7 DEF Tick
    <3>3. QED BY <1>2, <3>1, <3>2, ShrinkingIsEnd
  <2>8. CASE UNCHANGED vars
    <3>1. \A q \in Proc : Live(q)' => Live(q) /\ held'[q].token = held[q].token
      BY <2>8 DEF vars, Live
    <3>2. lease' = lease
      BY <2>8 DEF vars
    <3>3. QED BY <1>2, <3>1, <3>2, ShrinkingIsEnd
  <2>9. QED
    BY <1>2, <2>1, <2>2, <2>4, <2>5, <2>6, <2>7, <2>8
       DEF Next, Step, Promise!Next
<1>3. QED
  BY <1>1, <1>2, Inductive, ExclusiveFromIInv, PTL
     DEF Spec, ImplementsPromise, Promise!Spec
=============================================================================
