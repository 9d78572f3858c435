--------------------------- MODULE AlertState_proofs ---------------------------
(***************************************************************************)
(* Proofs about AlertState, for any jobs, slots and observations: its      *)
(* types, that the revisions are one history, and that a marked slot is    *)
(* terminal.                                                               *)
(***************************************************************************)
EXTENDS AlertState, TLAPS

\* None is not an observation.
LEMMA NoneIsNothing == None \notin Observation
BY ObservationAssumption DEF None

\* A revision is appended.
LEMMA Grow ==
  ASSUME revs \in Seq(Revision), NEW e \in Revision, revs' = Append(revs, e)
  PROVE  /\ revs' \in Seq(Revision) /\ Len(revs') = Len(revs) + 1
         /\ revs'[Len(revs) + 1] = e /\ \A n \in 1..Len(revs) : revs'[n] = revs[n]
OBVIOUS

\* What a commit appends is a revision.
LEMMA AppendedType ==
  ASSUME TypeOK, NEW j \in Job, pc[j] = "committing", Len(revs) = head[j]
  PROVE  [slot |-> slot[j], episode |-> EpisodeAfter(head[j], slot[j]),
          deliver |-> Deliver(head[j], slot[j]), against |-> head[j]] \in Revision
<1>1. slot[j] \in Slot /\ head[j] \in Nat /\ Len(revs) \in Nat
  BY DEF TypeOK
<1>2. (IF head[j] = 0 THEN 0 ELSE revs[head[j]].episode) \in Nat
  <2>1. CASE head[j] = 0
    BY <2>1
  <2>2. CASE head[j] # 0
    <3>1. head[j] \in 1..Len(revs)
      BY <1>1, <2>2
    <3>2. revs[head[j]] \in Revision
      BY <3>1 DEF TypeOK
    <3> QED BY <2>2, <3>2 DEF Revision
  <2> QED BY <2>1, <2>2
<1>3. EpisodeAfter(head[j], slot[j]) \in Nat
  BY <1>2 DEF EpisodeAfter
<1>4. Deliver(head[j], slot[j]) \in BOOLEAN
  BY DEF Deliver
<1> QED BY <1>1, <1>3, <1>4 DEF Revision

\* A job goes on, or ends.
LEMMA GotoType ==
  ASSUME TypeOK, NEW j \in Job, pc[j] # "idle", NEW p \in Point, Goto(j, p) \/ End(j)
  PROVE  /\ pc' \in [Job -> Point] /\ slot' \in [Job -> Slot \cup {"none"}]
         /\ day' \in [Job -> Nat] /\ head' \in [Job -> Nat]
         /\ \A i \in Job : pc'[i] # "idle" => slot'[i] \in Slot
<1>1. CASE Goto(j, p)
  BY <1>1 DEF Goto, TypeOK
<1>2. CASE End(j)
  BY <1>2 DEF End, TypeOK, Point
<1> QED BY <1>1, <1>2

\* The type invariant holds of every behaviour of the jobs.
THEOREM TypeCorrect == Spec => []TypeOK
<1>1. Init => TypeOK
  <2> SUFFICES ASSUME Init PROVE TypeOK
    OBVIOUS
  <2>1. failures \in 0..MaxFailures
    BY BoundAssumption DEF Init
  <2>2. revs \in Seq(Revision) /\ marker \subseteq Nat \X Slot
    BY DEF Init
  <2>3. /\ pc \in [Job -> Point] /\ slot \in [Job -> Slot \cup {"none"}] /\ day \in [Job -> Nat]
        /\ head \in [Job -> Nat] /\ \A j \in Job : pc[j] = "idle"
    BY DEF Init, Point
  <2> QED BY <2>1, <2>2, <2>3 DEF Init, TypeOK
<1>2. TypeOK /\ [Next]_vars => TypeOK'
  <2> SUFFICES ASSUME TypeOK, [Next]_vars PROVE TypeOK'
    OBVIOUS
  <2>1. ASSUME NEW j \in Job, NEW c \in Slot, NEW o \in Observation, Observe(j, c, o) PROVE TypeOK'
    <3>1. o.day \in Nat
      BY ObservationAssumption
    <3>2. candidate' \in [Slot -> Observation \cup {None}]
      BY <2>1 DEF Observe, TypeOK
    <3>3. pc' \in [Job -> Point] /\ slot' \in [Job -> Slot \cup {"none"}] /\ day' \in [Job -> Nat]
      BY <2>1, <3>1 DEF Observe, TypeOK, Point
    <3>4. \A i \in Job : pc'[i] # "idle" => slot'[i] \in Slot
      BY <2>1 DEF Observe, TypeOK
    <3> QED BY <2>1, <3>2, <3>3, <3>4 DEF Observe, TypeOK
  <2>2. ASSUME NEW j \in Job, ReadOutcome(j) \/ CheckRevision(j) PROVE TypeOK'
    <3>1. pc[j] # "idle" /\ \E p \in Point : Goto(j, p) \/ End(j)
      BY <2>2 DEF ReadOutcome, CheckRevision, Point
    <3>2. UNCHANGED <<candidate, revs, outcome, claim, marker, failures>>
      BY <2>2 DEF ReadOutcome, CheckRevision, ledger
    <3> QED BY <3>1, <3>2, GotoType DEF TypeOK
  <2>3. ASSUME NEW j \in Job, ReadState(j) PROVE TypeOK'
    <3>1. head' \in [Job -> Nat] /\ pc' \in [Job -> Point]
      BY <2>3 DEF ReadState, TypeOK, Point
    <3>2. \A i \in Job : pc'[i] # "idle" => slot'[i] \in Slot
      BY <2>3 DEF ReadState, TypeOK
    <3>3. UNCHANGED <<candidate, revs, outcome, claim, marker, failures, slot, day>>
      BY <2>3 DEF ReadState, ledger
    <3> QED BY <3>1, <3>2, <3>3 DEF TypeOK
  <2>4. ASSUME NEW j \in Job, RecordOutcome(j) PROVE TypeOK'
    <3>1. pc[j] # "idle" /\ \E p \in Point : Goto(j, p) \/ End(j)
      BY <2>4 DEF RecordOutcome, Point
    <3>2. Verdict(head[j], slot[j]) \in {"transition", "no_change", "suppressed_quality", "out_of_order"}
      BY DEF Verdict
    <3>3. outcome' \in [Slot -> {"none", "transition", "no_change", "suppressed_quality", "out_of_order"}]
      BY <2>4, <3>2 DEF RecordOutcome, TypeOK
    <3>4. UNCHANGED <<candidate, revs, claim, marker, failures>>
      BY <2>4 DEF RecordOutcome
    <3> QED BY <3>1, <3>3, <3>4, GotoType DEF TypeOK
  <2>5. ASSUME NEW j \in Job, Commit(j) PROVE TypeOK'
    <3>1. pc[j] # "idle" /\ \E p \in Point : Goto(j, p) \/ End(j)
      BY <2>5 DEF Commit, Point
    <3>2. outcome' \in [Slot -> {"none", "transition", "no_change", "suppressed_quality", "out_of_order"}]
      BY <2>5 DEF Commit, TypeOK
    <3>3. revs' \in Seq(Revision)
      <4>1. CASE Len(revs) = head[j] /\ outcome[slot[j]] = "none"
        BY <2>5, <4>1, AppendedType, Grow DEF Commit, Appended, TypeOK
      <4>2. CASE ~(Len(revs) = head[j] /\ outcome[slot[j]] = "none")
        BY <2>5, <4>2 DEF Commit, TypeOK
      <4> QED BY <4>1, <4>2
    <3>4. UNCHANGED <<candidate, claim, marker, failures>>
      BY <2>5 DEF Commit
    <3> QED BY <3>1, <3>2, <3>3, <3>4, GotoType DEF TypeOK
  <2>6. ASSUME NEW j \in Job, ClaimShadow(j) \/ RecordAttempt(j) PROVE TypeOK'
    <3>1. pc[j] # "idle" /\ \E p \in Point : Goto(j, p) \/ End(j)
      BY <2>6 DEF ClaimShadow, RecordAttempt, Point
    <3>2. claim' \in [Slot -> {"none", "claimed", "completed"}]
      BY <2>6 DEF ClaimShadow, RecordAttempt, TypeOK
    <3>3. UNCHANGED <<candidate, revs, outcome, marker, failures>>
      BY <2>6 DEF ClaimShadow, RecordAttempt
    <3> QED BY <3>1, <3>2, <3>3, GotoType DEF TypeOK
  <2>7. ASSUME NEW j \in Job, Close(j) PROVE TypeOK'
    <3>1. pc[j] # "idle" /\ \E p \in Point : Goto(j, p) \/ End(j)
      BY <2>7 DEF Close, Point
    <3>2. slot[j] \in Slot /\ day[j] \in Nat
      BY <2>7 DEF Close, TypeOK
    <3>3. marker' \subseteq Nat \X Slot
      BY <2>7, <3>2 DEF Close, TypeOK
    <3>4. UNCHANGED <<candidate, revs, outcome, claim, failures>>
      BY <2>7 DEF Close
    <3> QED BY <3>1, <3>3, <3>4, GotoType DEF TypeOK
  <2>8. ASSUME NEW j \in Job, Die(j) PROVE TypeOK'
    <3>1. pc[j] # "idle" /\ \E p \in Point : Goto(j, p) \/ End(j)
      BY <2>8 DEF Die, Point
    <3>2. failures' \in 0..MaxFailures
      BY <2>8, BoundAssumption DEF Die, TypeOK
    <3>3. UNCHANGED <<candidate, revs, outcome, claim, marker>>
      BY <2>8 DEF Die, ledger
    <3>4. /\ pc' \in [Job -> Point] /\ slot' \in [Job -> Slot \cup {"none"}]
          /\ day' \in [Job -> Nat] /\ head' \in [Job -> Nat]
          /\ \A i \in Job : pc'[i] # "idle" => slot'[i] \in Slot
      BY <3>1, GotoType
    <3> QED BY <3>2, <3>3, <3>4 DEF TypeOK
  <2>9. CASE UNCHANGED vars
    <3>1. UNCHANGED <<candidate, revs, outcome, claim, marker, failures, pc, slot, day, head>>
      BY <2>9 DEF vars, ledger
    <3> QED BY <3>1 DEF TypeOK
  <2> QED BY <2>1, <2>2, <2>3, <2>4, <2>5, <2>6, <2>7, <2>8, <2>9 DEF Next, Work
<1> QED BY <1>1, <1>2, PTL DEF Spec

-----------------------------------------------------------------------------
(* What a job knows while it is under way; why the strengthening is needed:*)
(* the commit adds what was decided earlier, against the revision then read*)
JobFact(j) ==
  /\ pc[j] # "idle" => candidate[slot[j]] # None
  /\ pc[j] \in {"checking", "committing", "recording"} => head[j] \in 0..Len(revs)
  /\ pc[j] \in {"checking", "committing"} => Verdict(head[j], slot[j]) = "transition"
  /\ pc[j] = "recording" => Verdict(head[j], slot[j]) # "transition"
  /\ pc[j] \in {"claiming", "attempting"} => Delivered(slot[j])

MarkedHasRow == \A m \in marker : candidate[m[2]] # None

IInv == TypeOK /\ OneHistory /\ MarkedIsTerminal /\ MarkedHasRow /\ \A j \in Job : JobFact(j)

\* Rows of candidates and revisions stay.
RowsStay ==
  /\ revs' \in Seq(Revision) /\ Len(revs) <= Len(revs')
  /\ \A n \in 1..Len(revs) : revs'[n] = revs[n]
  /\ \A c \in Slot : candidate[c] # None => candidate'[c] = candidate[c]

\* What was decided on rows that stay is decided.
LEMMA Decided ==
  ASSUME TypeOK, OneHistory, RowsStay
  PROVE  /\ \A n \in 1..Len(revs) : State(n)' = State(n) /\ revs[n].slot \in Slot
         /\ \A n \in 0..Len(revs), c \in Slot : candidate[c] # None =>
              Verdict(n, c)' = Verdict(n, c) /\ EpisodeAfter(n, c)' = EpisodeAfter(n, c)
         /\ \A c \in Slot : Delivered(c) => Delivered(c)'
<1>1. Len(revs) \in Nat /\ Len(revs') \in Nat
  BY DEF TypeOK, RowsStay
<1>2. ASSUME NEW n \in 1..Len(revs) PROVE State(n)' = State(n) /\ revs[n].slot \in Slot
  <2>1. revs[n] \in Revision
    BY DEF TypeOK
  <2>2. revs[n].slot \in Slot /\ revs'[n] = revs[n]
    BY <2>1 DEF Revision, RowsStay
  <2>3. candidate[revs[n].slot] # None
    BY DEF OneHistory, State
  <2>4. candidate'[revs[n].slot] = candidate[revs[n].slot]
    BY <2>2, <2>3 DEF RowsStay
  <2> QED BY <2>2, <2>4 DEF State
<1>3. ASSUME NEW n \in 0..Len(revs), NEW c \in Slot, candidate[c] # None
      PROVE  Verdict(n, c)' = Verdict(n, c) /\ EpisodeAfter(n, c)' = EpisodeAfter(n, c)
  <2>1. candidate'[c] = candidate[c]
    BY <1>3 DEF RowsStay
  <2>2. CASE n = 0
    BY <2>1, <2>2 DEF Verdict, OutOfOrder, Changes, EpisodeAfter, Enters, Active
  <2>3. CASE n # 0
    <3>1. n \in 1..Len(revs)
      BY <2>3, <1>1
    <3>2. State(n)' = State(n) /\ revs'[n] = revs[n]
      BY <3>1, <1>2 DEF RowsStay
    <3>3. OutOfOrder(n, c)' = OutOfOrder(n, c)
      BY <2>1, <3>2 DEF OutOfOrder
    <3>4. Changes(n, c)' = Changes(n, c)
      BY <2>1, <3>2 DEF Changes
    <3>5. Enters(n, c)' = Enters(n, c)
      BY <2>1, <3>2 DEF Enters, Active
    <3>6. Verdict(n, c)' = Verdict(n, c)
      BY <2>1, <3>3, <3>4 DEF Verdict
    <3> QED BY <3>2, <3>5, <3>6 DEF EpisodeAfter
  <2> QED BY <2>2, <2>3
<1>4. ASSUME NEW c \in Slot, Delivered(c) PROVE Delivered(c)'
  <2>1. PICK n \in 1..Len(revs) : revs[n].slot = c /\ revs[n].deliver
    BY <1>4 DEF Delivered
  <2>2. n \in 1..Len(revs') /\ revs'[n] = revs[n]
    BY <1>1 DEF RowsStay
  <2> QED BY <2>1, <2>2 DEF Delivered
<1> QED BY <1>2, <1>3, <1>4

\* What a job knows stays true while it does nothing.
LEMMA JobFactStays ==
  ASSUME TypeOK, OneHistory, RowsStay, NEW j \in Job, JobFact(j),
         pc'[j] = pc[j], slot'[j] = slot[j], head'[j] = head[j]
  PROVE  JobFact(j)'
<1>1. Len(revs) \in Nat /\ Len(revs') \in Nat /\ Len(revs) <= Len(revs')
  BY DEF TypeOK, RowsStay
<1>2. CASE pc[j] = "idle"
  BY <1>2 DEF JobFact
<1>3. CASE pc[j] # "idle"
  <2>1. slot[j] \in Slot /\ candidate[slot[j]] # None /\ candidate'[slot[j]] = candidate[slot[j]]
    BY <1>3 DEF TypeOK, JobFact, RowsStay
  <2>2. pc[j] \in {"checking", "committing", "recording"} =>
          head[j] \in 0..Len(revs') /\ Verdict(head[j], slot[j])' = Verdict(head[j], slot[j])
    BY <2>1, <1>1, Decided DEF JobFact
  <2>3. pc[j] \in {"claiming", "attempting"} => Delivered(slot[j])'
    BY <2>1, Decided DEF JobFact
  <2> QED BY <2>1, <2>2, <2>3 DEF JobFact, Verdict, OutOfOrder, Changes, State, Delivered
<1> QED BY <1>2, <1>3

\* The history stays one when no revision is added.
LEMMA HistoryStays ==
  ASSUME TypeOK, OneHistory, RowsStay, revs' = revs,
         \A c \in Slot : outcome'[c] = "transition" <=> outcome[c] = "transition"
  PROVE  OneHistory'
<1>1. ASSUME NEW n \in 1..Len(revs)
      PROVE  /\ revs[n].against = n - 1
             /\ outcome'[revs[n].slot] = "transition" /\ State(n)' # None /\ State(n)'.pass
             /\ revs[n].episode = EpisodeAfter(n - 1, revs[n].slot)'
             /\ n > 1 => State(n - 1)'.at < State(n)'.at /\ State(n - 1)'.signal # State(n)'.signal
             /\ \A m \in 1..Len(revs) : revs[m].slot = revs[n].slot => m = n
  <2>1. revs[n].slot \in Slot /\ State(n)' = State(n)
    BY Decided
  <2>2. n - 1 \in 0..Len(revs) /\ (n > 1 => n - 1 \in 1..Len(revs)) /\ Len(revs) \in Nat
    BY DEF TypeOK
  <2>3. n > 1 => State(n - 1)' = State(n - 1)
    BY <2>2, Decided
  <2>4. candidate[revs[n].slot] # None
    BY DEF OneHistory, State
  <2>5. EpisodeAfter(n - 1, revs[n].slot)' = EpisodeAfter(n - 1, revs[n].slot)
    BY <2>1, <2>2, <2>4, Decided
  <2> QED BY <2>1, <2>3, <2>5 DEF OneHistory
<1> QED BY <1>1 DEF OneHistory, State, EpisodeAfter, Enters, Active

\* A marked slot stays terminal while what it has is not taken back.
LEMMA MarkStays ==
  ASSUME TypeOK, MarkedIsTerminal, MarkedHasRow, RowsStay,
         \A c \in Slot : outcome[c] # "none" => outcome'[c] # "none",
         \A c \in Slot : claim[c] = "completed" => claim'[c] = "completed",
         \A c \in Slot : Delivered(c)' => Delivered(c) \/ outcome[c] = "none"
  PROVE  \A m \in marker : candidate'[m[2]] # None /\ ~Incomplete(m[2], m[1])'
<1> SUFFICES ASSUME NEW m \in marker PROVE candidate'[m[2]] # None /\ ~Incomplete(m[2], m[1])'
  OBVIOUS
<1>1. m[2] \in Slot
  BY DEF TypeOK
<1>2. candidate[m[2]] # None /\ candidate'[m[2]] = candidate[m[2]]
  BY <1>1 DEF MarkedHasRow, RowsStay
<1>3. ~Incomplete(m[2], m[1])
  BY DEF MarkedIsTerminal
<1>4. CASE candidate[m[2]].day # m[1]
  BY <1>2, <1>4 DEF Incomplete
<1>5. CASE candidate[m[2]].day = m[1]
  <2>1. outcome[m[2]] # "none" /\ (claim[m[2]] = "completed" \/ ~Delivered(m[2]))
    BY <1>2, <1>3, <1>5 DEF Incomplete
  <2>2. outcome'[m[2]] # "none" /\ (claim'[m[2]] = "completed" \/ ~Delivered(m[2])')
    BY <1>1, <2>1
  <2> QED BY <1>2, <2>2 DEF Incomplete
<1> QED BY <1>4, <1>5

\* The rest of the strengthening, for a step that leaves history and marks.
LEMMA Rest ==
  ASSUME IInv, TypeOK', RowsStay, revs' = revs, marker' = marker,
         \A c \in Slot : outcome'[c] = "transition" <=> outcome[c] = "transition",
         \A c \in Slot : outcome[c] # "none" => outcome'[c] # "none",
         \A c \in Slot : claim[c] = "completed" => claim'[c] = "completed",
         \A c \in Slot : claim'[c] # "none" => claim[c] # "none" \/ Delivered(c),
         NEW j \in Job, JobFact(j)',
         \A i \in Job \ {j} : pc'[i] = pc[i] /\ slot'[i] = slot[i] /\ head'[i] = head[i]
  PROVE  IInv'
<1>1. OneHistory'
  BY HistoryStays DEF IInv
<1>2. \A c \in Slot : Delivered(c)' <=> Delivered(c)
  BY DEF Delivered
<1>3. \A m \in marker : candidate'[m[2]] # None /\ ~Incomplete(m[2], m[1])'
  BY <1>2, MarkStays DEF IInv
<1>4. MarkedIsTerminal' /\ MarkedHasRow'
  BY <1>2, <1>3 DEF IInv, MarkedIsTerminal, MarkedHasRow
<1>5. \A i \in Job : JobFact(i)'
  BY JobFactStays DEF IInv
<1> QED BY <1>1, <1>4, <1>5 DEF IInv

\* A commit appends one revision to the history.
LEMMA HistoryGrows ==
  ASSUME IInv, TypeOK', NEW j \in Job, Commit(j), Len(revs) = head[j], outcome[slot[j]] = "none"
  PROVE  OneHistory' /\ RowsStay /\ \A c \in Slot : Delivered(c)' => Delivered(c) \/ outcome[c] = "none"
<1> DEFINE e == [slot |-> slot[j], episode |-> EpisodeAfter(head[j], slot[j]),
                 deliver |-> Deliver(head[j], slot[j]), against |-> head[j]]
<1>0. PICK k \in Nat : k = Len(revs) + 1
  BY DEF IInv, TypeOK
<1>1. pc[j] = "committing" /\ slot[j] \in Slot /\ candidate[slot[j]] # None /\ candidate' = candidate
  BY DEF Commit, IInv, TypeOK, JobFact
<1>2. TypeOK /\ OneHistory /\ revs \in Seq(Revision) /\ Len(revs) \in Nat /\ k = Len(revs) + 1
  BY <1>0 DEF IInv, TypeOK
<1>3. e \in Revision
  BY <1>1, <1>2, AppendedType
<1>4. revs' = Append(revs, e) /\ outcome' = [outcome EXCEPT ![slot[j]] = "transition"]
  BY DEF Commit, Appended
<1>5. Len(revs') = k /\ revs'[k] = e /\ \A n \in 1..Len(revs) : revs'[n] = revs[n]
  BY <1>2, <1>3, <1>4, Grow
<1>6. RowsStay
  BY <1>1, <1>2, <1>5 DEF RowsStay, TypeOK
<1>7. Verdict(head[j], slot[j]) = "transition" /\ head[j] \in 0..Len(revs)
  BY <1>1 DEF IInv, JobFact
<1>8. Changes(head[j], slot[j]) /\ ~OutOfOrder(head[j], slot[j])
  BY <1>7 DEF Verdict
<1>9. \A n \in 1..Len(revs) : revs[n].slot # slot[j] /\ revs[n].slot \in Slot
  BY <1>2, <1>6, Decided DEF OneHistory
<1>10. \A c \in Slot : outcome'[c] = IF c = slot[j] THEN "transition" ELSE outcome[c]
  BY <1>1, <1>2, <1>4 DEF TypeOK
<1>11. ASSUME NEW n \in 1..Len(revs)
       PROVE  /\ revs'[n].against = n - 1
              /\ outcome'[revs'[n].slot] = "transition" /\ State(n)' # None /\ State(n)'.pass
              /\ revs'[n].episode = EpisodeAfter(n - 1, revs[n].slot)'
              /\ n > 1 => State(n - 1)'.at < State(n)'.at /\ State(n - 1)'.signal # State(n)'.signal
              /\ \A m \in 1..k : revs'[m].slot = revs'[n].slot => m = n
  <2>1. revs[n].slot \in Slot /\ State(n)' = State(n) /\ revs'[n] = revs[n]
    BY <1>2, <1>5, <1>6, Decided
  <2>2. n - 1 \in 0..Len(revs) /\ (n > 1 => n - 1 \in 1..Len(revs))
    BY <1>2
  <2>3. n > 1 => State(n - 1)' = State(n - 1)
    BY <1>2, <1>6, <2>2, Decided
  <2>4. candidate[revs[n].slot] # None
    BY <1>2 DEF OneHistory, State
  <2>5. EpisodeAfter(n - 1, revs[n].slot)' = EpisodeAfter(n - 1, revs[n].slot)
    <3>1. PICK c \in Slot : c = revs[n].slot
      BY <2>1
    <3>2. EpisodeAfter(n - 1, c)' = EpisodeAfter(n - 1, c)
      BY <1>2, <1>6, <2>2, <2>4, <3>1, Decided
    <3> QED BY <2>1, <3>1, <3>2 DEF EpisodeAfter, Enters, Active, State
  <2>6. outcome'[revs[n].slot] = "transition"
    BY <1>2, <1>9, <1>10 DEF OneHistory
  <2>7. ASSUME NEW m \in 1..k, revs'[m].slot = revs'[n].slot PROVE m = n
    <3>1. CASE m = k
      BY <1>5, <1>9, <2>1, <2>7, <3>1
    <3>2. CASE m # k
      <4>1. m \in 1..Len(revs)
        BY <1>2, <3>2
      <4>2. revs[m].slot = revs[n].slot
        BY <1>5, <2>1, <2>7, <4>1
      <4> QED BY <1>2, <4>1, <4>2 DEF OneHistory
    <3> QED BY <3>1, <3>2
  <2>8. /\ revs[n].against = n - 1 /\ State(n) # None /\ State(n).pass
        /\ revs[n].episode = EpisodeAfter(n - 1, revs[n].slot)
        /\ n > 1 => State(n - 1).at < State(n).at /\ State(n - 1).signal # State(n).signal
    BY <1>2 DEF OneHistory
  <2> QED BY <2>1, <2>3, <2>5, <2>6, <2>7, <2>8
<1>12. /\ revs'[k].against = k - 1 /\ outcome'[revs'[k].slot] = "transition"
       /\ State(k)' # None /\ State(k)'.pass
       /\ revs'[k].episode = EpisodeAfter(k - 1, revs[k].slot)'
       /\ k > 1 => State(k - 1)'.at < State(k)'.at /\ State(k - 1)'.signal # State(k)'.signal
       /\ \A m \in 1..k : revs'[m].slot = revs'[k].slot => m = k
  <2>1. State(k)' = candidate[slot[j]] /\ revs'[k].slot = slot[j]
    BY <1>1, <1>5 DEF State
  <2>2. k - 1 = head[j] /\ k - 1 \in 0..Len(revs)
    BY <1>2
  <2>3. ASSUME k > 1 PROVE State(k - 1)'.at < State(k)'.at /\ State(k - 1)'.signal # State(k)'.signal
    <3>1. head[j] \in 1..Len(revs) /\ head[j] > 0 /\ k - 1 \in 1..Len(revs)
      BY <1>2, <2>2, <2>3
    <3>2. State(k - 1)' = State(k - 1)
      BY <1>2, <1>6, <3>1, Decided
    <3>7. State(k - 1) = State(head[j])
      BY <2>2
    <3>3. State(head[j]) # None /\ revs[head[j]].slot \in Slot
      BY <1>2, <1>9, <3>1 DEF OneHistory
    <3>4. State(head[j]).at \in Nat /\ candidate[slot[j]].at \in Nat
      BY <1>1, <1>2, <3>3, ObservationAssumption DEF TypeOK, State
    <3>5. State(head[j]).at < candidate[slot[j]].at
      BY <1>8, <3>1, <3>4 DEF OutOfOrder
    <3>6. State(head[j]).signal # candidate[slot[j]].signal
      BY <1>8, <3>1 DEF Changes
    <3> QED BY <2>1, <3>2, <3>5, <3>6, <3>7
  <2>4. ASSUME NEW m \in 1..k, revs'[m].slot = revs'[k].slot PROVE m = k
    <3>1. CASE m # k
      <4>1. m \in 1..Len(revs)
        BY <1>2, <3>1
      <4> QED BY <1>5, <1>9, <2>1, <2>4, <4>1
    <3> QED BY <3>1
  <2>5. outcome'[revs'[k].slot] = "transition"
    BY <1>1, <1>10, <2>1
  <2>6. State(k)' # None /\ State(k)'.pass
    BY <1>1, <1>8, <2>1 DEF Changes
  <2>7. revs'[k].against = k - 1 /\ revs'[k].episode = EpisodeAfter(k - 1, slot[j])
    BY <1>5, <2>2
  <2>8. EpisodeAfter(k - 1, slot[j]) = EpisodeAfter(k - 1, revs[k].slot)'
    <3>1. PICK c \in Slot : c = slot[j]
      BY <1>1
    <3>2. EpisodeAfter(k - 1, c)' = EpisodeAfter(k - 1, c)
      <4>1. PICK n \in 0..Len(revs) : n = k - 1
        BY <2>2
      <4>2. EpisodeAfter(n, c)' = EpisodeAfter(n, c)
        BY <1>1, <1>2, <1>6, <3>1, Decided
      <4> QED BY <4>1, <4>2
    <3> QED BY <2>1, <3>1, <3>2 DEF EpisodeAfter, Enters, Active, State
  <2> QED BY <2>1, <2>3, <2>4, <2>5, <2>6, <2>7, <2>8
<1>13. ASSUME NEW c \in Slot, outcome'[c] = "transition" PROVE \E n \in 1..k : revs'[n].slot = c
  <2>1. CASE c = slot[j]
    BY <1>2, <1>5, <2>1
  <2>2. CASE c # slot[j]
    <3>1. PICK n \in 1..Len(revs) : revs[n].slot = c
      BY <1>2, <1>10, <1>13, <2>2 DEF OneHistory
    <3>2. n \in 1..k /\ revs'[n].slot = c
      BY <1>2, <1>5, <3>1
    <3> QED BY <3>2
  <2> QED BY <2>1, <2>2
<1>14. ASSUME NEW c \in Slot, Delivered(c)', outcome[c] # "none" PROVE Delivered(c)
  <2>1. PICK n \in 1..k : revs'[n].slot = c /\ revs'[n].deliver
    BY <1>5, <1>14 DEF Delivered
  <2>2. n # k
    BY <1>5, <1>14, <2>1
  <2>3. n \in 1..Len(revs) /\ revs'[n] = revs[n]
    BY <1>2, <1>5, <2>2
  <2> QED BY <2>1, <2>3 DEF Delivered
<1>15. \A n \in 1..k : n \in 1..Len(revs) \/ n = k
  BY <1>2
<1>16. OneHistory'
  BY <1>5, <1>11, <1>12, <1>13, <1>15 DEF OneHistory
<1> QED BY <1>6, <1>14, <1>16

\* A job that goes on to p, or ends, knows what p asks for.
LEMMA GoesOn ==
  ASSUME IInv, TypeOK', RowsStay, NEW j \in Job, pc[j] # "idle", NEW p \in Point, Goto(j, p) \/ End(j),
         Goto(j, p) =>
           /\ p \in {"idle", "applying", "reading", "closing", "claiming", "attempting"}
           /\ p \in {"claiming", "attempting"} => Delivered(slot[j])'
  PROVE  /\ JobFact(j)'
         /\ \A i \in Job \ {j} : pc'[i] = pc[i] /\ slot'[i] = slot[i] /\ head'[i] = head[i]
<1>1. \A i \in Job \ {j} : pc'[i] = pc[i] /\ slot'[i] = slot[i] /\ head'[i] = head[i]
  BY DEF Goto, End, IInv, TypeOK
<1>2. CASE End(j)
  <2>1. pc'[j] = "idle"
    BY <1>2 DEF End, IInv, TypeOK
  <2> QED BY <1>1, <2>1 DEF JobFact
<1>3. CASE Goto(j, p)
  <2>1. pc'[j] = p /\ slot' = slot
    BY <1>3 DEF Goto, IInv, TypeOK
  <2>2. slot[j] \in Slot /\ candidate[slot[j]] # None
    BY DEF IInv, TypeOK, JobFact
  <2>3. candidate'[slot'[j]] # None
    BY <2>1, <2>2 DEF RowsStay
  <2>4. pc'[j] \notin {"checking", "committing", "recording"}
    BY <1>3, <2>1
  <2>5. pc'[j] \in {"claiming", "attempting"} => Delivered(slot[j])'
    BY <1>3, <2>1
  <2> QED BY <1>1, <2>1, <2>3, <2>4, <2>5 DEF JobFact
<1> QED BY <1>2, <1>3

\* The strengthening is inductive.
THEOREM Inductive == Spec => []IInv
<1>1. Init => IInv
  <2> SUFFICES ASSUME Init PROVE IInv
    OBVIOUS
  <2>1. TypeOK
    <3>1. failures \in 0..MaxFailures
      BY BoundAssumption DEF Init
    <3>2. revs \in Seq(Revision) /\ marker \subseteq Nat \X Slot
      BY DEF Init
    <3>3. /\ pc \in [Job -> Point] /\ slot \in [Job -> Slot \cup {"none"}] /\ day \in [Job -> Nat]
          /\ head \in [Job -> Nat] /\ \A j \in Job : pc[j] = "idle"
      BY DEF Init, Point
    <3> QED BY <3>1, <3>2, <3>3 DEF Init, TypeOK
  <2>2. OneHistory /\ MarkedIsTerminal /\ MarkedHasRow
    BY DEF Init, OneHistory, MarkedIsTerminal, MarkedHasRow
  <2>3. \A j \in Job : JobFact(j)
    BY DEF Init, JobFact
  <2> QED BY <2>1, <2>2, <2>3 DEF IInv
<1>2. IInv /\ TypeOK' /\ [Next]_vars => IInv'
  <2> SUFFICES ASSUME IInv, TypeOK', [Next]_vars PROVE IInv'
    OBVIOUS
  <2>0. TypeOK /\ OneHistory /\ Len(revs) \in Nat
    BY DEF IInv, TypeOK
  <2>1. ASSUME NEW j \in Job, NEW c \in Slot, NEW o \in Observation, Observe(j, c, o) PROVE IInv'
    <3>1. RowsStay /\ UNCHANGED <<revs, outcome, claim, marker, head>>
      BY <2>0, <2>1 DEF Observe, RowsStay, TypeOK
    <3>2. o # None
      BY NoneIsNothing
    <3>3. slot'[j] = c /\ candidate'[c] # None /\ pc'[j] \in {"applying", "closing"}
      BY <2>0, <2>1, <3>2 DEF Observe, TypeOK
    <3>4. JobFact(j)'
      BY <3>3 DEF JobFact
    <3>5. \A i \in Job \ {j} : pc'[i] = pc[i] /\ slot'[i] = slot[i] /\ head'[i] = head[i]
      BY <2>0, <2>1 DEF Observe, TypeOK
    <3> QED BY <3>1, <3>4, <3>5, Rest
  <2>2. ASSUME NEW j \in Job, ReadOutcome(j) PROVE IInv'
    <3>1. RowsStay /\ UNCHANGED <<revs, outcome, claim, marker>> /\ pc[j] # "idle"
      BY <2>0, <2>2 DEF ReadOutcome, RowsStay, TypeOK, ledger
    <3>2. \E p \in {"reading", "closing"} : Goto(j, p)
      BY <2>2 DEF ReadOutcome
    <3>3. /\ JobFact(j)'
          /\ \A i \in Job \ {j} : pc'[i] = pc[i] /\ slot'[i] = slot[i] /\ head'[i] = head[i]
      BY <3>1, <3>2, GoesOn DEF Point
    <3> QED BY <3>1, <3>3, Rest
  <2>3. ASSUME NEW j \in Job, ReadState(j) PROVE IInv'
    <3>1. RowsStay /\ UNCHANGED <<candidate, revs, outcome, claim, marker, slot>>
      BY <2>0, <2>3 DEF ReadState, RowsStay, TypeOK, ledger
    <3>2. slot[j] \in Slot /\ candidate[slot[j]] # None
      BY <2>3 DEF ReadState, IInv, TypeOK, JobFact
    <3>3. head'[j] = Len(revs) /\ head'[j] \in 0..Len(revs')
      BY <2>0, <2>3, <3>1 DEF ReadState, TypeOK
    <3>4. pc'[j] = IF Verdict(Len(revs), slot[j]) = "transition" THEN "checking" ELSE "recording"
      BY <2>0, <2>3 DEF ReadState, TypeOK
    <3>5. Verdict(head[j], slot[j])' = Verdict(Len(revs), slot[j])
      BY <3>1, <3>3 DEF Verdict, OutOfOrder, Changes, State
    <3>6. JobFact(j)'
      BY <3>1, <3>2, <3>3, <3>4, <3>5 DEF JobFact
    <3>7. \A i \in Job \ {j} : pc'[i] = pc[i] /\ slot'[i] = slot[i] /\ head'[i] = head[i]
      BY <2>0, <2>3 DEF ReadState, TypeOK
    <3> QED BY <3>1, <3>6, <3>7, Rest
  <2>4. ASSUME NEW j \in Job, RecordOutcome(j) PROVE IInv'
    <3>1. RowsStay /\ UNCHANGED <<revs, claim, marker>> /\ pc[j] # "idle"
      BY <2>0, <2>4 DEF RecordOutcome, RowsStay, TypeOK
    <3>2. Goto(j, "closing") \/ End(j)
      BY <2>4 DEF RecordOutcome
    <3>3. /\ JobFact(j)'
          /\ \A i \in Job \ {j} : pc'[i] = pc[i] /\ slot'[i] = slot[i] /\ head'[i] = head[i]
      BY <3>1, <3>2, GoesOn DEF Point
    <3>4. Verdict(head[j], slot[j]) \notin {"transition", "none"}
      BY <2>4 DEF RecordOutcome, IInv, JobFact, Verdict
    <3>5. /\ \A c \in Slot : outcome'[c] = "transition" <=> outcome[c] = "transition"
          /\ \A c \in Slot : outcome[c] # "none" => outcome'[c] # "none"
      BY <2>0, <2>4, <3>4 DEF RecordOutcome, TypeOK
    <3> QED BY <3>1, <3>3, <3>5, Rest
  <2>5. ASSUME NEW j \in Job, CheckRevision(j) PROVE IInv'
    <3>1. RowsStay /\ UNCHANGED <<candidate, revs, outcome, claim, marker>> /\ pc[j] # "idle"
      BY <2>0, <2>5 DEF CheckRevision, RowsStay, TypeOK, ledger
    <3>2. CASE End(j)
      <4>1. /\ JobFact(j)'
            /\ \A i \in Job \ {j} : pc'[i] = pc[i] /\ slot'[i] = slot[i] /\ head'[i] = head[i]
        BY <2>0, <3>2 DEF End, TypeOK, JobFact
      <4> QED BY <3>1, <4>1, Rest
    <3>3. CASE Goto(j, "committing")
      <4>1. pc'[j] = "committing" /\ UNCHANGED <<slot, head>>
        BY <2>0, <3>3 DEF Goto, TypeOK
      <4>2. /\ candidate[slot[j]] # None /\ head[j] \in 0..Len(revs)
            /\ Verdict(head[j], slot[j]) = "transition"
        BY <2>5 DEF CheckRevision, IInv, JobFact
      <4>3. Verdict(head[j], slot[j])' = Verdict(head[j], slot[j])
        BY <3>1, <4>1 DEF Verdict, OutOfOrder, Changes, State
      <4>4. JobFact(j)'
        BY <3>1, <4>1, <4>2, <4>3 DEF JobFact
      <4>5. \A i \in Job \ {j} : pc'[i] = pc[i] /\ slot'[i] = slot[i] /\ head'[i] = head[i]
        BY <2>0, <3>3 DEF Goto, TypeOK
      <4> QED BY <3>1, <4>4, <4>5, Rest
    <3> QED BY <2>5, <3>2, <3>3 DEF CheckRevision
  <2>6. ASSUME NEW j \in Job, Commit(j) PROVE IInv'
    <3>1. UNCHANGED <<candidate, claim, marker>> /\ pc[j] # "idle" /\ slot[j] \in Slot
      BY <2>0, <2>6 DEF Commit, TypeOK
    <3>2. CASE ~(Len(revs) = head[j] /\ outcome[slot[j]] = "none")
      <4>1. RowsStay /\ UNCHANGED <<revs, outcome>> /\ End(j)
        BY <2>0, <2>6, <3>2 DEF Commit, RowsStay, TypeOK
      <4>2. /\ JobFact(j)'
            /\ \A i \in Job \ {j} : pc'[i] = pc[i] /\ slot'[i] = slot[i] /\ head'[i] = head[i]
        BY <2>0, <4>1 DEF End, TypeOK, JobFact
      <4> QED BY <3>1, <4>1, <4>2, Rest
    <3>3. CASE Len(revs) = head[j] /\ outcome[slot[j]] = "none"
      <4>1. OneHistory' /\ RowsStay /\ \A c \in Slot : Delivered(c)' => Delivered(c) \/ outcome[c] = "none"
        BY <2>6, <3>3, HistoryGrows
      <4>2. revs' = Appended(j) /\ Goto(j, IF Deliver(head[j], slot[j]) THEN "claiming" ELSE "closing")
        BY <2>6, <3>3 DEF Commit
      <4>3. \A c \in Slot : outcome[c] # "none" => outcome'[c] # "none"
        BY <2>0, <2>6, <3>3 DEF Commit, TypeOK
      <4>4. Deliver(head[j], slot[j]) => Delivered(slot[j])'
        <5>1. Len(revs) + 1 \in 1..Len(revs')
          BY <2>0, <2>6, <3>3, <4>2, AppendedType, Grow DEF Appended, Commit, TypeOK
        <5>2. /\ revs'[Len(revs) + 1].slot = slot[j]
              /\ revs'[Len(revs) + 1].deliver = Deliver(head[j], slot[j])
          BY <2>0, <2>6, <3>3, <4>2, AppendedType, Grow DEF Appended, Commit, TypeOK
        <5>3. slot' = slot
          BY <4>2 DEF Goto
        <5> QED BY <5>1, <5>2, <5>3 DEF Delivered
      <4>5. /\ JobFact(j)'
            /\ \A i \in Job \ {j} : pc'[i] = pc[i] /\ slot'[i] = slot[i] /\ head'[i] = head[i]
        <5>1. CASE Deliver(head[j], slot[j])
          BY <3>1, <4>1, <4>2, <4>4, <5>1, GoesOn DEF Point
        <5>2. CASE ~Deliver(head[j], slot[j])
          BY <3>1, <4>1, <4>2, <5>2, GoesOn DEF Point
        <5> QED BY <5>1, <5>2
      <4>6. \A i \in Job : JobFact(i)'
        BY <2>0, <4>1, <4>5, JobFactStays DEF IInv
      <4>7. \A m \in marker : candidate'[m[2]] # None /\ ~Incomplete(m[2], m[1])'
        BY <2>0, <3>1, <4>1, <4>3, MarkStays DEF IInv
      <4>8. \A c \in Slot : claim'[c] # "none" => Delivered(c)'
        BY <2>0, <3>1, <4>1, Decided DEF IInv, MarkedIsTerminal
      <4>9. MarkedIsTerminal' /\ MarkedHasRow'
        BY <3>1, <4>7, <4>8 DEF MarkedIsTerminal, MarkedHasRow
      <4> QED BY <4>1, <4>6, <4>9 DEF IInv
    <3> QED BY <3>2, <3>3
  <2>7. ASSUME NEW j \in Job, ClaimShadow(j) \/ RecordAttempt(j) PROVE IInv'
    <3>1. RowsStay /\ UNCHANGED <<revs, outcome, marker>> /\ pc[j] \in {"claiming", "attempting"}
      BY <2>0, <2>7 DEF ClaimShadow, RecordAttempt, RowsStay, TypeOK
    <3>2. slot[j] \in Slot /\ Delivered(slot[j])
      BY <3>1 DEF IInv, TypeOK, JobFact
    <3>3. slot' = slot /\ \E p \in {"attempting", "closing"} : Goto(j, p)
      BY <2>7 DEF ClaimShadow, RecordAttempt, Goto
    <3>4. Delivered(slot[j])'
      BY <3>1, <3>2, <3>3 DEF Delivered
    <3>5. /\ JobFact(j)'
          /\ \A i \in Job \ {j} : pc'[i] = pc[i] /\ slot'[i] = slot[i] /\ head'[i] = head[i]
      BY <3>1, <3>3, <3>4, GoesOn DEF Point
    <3>6. /\ \A c \in Slot : claim[c] = "completed" => claim'[c] = "completed"
          /\ \A c \in Slot : claim'[c] # "none" => claim[c] # "none" \/ c = slot[j]
      BY <2>0, <2>7, <3>2 DEF ClaimShadow, RecordAttempt, TypeOK
    <3> QED BY <3>1, <3>2, <3>5, <3>6, Rest
  <2>8. ASSUME NEW j \in Job, Close(j) PROVE IInv'
    <3>1. RowsStay /\ UNCHANGED <<candidate, revs, outcome, claim>> /\ pc[j] # "idle" /\ End(j)
      BY <2>0, <2>8 DEF Close, RowsStay, TypeOK
    <3>2. /\ JobFact(j)'
          /\ \A i \in Job \ {j} : pc'[i] = pc[i] /\ slot'[i] = slot[i] /\ head'[i] = head[i]
      BY <2>0, <3>1 DEF End, TypeOK, JobFact
    <3>3. OneHistory' /\ \A i \in Job : JobFact(i)'
      BY <2>0, <3>1, <3>2, HistoryStays, JobFactStays DEF IInv
    <3>4. candidate[slot[j]] # None /\ slot[j] \in Slot
      BY <3>1 DEF IInv, TypeOK, JobFact
    <3>5. \A m \in marker' : m \in marker \/ (m = <<day[j], slot[j]>> /\ ~Incomplete(slot[j], day[j]))
      BY <2>8 DEF Close
    <3>6. \A m \in marker' : candidate[m[2]] # None /\ ~Incomplete(m[2], m[1])
      BY <3>4, <3>5 DEF IInv, MarkedIsTerminal, MarkedHasRow
    <3>7. \A c \in Slot : claim[c] # "none" => Delivered(c)
      BY DEF IInv, MarkedIsTerminal
    <3>8. MarkedIsTerminal' /\ MarkedHasRow'
      BY <3>1, <3>6, <3>7 DEF MarkedIsTerminal, MarkedHasRow, Incomplete, Delivered
    <3> QED BY <3>3, <3>8 DEF IInv
  <2>9. ASSUME NEW j \in Job, Die(j) PROVE IInv'
    <3>1. RowsStay /\ UNCHANGED <<candidate, revs, outcome, claim, marker>> /\ End(j)
      BY <2>0, <2>9 DEF Die, RowsStay, TypeOK, ledger
    <3>2. /\ JobFact(j)'
          /\ \A i \in Job \ {j} : pc'[i] = pc[i] /\ slot'[i] = slot[i] /\ head'[i] = head[i]
      BY <2>0, <3>1 DEF End, TypeOK, JobFact
    <3> QED BY <3>1, <3>2, Rest
  <2>10. CASE UNCHANGED vars
    <3>1. RowsStay /\ UNCHANGED <<candidate, revs, outcome, claim, marker, pc, slot, head>>
      BY <2>0, <2>10 DEF vars, ledger, RowsStay, TypeOK
    <3>2. OneHistory'
      BY <2>0, <3>1, HistoryStays
    <3>3. \A j \in Job : JobFact(j)'
      BY <2>0, <3>1, JobFactStays DEF IInv
    <3>4. MarkedIsTerminal' /\ MarkedHasRow'
      BY <3>1 DEF IInv, MarkedIsTerminal, MarkedHasRow, Incomplete, Delivered
    <3> QED BY <3>2, <3>3, <3>4 DEF IInv
  <2> QED BY <2>1, <2>2, <2>3, <2>4, <2>5, <2>6, <2>7, <2>8, <2>9, <2>10 DEF Next, Work
<1> QED BY <1>1, <1>2, TypeCorrect, PTL DEF Spec

\* The revisions are one history, whatever jobs overlap, fail and die.
THEOREM History == Spec => []OneHistory
<1>1. IInv => OneHistory
  BY DEF IInv
<1> QED BY <1>1, Inductive, PTL

\* A slot is marked terminal only when its candidate is.
THEOREM Marked == Spec => []MarkedIsTerminal
<1>1. IInv => MarkedIsTerminal
  BY DEF IInv
<1> QED BY <1>1, Inductive, PTL
=============================================================================
