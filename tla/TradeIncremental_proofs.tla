------------------------ MODULE TradeIncremental_proofs ------------------------
(***************************************************************************)
(* Proofs about TradeIncremental, for any window, any cut into partitions  *)
(* and any number of jobs and failures: how a window is cut, the count of  *)
(* calls, what the coverage row says, and which windows are never refused. *)
(***************************************************************************)
EXTENDS TradeIncremental, SequenceTheorems, WellFoundedInduction, TLAPS

\* A partition, and the row of its run.
Part == [stream : Stream, first : Nat \ {0}, last : Nat \ {0}, end : Nat]
RowType == [stage : {"collect", "publish", "done"}, calls : Nat, asked : Nat]

\* Min, of two numbers and of a set of naturals.
LEMMA MinOfTwo ==
  ASSUME NEW a \in Int, NEW b \in Int
  PROVE  Min({a, b}) = IF a <= b THEN a ELSE b
BY DEF Min

LEMMA MinOfSet ==
  ASSUME NEW S \in SUBSET Nat, S # {}
  PROVE  Min(S) \in S /\ \A n \in S : Min(S) <= n
<1>1. PICK m \in S : \A n \in S : ~(<<n, m>> \in OpToRel(<, Nat))
  BY NatLessThanWellFounded, WFMin
<1>2. ASSUME NEW n \in S PROVE m <= n
  <2>1. n < m => <<n, m>> \in OpToRel(<, Nat)
    BY Zenon DEF OpToRel
  <2>2. ~(n < m)
    BY <1>1, <2>1, Zenon
  <2> QED BY <2>2
<1>3. \E x \in S : \A n \in S : x =< n
  BY <1>2
<1>4. QED BY <1>3, Zenon DEF Min

-----------------------------------------------------------------------------
\* Partitions of one stream, each after the ones before it.
InOrder(parts, stream) ==
  /\ parts \in Seq(Part)
  /\ \A i \in 1..Len(parts) : parts[i].stream = stream /\ parts[i].first <= parts[i].last
  /\ \A i, j \in 1..Len(parts) : i < j => parts[i].first < parts[j].first

\* The days from first to last, cut one after the other into partitions of one
\* stream.
Cut(parts, stream, first, last) ==
  /\ InOrder(parts, stream)
  /\ first > last => Len(parts) = 0
  /\ first <= last => /\ Len(parts) > 0 /\ parts[1].first = first
                      /\ parts[Len(parts)].last = last
  /\ \A i \in 2..Len(parts) : parts[i].first = parts[i - 1].last + 1

LEMMA ShardsCut ==
  ASSUME NEW stream \in Stream, NEW first \in Nat \ {0}, NEW last \in Nat, NEW e \in Nat
  PROVE  Cut(Shards(stream, first, last, e), stream, first, last)
<1> DEFINE count == IF first > last THEN 0 ELSE (last - first) \div ShardDays + 1
           From(i) == first + (i - 1) * ShardDays
           To(i) == Min({last, From(i) + ShardDays - 1})
           parts == Shards(stream, first, last, e)
<1>1. ShardDays \in Nat \ {0}
  BY DayAssumption
<1>2. count \in Nat
  BY <1>1
<1>3. ASSUME NEW i \in 1..count
      PROVE  /\ From(i) \in Nat \ {0} /\ From(i) <= last
             /\ i < count => From(i) + ShardDays <= last
             /\ i = count => last <= From(i) + ShardDays - 1
             /\ i = 1 => From(i) = first
             /\ i > 1 => From(i) = From(i - 1) + ShardDays
  <2> DEFINE q == (last - first) \div ShardDays
  <2>1. /\ last - first \in Nat /\ q \in Nat /\ count = q + 1
        /\ q * ShardDays <= last - first /\ last - first < q * ShardDays + ShardDays
    BY <1>1
  <2>2. i - 1 \in Nat /\ (i - 1) * ShardDays \in Nat /\ i - 1 <= q
    BY <1>1, <2>1
  <2>3. i - 1 < q => (i - 1) * ShardDays + ShardDays <= q * ShardDays
    BY <1>1, <2>1, <2>2
  <2>4. i - 1 = q => (i - 1) * ShardDays = q * ShardDays
    OBVIOUS
  <2>5. i > 1 => (i - 1) * ShardDays = (i - 1 - 1) * ShardDays + ShardDays
    BY <1>1
  <2>6. i = 1 => (i - 1) * ShardDays = 0
    BY <1>1
  <2> QED BY <1>1, <2>1, <2>2, <2>3, <2>4, <2>5, <2>6
<1>4. ASSUME NEW i \in 1..count
      PROVE  /\ To(i) \in Nat \ {0} /\ From(i) <= To(i) /\ To(i) <= last
             /\ i < count => To(i) = From(i) + ShardDays - 1
             /\ i = count => To(i) = last
  <2> HIDE DEF From, count
  <2>1. From(i) \in Nat \ {0}
    BY <1>3
  <2>2. To(i) = IF last <= From(i) + ShardDays - 1 THEN last ELSE From(i) + ShardDays - 1
    BY <1>1, <2>1, MinOfTwo
  <2> QED BY <1>1, <1>3, <2>1, <2>2
<1>5. parts = [i \in 1..count |-> [stream |-> stream, first |-> From(i), end |-> e, last |-> To(i)]]
  BY DEF Shards
<1> HIDE DEF count, From, To, parts
<1>6. parts \in Seq(Part) /\ Len(parts) = count
  <2>1. parts \in [1..count -> Part]
    BY <1>3, <1>4, <1>5 DEF Part
  <2> QED BY <1>2, <2>1, SeqDef
<1>7. \A i \in 1..count : /\ parts[i].stream = stream
                          /\ parts[i].first = From(i) /\ parts[i].last = To(i)
  BY <1>5
<1>8. \A i, j \in 1..count : i < j => From(i) < From(j)
  <2> SUFFICES ASSUME NEW i \in 1..count, NEW j \in 1..count, i < j PROVE From(i) < From(j)
    OBVIOUS
  <2>1. i - 1 \in Nat /\ j - 1 \in Nat /\ i - 1 < j - 1
    BY <1>2
  <2>2. (i - 1) * ShardDays + ShardDays <= (j - 1) * ShardDays
    BY <1>1, <2>1
  <2>3. (i - 1) * ShardDays \in Nat /\ (j - 1) * ShardDays \in Nat
    BY <1>1, <2>1
  <2> QED BY <1>1, <2>2, <2>3 DEF From
<1>9. \A i \in 2..count : From(i) = To(i - 1) + 1
  <2> SUFFICES ASSUME NEW i \in 2..count PROVE From(i) = To(i - 1) + 1
    OBVIOUS
  <2>1. i \in 1..count /\ i - 1 \in 1..count /\ i - 1 < count /\ i > 1
    BY <1>2
  <2>2. To(i - 1) = From(i - 1) + ShardDays - 1 /\ From(i) = From(i - 1) + ShardDays
    BY <1>3, <1>4, <2>1
  <2>3. From(i - 1) \in Nat
    BY <1>3, <2>1
  <2> QED BY <1>1, <2>2, <2>3
<1>10. first > last => count = 0
  BY DEF count
<1>11. first <= last => /\ count > 0 /\ From(1) = first /\ To(count) = last
  <2> SUFFICES ASSUME first <= last PROVE count > 0 /\ From(1) = first /\ To(count) = last
    OBVIOUS
  <2>1. count > 0
    BY <1>1 DEF count
  <2>2. 1 \in 1..count /\ count \in 1..count
    BY <1>2, <2>1
  <2> QED BY <1>3, <1>4, <2>1, <2>2
<1> QED BY <1>2, <1>3, <1>4, <1>6, <1>7, <1>8, <1>9, <1>10, <1>11 DEF Cut, InOrder, parts

-----------------------------------------------------------------------------
\* The streams that are collected up to the end of every window.
Reaching == IF scope = "domestic" THEN {"recent"} ELSE {"order", "transaction"}

\* What the proofs need of the partitions of a job that goes up to day e: no
\* two are the same, those of a reaching stream come one after the other, from
\* the start of the window when the whole of it is in reach, up to e.
WellCut(parts, e) ==
  /\ parts \in Seq(Part) /\ Len(parts) > 0
  /\ \A i \in 1..Len(parts) : parts[i].first <= parts[i].last
  /\ \A i, j \in 1..Len(parts) : parts[i] = parts[j] => i = j
  /\ \A s \in Reaching : \E i \in 1..Len(parts) : parts[i].stream = s /\ parts[i].last = e
  /\ parts[1].first >= e - RecentDays \/ scope = "overseas" =>
       \A i \in 1..Len(parts) :
         /\ parts[i].stream \in Reaching
         /\ \/ parts[i].first = parts[1].first
            \/ /\ i > 1 /\ parts[i - 1].stream = parts[i].stream
               /\ parts[i].first = parts[i - 1].last + 1

\* Two cuts of different streams, one after the other.
LEMMA TwoCuts ==
  ASSUME NEW s \in Stream, NEW t \in Stream, s # t,
         NEW A, NEW B, InOrder(A, s), InOrder(B, t)
  PROVE  /\ A \o B \in Seq(Part) /\ Len(A \o B) = Len(A) + Len(B)
         /\ \A i \in 1..Len(A) + Len(B) :
              (A \o B)[i] = IF i <= Len(A) THEN A[i] ELSE B[i - Len(A)]
         /\ \A i \in 1..Len(A \o B) : (A \o B)[i].first <= (A \o B)[i].last
         /\ \A i, j \in 1..Len(A \o B) : (A \o B)[i] = (A \o B)[j] => i = j
<1>1. A \in Seq(Part) /\ B \in Seq(Part) /\ Len(A) \in Nat /\ Len(B) \in Nat
  BY DEF InOrder
<1>2. /\ A \o B \in Seq(Part) /\ Len(A \o B) = Len(A) + Len(B)
      /\ \A i \in 1..Len(A) + Len(B) :
           (A \o B)[i] = IF i <= Len(A) THEN A[i] ELSE B[i - Len(A)]
  BY <1>1, ConcatProperties
<1>3. \A i \in 1..Len(A) + Len(B) : i <= Len(A) => i \in 1..Len(A)
  BY <1>1
<1>4. \A i \in 1..Len(A) + Len(B) : ~(i <= Len(A)) => i - Len(A) \in 1..Len(B)
  BY <1>1
<1>5. \A i \in 1..Len(A \o B) : (A \o B)[i].first <= (A \o B)[i].last
  BY <1>2, <1>3, <1>4 DEF InOrder
<1>6. \A i, j \in 1..Len(A) : A[i] = A[j] => i = j
  <2> SUFFICES ASSUME NEW i \in 1..Len(A), NEW j \in 1..Len(A), i < j PROVE A[i] # A[j]
    BY <1>1
  <2>0. A[i] \in Part /\ A[j] \in Part
    BY <1>1, ElementOfSeq
  <2>1. A[i].first < A[j].first /\ A[i].first \in Nat
    BY <2>0 DEF InOrder, Part
  <2> QED BY <2>1
<1>7. \A i, j \in 1..Len(B) : B[i] = B[j] => i = j
  <2> SUFFICES ASSUME NEW i \in 1..Len(B), NEW j \in 1..Len(B), i < j PROVE B[i] # B[j]
    BY <1>1
  <2>0. B[i] \in Part /\ B[j] \in Part
    BY <1>1, ElementOfSeq
  <2>1. B[i].first < B[j].first /\ B[i].first \in Nat
    BY <2>0 DEF InOrder, Part
  <2> QED BY <2>1
<1>8. \A i \in 1..Len(A), j \in 1..Len(B) : A[i] # B[j]
  BY DEF InOrder
<1>9. ASSUME NEW i \in 1..Len(A \o B), NEW j \in 1..Len(A \o B), (A \o B)[i] = (A \o B)[j]
      PROVE  i = j
  <2>0. i \in 1..Len(A) + Len(B) /\ j \in 1..Len(A) + Len(B)
    BY <1>2
  <2>1. CASE i <= Len(A) /\ j <= Len(A)
    <3>1. i \in 1..Len(A) /\ j \in 1..Len(A) /\ A[i] = A[j]
      BY <1>2, <1>3, <1>9, <2>0, <2>1
    <3> QED BY <1>6, <3>1
  <2>2. CASE i <= Len(A) /\ ~(j <= Len(A))
    <3>1. i \in 1..Len(A) /\ j - Len(A) \in 1..Len(B) /\ A[i] = B[j - Len(A)]
      BY <1>2, <1>3, <1>4, <1>9, <2>0, <2>2
    <3> QED BY <1>8, <3>1
  <2>3. CASE ~(i <= Len(A)) /\ j <= Len(A)
    <3>1. j \in 1..Len(A) /\ i - Len(A) \in 1..Len(B) /\ A[j] = B[i - Len(A)]
      BY <1>2, <1>3, <1>4, <1>9, <2>0, <2>3
    <3> QED BY <1>8, <3>1
  <2>4. CASE ~(i <= Len(A)) /\ ~(j <= Len(A))
    <3>1. i - Len(A) \in 1..Len(B) /\ j - Len(A) \in 1..Len(B) /\ B[i - Len(A)] = B[j - Len(A)]
      BY <1>2, <1>4, <1>9, <2>0, <2>4
    <3>2. i - Len(A) = j - Len(A)
      BY <1>7, <3>1
    <3> QED BY <1>1, <3>2
  <2> QED BY <2>1, <2>2, <2>3, <2>4
<1> QED BY <1>2, <1>5, <1>9

\* The partitions of a window are well cut.
LEMMA PartitionsWellCut ==
  ASSUME scope \in Scope, NEW e \in Nat, e > RecentDays + 1, NEW start \in 1..e
  PROVE  WellCut(Partitions(start, e), e)
<1> USE DayAssumption
<1>1. CASE scope = "domestic"
  <2> DEFINE cutoff == e - RecentDays
             A == Shards("old", start, cutoff - 1, e)
             B == Shards("recent", Larger(start, cutoff), e, e)
  <2>1. Partitions(start, e) = A \o B
    BY <1>1 DEF Partitions
  <2>2. /\ start \in Nat \ {0} /\ cutoff - 1 \in Nat /\ cutoff <= e
        /\ Larger(start, cutoff) \in Nat \ {0} /\ Larger(start, cutoff) <= e
        /\ start >= cutoff => Larger(start, cutoff) = start
    BY DEF Larger
  <2>3. Cut(A, "old", start, cutoff - 1)
    BY <2>2, ShardsCut DEF Stream
  <2>4. Cut(B, "recent", Larger(start, cutoff), e)
    BY <2>2, ShardsCut DEF Stream
  <2>0. InOrder(A, "old") /\ InOrder(B, "recent")
    BY <2>3, <2>4 DEF Cut
  <2> HIDE DEF A, B
  <2> DEFINE P == A \o B
  <2>5. /\ P \in Seq(Part) /\ Len(P) = Len(A) + Len(B)
        /\ \A i \in 1..Len(A) + Len(B) : P[i] = IF i <= Len(A) THEN A[i] ELSE B[i - Len(A)]
        /\ \A i \in 1..Len(P) : P[i].first <= P[i].last
        /\ \A i, j \in 1..Len(P) : P[i] = P[j] => i = j
    BY <2>0, TwoCuts DEF Stream
  <2> HIDE DEF P
  <2>6. Len(A) \in Nat /\ Len(B) \in Nat /\ Len(B) > 0
    BY <2>2, <2>3, <2>4 DEF Cut, InOrder
  <2>7. P[Len(P)].stream = "recent" /\ P[Len(P)].last = e
    <3>1. P[Len(P)] = B[Len(B)]
      BY <2>5, <2>6
    <3>2. B[Len(B)].last = e
      BY <2>2, <2>4 DEF Cut, InOrder
    <3>3. B[Len(B)].stream = "recent"
      BY <2>4, <2>6 DEF Cut, InOrder
    <3> QED BY <3>1, <3>2, <3>3
  <2>8. ASSUME P[1].first >= e - RecentDays, NEW i \in 1..Len(P)
        PROVE  /\ P[i].stream \in Reaching
               /\ \/ P[i].first = P[1].first
                  \/ /\ i > 1 /\ P[i - 1].stream = P[i].stream
                     /\ P[i].first = P[i - 1].last + 1
    <3>1. Len(A) = 0
      <4>1. SUFFICES ASSUME Len(A) # 0 PROVE FALSE
        OBVIOUS
      <4>2. start <= cutoff - 1
        BY <2>2, <2>3, <4>1 DEF Cut, InOrder
      <4>3. P[1] = A[1] /\ A[1].first = start
        BY <2>2, <2>3, <2>5, <2>6, <4>1, <4>2 DEF Cut, InOrder
      <4> QED BY <2>2, <2>8, <4>2, <4>3
    <3>2. \A k \in 1..Len(P) : P[k] = B[k] /\ k \in 1..Len(B)
      BY <2>5, <2>6, <3>1
    <3>3. P[i].stream = "recent"
      BY <2>4, <3>2 DEF Cut, InOrder
    <3>4. CASE i = 1
      BY <1>1, <3>3, <3>4 DEF Reaching
    <3>5. CASE i # 1
      <4>1. i \in 2..Len(B) /\ i - 1 \in 1..Len(P) /\ i > 1
        BY <2>5, <2>6, <3>1, <3>5
      <4>2. B[i].first = B[i - 1].last + 1 /\ B[i - 1].stream = "recent"
        BY <2>4, <2>5, <2>6, <3>1, <4>1 DEF Cut, InOrder
      <4> QED BY <1>1, <3>2, <3>3, <4>1, <4>2 DEF Reaching
    <3> QED BY <3>4, <3>5
  <2>9. Len(P) \in 1..Len(P)
    BY <2>5, <2>6
  <2>10. WellCut(P, e)
    BY <1>1, <2>5, <2>6, <2>7, <2>8, <2>9 DEF WellCut, Reaching
  <2> QED BY <2>1, <2>10 DEF P
<1>2. CASE scope = "overseas"
  <2> DEFINE A == Shards("order", start, e, e)
             B == Shards("transaction", start, e, e)
  <2>1. Partitions(start, e) = A \o B
    BY <1>2 DEF Partitions
  <2>2. start \in Nat \ {0} /\ start <= e
    OBVIOUS
  <2>3. Cut(A, "order", start, e) /\ Cut(B, "transaction", start, e)
    BY <2>2, ShardsCut DEF Stream
  <2>0. InOrder(A, "order") /\ InOrder(B, "transaction")
    BY <2>3 DEF Cut
  <2> HIDE DEF A, B
  <2> DEFINE P == A \o B
  <2>5. /\ P \in Seq(Part) /\ Len(P) = Len(A) + Len(B)
        /\ \A i \in 1..Len(A) + Len(B) : P[i] = IF i <= Len(A) THEN A[i] ELSE B[i - Len(A)]
        /\ \A i \in 1..Len(P) : P[i].first <= P[i].last
        /\ \A i, j \in 1..Len(P) : P[i] = P[j] => i = j
    BY <2>0, TwoCuts DEF Stream
  <2> HIDE DEF P
  <2>6. /\ Len(A) \in Nat /\ Len(B) \in Nat /\ Len(A) > 0 /\ Len(B) > 0
        /\ A[1].first = start /\ B[1].first = start
        /\ A[Len(A)].last = e /\ B[Len(B)].last = e
    BY <2>2, <2>3 DEF Cut, InOrder
  <2>7. \A i \in 1..Len(A) : P[i] = A[i] /\ A[i].stream = "order"
    BY <2>3, <2>5, <2>6 DEF Cut, InOrder
  <2>8. \A i \in 1..Len(B) : P[Len(A) + i] = B[i] /\ B[i].stream = "transaction"
    <3>1. \A i \in 1..Len(B) : /\ Len(A) + i \in 1..Len(A) + Len(B)
                               /\ ~(Len(A) + i <= Len(A)) /\ Len(A) + i - Len(A) = i
      BY <2>6
    <3> QED BY <2>3, <2>5, <3>1 DEF Cut, InOrder
  <2>9. \A s \in Reaching : \E i \in 1..Len(P) : P[i].stream = s /\ P[i].last = e
    <3>1. Len(A) \in 1..Len(P) /\ Len(A) + Len(B) \in 1..Len(P)
      BY <2>5, <2>6
    <3>2. P[Len(A)].stream = "order" /\ P[Len(A)].last = e
      BY <2>6, <2>7
    <3>3. P[Len(A) + Len(B)].stream = "transaction" /\ P[Len(A) + Len(B)].last = e
      BY <2>6, <2>8
    <3> QED BY <1>2, <3>1, <3>2, <3>3 DEF Reaching
  <2>10. ASSUME NEW i \in 1..Len(P)
         PROVE  /\ P[i].stream \in Reaching
                /\ \/ P[i].first = P[1].first
                   \/ /\ i > 1 /\ P[i - 1].stream = P[i].stream
                      /\ P[i].first = P[i - 1].last + 1
    <3>0. P[1].first = start
      BY <2>6, <2>7
    <3>1. CASE i = 1 \/ i = Len(A) + 1
      <4>1. (P[i] = A[1] /\ i = 1) \/ P[i] = B[1]
        BY <2>6, <2>7, <2>8, <3>1
      <4>2. P[i].first = start /\ P[i].stream \in {"order", "transaction"}
        BY <2>6, <2>7, <2>8, <4>1
      <4> QED BY <1>2, <3>0, <4>2 DEF Reaching
    <3>2. CASE i \in 2..Len(A)
      <4>1. i \in 1..Len(A) /\ i - 1 \in 1..Len(A) /\ i > 1
        BY <2>6, <3>2
      <4>2. A[i].first = A[i - 1].last + 1
        BY <2>3, <3>2 DEF Cut, InOrder
      <4> QED BY <1>2, <2>7, <4>1, <4>2 DEF Reaching
    <3>3. CASE i > Len(A) + 1
      <4> DEFINE k == i - Len(A)
      <4>1. /\ k \in 2..Len(B) /\ k \in 1..Len(B) /\ k - 1 \in 1..Len(B)
            /\ i > 1 /\ i = Len(A) + k /\ i - 1 = Len(A) + (k - 1)
        <5>1. i \in 1..Len(A) + Len(B)
          BY <2>5
        <5>2. Len(A) \in Nat /\ Len(B) \in Nat
          BY <2>6
        <5> QED BY <3>3, <5>1, <5>2
      <4>2. B[k].first = B[k - 1].last + 1
        BY <2>3, <4>1 DEF Cut, InOrder
      <4>3. P[i] = B[k] /\ P[i - 1] = B[k - 1]
        BY <2>8, <4>1
      <4>4. B[k].stream = "transaction" /\ B[k - 1].stream = "transaction"
        BY <2>8, <4>1
      <4> QED BY <1>2, <4>1, <4>2, <4>3, <4>4 DEF Reaching
    <3> QED BY <2>5, <2>6, <3>1, <3>2, <3>3
  <2>11. WellCut(P, e)
    BY <2>5, <2>6, <2>9, <2>10 DEF WellCut
  <2> QED BY <2>1, <2>11 DEF P
<1> QED BY <1>1, <1>2 DEF Scope

-----------------------------------------------------------------------------
Point == {"idle", "next", "paging", "calling", "landing", "landed", "publishing", "closing"}

\* The types, of which the plan's is that it is well cut.
TypeOK ==
  /\ scope \in Scope /\ before \in {Backfilled, [s \in Stream |-> 0]}
  /\ mark \in [Stream -> Nat] /\ cover \in Nat /\ held \in [Stream -> SUBSET Nat]
  /\ DOMAIN run \subseteq Part /\ \A p \in DOMAIN run : run[p] \in RowType
  /\ pc \in Point
  /\ pc # "idle" => /\ end \in Nat /\ WellCut(plan, end)
                    /\ at \in 1..Len(plan) + 1 /\ used \in [1..Len(plan) -> Nat]
                    /\ pc # "next" => at \in 1..Len(plan)

LEMMA BeforeType == TypeOK => before \in [Stream -> Nat]
BY DayAssumption DEF TypeOK, Backfilled

\* Coverage, and with it the start of a window, is a day.
LEMMA CoverageIsDay ==
  ASSUME TypeOK, NEW others \in Nat
  PROVE  Coverage(others) \in Nat
<1>1. ASSUME NEW S \in SUBSET Nat PROVE Least(S) \in Nat
  <2>1. CASE S \ {0} = {}
    BY <2>1 DEF Least
  <2>2. CASE S \ {0} # {}
    <3>1. S \ {0} \in SUBSET Nat
      OBVIOUS
    <3>2. Min(S \ {0}) \in S \ {0}
      BY <2>2, <3>1, MinOfSet
    <3> QED BY <2>2, <3>2 DEF Least
  <2> QED BY <2>1, <2>2
<1>2. {mark[s] : s \in Stream} \cup {others} \in SUBSET Nat
  BY DEF TypeOK
<1>3. {before[s] : s \in Stream} \in SUBSET Nat
  BY BeforeType
<1>4. cover \in Nat
  BY DEF TypeOK
<1> HIDE DEF TypeOK
<1> QED BY <1>1, <1>2, <1>3, <1>4 DEF Coverage

LEMMA StartPlan ==
  ASSUME TypeOK, NEW e \in Since + 1..MaxDay, NEW from \in Nat, NEW others \in Nat,
         Start(e, from, others)
  PROVE  \E start \in 1..e :
           /\ plan' = Partitions(start, e) /\ WellCut(plan', e)
           /\ cover # 0 => start <= cover + 1 \/ start = e
           /\ used' = [i \in 1..Len(plan') |->
                         IF plan'[i] \in DOMAIN run THEN run[plan'[i]].calls ELSE 0]
<1> USE DayAssumption
<1> DEFINE coverage == Coverage(others)
           wanted == Wanted(coverage, from, e)
           start == Min({wanted, e})
<1>1. coverage \in Nat /\ (cover # 0 => coverage = cover)
  BY CoverageIsDay DEF Coverage
<1>2. e \in Nat /\ e > RecentDays + 1 /\ e > 0
  OBVIOUS
<1> HIDE DEF coverage
<1>3. wanted \in Nat \ {0}
  BY <1>1, <1>2 DEF Wanted
<1>4. wanted > e \/ (coverage # 0 => wanted <= coverage + 1)
  BY DEF Start, Allowed, coverage
<1> HIDE DEF wanted
<1>5. start = IF wanted <= e THEN wanted ELSE e
  BY <1>2, <1>3, MinOfTwo
<1>6. start \in 1..e /\ (cover # 0 => start <= cover + 1 \/ start = e)
  BY <1>1, <1>2, <1>3, <1>4, <1>5
<1>7. plan' = Partitions(start, e)
  BY DEF Start, coverage, wanted
<1>8. used' = [i \in DOMAIN plan' |-> IF plan'[i] \in DOMAIN run THEN run[plan'[i]].calls ELSE 0]
  BY DEF Start
<1> HIDE DEF start
<1>9. WellCut(plan', e)
  BY <1>2, <1>6, <1>7, PartitionsWellCut DEF TypeOK
<1>10. DOMAIN plan' = 1..Len(plan')
  BY <1>9, LenProperties DEF WellCut
<1> QED BY <1>6, <1>7, <1>8, <1>9, <1>10

\* The partition a job is at, and its row.
LEMMA HereIsPart ==
  ASSUME TypeOK, pc # "idle", at \in 1..Len(plan)
  PROVE  /\ Here \in Part /\ Row \in RowType /\ Here.first <= Here.last
         /\ Here \in DOMAIN run => Row = run[Here]
<1>1. Here \in Part /\ Here.first <= Here.last
  BY ElementOfSeq DEF TypeOK, WellCut, Here
<1> QED BY <1>1 DEF TypeOK, Row, RowType

LEMMA WriteRow ==
  ASSUME NEW row, Write(row)
  PROVE  /\ DOMAIN run' = DOMAIN run \cup {Here} /\ run'[Here] = row
         /\ \A p \in DOMAIN run : p # Here => run'[p] = run[p]
BY DEF Write

LEMMA WriteType ==
  ASSUME TypeOK, pc # "idle", at \in 1..Len(plan), NEW row \in RowType, Write(row)
  PROVE  DOMAIN run' \subseteq Part /\ \A p \in DOMAIN run' : run'[p] \in RowType
<1>1. Here \in Part
  BY HereIsPart
<1>2. /\ DOMAIN run' = DOMAIN run \cup {Here} /\ run'[Here] = row
      /\ \A p \in DOMAIN run : p # Here => run'[p] = run[p]
  BY WriteRow
<1> QED BY <1>1, <1>2 DEF TypeOK

LEMMA MovedType ==
  ASSUME TypeOK, NEW p \in Part
  PROVE  Moved(p) \in [Stream -> Nat] /\ Current(p) \in Nat
<1>1. p.stream \in Stream /\ p.last \in Nat
  BY DEF Part
<1> QED BY <1>1, BeforeType DEF TypeOK, Moved, Current

\* What a step that stays with its plan has to keep.
LEMMA PlanKept ==
  ASSUME TypeOK, pc # "idle", UNCHANGED <<scope, end, plan>>,
         at' \in 1..Len(plan) + 1, used' \in [1..Len(plan) -> Nat]
  PROVE  end' \in Nat /\ WellCut(plan, end)' /\ at' \in 1..Len(plan') + 1
         /\ used' \in [1..Len(plan') -> Nat]
BY DEF TypeOK, WellCut, Reaching

THEOREM TypeCorrect == Spec => []TypeOK
<1>1. Init => TypeOK
  BY DEF Init, TypeOK, Point
<1>2. TypeOK /\ [Next]_vars => TypeOK'
  <2> SUFFICES ASSUME TypeOK, [Next]_vars PROVE TypeOK'
    OBVIOUS
  <2> USE DEF given, rows, GoOn, Leave, NextOne, Point
  <2>1. ASSUME NEW e \in Since + 1..MaxDay, NEW from \in 0..MaxDay + 1, NEW others \in 0..MaxDay,
               Start(e, from, others)
        PROVE  TypeOK'
    <3>1. e \in Nat /\ from \in Nat /\ others \in Nat
      BY DayAssumption
    <3>2. /\ WellCut(plan', e)
          /\ used' = [i \in 1..Len(plan') |->
                        IF plan'[i] \in DOMAIN run THEN run[plan'[i]].calls ELSE 0]
      BY <2>1, <3>1, StartPlan
    <3>3. WellCut(plan, end)'
      <4>1. end' = e /\ UNCHANGED scope
        BY <2>1 DEF Start
      <4> QED BY <3>2, <4>1 DEF WellCut, Reaching
    <3>4. used' \in [1..Len(plan') -> Nat]
      BY <3>2 DEF TypeOK, RowType
    <3>5. at' = 1 /\ Len(plan') \in Nat
      BY <2>1, <3>2 DEF Start, WellCut
    <3>6. at' \in 1..Len(plan') + 1
      BY <3>5
    <3>7. /\ UNCHANGED <<scope, before, mark, cover, run, held>>
          /\ pc' = "next" /\ end' = e
      BY <2>1 DEF Start
    <3> QED BY <3>1, <3>3, <3>4, <3>6, <3>7 DEF TypeOK
  <2> DEFINE Kept == /\ end' \in Nat /\ WellCut(plan, end)'
                     /\ at' \in 1..Len(plan') + 1 /\ used' \in [1..Len(plan') -> Nat]
                     /\ pc' # "next" => at' \in 1..Len(plan')
             RowsKept == DOMAIN run' \subseteq Part /\ \A p \in DOMAIN run' : run'[p] \in RowType
             At == pc # "idle" /\ at \in 1..Len(plan) /\ Len(plan) \in Nat
  <2>a. ASSUME At, UNCHANGED <<scope, end, plan>>, used' \in [1..Len(plan) -> Nat],
               at' = at \/ (at' = at + 1 /\ pc' = "next")
        PROVE  Kept
    <3>1. at' \in 1..Len(plan) + 1
      BY <2>a
    <3>2. pc' # "next" => at' \in 1..Len(plan)
      BY <2>a
    <3> QED BY <2>a, <3>1, <3>2, PlanKept
  <2>b. At => Here \in Part /\ Row \in RowType
    BY HereIsPart
  <2>c. pc \notin {"idle", "next"} => At
    BY DEF TypeOK, WellCut
  <2>d. At => used \in [1..Len(plan) -> Nat]
    BY DEF TypeOK
  <2>2. CASE Open
    <3>1. At
      BY <2>2 DEF Open, TypeOK, WellCut
    <3>2. RowsKept
      BY <2>2, <2>b, <3>1, WriteType DEF Open, TypeOK
    <3>3. UNCHANGED <<scope, before, mark, cover, held, end, plan, used>>
      BY <2>2 DEF Open
    <3>4. pc' \in Point /\ (at' = at \/ (at' = at + 1 /\ pc' = "next"))
      BY <2>2 DEF Open
    <3>5. Kept
      BY <2>a, <2>d, <3>1, <3>3, <3>4
    <3> QED BY <3>2, <3>3, <3>4, <3>5 DEF TypeOK
  <2>3. CASE Reserve
    <3>1. At
      BY <2>3, <2>c DEF Reserve
    <3>2. UNCHANGED <<scope, before, mark, cover, held>>
      BY <2>3 DEF Reserve
    <3>3. CASE used[at] = PageLimit
      BY <2>3, <3>2, <3>3 DEF Reserve, TypeOK
    <3>4. CASE used[at] # PageLimit
      <4>1. used[at] + 1 \in Nat
        BY <2>d, <3>1
      <4>2. [Row EXCEPT !.calls = used[at] + 1] \in RowType
        BY <2>b, <3>1, <4>1 DEF RowType
      <4>3. RowsKept
        BY <2>3, <3>1, <3>4, <4>2, WriteType DEF Reserve
      <4>4. used' \in [1..Len(plan) -> Nat]
        BY <2>3, <2>d, <3>1, <3>4, <4>1 DEF Reserve
      <4>5. pc' = "calling" /\ UNCHANGED <<end, plan, at>>
        BY <2>3, <3>4 DEF Reserve
      <4>6. Kept
        BY <2>a, <3>1, <3>2, <4>4, <4>5
      <4> QED BY <3>2, <4>3, <4>5, <4>6 DEF TypeOK
    <3> QED BY <3>3, <3>4
  <2>4. CASE Call
    <3>1. At
      BY <2>4, <2>c DEF Call
    <3>2. UNCHANGED <<scope, before, mark, cover, held>>
      BY <2>4 DEF Call
    <3>3. [Row EXCEPT !.asked = @ + 1] \in RowType
      BY <2>b, <3>1 DEF RowType
    <3>4. RowsKept
      BY <2>4, <3>1, <3>3, WriteType DEF Call
    <3>5. CASE pc' = "idle"
      BY <3>2, <3>4, <3>5 DEF TypeOK
    <3>6. CASE pc' # "idle"
      <4>1. pc' \in {"landing", "paging"} /\ UNCHANGED <<end, plan, at, used>>
        BY <2>4, <3>6 DEF Call
      <4>2. Kept
        BY <2>a, <2>d, <3>1, <3>2, <4>1
      <4> QED BY <3>2, <3>4, <4>1, <4>2 DEF TypeOK
    <3> QED BY <3>5, <3>6
  <2>5. CASE Land
    <3>1. At
      BY <2>5, <2>c DEF Land
    <3>2. UNCHANGED <<scope, before, mark, cover, run, end, plan, at, used>> /\ pc' = "landed"
      BY <2>5 DEF Land
    <3>3. held' \in [Stream -> SUBSET Nat]
      <4>1. Here.first..Here.last \subseteq Nat
        BY <2>b, <3>1 DEF Part
      <4> QED BY <2>5, <4>1 DEF Land, TypeOK
    <3>4. Kept
      BY <2>a, <2>d, <3>1, <3>2
    <3> QED BY <3>2, <3>3, <3>4 DEF TypeOK
  <2>6. CASE EndCollect
    <3>1. At
      BY <2>6, <2>c DEF EndCollect
    <3>2. UNCHANGED <<scope, before, mark, cover, held, end, plan, at, used>> /\ pc' = "publishing"
      BY <2>6 DEF EndCollect
    <3>3. [Row EXCEPT !.stage = "publish"] \in RowType
      BY <2>b, <3>1 DEF RowType
    <3>4. RowsKept
      BY <2>6, <3>1, <3>3, WriteType DEF EndCollect
    <3>5. Kept
      BY <2>a, <2>d, <3>1, <3>2
    <3> QED BY <3>2, <3>4, <3>5 DEF TypeOK
  <2>7. CASE Publish
    <3>1. At
      BY <2>7, <2>c DEF Publish
    <3>2. UNCHANGED <<scope, before, cover, run, held>>
      BY <2>7 DEF Publish
    <3>3. CASE Gap(Here)
      BY <2>7, <3>2, <3>3 DEF Publish, TypeOK
    <3>4. CASE ~Gap(Here)
      <4>1. mark' = Moved(Here) /\ pc' = "closing" /\ UNCHANGED <<end, plan, at, used>>
        BY <2>7, <3>4 DEF Publish
      <4>2. mark' \in [Stream -> Nat]
        BY <2>b, <3>1, <4>1, MovedType
      <4>3. Kept
        BY <2>a, <2>d, <3>1, <3>2, <4>1
      <4> QED BY <3>2, <4>1, <4>2, <4>3 DEF TypeOK
    <3> QED BY <3>3, <3>4
  <2>8. CASE CloseRun
    <3>1. At
      BY <2>8, <2>c DEF CloseRun
    <3>2. /\ UNCHANGED <<scope, before, mark, cover, held, end, plan, used>>
          /\ pc' = "next" /\ at' = at + 1
      BY <2>8 DEF CloseRun
    <3>3. [Row EXCEPT !.stage = "done"] \in RowType
      BY <2>b, <3>1 DEF RowType
    <3>4. RowsKept
      BY <2>8, <3>1, <3>3, WriteType DEF CloseRun
    <3>5. Kept
      BY <2>a, <2>d, <3>1, <3>2
    <3> QED BY <3>2, <3>4, <3>5 DEF TypeOK
  <2>9. CASE Cover
    BY <2>9 DEF Cover, TypeOK, Larger
  <2>10. CASE Fail
    BY <2>10 DEF Fail, TypeOK
  <2>11. CASE UNCHANGED vars
    BY <2>11 DEF vars, TypeOK, WellCut, Reaching
  <2> QED BY <2>1, <2>2, <2>3, <2>4, <2>5, <2>6, <2>7, <2>8, <2>9, <2>10, <2>11 DEF Next
<1> QED BY <1>1, <1>2, PTL DEF Spec

-----------------------------------------------------------------------------
CallsIn(r, p) == IF p \in DOMAIN r THEN r[p].calls ELSE 0

\* What a job has in memory is what the rows of its partitions say, and a page
\* is counted before it is asked for.
Counted ==
  /\ CallsCounted
  /\ pc # "idle" => \A i \in 1..Len(plan) : used[i] = CallsIn(run, plan[i])
  /\ pc \notin {"idle", "next"} => Here \in DOMAIN run
  /\ pc = "calling" => run[Here].asked < run[Here].calls

\* A write to the row of one partition leaves the calls of the others alone.
LEMMA OthersUncounted ==
  ASSUME TypeOK, pc # "idle", at \in 1..Len(plan), NEW row \in RowType, Write(row)
  PROVE  /\ CallsIn(run', Here) = row.calls
         /\ \A i \in 1..Len(plan) : i # at => CallsIn(run', plan[i]) = CallsIn(run, plan[i])
<1>1. /\ DOMAIN run' = DOMAIN run \cup {Here} /\ run'[Here] = row
      /\ \A p \in DOMAIN run : p # Here => run'[p] = run[p]
  BY WriteRow
<1>2. \A i \in 1..Len(plan) : i # at => plan[i] # Here
  BY DEF TypeOK, WellCut, Here
<1> QED BY <1>1, <1>2 DEF CallsIn

LEMMA CountedWrite ==
  ASSUME TypeOK, Counted, pc # "idle", at \in 1..Len(plan), NEW row \in RowType, Write(row),
         row.asked <= row.calls, row.calls <= PageLimit
  PROVE  CallsCounted'
<1>1. /\ DOMAIN run' = DOMAIN run \cup {Here} /\ run'[Here] = row
      /\ \A p \in DOMAIN run : p # Here => run'[p] = run[p]
  BY WriteRow
<1> QED BY <1>1 DEF Counted, CallsCounted

\* Counts stay what they are when the rows and the memory of the job do.
LEMMA CountedQuiet ==
  ASSUME TypeOK, Counted, UNCHANGED run, pc' # "calling",
         pc' = "idle" \/ (pc # "idle" /\ UNCHANGED <<plan, used>>),
         pc' \notin {"idle", "next"} => pc \notin {"idle", "next"} /\ UNCHANGED at
  PROVE  Counted'
<1>1. CallsCounted'
  BY DEF Counted, CallsCounted
<1>2. pc' # "idle" => \A i \in 1..Len(plan') : used'[i] = CallsIn(run', plan'[i])
  BY DEF Counted
<1>3. pc' \notin {"idle", "next"} => Here' \in DOMAIN run'
  BY DEF Counted, Here
<1> QED BY <1>1, <1>2, <1>3 DEF Counted

LEMMA NextCounted == TypeOK /\ Counted /\ [Next]_vars => Counted'
<1> SUFFICES ASSUME TypeOK, Counted, [Next]_vars PROVE Counted'
  OBVIOUS
<1> USE CallAssumption DEF given, rows, GoOn, Leave, NextOne
<1> DEFINE At == pc # "idle" /\ at \in 1..Len(plan)
<1>a. pc \notin {"idle", "next"} => At
  BY DEF TypeOK
<1>b. At => Row \in RowType /\ (Here \in DOMAIN run => Row = run[Here])
  BY HereIsPart
<1>c. At => used[at] = CallsIn(run, Here) /\ used \in [1..Len(plan) -> Nat]
  BY DEF Counted, Here, TypeOK
<1>d. At => /\ Row.asked \in Nat /\ Row.calls \in Nat
            /\ Row.asked <= Row.calls /\ Row.calls <= PageLimit /\ Row.calls = used[at]
  <2> SUFFICES ASSUME At PROVE /\ Row.asked \in Nat /\ Row.calls \in Nat
                               /\ Row.asked <= Row.calls /\ Row.calls <= PageLimit /\ Row.calls = used[at]
    OBVIOUS
  <2>1. Row \in RowType
    BY <1>b
  <2>2. CASE Here \in DOMAIN run
    BY <1>b, <1>c, <2>1, <2>2 DEF Counted, CallsCounted, CallsIn, RowType
  <2>3. CASE Here \notin DOMAIN run
    BY <1>c, <2>3 DEF Row, CallsIn
  <2> QED BY <2>2, <2>3
\* A write of a row that keeps its calls, in a job that stays with its plan.
<1>e. ASSUME At, NEW row \in RowType, Write(row), row.calls = Row.calls, row.asked <= row.calls,
             UNCHANGED <<plan, used>>, pc' # "calling",
             pc' \in {"idle", "next"} \/ UNCHANGED at
      PROVE  Counted'
  <2>1. CallsCounted'
    BY <1>d, <1>e, CountedWrite
  <2>2. \A i \in 1..Len(plan) : used[i] = CallsIn(run', plan[i])
    <3>1. /\ CallsIn(run', Here) = row.calls
          /\ \A i \in 1..Len(plan) : i # at => CallsIn(run', plan[i]) = CallsIn(run, plan[i])
      BY <1>e, OthersUncounted
    <3> QED BY <1>d, <1>e, <3>1 DEF Counted, Here
  <2>3. pc' \notin {"idle", "next"} => Here' \in DOMAIN run'
    <3>1. Here \in DOMAIN run'
      BY <1>e, WriteRow
    <3> QED BY <1>e, <3>1 DEF Here
  <2> QED BY <1>e, <2>1, <2>2, <2>3 DEF Counted
<1>1. ASSUME NEW e \in Since + 1..MaxDay, NEW from \in 0..MaxDay + 1, NEW others \in 0..MaxDay,
             Start(e, from, others)
      PROVE  Counted'
  <2>1. e \in Nat /\ from \in Nat /\ others \in Nat
    BY DayAssumption
  <2>2. used' = [i \in 1..Len(plan') |-> IF plan'[i] \in DOMAIN run THEN run[plan'[i]].calls ELSE 0]
    BY <1>1, <2>1, StartPlan
  <2>3. UNCHANGED run /\ pc' = "next"
    BY <1>1 DEF Start
  <2> QED BY <2>2, <2>3 DEF Counted, CallsCounted, CallsIn
<1>2. CASE Open
  <2>1. At
    BY <1>2 DEF Open, TypeOK, WellCut
  <2>2. CASE Row.stage = "done"
    BY <1>2, <2>2, CountedQuiet DEF Open
  <2>3. CASE Row.stage # "done"
    <3>1. Write(Row) /\ UNCHANGED <<plan, used, at>> /\ pc' # "calling"
      BY <1>2, <2>3 DEF Open
    <3> QED BY <1>b, <1>d, <1>e, <2>1, <3>1
  <2> QED BY <2>2, <2>3
<1>3. CASE Reserve
  <2>1. At
    BY <1>3, <1>a DEF Reserve
  <2>2. CASE used[at] = PageLimit
    BY <1>3, <2>2, CountedQuiet DEF Reserve
  <2>3. CASE used[at] # PageLimit
    <3> DEFINE row == [Row EXCEPT !.calls = used[at] + 1]
    <3>1. used[at] \in Nat /\ used[at] + 1 <= PageLimit
      BY <1>d, <2>1, <2>3
    <3>2. /\ row \in RowType /\ row.calls = used[at] + 1 /\ row.asked = Row.asked
          /\ row.asked < row.calls
      BY <1>b, <1>d, <2>1, <3>1 DEF RowType
    <3>3. /\ Write(row) /\ UNCHANGED <<plan, at>> /\ pc' = "calling"
          /\ used' = [used EXCEPT ![at] = @ + 1]
      BY <1>3, <2>3 DEF Reserve
    <3> HIDE DEF row
    <3>4. CallsCounted'
      BY <2>1, <3>1, <3>2, <3>3, <1>d, CountedWrite
    <3>5. Here' = Here /\ run'[Here] = row /\ Here \in DOMAIN run'
      BY <3>3, WriteRow DEF Here
    <3>6. \A i \in 1..Len(plan) : used'[i] = CallsIn(run', plan[i])
      <4>1. /\ CallsIn(run', Here) = row.calls
            /\ \A i \in 1..Len(plan) : i # at => CallsIn(run', plan[i]) = CallsIn(run, plan[i])
        BY <2>1, <3>2, <3>3, OthersUncounted
      <4>2. used'[at] = row.calls
        BY <1>c, <2>1, <3>2, <3>3
      <4>3. \A i \in 1..Len(plan) : i # at => used'[i] = used[i]
        BY <1>c, <2>1, <3>3
      <4> QED BY <2>1, <4>1, <4>2, <4>3 DEF Counted, Here
    <3> QED BY <3>2, <3>3, <3>4, <3>5, <3>6 DEF Counted
  <2> QED BY <2>2, <2>3
<1>4. CASE Call
  <2>1. At
    BY <1>4, <1>a DEF Call
  <2> DEFINE row == [Row EXCEPT !.asked = @ + 1]
  <2>2. Row = run[Here] /\ Row.asked < Row.calls
    BY <1>4, <1>b, <2>1 DEF Call, Counted
  <2>3. row \in RowType /\ row.calls = Row.calls /\ row.asked <= row.calls
    BY <1>b, <1>d, <2>1, <2>2 DEF RowType
  <2>4. Write(row) /\ pc' # "calling"
    BY <1>4 DEF Call
  <2> HIDE DEF row
  <2>5. CASE pc' = "idle"
    <3>1. CallsCounted'
      BY <1>d, <2>1, <2>3, <2>4, CountedWrite
    <3> QED BY <2>5, <3>1 DEF Counted
  <2>6. CASE pc' # "idle"
    <3>1. UNCHANGED <<plan, used, at>>
      BY <1>4, <2>6 DEF Call
    <3> QED BY <1>e, <2>1, <2>3, <2>4, <3>1
  <2> QED BY <2>5, <2>6
<1>5. CASE Land
  BY <1>5, CountedQuiet DEF Land
<1>6. CASE EndCollect
  <2>1. At
    BY <1>6, <1>a DEF EndCollect
  <2> DEFINE row == [Row EXCEPT !.stage = "publish"]
  <2>2. row \in RowType /\ row.calls = Row.calls /\ row.asked <= row.calls
    BY <1>b, <1>d, <2>1 DEF RowType
  <2>3. Write(row) /\ pc' = "publishing" /\ UNCHANGED <<plan, used, at>>
    BY <1>6 DEF EndCollect
  <2> HIDE DEF row
  <2> QED BY <1>e, <2>1, <2>2, <2>3
<1>7. CASE Publish
  BY <1>7, CountedQuiet DEF Publish
<1>8. CASE CloseRun
  <2>1. At
    BY <1>8, <1>a DEF CloseRun
  <2> DEFINE row == [Row EXCEPT !.stage = "done"]
  <2>2. row \in RowType /\ row.calls = Row.calls /\ row.asked <= row.calls
    BY <1>b, <1>d, <2>1 DEF RowType
  <2>3. Write(row) /\ pc' = "next" /\ UNCHANGED <<plan, used>>
    BY <1>8 DEF CloseRun
  <2> HIDE DEF row
  <2> QED BY <1>e, <2>1, <2>2, <2>3
<1>9. CASE Cover \/ Fail
  BY <1>9, CountedQuiet DEF Cover, Fail
<1>10. CASE UNCHANGED vars
  <2>1. UNCHANGED <<run, pc, plan, used, at>>
    BY <1>10 DEF vars
  <2> QED BY <2>1 DEF Counted, CallsCounted, Here
<1> QED BY <1>1, <1>2, <1>3, <1>4, <1>5, <1>6, <1>7, <1>8, <1>9, <1>10 DEF Next

\* No page is asked for that is not counted, and none beyond the limit, over
\* all the jobs that work on a partition.
THEOREM Counts == Spec => []CallsCounted
<1>1. Init => Counted
  BY DEF Init, Counted, CallsCounted
<1>2. Counted => CallsCounted
  BY DEF Counted
<1> QED BY <1>1, <1>2, NextCounted, TypeCorrect, PTL DEF Spec

-----------------------------------------------------------------------------
Days(p) == p.first..p.last

\* The watermark of a stream, which is what Current says of its partitions.
Reach(s) == IF mark[s] # 0 THEN mark[s] ELSE before[s]

\* A row that is past its collection has its days landed, and one that has
\* succeeded is behind the watermark of its stream.
RowsTrue ==
  \A p \in DOMAIN run :
    /\ run[p].stage # "collect" => Days(p) \subseteq held[p.stream]
    /\ run[p].stage = "done" => p.last <= Reach(p.stream)

\* The first n partitions have succeeded.
AllDone(r, parts, n) == \A i \in 1..n : parts[i] \in DOMAIN r /\ r[parts[i]].stage = "done"

\* The job is where its partitions let it be.
JobTrue ==
  /\ pc # "idle" => AllDone(run, plan, at - 1)
  /\ pc \in {"landed", "publishing", "closing"} => Days(Here) \subseteq held[Here.stream]
  /\ pc = "closing" => Here.last <= Reach(Here.stream)

\* Every stream that windows are collected up to is past the coverage row, and
\* after a backfill no day of a stream up to its watermark is missing.
Reached == cover # 0 => \A s \in Reaching : cover <= Reach(s)
Filled == before = Backfilled => \A s \in Stream : \A d \in before[s] + 1..Reach(s) : d \in held[s]

Progress == RowsTrue /\ JobTrue /\ Reached /\ Filled

LEMMA ReachType == TypeOK => \A s \in Stream : Reach(s) \in Nat
BY BeforeType DEF TypeOK, Reach

\* A write of the row of the partition at hand keeps the rows true when the
\* stage it enters is earned.
LEMMA WriteTrue ==
  ASSUME TypeOK, RowsTrue, pc # "idle", at \in 1..Len(plan), AllDone(run, plan, at - 1),
         NEW row \in RowType, Write(row), UNCHANGED <<before, mark, held>>,
         row.stage # Row.stage => Days(Here) \subseteq held[Here.stream],
         row.stage # Row.stage /\ row.stage = "done" => Here.last <= Reach(Here.stream)
  PROVE  /\ RowsTrue' /\ AllDone(run', plan, at - 1)
         /\ row.stage = "done" => AllDone(run', plan, at)
<1>1. /\ DOMAIN run' = DOMAIN run \cup {Here} /\ run'[Here] = row
      /\ \A p \in DOMAIN run : p # Here => run'[p] = run[p]
  BY WriteRow
<1>2. /\ Here \in DOMAIN run => Row = run[Here]
      /\ Here \notin DOMAIN run => Row.stage = "collect"
  BY DEF Row
<1>3. RowsTrue'
  <2> SUFFICES ASSUME NEW p \in DOMAIN run'
               PROVE  /\ run'[p].stage # "collect" => Days(p) \subseteq held[p.stream]
                      /\ run'[p].stage = "done" => p.last <= Reach(p.stream)
    BY DEF RowsTrue, Days, Reach
  <2>1. CASE p # Here
    BY <1>1, <2>1 DEF RowsTrue
  <2>2. CASE p = Here
    <3>1. CASE row.stage = Row.stage
      BY <1>1, <1>2, <2>2, <3>1 DEF RowsTrue
    <3>2. CASE row.stage # Row.stage
      BY <1>1, <2>2, <3>2
    <3> QED BY <3>1, <3>2
  <2> QED BY <2>1, <2>2
<1>4. AllDone(run', plan, at - 1)
  <2> SUFFICES ASSUME NEW i \in 1..at - 1
               PROVE  plan[i] \in DOMAIN run' /\ run'[plan[i]].stage = "done"
    BY DEF AllDone
  <2>1. i \in 1..Len(plan) /\ i # at
    BY DEF TypeOK, WellCut
  <2>2. plan[i] # Here
    BY <2>1 DEF TypeOK, WellCut, Here
  <2>3. plan[i] \in DOMAIN run /\ run[plan[i]].stage = "done"
    BY DEF AllDone
  <2> QED BY <1>1, <2>2, <2>3
<1>5. ASSUME row.stage = "done" PROVE AllDone(run', plan, at)
  <2>1. \A i \in 1..at : i \in 1..at - 1 \/ i = at
    OBVIOUS
  <2> QED BY <1>1, <1>4, <1>5, <2>1 DEF AllDone, Here
<1> QED BY <1>3, <1>4, <1>5

\* What is landed and how far the streams have come only grows; with it grows
\* what the rows and the coverage row say.
LEMMA GrowTrue ==
  ASSUME TypeOK, TypeOK', RowsTrue, UNCHANGED <<scope, run, cover>>,
         \A s \in Stream : held[s] \subseteq held'[s] /\ Reach(s) <= Reach(s)'
  PROVE  RowsTrue' /\ (Reached => Reached')
<1>1. \A s \in Stream : Reach(s) \in Nat /\ Reach(s)' \in Nat
  <2>1. TypeOK' => (\A s \in Stream : Reach(s) \in Nat)'
    BY ReachType, PTL
  <2> QED BY <2>1, ReachType
<1>2. cover \in Nat /\ Reaching \subseteq Stream /\ UNCHANGED Reaching
  BY DEF TypeOK, Reaching, Stream
<1>3. \A p \in DOMAIN run : p.stream \in Stream /\ p.last \in Nat
  BY DEF TypeOK, Part
<1> QED BY <1>1, <1>2, <1>3 DEF RowsTrue, Reached, Days

\* How far the streams are after a publication that is not refused.
LEMMA MovedReach ==
  ASSUME TypeOK, NEW p \in Part, ~Gap(p), mark' = Moved(p), UNCHANGED before
  PROVE  /\ \A s \in Stream : Reach(s) <= Reach(s)' /\ Reach(s)' \in Nat
         /\ p.last <= Reach(p.stream)'
         /\ \A s \in Stream : \/ Reach(s)' = Reach(s)
                              \/ /\ s = p.stream /\ Reach(s)' = p.last
                                 /\ Reach(s) # 0 => p.first <= Reach(s) + 1
<1>1. /\ p.stream \in Stream /\ p.last \in Nat \ {0} /\ p.first \in Nat
      /\ Current(p) = Reach(p.stream)
  BY DEF Part, Current, Reach
<1>2. \A s \in Stream : Reach(s) \in Nat
  BY ReachType
<1>3. mark \in [Stream -> Nat]
  BY DEF TypeOK
<1>4. CASE p.last <= Current(p)
  <2>1. mark' = mark
    BY <1>1, <1>3, <1>4 DEF Moved
  <2> QED BY <1>1, <1>2, <1>4, <2>1 DEF Reach
<1>5. CASE ~(p.last <= Current(p))
  <2>1. mark' = [mark EXCEPT ![p.stream] = p.last]
    BY <1>5 DEF Moved
  <2>2. mark'[p.stream] = p.last /\ \A s \in Stream : s # p.stream => mark'[s] = mark[s]
    BY <1>1, <1>3, <2>1
  <2>3. Reach(p.stream)' = p.last /\ \A s \in Stream : s # p.stream => Reach(s)' = Reach(s)
    BY <1>1, <2>2 DEF Reach
  <2>4. Reach(p.stream) # 0 => p.first <= Reach(p.stream) + 1
    BY <1>1, <1>2, <1>5 DEF Gap
  <2> QED BY <1>1, <1>2, <1>5, <2>3, <2>4
<1> QED BY <1>4, <1>5

\* The days up to a watermark stay landed when a partition moves it.
LEMMA MovedFilled ==
  ASSUME TypeOK, Filled, NEW p \in Part, ~Gap(p), mark' = Moved(p), UNCHANGED <<before, held>>,
         Days(p) \subseteq held[p.stream]
  PROVE  Filled'
<1> SUFFICES ASSUME before = Backfilled, NEW s \in Stream, NEW d \in before[s] + 1..Reach(s)'
             PROVE  d \in held[s]
  BY DEF Filled
<1>1. before[s] \in Nat \ {0}
  BY DayAssumption DEF Backfilled
<1>2. Reach(s) \in Nat /\ Reach(s) # 0
  BY <1>1, ReachType DEF Reach, TypeOK
<1>3. d \in Int /\ (d <= Reach(s) => d \in held[s])
  BY <1>1, <1>2 DEF Filled
<1>4. p.first \in Nat /\ p.last \in Nat
  BY DEF Part
<1>5. \/ Reach(s)' = Reach(s)
      \/ s = p.stream /\ Reach(s)' = p.last /\ p.first <= Reach(s) + 1
  BY <1>2, MovedReach
<1>6. CASE Reach(s)' = Reach(s)
  BY <1>1, <1>2, <1>3, <1>6
<1>7. CASE s = p.stream /\ Reach(s)' = p.last /\ p.first <= Reach(s) + 1
  <2>1. d <= Reach(s) \/ d \in Days(p)
    BY <1>1, <1>2, <1>3, <1>4, <1>7 DEF Days
  <2> QED BY <1>3, <1>7, <2>1
<1> QED BY <1>5, <1>6, <1>7

LEMMA NextProgress == TypeOK /\ TypeOK' /\ Progress /\ [Next]_vars => Progress'
<1> SUFFICES ASSUME TypeOK, TypeOK', Progress, [Next]_vars PROVE Progress'
  OBVIOUS
<1> USE DEF Progress, given, rows, GoOn, Leave, NextOne
<1> DEFINE At == pc # "idle" /\ at \in 1..Len(plan)
<1>a. pc \notin {"idle", "next"} => At
  BY DEF TypeOK
<1>b. At => /\ Here \in Part /\ Here.stream \in Stream /\ Row \in RowType
            /\ AllDone(run, plan, at - 1)
            /\ Here \in DOMAIN run => Row = run[Here]
            /\ Here \notin DOMAIN run => Row.stage = "collect"
  BY HereIsPart DEF Part, Row, JobTrue
<1>c. at \in Nat \/ pc = "idle"
  BY DEF TypeOK, WellCut
\* What is landed and how far the streams are is left alone, and the days before
\* the job with it.
<1>d. ASSUME UNCHANGED <<scope, before, mark, held, cover>> PROVE Reached' /\ Filled'
  BY <1>d DEF Reached, Filled, Reach, Reaching
<1>e. ASSUME UNCHANGED <<before, mark, held, run>> PROVE RowsTrue'
  BY <1>e DEF RowsTrue, Reach
\* A job that has ended has nothing to be true of.
<1>f. ASSUME pc' = "idle" PROVE JobTrue'
  BY <1>f DEF JobTrue
\* A write of a row, of a job that stays at its partition or goes to the next.
<1>g. ASSUME At, NEW row \in RowType, Write(row), UNCHANGED <<before, mark, held, plan>>,
             row.stage # Row.stage => Days(Here) \subseteq held[Here.stream],
             row.stage # Row.stage /\ row.stage = "done" => Here.last <= Reach(Here.stream),
             \/ UNCHANGED at
             \/ at' = at + 1 /\ row.stage = "done" /\ pc' = "next",
             pc' \in {"landed", "publishing"} => Days(Here) \subseteq held[Here.stream],
             pc' # "closing"
      PROVE  RowsTrue' /\ JobTrue'
  <2>1. /\ RowsTrue' /\ AllDone(run', plan, at - 1)
        /\ row.stage = "done" => AllDone(run', plan, at)
    BY <1>b, <1>g, WriteTrue
  <2>2. AllDone(run', plan', at' - 1)
    <3>1. at + 1 - 1 = at
      BY <1>g
    <3> QED BY <1>g, <2>1, <3>1
  <2>3. pc' \in {"landed", "publishing"} => Here' = Here
    BY <1>g DEF Here
  <2> QED BY <1>g, <2>1, <2>2, <2>3 DEF JobTrue, Days
<1>1. ASSUME NEW e \in Since + 1..MaxDay, NEW from \in 0..MaxDay + 1, NEW others \in 0..MaxDay,
             Start(e, from, others)
      PROVE  Progress'
  <2>1. /\ UNCHANGED <<scope, before, mark, held, cover, run>> /\ pc' = "next" /\ at' = 1
    BY <1>1 DEF Start
  <2>2. JobTrue'
    BY <2>1 DEF JobTrue, AllDone
  <2> QED BY <1>d, <1>e, <2>1, <2>2
<1>2. CASE Open
  <2>1. At
    BY <1>2 DEF Open, TypeOK, WellCut
  <2>2. UNCHANGED <<scope, before, mark, held, cover, plan>>
    BY <1>2 DEF Open
  <2>3. CASE Row.stage = "done"
    <3>1. UNCHANGED run /\ at' = at + 1 /\ pc' = "next"
      BY <1>2, <2>3 DEF Open
    <3>2. AllDone(run, plan, at)
      <4>1. \A i \in 1..at : i \in 1..at - 1 \/ i = at
        BY <2>1
      <4> QED BY <1>b, <2>1, <2>3, <4>1 DEF AllDone, Here
    <3>3. AllDone(run', plan', at' - 1)
      <4>1. at \in Int
        BY <2>1
      <4>2. at' - 1 = at
        BY <3>1, <4>1
      <4> QED BY <2>2, <3>1, <3>2, <4>2 DEF AllDone
    <3>4. JobTrue'
      BY <3>1, <3>3 DEF JobTrue
    <3> QED BY <1>d, <1>e, <2>2, <3>1, <3>4
  <2>4. CASE Row.stage # "done"
    <3>1. /\ Write(Row) /\ UNCHANGED at
          /\ pc' = IF Row.stage = "collect" THEN "paging" ELSE "publishing"
      BY <1>2, <2>4 DEF Open
    <3>2. Row.stage # "collect" => Days(Here) \subseteq held[Here.stream]
      BY <1>b, <2>1 DEF RowsTrue
    <3>3. RowsTrue' /\ JobTrue'
      BY <1>b, <1>g, <2>1, <2>2, <3>1, <3>2
    <3> QED BY <1>d, <2>2, <3>3
  <2> QED BY <2>3, <2>4
<1>3. CASE Reserve
  <2>1. At
    BY <1>3, <1>a DEF Reserve
  <2>2. UNCHANGED <<scope, before, mark, held, cover>>
    BY <1>3 DEF Reserve
  <2>3. CASE used[at] = PageLimit
    BY <1>3, <1>d, <1>e, <1>f, <2>2, <2>3 DEF Reserve
  <2>4. CASE used[at] # PageLimit
    <3> DEFINE row == [Row EXCEPT !.calls = used[at] + 1]
    <3>1. row \in RowType /\ row.stage = Row.stage
      <4>1. used[at] + 1 \in Nat
        <5>1. used \in [1..Len(plan) -> Nat]
          BY <2>1 DEF TypeOK
        <5> QED BY <2>1, <5>1
      <4> QED BY <1>b, <2>1, <4>1 DEF RowType
    <3>2. Write(row) /\ UNCHANGED <<plan, at>> /\ pc' = "calling"
      BY <1>3, <2>4 DEF Reserve
    <3> HIDE DEF row
    <3> QED BY <1>d, <1>g, <2>1, <2>2, <3>1, <3>2
  <2> QED BY <2>3, <2>4
<1>4. CASE Call
  <2>1. At
    BY <1>4, <1>a DEF Call
  <2>2. UNCHANGED <<scope, before, mark, held, cover>>
    BY <1>4 DEF Call
  <2> DEFINE row == [Row EXCEPT !.asked = @ + 1]
  <2>3. row \in RowType /\ row.stage = Row.stage /\ Write(row)
    BY <1>4, <1>b, <2>1 DEF Call, RowType
  <2> HIDE DEF row
  <2>4. CASE pc' = "idle"
    <3>1. RowsTrue'
      BY <1>b, <2>1, <2>2, <2>3, WriteTrue
    <3> QED BY <1>d, <1>f, <2>2, <2>4, <3>1
  <2>5. CASE pc' # "idle"
    <3>1. UNCHANGED <<plan, at>> /\ pc' \in {"landing", "paging"}
      BY <1>4, <2>5 DEF Call
    <3> QED BY <1>d, <1>g, <2>1, <2>2, <2>3, <3>1
  <2> QED BY <2>4, <2>5
<1>5. CASE Land
  <2>1. At
    BY <1>5, <1>a DEF Land
  <2>2. UNCHANGED <<scope, before, mark, cover, run, plan, at>> /\ pc' = "landed"
    BY <1>5 DEF Land
  <2>3. \A s : Reach(s)' = Reach(s)
    BY <2>2 DEF Reach
  <2>4. \A s \in Stream : held[s] \subseteq held'[s]
    BY <1>5, <1>b, <2>1 DEF Land, TypeOK
  <2>5. Days(Here) \subseteq held'[Here.stream]
    BY <1>5, <1>b, <2>1 DEF Land, TypeOK, Days
  <2>6. \A s \in Stream : Reach(s) <= Reach(s)'
    BY <2>3, ReachType
  <2>7. RowsTrue' /\ Reached'
    BY <2>2, <2>4, <2>6, GrowTrue
  <2>8. Filled'
    BY <2>2, <2>3, <2>4 DEF Filled
  <2>9. JobTrue'
    BY <2>1, <2>2, <2>5 DEF JobTrue, Here, Days
  <2> QED BY <2>7, <2>8, <2>9
<1>6. CASE EndCollect
  <2>1. At /\ Days(Here) \subseteq held[Here.stream]
    BY <1>6, <1>a DEF EndCollect, JobTrue
  <2> DEFINE row == [Row EXCEPT !.stage = "publish"]
  <2>2. row \in RowType /\ row.stage = "publish"
    BY <1>b, <2>1 DEF RowType
  <2>3. /\ Write(row) /\ pc' = "publishing"
        /\ UNCHANGED <<scope, before, mark, held, cover, plan, at>>
    BY <1>6 DEF EndCollect
  <2> HIDE DEF row
  <2> QED BY <1>d, <1>g, <2>1, <2>2, <2>3
<1>7. CASE Publish
  <2>1. At /\ Days(Here) \subseteq held[Here.stream] /\ Here \in Part
    BY <1>7, <1>a, <1>b DEF Publish, JobTrue
  <2>2. UNCHANGED <<scope, before, cover, run, held>>
    BY <1>7 DEF Publish
  <2>3. CASE Gap(Here)
    BY <1>7, <1>d, <1>e, <1>f, <2>2, <2>3 DEF Publish
  <2>4. CASE ~Gap(Here)
    <3>1. mark' = Moved(Here) /\ pc' = "closing" /\ UNCHANGED <<plan, at>>
      BY <1>7, <2>4 DEF Publish
    <3>a. PICK p \in Part : p = Here
      BY <2>1
    <3>2. /\ \A s \in Stream : Reach(s) <= Reach(s)' /\ Reach(s)' \in Nat
          /\ p.last <= Reach(p.stream)'
      BY <2>2, <2>4, <3>1, <3>a, MovedReach
    <3>3. RowsTrue' /\ Reached'
      BY <2>2, <3>2, GrowTrue
    <3>4. Filled'
      BY <2>1, <2>2, <2>4, <3>1, <3>a, MovedFilled
    <3>5. Here' = p
      BY <3>1, <3>a DEF Here
    <3>7. Here'.last <= Reach(Here.stream)'
      BY <3>2, <3>5 DEF Reach
    <3>8. Days(Here)' \subseteq held'[Here'.stream]
      BY <2>1, <2>2, <3>5, <3>a DEF Days
    <3>9. AllDone(run', plan', at' - 1)
      BY <1>b, <2>1, <2>2, <3>1 DEF AllDone
    <3>6. JobTrue'
      BY <3>7, <3>8, <3>9 DEF JobTrue
    <3> QED BY <3>3, <3>4, <3>6
  <2> QED BY <2>3, <2>4
<1>8. CASE CloseRun
  <2>1. /\ At /\ Days(Here) \subseteq held[Here.stream] /\ Here.last <= Reach(Here.stream)
    BY <1>8, <1>a DEF CloseRun, JobTrue
  <2> DEFINE row == [Row EXCEPT !.stage = "done"]
  <2>2. row \in RowType /\ row.stage = "done"
    BY <1>b, <2>1 DEF RowType
  <2>3. /\ Write(row) /\ pc' = "next" /\ at' = at + 1
        /\ UNCHANGED <<scope, before, mark, held, cover, plan>>
    BY <1>8 DEF CloseRun
  <2> HIDE DEF row
  <2> QED BY <1>d, <1>g, <2>1, <2>2, <2>3
<1>9. CASE Cover
  <2>1. /\ UNCHANGED <<scope, before, mark, run, held>> /\ pc' = "idle"
        /\ cover' = Larger(cover, end) /\ pc = "next" /\ at > Len(plan)
    BY <1>9 DEF Cover
  <2>2. /\ WellCut(plan, end) /\ end \in Nat /\ cover \in Nat
        /\ Len(plan) \in Nat /\ at - 1 = Len(plan)
    BY <2>1 DEF TypeOK, WellCut
  <2>3. \A s \in Reaching : end <= Reach(s)
    <3> SUFFICES ASSUME NEW s \in Reaching PROVE end <= Reach(s)
      OBVIOUS
    <3>1. PICK i \in 1..Len(plan) : plan[i].stream = s /\ plan[i].last = end
      BY <2>2 DEF WellCut
    <3>2. plan[i] \in DOMAIN run /\ run[plan[i]].stage = "done"
      BY <2>1, <2>2 DEF JobTrue, AllDone
    <3> QED BY <3>1, <3>2 DEF RowsTrue
  <2>4. \A s \in Reaching : Reach(s)' = Reach(s) /\ UNCHANGED Reaching
    BY <2>1 DEF Reach, Reaching
  <2>5. UNCHANGED Reaching
    BY <2>1 DEF Reaching
  <2>6. \A s \in Reaching : cover' <= Reach(s)
    <3>1. cover' = cover \/ cover' = end
      BY <2>1 DEF Larger
    <3>2. cover = 0 => cover' = end
      BY <2>1, <2>2 DEF Larger
    <3> QED BY <2>3, <3>1, <3>2 DEF Reached
  <2>7. Reached'
    BY <2>4, <2>5, <2>6 DEF Reached
  <2>8. Filled'
    BY <2>1 DEF Filled, Reach
  <2> QED BY <1>e, <1>f, <2>1, <2>7, <2>8
<1>10. CASE Fail
  BY <1>10, <1>d, <1>e, <1>f DEF Fail
<1>11. CASE UNCHANGED vars
  <2>1. UNCHANGED <<scope, before, mark, held, cover, run, pc, plan, at>>
    BY <1>11 DEF vars
  <2>2. JobTrue'
    BY <2>1 DEF JobTrue, Here, Reach
  <2> QED BY <1>d, <1>e, <2>1, <2>2
<1> QED BY <1>1, <1>2, <1>3, <1>4, <1>5, <1>6, <1>7, <1>8, <1>9, <1>10, <1>11 DEF Next

LEMMA ProgressIs == Spec => []Progress
<1>1. Init => Progress
  <2> SUFFICES ASSUME Init PROVE Progress
    OBVIOUS
  <2>1. \A s \in Stream : Reach(s) = before[s]
    BY DEF Init, Reach
  <2>2. Filled
    <3>1. before = Backfilled => before \in [Stream -> Int]
      BY DayAssumption DEF Backfilled
    <3> QED BY <2>1, <3>1 DEF Filled
  <2> QED BY <2>2 DEF Init, Progress, RowsTrue, JobTrue, Reached
<1> QED BY <1>1, NextProgress, TypeCorrect, PTL DEF Spec

\* Where the backfill has been, every day from its end to the coverage row is
\* landed, for whatever windows were collected in whatever order.
THEOREM CoverageCollected == Spec => []CoverageIsCollected
<1>1. TypeOK /\ Progress => CoverageIsCollected
  <2> SUFFICES ASSUME TypeOK, Progress, before = Backfilled, NEW d \in Since + 1..cover
               PROVE  Landed(d)
    BY DEF CoverageIsCollected
  <2>1. /\ Since \in Nat /\ cover \in Nat /\ cover # 0 /\ d \in Nat
        /\ d >= Since + 1 /\ d <= cover
    BY DayAssumption DEF TypeOK
  <2>2. ASSUME NEW s \in Reaching PROVE d \in held[s]
    <3>1. s \in Stream /\ s # "old"
      BY <2>2 DEF Reaching, Stream
    <3>2. before[s] = Since
      BY <3>1 DEF Backfilled
    <3>3. cover <= Reach(s) /\ Reach(s) \in Nat
      BY <2>1, <3>1, ReachType DEF Progress, Reached
    <3>4. d \in before[s] + 1..Reach(s)
      BY <2>1, <3>2, <3>3
    <3> QED BY <3>1, <3>4 DEF Progress, Filled
  <2> QED BY <2>2 DEF Landed, Reaching
<1> QED BY <1>1, ProgressIs, TypeCorrect, PTL

\* A window that goes on from the coverage row is not refused for a gap.
THEOREM NeverRefused == Spec => []ReachIsTaken
<1>1. TypeOK /\ Progress => ReachIsTaken
  <2> SUFFICES ASSUME TypeOK, Progress, pc = "publishing", cover # 0,
                      plan[1].first \in end - RecentDays..cover + 1, Gap(Here)
               PROVE  FALSE
    BY DEF ReachIsTaken
  <2>1. /\ at \in 1..Len(plan) /\ Here \in Part /\ WellCut(plan, end)
        /\ end \in Nat /\ cover \in Nat /\ RecentDays \in Nat
    BY DayAssumption, HereIsPart DEF TypeOK
  <2>2. plan[1].first >= end - RecentDays /\ plan[1].first <= cover + 1
    BY <2>1
  <2>3. /\ Here.stream \in Reaching
        /\ \/ Here.first = plan[1].first
           \/ /\ at > 1 /\ plan[at - 1].stream = Here.stream
              /\ Here.first = plan[at - 1].last + 1
    BY <2>1, <2>2 DEF WellCut, Here
  <2>4. /\ Here.stream \in Stream /\ Here.first \in Nat /\ Current(Here) = Reach(Here.stream)
    BY <2>1 DEF Part, Current, Reach
  <2>5. Reach(Here.stream) \in Nat /\ cover <= Reach(Here.stream)
    BY <2>3, <2>4, ReachType DEF Progress, Reached
  <2>6. Here.first > Reach(Here.stream) + 1
    BY <2>1, <2>4, <2>5 DEF Gap
  <2>7. CASE Here.first = plan[1].first
    BY <2>1, <2>2, <2>4, <2>5, <2>6, <2>7
  <2>8. CASE at > 1 /\ plan[at - 1].stream = Here.stream /\ Here.first = plan[at - 1].last + 1
    <3>1. at - 1 \in 1..at - 1 /\ at - 1 \in 1..Len(plan)
      BY <2>1, <2>8
    <3>2. plan[at - 1].last \in Nat
      <4>1. plan \in Seq(Part)
        BY <2>1 DEF WellCut
      <4>2. plan[at - 1] \in Part
        BY <3>1, <4>1, ElementOfSeq
      <4> QED BY <4>2 DEF Part
    <3>3. plan[at - 1] \in DOMAIN run /\ run[plan[at - 1]].stage = "done"
      BY <3>1 DEF Progress, JobTrue, AllDone
    <3>4. plan[at - 1].last <= Reach(Here.stream)
      BY <2>8, <3>3 DEF Progress, RowsTrue
    <3> QED BY <2>5, <2>6, <2>8, <3>2, <3>4
  <2> QED BY <2>3, <2>7, <2>8
<1> QED BY <1>1, ProgressIs, TypeCorrect, PTL
=============================================================================
