--------------------------- MODULE SpscRing_proofs ---------------------------
(***************************************************************************)
(* RingInv is an invariant of SpscRing for every N >= 2, every value set    *)
(* and every number of pushes; the properties of SpscRing follow from it,   *)
(* and every step maps to a step of BoundedFifo or a stutter.               *)
(***************************************************************************)
EXTENDS SpscRing, ModArith

\* N, as the arithmetic lemmas want it.
LEMMA NFacts == N \in Nat /\ N >= 1 /\ N >= 2
BY NAssumption

\* The lengths of the two histories are naturals.
LEMMA Lengths == ASSUME TypeOK PROVE Len(pushed) \in Nat /\ Len(popped) \in Nat
BY DEF TypeOK

\* The successor of the slot of position a is the slot of position a + 1.
LEMMA NextIndexMod ==
    ASSUME NEW a \in Nat
    PROVE  NextIndex(a % N) = (a + 1) % N /\ (a + 1) % N \in Slots
<1>1. NextIndex(a % N) = (a + 1) % N
  BY NFacts, ModAdd DEF NextIndex
<1>2. (a + 1) % N \in Slots
  BY NFacts, DivMod DEF Slots
<1> QED
  BY <1>1, <1>2

\* On states of RingInv the two tests of the code compare the lengths.
LEMMA TestsExact ==
    ASSUME TypeOK, IndexInv
    PROVE  /\ head = tail <=> Len(pushed) = Len(popped)
           /\ NextIndex(head) = tail <=> Len(pushed) - Len(popped) = N - 1
<1> DEFINE a == Len(pushed)
           b == Len(popped)
<1>1. a \in Nat /\ b \in Nat /\ b <= a /\ a - b <= N - 1
  BY Lengths DEF IndexInv
<1>2. head = a % N /\ tail = b % N
  BY DEF IndexInv
<1> HIDE DEF a, b
<1>3. head = tail <=> a = b
  <2>1. a - b < N /\ b - a < N
    BY <1>1, NFacts
  <2>2. a % N = b % N => a = b
    BY <1>1, <2>1, NFacts, ModInjective
  <2> QED
    BY <1>2, <2>2
<1>4. NextIndex(head) = (a + 1) % N
  BY <1>1, <1>2, NextIndexMod
<1>5. a - b = N - 1 => (a + 1) % N = b % N
  <2> SUFFICES ASSUME a - b = N - 1 PROVE (a + 1) % N = b % N
    OBVIOUS
  <2> DEFINE q == b \div N
             m == b % N
  <2>1. q \in Nat /\ m \in 0 .. N - 1 /\ b = N * q + m
    BY <1>1, NFacts, DivMod
  <2> HIDE DEF q, m
  <2>2. a + 1 = N * (q + 1) + m /\ a + 1 \in Nat /\ q + 1 \in Int
    BY <1>1, <2>1, NFacts
  <2>3. (a + 1) % N = m
    BY <2>1, <2>2, NFacts, ModOf
  <2> QED
    BY <2>3 DEF m
<1>6. a - b < N - 1 => (a + 1) % N # b % N
  <2> SUFFICES ASSUME a - b < N - 1, (a + 1) % N = b % N PROVE FALSE
    OBVIOUS
  <2>1. a + 1 \in Nat /\ (a + 1) - b < N /\ b - (a + 1) < N
    BY <1>1, NFacts
  <2>2. a + 1 = b
    BY <1>1, <2>1, NFacts, ModInjective
  <2> QED
    BY <1>1, <2>2
<1>7. NextIndex(head) = tail <=> a - b = N - 1
  BY <1>1, <1>2, <1>4, <1>5, <1>6, NFacts
<1> QED
  BY <1>3, <1>7 DEF a, b

\* A new buffer satisfies the invariant.
LEMMA InitInv == Init => RingInv
<1> SUFFICES ASSUME Init PROVE RingInv
  OBVIOUS
<1>1. 0 % N = 0 /\ 0 \in Slots
  <2>1. 0 = N * 0 + 0 /\ 0 \in 0 .. N - 1
    BY NFacts
  <2> QED
    BY <2>1, NFacts, ModOf DEF Slots
<1>2. Len(pushed) = 0 /\ Len(popped) = 0 /\ pushed \in Seq(Val) /\ popped \in Seq(Val \cup {Uninit})
  BY DEF Init
<1>3. TypeOK
  BY <1>1, <1>2 DEF Init, TypeOK
<1>4. IndexInv
  BY <1>1, <1>2, NFacts DEF Init, IndexInv
<1>5. ContentInv
  BY <1>2 DEF Init, ContentInv
<1>6. ProducerInv /\ ConsumerInv
  BY DEF Init, ProducerInv, ConsumerInv
<1> QED
  BY <1>3, <1>4, <1>5, <1>6 DEF RingInv

\* push: the fullness test.
LEMMA PushCheckInv ==
    ASSUME RingInv, NEW v \in Val, PushCheck(v)
    PROVE  RingInv'
<1> USE DEF RingInv
<1>1. TypeOK'
  BY DEF TypeOK, PushCheck
<1>2. IndexInv' /\ ContentInv' /\ ConsumerInv'
  BY DEF IndexInv, ContentInv, ConsumerInv, PushCheck
<1>3. ProducerInv'
  <2>1. CASE NextIndex(head) = tail
    BY <2>1 DEF PushCheck, ProducerInv
  <2>2. CASE NextIndex(head) # tail
    <3>1. Len(pushed) - Len(popped) # N - 1
      BY <2>2, TestsExact
    <3>2. Len(pushed) - Len(popped) < N - 1
      BY <3>1, Lengths, NFacts DEF IndexInv
    <3> QED
      BY <2>2, <3>2 DEF PushCheck, ProducerInv
  <2> QED
    BY <2>1, <2>2
<1> QED
  BY <1>1, <1>2, <1>3

\* push: the write touches no slot that holds an undelivered element.
LEMMA PushWriteInv == ASSUME RingInv, PushWrite PROVE RingInv'
<1> USE DEF RingInv
<1>1. TypeOK'
  BY DEF TypeOK, PushWrite
<1>2. IndexInv' /\ ConsumerInv'
  BY DEF IndexInv, ConsumerInv, PushWrite
<1>3. ProducerInv'
  BY DEF TypeOK, ProducerInv, PushWrite
<1>4. ContentInv'
  <2>1. \A k \in 1 .. Len(popped)' : popped[k]' = pushed[k]'
    BY DEF ContentInv, PushWrite
  <2>2. ASSUME NEW k \in Len(popped) + 1 .. Len(pushed)
        PROVE  buffer'[(k - 1) % N] = pushed[k]
    <3> DEFINE a == Len(pushed)
               b == Len(popped)
    <3>1. a \in Nat /\ b \in Nat /\ a - b < N - 1 /\ head = a % N
      BY Lengths DEF ProducerInv, PushWrite, IndexInv
    <3>2. k - 1 \in Nat /\ (k - 1) - a < N /\ a - (k - 1) < N /\ k - 1 # a
      BY <3>1, NFacts
    <3>3. (k - 1) % N # a % N
      BY <3>1, <3>2, NFacts, ModInjective
    <3>4. buffer'[(k - 1) % N] = buffer[(k - 1) % N]
      <4>1. (k - 1) % N \in Slots
        BY <3>2, NFacts, DivMod DEF Slots
      <4> QED
        BY <3>1, <3>3, <4>1 DEF PushWrite, TypeOK
    <3> QED
      BY <3>4 DEF ContentInv
  <2> QED
    BY <2>1, <2>2 DEF ContentInv, PushWrite
<1> QED
  BY <1>1, <1>2, <1>3, <1>4

\* push: publishing makes the written slot part of the content.
LEMMA PushPublishInv == ASSUME RingInv, PushPublish PROVE RingInv'
<1> USE DEF RingInv
<1> DEFINE a == Len(pushed)
           b == Len(popped)
<1>1. a \in Nat /\ b \in Nat /\ b <= a /\ a - b < N - 1 /\ head = a % N /\ prodVal \in Val
  BY Lengths DEF ProducerInv, PushPublish, IndexInv
<1>2. pushed' = Append(pushed, prodVal) /\ pushed \in Seq(Val)
  BY DEF PushPublish, TypeOK
<1>3. Len(pushed') = a + 1 /\ pushed' \in Seq(Val) /\ popped' = popped
  BY <1>1, <1>2 DEF PushPublish
<1>4. \A k \in 1 .. a : pushed'[k] = pushed[k]
  BY <1>2
<1>5. pushed'[a + 1] = prodVal
  BY <1>2
<1>6. head' = (a + 1) % N /\ head' \in Slots
  BY <1>1, NextIndexMod DEF PushPublish
<1>7. TypeOK'
  BY <1>3, <1>6 DEF TypeOK, PushPublish
<1>8. IndexInv'
  BY <1>1, <1>3, <1>6, NFacts DEF IndexInv, PushPublish
<1>9. ContentInv'
  <2>1. ASSUME NEW k \in 1 .. Len(popped') PROVE popped'[k] = pushed'[k]
    BY <1>1, <1>3, <1>4 DEF ContentInv
  <2>2. ASSUME NEW k \in Len(popped') + 1 .. Len(pushed')
        PROVE  buffer'[(k - 1) % N] = pushed'[k]
    <3>1. CASE k = a + 1
      BY <3>1, <1>1, <1>5 DEF ProducerInv, PushPublish
    <3>2. CASE k # a + 1
      <4>1. k \in Len(popped) + 1 .. Len(pushed) /\ k \in 1 .. a
        BY <3>2, <1>1, <1>3
      <4> QED
        BY <4>1, <1>4 DEF ContentInv, PushPublish
    <3> QED
      BY <3>1, <3>2
  <2> QED
    BY <2>1, <2>2 DEF ContentInv
<1>10. ProducerInv'
  BY DEF ProducerInv, PushPublish
<1>11. ConsumerInv'
  BY <1>1, <1>3, <1>4 DEF ConsumerInv, PushPublish
<1> QED
  BY <1>7, <1>8, <1>9, <1>10, <1>11

\* pop: the emptiness test.
LEMMA PopCheckInv == ASSUME RingInv, PopCheck PROVE RingInv'
<1> USE DEF RingInv
<1>1. TypeOK'
  BY DEF TypeOK, PopCheck
<1>2. IndexInv' /\ ContentInv' /\ ProducerInv'
  BY DEF IndexInv, ContentInv, ProducerInv, PopCheck
<1>3. ConsumerInv'
  <2>1. CASE tail = head
    BY <2>1 DEF PopCheck, ConsumerInv
  <2>2. CASE tail # head
    <3>1. Len(pushed) # Len(popped)
      BY <2>2, TestsExact
    <3>2. Len(popped) < Len(pushed)
      BY <3>1, Lengths DEF IndexInv
    <3> QED
      BY <2>2, <3>2 DEF PopCheck, ConsumerInv
  <2> QED
    BY <2>1, <2>2
<1> QED
  BY <1>1, <1>2, <1>3

\* The slot at tail holds the oldest undelivered element.
LEMMA OldestInTail ==
    ASSUME RingInv, Len(popped) < Len(pushed)
    PROVE  /\ buffer[tail] = pushed[Len(popped) + 1]
           /\ pushed[Len(popped) + 1] \in Val
<1>1. Len(popped) \in Nat /\ Len(pushed) \in Nat
  BY Lengths DEF RingInv
<1>2. Len(popped) + 1 \in Len(popped) + 1 .. Len(pushed)
  BY <1>1
<1>3. (Len(popped) + 1) - 1 = Len(popped)
  BY <1>1
<1>4. buffer[((Len(popped) + 1) - 1) % N] = pushed[Len(popped) + 1]
  BY <1>2 DEF RingInv, ContentInv
<1>5. pushed[Len(popped) + 1] \in Val
  BY <1>1, <1>2 DEF RingInv, TypeOK
<1> QED
  BY <1>3, <1>4, <1>5 DEF RingInv, IndexInv

\* pop: the read.
LEMMA PopReadInv == ASSUME RingInv, PopRead PROVE RingInv'
<1>1. buffer[tail] = pushed[Len(popped) + 1] /\ buffer[tail] \in Val
  BY OldestInTail DEF RingInv, ConsumerInv, PopRead
<1> USE DEF RingInv
<1>2. TypeOK'
  BY <1>1 DEF TypeOK, PopRead
<1>3. IndexInv' /\ ContentInv' /\ ProducerInv'
  BY DEF IndexInv, ContentInv, ProducerInv, PopRead
<1>4. ConsumerInv'
  BY <1>1 DEF ConsumerInv, PopRead
<1> QED
  BY <1>2, <1>3, <1>4

\* pop: handing the slot back delivers the oldest element.
LEMMA PopReleaseInv == ASSUME RingInv, PopRelease PROVE RingInv'
<1> DEFINE a == Len(pushed)
           b == Len(popped)
<1>0. consVal = pushed[b + 1] /\ consVal \in Val
  BY OldestInTail DEF RingInv, ConsumerInv, PopRelease
<1> USE DEF RingInv
<1>1. a \in Nat /\ b \in Nat /\ b < a /\ a - b <= N - 1 /\ tail = b % N
  BY Lengths DEF ConsumerInv, PopRelease, IndexInv
<1>2. popped' = Append(popped, consVal) /\ popped \in Seq(Val \cup {Uninit})
  BY DEF PopRelease, TypeOK
<1>3. Len(popped') = b + 1 /\ popped' \in Seq(Val \cup {Uninit}) /\ pushed' = pushed
  BY <1>0, <1>2 DEF PopRelease
<1>4. \A k \in 1 .. b : popped'[k] = popped[k]
  BY <1>2
<1>5. popped'[b + 1] = pushed[b + 1]
  BY <1>0, <1>2
<1>6. tail' = (b + 1) % N /\ tail' \in Slots
  BY <1>1, NextIndexMod DEF PopRelease
<1>7. TypeOK'
  BY <1>3, <1>6 DEF TypeOK, PopRelease
<1>8. IndexInv'
  BY <1>1, <1>3, <1>6, NFacts DEF IndexInv, PopRelease
<1>9. ContentInv'
  <2>1. ASSUME NEW k \in 1 .. Len(popped') PROVE popped'[k] = pushed'[k]
    <3>1. CASE k = b + 1
      BY <3>1, <1>3, <1>5
    <3>2. CASE k # b + 1
      BY <3>2, <1>1, <1>3, <1>4 DEF ContentInv
    <3> QED
      BY <3>1, <3>2
  <2>2. ASSUME NEW k \in Len(popped') + 1 .. Len(pushed')
        PROVE  buffer'[(k - 1) % N] = pushed'[k]
    <3>1. k \in Len(popped) + 1 .. Len(pushed)
      BY <1>1, <1>3
    <3> QED
      BY <3>1, <1>3 DEF ContentInv, PopRelease
  <2> QED
    BY <2>1, <2>2 DEF ContentInv
<1>10. ProducerInv'
  BY <1>1, <1>3, NFacts DEF ProducerInv, PopRelease
<1>11. ConsumerInv'
  BY DEF ConsumerInv, PopRelease
<1> QED
  BY <1>7, <1>8, <1>9, <1>10, <1>11

\* peek.
LEMMA PeekInv == ASSUME RingInv, PeekBegin \/ PeekEnd PROVE RingInv'
<1>1. CASE PeekBegin
  <2>1. Len(pushed) # Len(popped)
    BY <1>1, TestsExact DEF RingInv, PeekBegin
  <2>2. Len(popped) < Len(pushed)
    BY <2>1, Lengths DEF RingInv, IndexInv
  <2>3. buffer[tail] = pushed[Len(popped) + 1] /\ buffer[tail] \in Val
    BY <2>2, OldestInTail
  <2>4. TypeOK'
    BY <1>1, <2>3 DEF RingInv, TypeOK, PeekBegin
  <2>5. IndexInv' /\ ContentInv' /\ ProducerInv'
    BY <1>1 DEF RingInv, IndexInv, ContentInv, ProducerInv, PeekBegin
  <2>6. ConsumerInv'
    BY <1>1, <2>2, <2>3 DEF RingInv, ConsumerInv, PeekBegin
  <2> QED
    BY <2>4, <2>5, <2>6 DEF RingInv
<1>2. CASE PeekEnd
  BY <1>2 DEF RingInv, TypeOK, IndexInv, ContentInv, ProducerInv, ConsumerInv, PeekEnd
<1> QED
  BY <1>1, <1>2

\* The forward distance between the indices is the number of elements.
LEMMA DistanceIsCount ==
    ASSUME TypeOK, IndexInv
    PROVE  Distance = Len(pushed) - Len(popped)
<1> DEFINE a == Len(pushed)
           b == Len(popped)
           d == a - b
<1>1. a \in Nat /\ b \in Nat /\ d \in 0 .. N - 1 /\ a = b + d
  BY Lengths, NFacts DEF IndexInv
<1>2. head = a % N /\ tail = b % N /\ head \in 0 .. N - 1 /\ tail \in 0 .. N - 1
  BY DEF IndexInv, TypeOK, Slots
<1> HIDE DEF a, b, d
<1>3. ((b % N) + d) % N = (b + d) % N
  <2>1. b \in Nat /\ d \in Nat
    BY <1>1, NFacts
  <2> QED
    BY <2>1, NFacts, ModAdd
<1>4. (tail + d) % N = head
  BY <1>1, <1>2, <1>3
<1>5. tail + d \in Nat
  BY <1>1, <1>2, NFacts
<1>6. CASE tail + d < N
  <2>1. tail + d = N * 0 + (tail + d) /\ tail + d \in 0 .. N - 1
    BY <1>1, <1>2, <1>6, NFacts
  <2>2. (tail + d) % N = tail + d
    BY <1>5, <2>1, NFacts, ModOf
  <2>3. Distance = d
    BY <1>1, <1>2, <1>4, <2>2, NFacts DEF Distance
  <2> QED
    BY <2>3 DEF d, a, b
<1>7. CASE tail + d >= N
  <2>1. tail + d = N * 1 + (tail + d - N) /\ tail + d - N \in 0 .. N - 1
    BY <1>1, <1>2, <1>7, NFacts
  <2>2. (tail + d) % N = tail + d - N
    BY <1>5, <2>1, NFacts, ModOf
  <2>3. Distance = d
    BY <1>1, <1>2, <1>4, <2>2, NFacts DEF Distance
  <2> QED
    BY <2>3 DEF d, a, b
<1> QED
  BY <1>1, <1>2, <1>6, <1>7, NFacts

\* Draining yields the undelivered elements in order.
LEMMA DrainedIsRest ==
    ASSUME RingInv
    PROVE  /\ Drained \in Seq(Val)
           /\ Len(Drained) = Len(pushed) - Len(popped)
           /\ \A k \in 1 .. Len(pushed) - Len(popped) : Drained[k] = pushed[Len(popped) + k]
<1> USE DEF RingInv
<1> DEFINE a == Len(pushed)
           b == Len(popped)
<1>1. a \in Nat /\ b \in Nat /\ b <= a /\ tail = b % N /\ Distance = a - b
  BY Lengths, DistanceIsCount DEF IndexInv
<1>2. ASSUME NEW k \in 1 .. a - b
      PROVE  buffer[(tail + k - 1) % N] = pushed[b + k] /\ pushed[b + k] \in Val
  <2>1. k - 1 \in Nat /\ ((b + k) - 1) = b + (k - 1) /\ tail \in Nat /\ tail + k - 1 = tail + (k - 1)
    BY <1>1 DEF TypeOK, Slots
  <2>2. ((b % N) + (k - 1)) % N = (b + (k - 1)) % N
    BY <1>1, <2>1, NFacts, ModAdd
  <2>3. (tail + k - 1) % N = ((b + k) - 1) % N
    BY <1>1, <2>1, <2>2
  <2>4. b + k \in b + 1 .. a
    BY <1>1
  <2>5. pushed[b + k] \in Val
    BY <1>1, <2>4 DEF TypeOK
  <2> QED
    BY <2>3, <2>4, <2>5 DEF ContentInv
<1>3. Drained = [k \in 1 .. a - b |-> buffer[(tail + k - 1) % N]]
  BY <1>1 DEF Drained
<1>4. a - b \in Nat
  BY <1>1
<1>5. Drained \in [1 .. a - b -> Val]
  BY <1>2, <1>3
<1>6. Drained \in Seq(Val) /\ Len(Drained) = a - b
  BY <1>4, <1>5
<1>7. \A k \in 1 .. a - b : Drained[k] = pushed[b + k]
  BY <1>2, <1>3
<1> QED
  BY <1>6, <1>7

\* drop delivers the rest.
LEMMA DropInv == ASSUME RingInv, Drop PROVE RingInv'
<1> DEFINE a == Len(pushed)
           b == Len(popped)
<1>1. a \in Nat /\ b \in Nat /\ b <= a /\ popped \in Seq(Val \cup {Uninit})
  BY Lengths DEF RingInv, TypeOK, IndexInv
<1>2. Drained \in Seq(Val \cup {Uninit}) /\ Len(Drained) = a - b
  <2>1. Drained \in Seq(Val) /\ Len(Drained) = a - b
    BY DrainedIsRest
  <2> QED
    BY <2>1
<1>3. popped' = popped \o Drained /\ pushed' = pushed /\ head' = head /\ tail' = head
  BY DEF Drop
<1> HIDE DEF a, b
<1>4. popped' \in Seq(Val \cup {Uninit}) /\ Len(popped') = a
  BY <1>1, <1>2, <1>3 DEF b
<1>5. ASSUME NEW k \in 1 .. a PROVE popped'[k] = pushed[k]
  <2>1. CASE k <= b
    <3>1. k \in 1 .. Len(popped)
      BY <2>1, <1>1 DEF b
    <3>2. (popped \o Drained)[k] = popped[k]
      BY <3>1, <1>1, <1>2
    <3> QED
      BY <3>1, <3>2, <1>3 DEF RingInv, ContentInv
  <2>2. CASE k > b
    <3>1. k - b \in 1 .. a - b /\ b + (k - b) = k /\ k \in Len(popped) + 1 .. Len(popped) + Len(Drained)
      BY <2>2, <1>1, <1>2 DEF b
    <3>2. (popped \o Drained)[k] = Drained[k - Len(popped)]
      BY <3>1, <1>1, <1>2
    <3>3. Drained[k - b] = pushed[b + (k - b)]
      BY <3>1, DrainedIsRest DEF a, b
    <3> QED
      BY <3>1, <3>2, <3>3, <1>3 DEF b
  <2> QED
    BY <2>1, <2>2, <1>1
<1>6. TypeOK'
  BY <1>4 DEF RingInv, TypeOK, Drop
<1>7. IndexInv'
  BY <1>1, <1>3, <1>4, NFacts DEF RingInv, IndexInv, Drop, a
<1>8. ContentInv'
  BY <1>1, <1>3, <1>4, <1>5 DEF ContentInv, a
<1>9. ProducerInv' /\ ConsumerInv'
  BY DEF ProducerInv, ConsumerInv, Drop
<1> QED
  BY <1>6, <1>7, <1>8, <1>9 DEF RingInv

\* RingInv holds in every reachable state, for every buffer size.
THEOREM RingInvariant == Spec => []RingInv
<1>1. Init => RingInv
  BY InitInv
<1>2. RingInv /\ [Next]_vars => RingInv'
  <2> SUFFICES ASSUME RingInv, [Next]_vars PROVE RingInv'
    OBVIOUS
  <2>1. CASE ProducerStep
    BY <2>1, PushCheckInv, PushWriteInv, PushPublishInv DEF ProducerStep
  <2>2. CASE ConsumerStep
    BY <2>2, PopCheckInv, PopReadInv, PopReleaseInv, PeekInv DEF ConsumerStep
  <2>3. CASE Drop
    BY <2>3, DropInv
  <2>4. CASE UNCHANGED vars
    BY <2>4 DEF vars, RingInv, TypeOK, IndexInv, ContentInv, ProducerInv, ConsumerInv, Slots
  <2> QED
    BY <2>1, <2>2, <2>3, <2>4 DEF Next
<1> QED
  BY <1>1, <1>2, PTL DEF Spec

\* Type correctness of the SPSC buffer: the indices are always in range.
THEOREM TypeCorrect == Spec => []TypeOK
<1>1. RingInv => TypeOK
  BY DEF RingInv
<1> QED
  BY <1>1, RingInvariant, PTL

\* The producer and the consumer never touch the same slot at once.
THEOREM SlotsNeverRace == Spec => []NoSlotRace
<1>1. RingInv => NoSlotRace
  <2> SUFFICES ASSUME RingInv, prodPc = "write", consPc \in {"read", "release", "peek"}
               PROVE  head # tail
    BY DEF NoSlotRace
  <2>1. Len(popped) # Len(pushed)
    BY Lengths DEF RingInv, ConsumerInv
  <2> QED
    BY <2>1, TestsExact DEF RingInv
<1> QED
  BY <1>1, RingInvariant, PTL

\* pop and peek always see the oldest undelivered element.
THEOREM BorrowsAreValid == Spec => []BorrowedSlotIsOldest
<1>1. RingInv => BorrowedSlotIsOldest
  <2> SUFFICES ASSUME RingInv, consPc \in {"read", "release", "peek"}
               PROVE  Len(popped) < Len(pushed) /\ buffer[tail] = pushed[Len(popped) + 1]
    BY DEF BorrowedSlotIsOldest
  <2>1. Len(popped) < Len(pushed)
    BY DEF RingInv, ConsumerInv
  <2> QED
    BY <2>1, OldestInTail
<1> QED
  BY <1>1, RingInvariant, PTL

\* is_empty and is_full are exact for every buffer size.
THEOREM ObserversExact == Spec => []EmptyFullExact
<1>1. RingInv => EmptyFullExact
  BY TestsExact DEF RingInv, EmptyFullExact, IsEmpty, IsFull
<1> QED
  BY <1>1, RingInvariant, PTL

\* Two sequences with the same elements are equal.
LEMMA SeqEqual ==
    ASSUME NEW S, NEW s \in Seq(S), NEW t \in Seq(S), Len(s) = Len(t),
           \A k \in 1 .. Len(s) : s[k] = t[k]
    PROVE  s = t
OBVIOUS

\* push, pop, peek and drop refine the atomic operations of a bounded FIFO queue
\* of N - 1 elements, for every N.
THEOREM Refinement == Spec => ImplementsFifo
<1>1. Init => Fifo!Init
  BY DEF Init, Fifo!Init
<1>2. RingInv /\ RingInv' /\ [Next]_vars => [Fifo!Next]_Fifo!fifoVars
  <2> SUFFICES ASSUME RingInv, RingInv', [Next]_vars
               PROVE  Fifo!Next \/ UNCHANGED Fifo!fifoVars
    OBVIOUS
  <2> DEFINE a == Len(pushed)
             b == Len(popped)
  <2>1. a \in Nat /\ b \in Nat /\ b <= a /\ a - b <= N - 1 /\ N \in Nat
    BY Lengths, NFacts DEF RingInv, IndexInv
  <2>2. ASSUME NEW v \in Val, PushCheck(v) PROVE Fifo!Next \/ UNCHANGED Fifo!fifoVars
    <3>1. CASE NextIndex(head) = tail
      <4>1. a - b = N - 1
        BY <3>1, TestsExact DEF RingInv
      <4>2. Fifo!PushFull
        BY <2>2, <3>1, <4>1 DEF PushCheck, Fifo!PushFull, Fifo!Count
      <4> QED
        BY <4>2 DEF Fifo!Next
    <3>2. CASE NextIndex(head) # tail
      BY <2>2, <3>2 DEF PushCheck, Fifo!fifoVars
    <3> QED
      BY <3>1, <3>2
  <2>3. CASE PushPublish
    <3>1. prodVal \in Val /\ a - b < N - 1
      BY <2>3 DEF RingInv, ProducerInv, PushPublish
    <3>2. Fifo!PushOk(prodVal)
      BY <2>3, <3>1 DEF PushPublish, Fifo!PushOk, Fifo!Count
    <3> QED
      BY <3>1, <3>2 DEF Fifo!Next
  <2>4. CASE PopCheck
    <3>1. CASE tail = head
      <4>1. a = b
        BY <3>1, TestsExact DEF RingInv
      <4>2. Fifo!PopEmpty
        BY <2>4, <3>1, <4>1, <2>1 DEF PopCheck, Fifo!PopEmpty, Fifo!Count
      <4> QED
        BY <4>2 DEF Fifo!Next
    <3>2. CASE tail # head
      BY <2>4, <3>2 DEF PopCheck, Fifo!fifoVars
    <3> QED
      BY <3>1, <3>2
  <2>5. CASE PopRelease
    <3>1. consVal = pushed[b + 1] /\ b < a
      BY <2>5 DEF RingInv, ConsumerInv, PopRelease
    <3>2. Fifo!PopSome
      BY <2>5, <3>1, <2>1 DEF PopRelease, Fifo!PopSome, Fifo!Count
    <3> QED
      BY <3>2 DEF Fifo!Next
  <2>6. CASE Drop
    <3>1. Len(popped') = Len(pushed) /\ pushed' = pushed
      <4>1. Len(Drained) = a - b /\ Drained \in Seq(Val \cup {Uninit}) /\ popped \in Seq(Val \cup {Uninit})
        <5>1. Drained \in Seq(Val) /\ Len(Drained) = a - b
          BY DrainedIsRest
        <5> QED
          BY <5>1 DEF RingInv, TypeOK
      <4>2. Len(popped \o Drained) = b + (a - b)
        BY <4>1
      <4> QED
        BY <2>6, <4>2, <2>1 DEF Drop
    <3>2. \A k \in 1 .. Len(popped') : popped'[k] = pushed[k]
      BY <3>1 DEF RingInv, ContentInv
    <3>3. popped' \in Seq(Val \cup {Uninit}) /\ pushed \in Seq(Val \cup {Uninit})
      <4>1. pushed \in Seq(Val)
        BY DEF RingInv, TypeOK
      <4> QED
        BY <4>1 DEF RingInv, TypeOK
    <3>4. popped' = pushed
      BY <3>1, <3>2, <3>3, SeqEqual
    <3>5. Fifo!DropRest
      BY <2>6, <3>4 DEF Drop, Fifo!DropRest
    <3> QED
      BY <3>5 DEF Fifo!Next
  <2>7. CASE PushWrite \/ PopRead \/ PeekBegin \/ PeekEnd \/ UNCHANGED vars
    BY <2>7 DEF PushWrite, PopRead, PeekBegin, PeekEnd, vars, Fifo!fifoVars
  <2> QED
    BY <2>2, <2>3, <2>4, <2>5, <2>6, <2>7 DEF Next, ProducerStep, ConsumerStep
<1> QED
  BY <1>1, <1>2, RingInvariant, PTL DEF Spec, ImplementsFifo, Fifo!Spec

=============================================================================
