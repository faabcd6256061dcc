--------------------------- MODULE Seqlock_proofs ---------------------------
(***************************************************************************)
(* Proofs about Seqlock: with one writer, reads are snapshots, for any     *)
(* number of readers, any data type and any number of writes.              *)
(***************************************************************************)
EXTENDS Seqlock, TLAPS

\* The initial state satisfies the invariant.
LEMMA InitInv == Init => SeqlockInv
<1> SUFFICES ASSUME Init PROVE SeqlockInv
    OBVIOUS
<1> USE DEF Init
<1>1. data \in Value /\ history = <<data>> /\ Len(history) = 1
    OBVIOUS
<1>2. TypeOK
    BY <1>1 DEF TypeOK, Value
<1>3. CountInv
    BY <1>1 DEF CountInv
<1>4. ReaderInv
    BY <1>1 DEF ReaderInv
<1>5. ReadsAreSnapshots
    BY DEF ReadsAreSnapshots
<1> QED
    BY <1>2, <1>3, <1>4, <1>5 DEF SeqlockInv

\* The first increment keeps the invariant: a copy in progress is made invalid.
LEMMA WriteBeginInv ==
    ASSUME SingleWriter, SeqlockInv, NEW w \in Writers, WriteBegin(w)
    PROVE  SeqlockInv'
<1> USE DEF SeqlockInv, WriteBegin
<1>1. writing = {} /\ writing' = {w} /\ sequence' = sequence + 1
    BY DEF SingleWriter, TypeOK
<1>2. TypeOK'
    BY <1>1 DEF TypeOK
<1>3. CountInv'
    BY <1>1 DEF CountInv, TypeOK
<1>4. ReaderInv'
  <2> SUFFICES ASSUME NEW r \in Readers
               PROVE  /\ began[r] >= 1 /\ began[r] <= Len(history)
                      /\ rpc[r] = "copy" =>
                            seq1[r] = 2 * (began[r] - 1) /\ seq1[r] # sequence'
    BY DEF ReaderInv
  <2>1. began[r] \in Nat /\ Len(history) \in Nat
    BY DEF TypeOK
  <2>2. sequence' = 2 * (Len(history) - 1) + 1
    BY <1>1 DEF CountInv, TypeOK
  <2> QED
    BY <2>1, <2>2 DEF ReaderInv
<1>5. ReadsAreSnapshots'
    BY DEF ReadsAreSnapshots
<1> QED
    BY <1>2, <1>3, <1>4, <1>5

\* While a writer changes words the number is odd, so no reader trusts its copy.
LEMMA WriteWordInv ==
    ASSUME SeqlockInv, NEW w \in Writers, NEW i \in Words, NEW v \in Val, WriteWord(w, i, v)
    PROVE  SeqlockInv'
<1> USE DEF SeqlockInv, WriteWord
<1>1. TypeOK'
    BY DEF TypeOK, Value
<1>2. writing # {}
    OBVIOUS
<1>3. CountInv'
    BY <1>2 DEF CountInv, TypeOK
<1>4. ReaderInv'
  <2> SUFFICES ASSUME NEW r \in Readers
               PROVE  /\ began[r] >= 1 /\ began[r] <= Len(history)
                      /\ rpc[r] = "copy" =>
                            seq1[r] = 2 * (began[r] - 1) /\ seq1[r] # sequence
    BY DEF ReaderInv
  <2>1. began[r] \in Nat /\ Len(history) \in Nat
    BY DEF TypeOK
  <2>2. sequence = 2 * (Len(history) - 1) + 1
    BY <1>2 DEF CountInv, TypeOK
  <2> QED
    BY <2>1, <2>2 DEF ReaderInv
<1>5. ReadsAreSnapshots'
    BY DEF ReadsAreSnapshots
<1> QED
    BY <1>1, <1>3, <1>4, <1>5

\* The second increment adds the finished value to the history.
LEMMA WriteEndInv ==
    ASSUME SingleWriter, SeqlockInv, NEW w \in Writers, WriteEnd(w)
    PROVE  SeqlockInv'
<1> USE DEF SeqlockInv, WriteEnd
<1>1. writing # {} /\ writing' = {}
    BY DEF SingleWriter, TypeOK
<1>2. /\ Len(history) \in Nat
      /\ Len(history') = Len(history) + 1
      /\ history' \in Seq(Value)
      /\ history'[Len(history')] = data
      /\ \A k \in 1 .. Len(history) : history'[k] = history[k]
    BY DEF TypeOK
<1>3. sequence = 2 * (Len(history) - 1) + 1
    BY <1>1, <1>2 DEF CountInv, TypeOK
<1>4. TypeOK'
    BY <1>1, <1>2 DEF TypeOK
<1>5. CountInv'
  <2>1. sequence' = 2 * (Len(history') - 1) + 0 /\ Len(history') >= 1
    BY <1>2, <1>3
  <2>2. data' = data
    OBVIOUS
  <2> QED
    BY <1>1, <1>2, <2>1, <2>2 DEF CountInv
<1>6. ReaderInv'
  <2> SUFFICES ASSUME NEW r \in Readers
               PROVE  /\ began[r] >= 1 /\ began[r] <= Len(history')
                      /\ rpc[r] = "copy" =>
                            seq1[r] = 2 * (began[r] - 1) /\ seq1[r] # sequence'
    BY DEF ReaderInv
  <2>1. began[r] \in Nat /\ sequence' = 2 * Len(history)
    BY <1>2, <1>3 DEF TypeOK
  <2> QED
    BY <2>1, <1>2 DEF ReaderInv
<1>7. ReadsAreSnapshots'
  <2> SUFFICES ASSUME NEW r \in Readers, out[r] # NoValue
               PROVE  \E k \in began[r] .. Len(history') : history'[k] = out[r]
    BY DEF ReadsAreSnapshots
  <2>1. PICK k \in began[r] .. Len(history) : history[k] = out[r]
    BY DEF ReadsAreSnapshots
  <2>2. began[r] \in Nat /\ began[r] >= 1
    BY DEF TypeOK, ReaderInv
  <2>3. k \in began[r] .. Len(history') /\ history'[k] = out[r]
    BY <1>2, <2>1, <2>2
  <2> QED
    BY <2>3
<1> QED
    BY <1>4, <1>5, <1>6, <1>7

\* A reader starts with an empty copy at an even number.
LEMMA ReadBeginInv ==
    ASSUME SeqlockInv, NEW r \in Readers, ReadBegin(r)
    PROVE  SeqlockInv'
<1> USE DEF SeqlockInv, ReadBegin
<1>1. Len(history) \in Nat /\ Len(history) >= 1 /\ sequence \in Nat
    BY DEF TypeOK, CountInv
<1>2. sequence = 2 * (Len(history) - 1)
    BY <1>1 DEF CountInv
<1>3. TypeOK'
    BY <1>1 DEF TypeOK
<1>4. CountInv'
    BY DEF CountInv
<1>5. ReaderInv'
  <2> SUFFICES ASSUME NEW s \in Readers
               PROVE  /\ began'[s] >= 1 /\ began'[s] <= Len(history)
                      /\ rpc'[s] = "copy" =>
                            /\ seq1'[s] = 2 * (began'[s] - 1)
                            /\ seq1'[s] = sequence =>
                                  \A i \in Words : copy'[s][i] # NoValue => copy'[s][i] = data[i]
    BY DEF ReaderInv
  <2>1. CASE s = r
    BY <2>1, <1>1, <1>2 DEF TypeOK
  <2>2. CASE s # r
    BY <2>2 DEF ReaderInv, TypeOK
  <2> QED
    BY <2>1, <2>2
<1>6. ReadsAreSnapshots'
    BY DEF ReadsAreSnapshots, TypeOK
<1> QED
    BY <1>3, <1>4, <1>5, <1>6

\* Copying a word keeps the copy equal to the data it was taken from.
LEMMA ReadWordInv ==
    ASSUME SeqlockInv, NEW r \in Readers, NEW i \in Words, ReadWord(r, i)
    PROVE  SeqlockInv'
<1> USE DEF SeqlockInv, ReadWord
<1>1. TypeOK'
    BY DEF TypeOK, Value
<1>2. CountInv'
    BY DEF CountInv
<1>3. ReaderInv'
  <2> SUFFICES ASSUME NEW s \in Readers
               PROVE  /\ began[s] >= 1 /\ began[s] <= Len(history)
                      /\ rpc[s] = "copy" =>
                            /\ seq1[s] = 2 * (began[s] - 1)
                            /\ seq1[s] = sequence =>
                                  \A j \in Words : copy'[s][j] # NoValue => copy'[s][j] = data[j]
    BY DEF ReaderInv
  <2> QED
    BY DEF ReaderInv, TypeOK
<1>4. ReadsAreSnapshots'
    BY DEF ReadsAreSnapshots
<1> QED
    BY <1>1, <1>2, <1>3, <1>4

\* A copy is returned only if the number is still the one loaded first, and then
\* it is the latest value of the history.
LEMMA ReadEndInv ==
    ASSUME SeqlockInv, NEW r \in Readers, ReadEnd(r)
    PROVE  SeqlockInv'
<1> USE DEF SeqlockInv, ReadEnd
<1>1. copy[r] \in Value
    BY DEF TypeOK, Value
<1>2. TypeOK'
    BY <1>1 DEF TypeOK
<1>3. CountInv'
    BY DEF CountInv
<1>4. ReaderInv'
    BY DEF ReaderInv, TypeOK
<1>5. ReadsAreSnapshots'
  <2> SUFFICES ASSUME NEW s \in Readers, out'[s] # NoValue
               PROVE  \E k \in began[s] .. Len(history) : history[k] = out'[s]
    BY DEF ReadsAreSnapshots
  <2>1. CASE s = r /\ seq1[r] = sequence
    <3>1. /\ Len(history) \in Nat /\ began[r] \in Nat /\ Len(history) >= 1
          /\ seq1[r] = 2 * (began[r] - 1) /\ began[r] <= Len(history)
      BY DEF TypeOK, ReaderInv, CountInv
    <3>2. writing = {} /\ began[r] = Len(history)
      BY <2>1, <3>1 DEF CountInv, TypeOK
    <3>3. data = history[Len(history)] /\ data \in Value
      BY <3>2 DEF CountInv, TypeOK
    <3>4. \A i \in Words : copy[r][i] = data[i]
      BY <2>1 DEF ReaderInv
    <3>5. copy[r] = data
      BY <3>3, <3>4, <1>1 DEF Value
    <3>6. out'[s] = copy[r]
      BY <2>1 DEF TypeOK
    <3> QED
      BY <2>1, <3>1, <3>2, <3>3, <3>5, <3>6
  <2>2. CASE ~(s = r /\ seq1[r] = sequence)
    <3>1. out'[s] = out[s]
      BY <2>2 DEF TypeOK
    <3> QED
      BY <3>1 DEF ReadsAreSnapshots
  <2> QED
    BY <2>1, <2>2
<1> QED
    BY <1>2, <1>3, <1>4, <1>5

\* With one writer the invariant holds throughout.
THEOREM SeqlockInvariant == SingleWriter => (Spec => []SeqlockInv)
<1> SUFFICES ASSUME SingleWriter PROVE Spec => []SeqlockInv
    OBVIOUS
<1>1. Init => SeqlockInv
    BY InitInv
<1>2. SeqlockInv /\ [Next]_vars => SeqlockInv'
  <2> SUFFICES ASSUME SeqlockInv, [Next]_vars PROVE SeqlockInv'
    OBVIOUS
  <2>1. CASE UNCHANGED vars
    BY <2>1 DEF vars, SeqlockInv, TypeOK, CountInv, ReaderInv, ReadsAreSnapshots, Value
  <2>2. ASSUME NEW w \in Writers, Write(w) PROVE SeqlockInv'
    BY <2>2, WriteBeginInv, WriteWordInv, WriteEndInv DEF Write
  <2>3. ASSUME NEW r \in Readers, Read(r) PROVE SeqlockInv'
    BY <2>3, ReadBeginInv, ReadWordInv, ReadEndInv DEF Read
  <2> QED
    BY <2>1, <2>2, <2>3 DEF Next
<1> QED
    BY <1>1, <1>2, PTL DEF Spec

\* With one writer, every value Seqlock::read returns was protected as a whole at
\* some moment of the call.
THEOREM SnapshotReads == SingleWriter => (Spec => []ReadsAreSnapshots)
<1> SUFFICES ASSUME SingleWriter PROVE Spec => []ReadsAreSnapshots
    OBVIOUS
<1>1. SeqlockInv => ReadsAreSnapshots
    BY DEF SeqlockInv
<1> QED
    BY <1>1, SeqlockInvariant, PTL

\* With one writer the sequence number is odd exactly while it writes.
THEOREM ParityShowsWriter == SingleWriter => (Spec => []OddWhileWriting)
<1> SUFFICES ASSUME SingleWriter PROVE Spec => []OddWhileWriting
    OBVIOUS
<1>1. SeqlockInv => OddWhileWriting
  <2> SUFFICES ASSUME SeqlockInv PROVE (sequence % 2 = 1) <=> (writing # {})
    BY DEF OddWhileWriting
  <2>1. Len(history) \in Nat /\ Len(history) >= 1
    BY DEF SeqlockInv, TypeOK, CountInv
  <2>2. PICK n \in Nat : n = Len(history) - 1
    BY <2>1
  <2> DEFINE busy == IF writing = {} THEN 0 ELSE 1
  <2>3. sequence = 2 * n + busy /\ busy \in {0, 1}
    BY <2>2 DEF SeqlockInv, CountInv
  <2>4. writing = {} => sequence = 2 * n
    BY <2>3
  <2>5. writing # {} => sequence = 2 * n + 1
    BY <2>3
  <2>6. (2 * n) % 2 = 0 /\ (2 * n + 1) % 2 = 1
    BY <2>2
  <2> QED
    BY <2>4, <2>5, <2>6
<1> QED
    BY <1>1, SeqlockInvariant, PTL

=============================================================================
