------------------------------ MODULE Seqlock ------------------------------
(***************************************************************************)
(* Seqlock<T> of src/sync/lockfree.rs.  The data is several machine words, *)
(* copied one by one in any order; the sequence number is odd while a      *)
(* writer is inside write() or holds a write guard.  Nothing keeps two     *)
(* writers apart: the properties below are about one writer at a time.     *)
(* The sequence number is a natural (it wraps at 2^64 in the code).        *)
(*                                                                         *)
(* `history' is the sequence of values the lock has protected, oldest      *)
(* first; `began[r]' is how long it was when reader r loaded the sequence  *)
(* number it is going to compare with.                                     *)
(***************************************************************************)
EXTENDS Integers, Sequences

CONSTANTS Words, Val, NoValue, Writers, Readers,
          MaxWrites   \* bound: writes begun in one behaviour

ASSUME MaxWritesAssumption == MaxWrites \in Nat

VARIABLES sequence, data,
          writing,         \* writers between their two increments
          rpc, seq1, copy, \* a reader's position, the number it loaded, its copy
          out,             \* the value a reader returned last
          history, began

vars == <<sequence, data, writing, rpc, seq1, copy, out, history, began>>

Value == [Words -> Val]

Init ==
    /\ sequence = 0
    /\ data \in Value
    /\ writing = {}
    /\ rpc = [r \in Readers |-> "idle"]
    /\ seq1 = [r \in Readers |-> 0]
    /\ copy = [r \in Readers |-> [i \in Words |-> NoValue]]
    /\ out = [r \in Readers |-> NoValue]
    /\ history = <<data>>
    /\ began = [r \in Readers |-> 1]

------------------------------------------------------------------------------
(* write and write_guard *)

\* The first increment (fetch_add): the number becomes odd.
WriteBegin(w) ==
    /\ w \notin writing
    /\ sequence < 2 * MaxWrites
    /\ sequence' = sequence + 1
    /\ writing' = writing \cup {w}
    /\ UNCHANGED <<data, rpc, seq1, copy, out, history, began>>

\* One word of write(value), or an assignment through the guard.
WriteWord(w, i, v) ==
    /\ w \in writing
    /\ data' = [data EXCEPT ![i] = v]
    /\ UNCHANGED <<sequence, writing, rpc, seq1, copy, out, history, began>>

\* The second increment: at the end of write, or when the guard is dropped.
WriteEnd(w) ==
    /\ w \in writing
    /\ sequence' = sequence + 1
    /\ writing' = writing \ {w}
    /\ history' = Append(history, data)
    /\ UNCHANGED <<data, rpc, seq1, copy, out, began>>

------------------------------------------------------------------------------
(* read *)

\* Load the sequence number; an odd one means a writer is active: load again.
ReadBegin(r) ==
    /\ rpc[r] = "idle"
    /\ sequence % 2 = 0
    /\ rpc' = [rpc EXCEPT ![r] = "copy"]
    /\ seq1' = [seq1 EXCEPT ![r] = sequence]
    /\ copy' = [copy EXCEPT ![r] = [i \in Words |-> NoValue]]
    /\ began' = [began EXCEPT ![r] = Len(history)]
    /\ out' = [out EXCEPT ![r] = NoValue]
    /\ UNCHANGED <<sequence, data, writing, history>>

ReadWord(r, i) ==
    /\ rpc[r] = "copy"
    /\ copy[r][i] = NoValue
    /\ copy' = [copy EXCEPT ![r][i] = data[i]]
    /\ UNCHANGED <<sequence, data, writing, rpc, seq1, out, history, began>>

\* Faulty variant: the second load is not compared with the first.
ReadEndUnchecked(r) ==
    /\ rpc[r] = "copy"
    /\ \A i \in Words : copy[r][i] # NoValue
    /\ rpc' = [rpc EXCEPT ![r] = "idle"]
    /\ out' = [out EXCEPT ![r] = copy[r]]
    /\ UNCHANGED <<sequence, data, writing, seq1, copy, history, began>>

\* Load the number again: unchanged, the copy is returned; changed, start over.
ReadEnd(r) ==
    /\ rpc[r] = "copy"
    /\ \A i \in Words : copy[r][i] # NoValue
    /\ rpc' = [rpc EXCEPT ![r] = "idle"]
    /\ out' = IF seq1[r] = sequence THEN [out EXCEPT ![r] = copy[r]] ELSE out
    /\ UNCHANGED <<sequence, data, writing, seq1, copy, history, began>>

------------------------------------------------------------------------------
Write(w) == WriteBegin(w) \/ WriteEnd(w) \/ \E i \in Words, v \in Val : WriteWord(w, i, v)
Read(r) == ReadBegin(r) \/ ReadEnd(r) \/ \E i \in Words : ReadWord(r, i)

Next == (\E w \in Writers : Write(w)) \/ (\E r \in Readers : Read(r))

Spec == Init /\ [][Next]_vars

------------------------------------------------------------------------------
(* Properties *)

\* Every variable stays in its range: in particular a read returns a whole value
\* and never one with words that were not copied.
TypeOK ==
    /\ sequence \in Nat
    /\ data \in Value
    /\ writing \subseteq Writers
    /\ rpc \in [Readers -> {"idle", "copy"}]
    /\ seq1 \in [Readers -> Nat]
    /\ copy \in [Readers -> [Words -> Val \cup {NoValue}]]
    /\ out \in [Readers -> Value \cup {NoValue}]
    /\ history \in Seq(Value)
    /\ began \in [Readers -> Nat]

\* There is at most one writer: what the callers have to guarantee themselves.
SingleWriter == \A w, u \in Writers : w = u

\* A value returned by read is one the lock really protected as a whole, at a
\* moment between the reader's first load and its return: it is never assembled
\* from two writes, never half of one, and never older than the call.
ReadsAreSnapshots ==
    \A r \in Readers : out[r] # NoValue =>
        \E k \in began[r] .. Len(history) : history[k] = out[r]

\* The lock is even exactly when nobody writes ("write: exclusive lock"): readers
\* wait for every writer.
OddWhileWriting == (sequence % 2 = 1) <=> (writing # {})

------------------------------------------------------------------------------
(* The inductive invariant behind the properties *)

\* The sequence number counts completed writes, plus one while a writer is active;
\* between writes the protected data is the latest value of the history.
CountInv ==
    /\ sequence = 2 * (Len(history) - 1) + (IF writing = {} THEN 0 ELSE 1)
    /\ Len(history) >= 1
    /\ writing = {} => data = history[Len(history)]

\* While the number a reader loaded is still current, what it has copied is the
\* protected value.
ReaderInv ==
    \A r \in Readers :
        /\ began[r] >= 1 /\ began[r] <= Len(history)
        /\ rpc[r] = "copy" =>
              /\ seq1[r] = 2 * (began[r] - 1)
              /\ seq1[r] = sequence =>
                    \A i \in Words : copy[r][i] # NoValue => copy[r][i] = data[i]

\* Together with the type and the snapshot property, these parts are inductive
\* when there is one writer.
SeqlockInv == TypeOK /\ CountInv /\ ReaderInv /\ ReadsAreSnapshots

=============================================================================
