-------------------------------- MODULE Pipe --------------------------------
(***************************************************************************)
(* The pipe of ipc/pipe.rs: a byte ring under a spin mutex, one open flag  *)
(* per end, and one queue of wakers per direction.  Tasks that share an    *)
(* end poll it concurrently.  What matters is which checks a poll makes    *)
(* outside the buffer's lock: poll_read loads writer_open and poll_write   *)
(* loads reader_open before they lock, and the two close functions never   *)
(* take that lock.                                                         *)
(*                                                                         *)
(* Bytes are numbered in the order they enter the ring, so the ghost       *)
(* `received' tells whether anything was lost, repeated or reordered.      *)
(* `steady' is a way of using the pipe: blocking futures only, none of     *)
(* them dropped, and both ends kept open.                                  *)
(***************************************************************************)
EXTENDS Naturals, Sequences, FiniteSets, FiniteSetsExt, ModArith

CONSTANTS Readers, Writers,
          Capacity,     \* PipeBufferSize
          WordMod,      \* positions are usize: arithmetic modulo WordMod
          Modes,        \* the values of PipeFlags.non_blocking considered
          MaxChunk,     \* bound on the length of one read or write
          MaxBytes,     \* bound on the bytes ever written
          MaxStale      \* bound on the wakers queued when a future is dropped

ASSUME RolesDisjoint == Readers \cap Writers = {}
ASSUME CapacityDividesWord ==
    /\ Capacity \in Nat \ {0}
    /\ WordMod \in Nat
    /\ Capacity < WordMod
    /\ WordMod % Capacity = 0
ASSUME ChunksAreNumbers == MaxChunk \in Nat

VARIABLES buffer, read_pos, write_pos,      \* RingBuffer
          reader_open, writer_open,
          non_blocking, steady,
          read_wakers, write_wakers,
          pc,         \* where each task is
          woken,      \* the tasks whose waker fired since their last poll
          received    \* ghost: the bytes handed to readers, in order

ring == <<buffer, read_pos, write_pos, received>>
ends == <<reader_open, writer_open, non_blocking, steady>>
wakers == <<read_wakers, write_wakers, woken>>
vars == <<ring, ends, wakers, pc>>

Tasks == Readers \cup Writers

Init ==
    /\ buffer = [i \in 0 .. Capacity - 1 |-> 0]
    /\ read_pos = 0
    /\ write_pos = 0
    /\ reader_open = TRUE
    /\ writer_open = TRUE
    /\ steady \in BOOLEAN
    /\ non_blocking \in Modes /\ (steady => ~non_blocking)
    /\ read_wakers = <<>>
    /\ write_wakers = <<>>
    /\ pc = [t \in Tasks |-> "idle"]
    /\ woken = {}
    /\ received = <<>>

Goto(t, place) == pc' = [pc EXCEPT ![t] = place]

----------------------------------------------------------------------------
(* RingBuffer.  Both ends run under the mutex, so a transfer is one step.  *)

Used == (write_pos + WordMod - read_pos) % WordMod
Free == Capacity - Used

\* ghost: how many bytes have ever entered the ring
Entered == Len(received) + Used

Put(n) ==
    /\ buffer' = [i \in 0 .. Capacity - 1 |->
                    IF \E k \in 0 .. n - 1 : i = (write_pos + k) % Capacity
                    THEN Entered + 1
                         + (CHOOSE k \in 0 .. n - 1 : i = (write_pos + k) % Capacity)
                    ELSE buffer[i]]
    /\ write_pos' = (write_pos + n) % WordMod
    /\ UNCHANGED <<read_pos, received>>

Get(n) ==
    /\ received' = received \o
           [k \in 1 .. n |-> buffer[(read_pos + k - 1) % Capacity]]
    /\ read_pos' = (read_pos + n) % WordMod
    /\ UNCHANGED <<buffer, write_pos>>

\* Faulty variant: the chunk is not cut to the space that is left.
ToWriteUnlimited(len) == len

\* How much of a chunk goes through: data.len().min(available).
ToWrite(len) == Min({len, Free})
ToRead(len) == Min({len, Used})

WakeOne(queue) ==
    woken' = IF queue = <<>> THEN woken ELSE woken \cup {Head(queue)}
Popped(queue) == IF queue = <<>> THEN queue ELSE Tail(queue)

----------------------------------------------------------------------------
(* Reading: PipeReadFuture, poll_read, read_sync.                          *)

ReadCall(r) ==
    /\ pc[r] = "idle"
    /\ Goto(r, "check")
    /\ UNCHANGED <<ring, ends, wakers>>

PollReadCheck(r) ==
    /\ pc[r] = "check"
    /\ Goto(r, IF writer_open THEN "transfer" ELSE "eof?")
    /\ UNCHANGED <<ring, ends, wakers>>

\* Faulty variant: the ring is not looked at.
PollReadEofUnchecked(r) ==
    /\ pc[r] = "eof?"
    /\ Goto(r, "eof")
    /\ UNCHANGED <<ring, ends, wakers>>

PollReadEof(r) ==
    /\ pc[r] = "eof?"
    /\ Goto(r, IF Used = 0 THEN "eof" ELSE "transfer")
    /\ UNCHANGED <<ring, ends, wakers>>

\* Faulty variant: no writer is woken.
PollReadSilent(r, len) ==
    /\ pc[r] = "transfer"
    /\ Used > 0
    /\ Get(ToRead(len))
    /\ Goto(r, "idle")
    /\ UNCHANGED <<ends, wakers>>

PollRead(r, len) ==
    /\ pc[r] = "transfer"
    /\ Used > 0
    /\ Get(ToRead(len))
    /\ WakeOne(write_wakers)
    /\ write_wakers' = Popped(write_wakers)
    /\ Goto(r, "idle")
    /\ UNCHANGED <<ends, read_wakers>>

\* The buffer's lock is still held while the waker is queued.
PollReadEmpty(r) ==
    /\ pc[r] = "transfer"
    /\ Used = 0
    /\ IF non_blocking
       THEN Goto(r, "idle") /\ UNCHANGED read_wakers
       ELSE Goto(r, "parked") /\ read_wakers' = Append(read_wakers, r)
    /\ UNCHANGED <<ring, ends, write_wakers, woken>>

ReadSync(r, len) ==
    /\ ~steady
    /\ pc[r] = "idle"
    /\ \/ /\ Used > 0
          /\ Get(ToRead(len))
          /\ UNCHANGED pc
       \/ /\ Used = 0
          /\ ~writer_open
          /\ Goto(r, "eof")
          /\ UNCHANGED ring
    /\ UNCHANGED <<ends, wakers>>

----------------------------------------------------------------------------
(* Writing: PipeWriteFuture, poll_write, write_sync.                       *)

WriteCall(w) ==
    /\ pc[w] = "idle"
    /\ Entered < MaxBytes
    /\ Goto(w, "check")
    /\ UNCHANGED <<ring, ends, wakers>>

WriteSyncCall(w) ==
    /\ ~steady
    /\ pc[w] = "idle"
    /\ Entered < MaxBytes
    /\ Goto(w, IF reader_open THEN "sync" ELSE "broken")
    /\ UNCHANGED <<ring, ends, wakers>>

PollWriteCheck(w) ==
    /\ pc[w] = "check"
    /\ Goto(w, IF reader_open THEN "transfer" ELSE "broken")
    /\ UNCHANGED <<ring, ends, wakers>>

\* Faulty variant: no reader is woken.
PollWriteSilent(w, len) ==
    /\ pc[w] = "transfer"
    /\ Entered + len =< MaxBytes
    /\ Free > 0
    /\ Put(ToWrite(len))
    /\ Goto(w, "idle")
    /\ UNCHANGED <<ends, wakers>>

PollWrite(w, len) ==
    /\ pc[w] = "transfer"
    /\ Entered + len =< MaxBytes
    /\ Free > 0
    /\ Put(ToWrite(len))
    /\ WakeOne(read_wakers)
    /\ read_wakers' = Popped(read_wakers)
    /\ Goto(w, "idle")
    /\ UNCHANGED <<ends, write_wakers>>

PollWriteFull(w) ==
    /\ pc[w] = "transfer"
    /\ Free = 0
    /\ IF non_blocking
       THEN Goto(w, "idle") /\ UNCHANGED write_wakers
       ELSE Goto(w, "parked") /\ write_wakers' = Append(write_wakers, w)
    /\ UNCHANGED <<ring, ends, read_wakers, woken>>

WriteSync(w, len) ==
    /\ pc[w] = "sync"
    /\ Entered + len =< MaxBytes
    /\ Goto(w, "idle")
    /\ IF Free > 0 THEN Put(ToWrite(len)) ELSE UNCHANGED ring
    /\ UNCHANGED <<ends, wakers>>

----------------------------------------------------------------------------
(* The executor polls a woken task again; a pending future may be dropped  *)
(* (its waker stays queued); and an end closes when its last owner drops   *)
(* it.                                                                     *)

Repoll(t) ==
    /\ pc[t] = "parked"
    /\ t \in woken
    /\ woken' = woken \ {t}
    /\ Goto(t, "check")
    /\ UNCHANGED <<ring, ends, read_wakers, write_wakers>>

Cancel(t) ==
    /\ ~steady
    /\ pc[t] = "parked"
    /\ Len(read_wakers) + Len(write_wakers) =< MaxStale
    /\ Goto(t, "idle")
    /\ UNCHANGED <<ring, ends, wakers>>

LastOwner(t) ==
    \A u \in (IF t \in Readers THEN Readers ELSE Writers) \ {t} : pc[u] = "gone"

DropEnd(t) ==
    /\ ~steady
    /\ pc[t] \in {"idle", "eof", "broken"}
    /\ Goto(t, IF LastOwner(t) THEN "closing" ELSE "gone")
    /\ reader_open' = (reader_open /\ ~(t \in Readers /\ LastOwner(t)))
    /\ writer_open' = (writer_open /\ ~(t \in Writers /\ LastOwner(t)))
    /\ UNCHANGED <<ring, wakers, non_blocking, steady>>

CloseReader(r) ==
    /\ pc[r] = "closing"
    /\ r \in Readers
    /\ woken' = woken \cup {write_wakers[i] : i \in DOMAIN write_wakers}
    /\ write_wakers' = <<>>
    /\ Goto(r, "gone")
    /\ UNCHANGED <<ring, ends, read_wakers>>

CloseWriter(w) ==
    /\ pc[w] = "closing"
    /\ w \in Writers
    /\ woken' = woken \cup {read_wakers[i] : i \in DOMAIN read_wakers}
    /\ read_wakers' = <<>>
    /\ Goto(w, "gone")
    /\ UNCHANGED <<ring, ends, write_wakers>>

----------------------------------------------------------------------------
\* One poll of a read (a write) from its first check to its return.
PollReads(r) ==
    \/ PollReadCheck(r)
    \/ PollReadEof(r)
    \/ \E len \in 1 .. MaxChunk : PollRead(r, len)
    \/ PollReadEmpty(r)

PollWrites(w) ==
    \/ PollWriteCheck(w)
    \/ \E len \in 1 .. MaxChunk : PollWrite(w, len) \/ WriteSync(w, len)
    \/ PollWriteFull(w)

Next ==
    \/ \E r \in Readers :
          \/ ReadCall(r) \/ PollReads(r) \/ CloseReader(r)
          \/ \E len \in 1 .. MaxChunk : ReadSync(r, len)
    \/ \E w \in Writers :
          \/ WriteCall(w) \/ WriteSyncCall(w) \/ PollWrites(w) \/ CloseWriter(w)
    \/ \E t \in Tasks : Repoll(t) \/ Cancel(t) \/ DropEnd(t)

Spec == Init /\ [][Next]_vars

\* A task that runs finishes its poll, the executor polls a woken task, and
\* a reader that has not given up its end keeps asking for bytes.
FairSpec ==
    /\ Spec
    /\ \A r \in Readers :
          /\ WF_vars(PollReads(r))
          /\ WF_vars(ReadCall(r))
          /\ WF_vars(CloseReader(r))
    /\ \A w \in Writers :
          /\ WF_vars(PollWrites(w))
          /\ WF_vars(CloseWriter(w))
    /\ \A t \in Tasks : WF_vars(Repoll(t))

----------------------------------------------------------------------------
\* The bytes handed out are exactly the bytes written, in order, and the
\* ring holds the ones that follow: no partial transfer, no wrap of the
\* buffer or of the usize positions (RingBuffer::read, write) loses,
\* repeats or reorders a byte.
DataIntact ==
    /\ \A i \in DOMAIN received : received[i] = i
    /\ Used =< Capacity
    /\ \A k \in 0 .. Used - 1 :
          buffer[(read_pos + k) % Capacity] = Len(received) + k + 1

\* A reader is told end-of-file (Ok(0) of poll_read and read_sync) only when
\* every byte ever written has been handed out and no writer can add one.
EofIsFinal ==
    (\E r \in Readers : pc[r] = "eof") =>
        /\ Used = 0
        /\ ~writer_open
        /\ \A w \in Writers : pc[w] \in {"closing", "gone"}

\* Readers get what was written, to the last byte, and only then end-of-file.
PipeSound == DataIntact /\ EofIsFinal

\* In steady use every byte that enters the ring is handed out: once the
\* writes have come to an end (MaxBytes bounds them) the ring is empty, for
\* poll_write wakes a parked reader under the lock it parked under.
EverythingIsRead == <>[](steady => Used = 0)

\* In steady use a writer parked on a full ring is resumed by the read that
\* makes room.
WriterResumes ==
    \A w \in Writers : (steady /\ pc[w] = "parked") ~> pc[w] # "parked"

\* In steady use neither side waits for the other for ever: what is written is
\* read, and a full ring does not stop a writer for good.
PipeFlows == EverythingIsRead /\ WriterResumes

\* Closing the writing end resumes every reader that waits (close_writer:
\* "wake the tasks that wait to read").
CloseResumesReaders ==
    \A r \in Readers :
        (pc[r] = "parked" /\ ~writer_open) ~> pc[r] # "parked"
----------------------------------------------------------------------------
(* The proof of PipeSound, for any number of tasks on either end, any      *)
(* capacity that divides the range of usize and any chunk length.          *)

Places ==
    {"idle", "check", "eof?", "transfer", "parked", "sync", "eof", "broken",
     "closing", "gone"}

PipeTypeOK ==
    /\ buffer \in [0 .. Capacity - 1 -> Nat]
    /\ read_pos \in 0 .. WordMod - 1
    /\ write_pos \in 0 .. WordMod - 1
    /\ writer_open \in BOOLEAN
    /\ pc \in [Tasks -> Places]
    /\ received \in Seq(Nat)

\* A closed writing end has no writer left that could still put a byte in,
\* and a reader that saw it closed before it took the lock saw the truth.
WritersLeft ==
    /\ ~writer_open => \A w \in Writers : pc[w] \in {"closing", "gone"}
    /\ \A r \in Readers : pc[r] = "eof?" => ~writer_open

PipeInv == PipeTypeOK /\ DataIntact /\ WritersLeft /\ EofIsFinal

\* What a transfer works with: the count of bytes in the ring is a number,
\* and the writing position is the reading position plus that count.
LEMMA UsedIsDistance ==
    ASSUME PipeTypeOK
    PROVE  /\ Used \in 0 .. WordMod - 1
           /\ (read_pos + Used) % WordMod = write_pos
<1>1. WordMod \in Nat /\ WordMod >= 1
  BY CapacityDividesWord
<1>2. write_pos + WordMod - read_pos \in Nat
  BY <1>1 DEF PipeTypeOK
<1>3. Used \in 0 .. WordMod - 1
  BY <1>1, <1>2, DivMod DEF Used
<1>4. Used \in Nat /\ Used = (write_pos + WordMod - read_pos) % WordMod
  BY <1>1, <1>3 DEF Used
<1> QED
  BY <1>1, <1>3, <1>4, DistanceLeads DEF PipeTypeOK

\* Reducing a position to a usize first does not move it in the buffer.
LEMMA SlotOfPosition ==
    ASSUME NEW a \in Nat, NEW k \in Nat
    PROVE  ((a % WordMod) + k) % Capacity = (a + k) % Capacity
<1>1. /\ WordMod \in Nat /\ WordMod >= 1
      /\ Capacity \in Nat /\ Capacity >= 1
      /\ WordMod % Capacity = 0
  BY CapacityDividesWord
<1>2. a % WordMod \in Nat
  BY <1>1, DivMod
<1>3. (a % WordMod) % Capacity = a % Capacity
  BY <1>1, ModMod
<1>4. ((a % WordMod) + k) % Capacity = (((a % WordMod) % Capacity) + k) % Capacity
  BY <1>1, <1>2, ModAdd
<1>5. ((a % Capacity) + k) % Capacity = (a + k) % Capacity
  BY <1>1, ModAdd
<1> QED
  BY <1>3, <1>4, <1>5

\* Bytes less than a capacity apart have slots of their own.
LEMMA SlotsApart ==
    ASSUME NEW a \in Nat, NEW b \in Nat, a % Capacity = b % Capacity,
           a - b < Capacity, b - a < Capacity
    PROVE  a = b
<1>1. Capacity \in Nat /\ Capacity >= 1
  BY CapacityDividesWord
<1> QED
  BY <1>1, ModInjective

\* min picks one of its arguments, and neither is smaller.
LEMMA MinOfTwo ==
    ASSUME NEW a \in Int, NEW b \in Int
    PROVE  /\ Min({a, b}) \in {a, b}
           /\ Min({a, b}) =< a
           /\ Min({a, b}) =< b
<1>1. \E x \in {a, b} : \A y \in {a, b} : x =< y
  <2>1. CASE a =< b
    BY <2>1
  <2>2. CASE b =< a
    BY <2>2
  <2> QED
    BY <2>1, <2>2
<1> QED
  BY <1>1 DEF Min

\* RingBuffer::write puts n bytes, no more than fit, behind the others.
LEMMA PutKeepsData ==
    ASSUME PipeTypeOK, DataIntact, NEW n \in Nat, n =< Free, Put(n)
    PROVE  /\ buffer' \in [0 .. Capacity - 1 -> Nat]
           /\ read_pos' \in 0 .. WordMod - 1
           /\ write_pos' \in 0 .. WordMod - 1
           /\ received' \in Seq(Nat)
           /\ DataIntact'
<1> DEFINE C == Capacity
           W == WordMod
           r == read_pos
           w == write_pos
           u == Used
           L == Len(received)
<1>1. C \in Nat /\ C >= 1 /\ W \in Nat /\ W >= 1 /\ C < W
  BY CapacityDividesWord
<1>2. r \in Nat /\ w \in Nat /\ r < W /\ w < W /\ L \in Nat
  BY <1>1 DEF PipeTypeOK
<1>3. u \in Nat /\ u + n =< C /\ u =< C /\ u < W
  BY <1>1, UsedIsDistance DEF DataIntact, Free
<1>4. (r + u) % W = w
  BY UsedIsDistance
<1>5. read_pos' = r /\ received' = received
  BY DEF Put
<1>6. write_pos' = (w + n) % W /\ write_pos' \in 0 .. W - 1
  BY <1>1, <1>2, DivMod DEF Put
<1>7. Used' = u + n
  <2>1. u = (w + W - r) % W /\ u + n < W
    BY <1>1, <1>3 DEF Used
  <2>2. w \in 0 .. W - 1 /\ r \in 0 .. W - 1
    BY DEF PipeTypeOK
  <2>3. (((w + n) % W) + W - r) % W = u + n
    <3> HIDE DEF u, w, r, W
    <3> QED
      BY <2>1, <2>2, <1>1, <1>3, DistanceGrows
  <2> QED
    BY <2>3, <1>5, <1>6 DEF Used
<1>8. ASSUME NEW j \in Nat
      PROVE  (w + j) % C = (r + u + j) % C
  <2>1. r + u \in Nat
    BY <1>2, <1>3
  <2> HIDE DEF u
  <2> QED
    BY <2>1, <1>4, SlotOfPosition
<1>9. \A i \in 0 .. C - 1 :
         buffer'[i] = IF \E j \in 0 .. n - 1 : i = (w + j) % C
                      THEN L + u + 1 + (CHOOSE j \in 0 .. n - 1 : i = (w + j) % C)
                      ELSE buffer[i]
  BY DEF Put, Entered
<1> HIDE DEF u, L
<1>10. buffer' \in [0 .. C - 1 -> Nat]
  <2>1. ASSUME NEW i \in 0 .. C - 1
        PROVE  buffer'[i] \in Nat
    <3>1. CASE \E j \in 0 .. n - 1 : i = (w + j) % C
      <4>1. (CHOOSE j \in 0 .. n - 1 : i = (w + j) % C) \in 0 .. n - 1
        BY <3>1
      <4> QED
        BY <3>1, <4>1, <1>2, <1>3, <1>9
    <3>2. CASE ~ \E j \in 0 .. n - 1 : i = (w + j) % C
      BY <3>2, <1>9 DEF PipeTypeOK
    <3> QED
      BY <3>1, <3>2
  <2>2. buffer' = [i \in 0 .. C - 1 |-> buffer'[i]]
    BY DEF Put
  <2> QED
    BY <2>1, <2>2
<1>11. ASSUME NEW k \in 0 .. u + n - 1
       PROVE  buffer'[(r + k) % C] = L + k + 1
  <2> DEFINE i == (r + k) % C
  <2>1. k \in Nat /\ k < u + n /\ r + k \in Nat
    BY <1>2, <1>3
  <2>2. i \in 0 .. C - 1
    BY <2>1, <1>1, DivMod
  <2>3. ASSUME NEW j \in 0 .. n - 1, i = (w + j) % C
        PROVE  k = u + j
    <3>1. (r + u + j) % C = (r + k) % C
      BY <2>3, <1>8
    <3>2. /\ r + u + j \in Nat
          /\ (r + u + j) - (r + k) < C
          /\ (r + k) - (r + u + j) < C
      BY <1>1, <1>2, <1>3, <2>1
    <3>3. r + u + j = r + k
      BY <3>1, <3>2, <2>1, SlotsApart
    <3> QED
      BY <3>3, <1>2, <1>3, <2>1
  <2>4. CASE k < u
    <3>1. ~ \E j \in 0 .. n - 1 : i = (w + j) % C
      BY <2>3, <2>4, <1>3, <2>1
    <3>2. buffer'[i] = buffer[i]
      BY <3>1, <2>2, <1>9
    <3> QED
      BY <3>2, <2>4, <2>1, <1>3 DEF DataIntact, u, L
  <2>5. CASE u =< k
    <3>1. k - u \in 0 .. n - 1 /\ k - u \in Nat /\ r + u + (k - u) = r + k
      BY <2>1, <2>5, <1>2, <1>3
    <3>2. i = (w + (k - u)) % C
      BY <3>1, <1>8
    <3> DEFINE c == CHOOSE j \in 0 .. n - 1 : i = (w + j) % C
    <3>3. c \in 0 .. n - 1 /\ i = (w + c) % C
      BY <3>1, <3>2
    <3>4. k = u + c
      BY <3>3, <2>3
    <3>5. buffer'[i] = L + u + 1 + c
      BY <3>1, <3>2, <2>2, <1>9
    <3> HIDE DEF c
    <3> QED
      BY <3>3, <3>4, <3>5, <1>2, <1>3, <2>1
  <2> QED
    BY <2>1, <2>4, <2>5, <1>3
<1>12. DataIntact'
  BY <1>3, <1>5, <1>7, <1>11 DEF DataIntact, L
<1> QED
  BY <1>5, <1>6, <1>10, <1>12 DEF PipeTypeOK

\* RingBuffer::read hands out the n oldest bytes, no more than there are.
LEMMA GetKeepsData ==
    ASSUME PipeTypeOK, DataIntact, NEW n \in Nat, n =< Used, Get(n)
    PROVE  /\ read_pos' \in 0 .. WordMod - 1
           /\ received' \in Seq(Nat)
           /\ DataIntact'
<1> DEFINE C == Capacity
           W == WordMod
           r == read_pos
           w == write_pos
           u == Used
           L == Len(received)
           chunk == [k \in 1 .. n |-> buffer[(r + k - 1) % C]]
<1>1. C \in Nat /\ C >= 1 /\ W \in Nat /\ W >= 1 /\ C < W
  BY CapacityDividesWord
<1>2. /\ r \in Nat /\ w \in Nat /\ r < W /\ w < W
      /\ L \in Nat /\ DOMAIN received = 1 .. L /\ received \in Seq(Nat)
  BY <1>1 DEF PipeTypeOK
<1>3. u \in Nat /\ n =< u /\ u =< C /\ u < W
  BY <1>1, UsedIsDistance DEF DataIntact
<1>4. /\ read_pos' = (r + n) % W /\ read_pos' \in 0 .. W - 1
      /\ write_pos' = w /\ buffer' = buffer /\ received' = received \o chunk
  BY <1>1, <1>2, DivMod DEF Get
<1>5. Used' = u - n
  <2>1. u = (w + W - r) % W
    BY DEF Used
  <2>2. w \in 0 .. W - 1 /\ r \in 0 .. W - 1
    BY DEF PipeTypeOK
  <2>3. (w + W - ((r + n) % W)) % W = u - n
    <3> HIDE DEF u, w, r, W
    <3> QED
      BY <2>1, <2>2, <1>1, <1>3, DistanceShrinks
  <2>4. Used' = (w + W - ((r + n) % W)) % W
    <3>1. read_pos' = (r + n) % W /\ write_pos' = w
      BY <1>4
    <3> QED
      BY <3>1 DEF Used
  <2> QED
    BY <2>3, <2>4
<1>6. ASSUME NEW k \in 1 .. n
      PROVE  chunk[k] = L + k
  <2>1. k - 1 \in 0 .. u - 1 /\ r + (k - 1) = r + k - 1
    BY <1>2, <1>3
  <2>2. buffer[(r + (k - 1)) % C] = L + (k - 1) + 1
    BY <2>1 DEF DataIntact
  <2> QED
    BY <2>1, <2>2, <1>2
<1> HIDE DEF u, L
<1>7. chunk \in Seq(Nat) /\ Len(chunk) = n
  <2>1. ASSUME NEW k \in 1 .. n
        PROVE  chunk[k] \in Nat
    <3> HIDE DEF chunk
    <3> QED
      BY <1>2, <1>6
  <2>2. chunk \in [1 .. n -> Nat]
    BY <2>1
  <2> QED
    BY <2>2
<1> HIDE DEF chunk
<1>8. /\ received' \in Seq(Nat) /\ Len(received') = L + n
      /\ DOMAIN received' = 1 .. L + n
      /\ \A i \in 1 .. L + n :
            received'[i] = IF i =< L THEN received[i] ELSE chunk[i - L]
  <2>1. received' \in Seq(Nat)
    BY <1>2, <1>4, <1>7
  <2>2. Len(received') = L + n
    <3>1. Len(received \o chunk) = Len(received) + Len(chunk)
      BY <1>2, <1>7
    <3> QED
      BY <3>1, <1>4, <1>7 DEF L
  <2>3. DOMAIN received' = 1 .. L + n
    BY <2>1, <2>2
  <2>4. ASSUME NEW i \in 1 .. L + n
        PROVE  received'[i] = IF i =< L THEN received[i] ELSE chunk[i - L]
    BY <1>2, <1>4, <1>7 DEF L
  <2> QED
    BY <2>1, <2>2, <2>3, <2>4
<1>9. ASSUME NEW i \in DOMAIN received'
      PROVE  received'[i] = i
  <2>1. i \in 1 .. L + n /\ i \in Nat
    BY <1>2, <1>8
  <2>2. CASE i =< L
    BY <2>1, <2>2, <1>2, <1>8 DEF DataIntact
  <2>3. CASE i > L
    <3>1. i - L \in 1 .. n
      BY <2>1, <2>3, <1>2
    <3>2. received'[i] = chunk[i - L]
      BY <2>1, <2>3, <1>2, <1>8
    <3>3. chunk[i - L] = L + (i - L)
      BY <3>1, <1>6
    <3> QED
      BY <3>2, <3>3, <2>1, <1>2
  <2> QED
    BY <2>1, <2>2, <2>3, <1>2
<1>10. ASSUME NEW k \in 0 .. (u - n) - 1
       PROVE  buffer'[(read_pos' + k) % C] = (L + n) + k + 1
  <2>1. k \in Nat /\ r + n \in Nat /\ r + n + k = r + (n + k) /\ n + k \in 0 .. u - 1
    BY <1>2, <1>3
  <2>2. (read_pos' + k) % C = (r + (n + k)) % C
    BY <2>1, <1>4, SlotOfPosition
  <2>3. buffer[(r + (n + k)) % C] = L + (n + k) + 1
    BY <2>1 DEF DataIntact, u, L
  <2> QED
    BY <2>1, <2>2, <2>3, <1>2, <1>4
<1>11. DataIntact'
  BY <1>3, <1>1, <1>5, <1>8, <1>9, <1>10 DEF DataIntact
<1> QED
  BY <1>4, <1>8, <1>11

\* What a read takes is there, and what a write puts fits.
LEMMA TransferFits ==
    ASSUME PipeTypeOK, DataIntact, NEW len \in 1 .. MaxChunk
    PROVE  /\ ToRead(len) \in Nat /\ ToRead(len) =< Used
           /\ ToWrite(len) \in Nat /\ ToWrite(len) =< Free
<1>1. len \in Nat /\ Used \in Nat
  BY UsedIsDistance, ChunksAreNumbers, CapacityDividesWord
<1>2. Free \in Nat
  BY <1>1, CapacityDividesWord DEF Free, DataIntact
<1>3. ToRead(len) \in Nat /\ ToRead(len) =< Used
  BY <1>1, MinOfTwo DEF ToRead
<1>4. ToWrite(len) \in Nat /\ ToWrite(len) =< Free
  <2>1. /\ Min({len, Free}) \in {len, Free}
        /\ Min({len, Free}) =< Free
    BY <1>1, <1>2, MinOfTwo
  <2> QED
    BY <2>1, <1>1, <1>2 DEF ToWrite
<1> QED
  BY <1>3, <1>4

\* A step that leaves the ring and the writing end alone, and sends no reader
\* to an end-of-file and no departed writer back, keeps the invariant.
LEMMA ControlStep ==
    ASSUME PipeInv, UNCHANGED ring, UNCHANGED writer_open,
           NEW t \in Tasks, NEW place \in Places, Goto(t, place),
           t \in Writers => writer_open \/ (pc[t] = "closing" /\ place = "gone"),
           t \in Readers /\ place = "eof?" => ~writer_open,
           t \in Readers /\ place = "eof" => Used = 0 /\ ~writer_open
    PROVE  PipeInv'
<1>1. /\ pc' \in [Tasks -> Places] /\ pc'[t] = place
      /\ \A u \in Tasks \ {t} : pc'[u] = pc[u]
  BY DEF PipeInv, PipeTypeOK, Goto
<1>2. Used' = Used
  BY DEF ring, Used
<1>3. PipeTypeOK'
  BY <1>1 DEF PipeInv, PipeTypeOK, ring
<1>4. DataIntact'
  BY <1>2 DEF PipeInv, DataIntact, ring
<1>5. WritersLeft'
  BY <1>1 DEF PipeInv, WritersLeft, Tasks
<1>6. EofIsFinal'
  <2>1. SUFFICES ASSUME NEW r \in Readers, pc'[r] = "eof"
                 PROVE  Used = 0 /\ ~writer_open
    BY <2>1, <1>2, <1>5 DEF EofIsFinal, WritersLeft
  <2> QED
    BY <2>1, <1>1 DEF PipeInv, EofIsFinal, Tasks
<1> QED
  BY <1>3, <1>4, <1>5, <1>6 DEF PipeInv

\* A transfer by a task that goes on from a place where it may transfer.
LEMMA TransferStep ==
    ASSUME PipeInv, UNCHANGED writer_open, NEW t \in Tasks, Goto(t, "idle"),
           NEW len \in 1 .. MaxChunk,
           \/ t \in Readers /\ Used > 0 /\ Get(ToRead(len))
           \/ t \in Writers /\ writer_open /\ Put(ToWrite(len))
    PROVE  PipeInv'
<1>1. /\ pc' \in [Tasks -> Places] /\ pc'[t] = "idle"
      /\ \A u \in Tasks \ {t} : pc'[u] = pc[u]
  BY DEF PipeInv, PipeTypeOK, Goto, Places
<1>2. /\ buffer' \in [0 .. Capacity - 1 -> Nat]
      /\ read_pos' \in 0 .. WordMod - 1
      /\ write_pos' \in 0 .. WordMod - 1
      /\ received' \in Seq(Nat)
      /\ DataIntact'
  <2>1. CASE Get(ToRead(len))
    <3>1. buffer' = buffer /\ write_pos' = write_pos
      BY <2>1 DEF Get
    <3> QED
      BY <2>1, <3>1, TransferFits, GetKeepsData DEF PipeInv, PipeTypeOK
  <2>2. CASE Put(ToWrite(len))
    BY <2>2, TransferFits, PutKeepsData DEF PipeInv
  <2> QED
    BY <2>1, <2>2
<1>3. PipeTypeOK'
  BY <1>1, <1>2 DEF PipeInv, PipeTypeOK
<1>4. t \in Writers => t \notin Readers
  BY RolesDisjoint
<1>5. WritersLeft'
  BY <1>1, <1>4 DEF PipeInv, WritersLeft, Tasks
<1>6. EofIsFinal'
  <2>1. ~ \E r \in Readers : pc[r] = "eof"
    BY CapacityDividesWord, UsedIsDistance DEF PipeInv, EofIsFinal
  <2> QED
    BY <1>1, <2>1 DEF EofIsFinal, Tasks
<1> QED
  BY <1>2, <1>3, <1>5, <1>6 DEF PipeInv

LEMMA InitHolds == Init => PipeInv
<1> SUFFICES ASSUME Init PROVE PipeInv
  OBVIOUS
<1>1. Used = 0
  <2>1. 0 + WordMod - 0 = WordMod * 1 + 0 /\ 0 + WordMod - 0 \in Nat
    BY CapacityDividesWord
  <2>2. (0 + WordMod - 0) % WordMod = 0
    BY <2>1, CapacityDividesWord, ModOf
  <2> QED
    BY <2>2 DEF Init, Used
<1>2. PipeTypeOK
  <2>1. received \in Seq(Nat)
    BY DEF Init
  <2>2. buffer \in [0 .. Capacity - 1 -> Nat]
    BY DEF Init
  <2>3. pc \in [Tasks -> Places]
    BY DEF Init, Places
  <2>4. read_pos \in 0 .. WordMod - 1 /\ write_pos \in 0 .. WordMod - 1
    BY CapacityDividesWord DEF Init
  <2>5. writer_open \in BOOLEAN
    BY DEF Init
  <2> QED
    BY <2>1, <2>2, <2>3, <2>4, <2>5 DEF PipeTypeOK
<1>3. DataIntact
  BY <1>1, CapacityDividesWord DEF Init, DataIntact
<1>4. WritersLeft /\ EofIsFinal
  BY DEF Init, WritersLeft, EofIsFinal, Tasks
<1> QED
  BY <1>2, <1>3, <1>4 DEF PipeInv

\* Every step of a reader, of a writer and of the executor keeps it.
LEMMA StepHolds == PipeInv /\ [Next]_vars => PipeInv'
<1> SUFFICES ASSUME PipeInv, [Next]_vars PROVE PipeInv'
  OBVIOUS
<1>1. pc \in [Tasks -> Places] /\ writer_open \in BOOLEAN
  BY DEF PipeInv, PipeTypeOK
<1>2. \A w \in Writers : pc[w] \notin {"closing", "gone"} => writer_open
  BY <1>1 DEF PipeInv, WritersLeft
<1>3. ASSUME NEW r \in Readers,
             \/ ReadCall(r) \/ PollReads(r) \/ CloseReader(r)
             \/ \E len \in 1 .. MaxChunk : ReadSync(r, len)
      PROVE  PipeInv'
  <2>1. r \in Tasks /\ r \notin Writers
    BY RolesDisjoint DEF Tasks
  <2>2. CASE ReadCall(r)
    BY <2>1, <2>2, ControlStep DEF ReadCall, ends, Places
  <2>3. CASE PollReadCheck(r)
    BY <2>1, <2>3, ControlStep DEF PollReadCheck, ends, Places
  <2>4. CASE PollReadEof(r)
    <3>1. ~writer_open
      BY <2>4 DEF PollReadEof, PipeInv, WritersLeft
    <3> QED
      BY <2>1, <2>4, <3>1, ControlStep DEF PollReadEof, ends, Places
  <2>5. ASSUME NEW len \in 1 .. MaxChunk, PollRead(r, len)
        PROVE  PipeInv'
    BY <2>1, <2>5, TransferStep DEF PollRead, ends
  <2>6. CASE PollReadEmpty(r)
    <3>1. CASE non_blocking
      BY <2>1, <2>6, <3>1, ControlStep DEF PollReadEmpty, ends, Places
    <3>2. CASE ~non_blocking
      BY <2>1, <2>6, <3>2, ControlStep DEF PollReadEmpty, ends, Places
    <3> QED
      BY <3>1, <3>2
  <2>7. CASE CloseReader(r)
    BY <2>1, <2>7, ControlStep DEF CloseReader, ends, Places
  <2>8. ASSUME NEW len \in 1 .. MaxChunk, ReadSync(r, len)
        PROVE  PipeInv'
    <3>1. CASE Used > 0 /\ Get(ToRead(len)) /\ UNCHANGED pc
      <4>1. Goto(r, "idle")
        BY <1>1, <2>1, <2>8, <3>1 DEF ReadSync, Goto
      <4> QED
        BY <2>1, <2>8, <3>1, <4>1, TransferStep DEF ReadSync, ends
    <3>2. CASE Used = 0 /\ ~writer_open /\ Goto(r, "eof") /\ UNCHANGED ring
      BY <2>1, <2>8, <3>2, ControlStep DEF ReadSync, ends, Places
    <3> QED
      BY <2>8, <3>1, <3>2 DEF ReadSync
  <2> QED
    BY <1>3, <2>2, <2>3, <2>4, <2>5, <2>6, <2>7, <2>8 DEF PollReads
<1>4. ASSUME NEW w \in Writers,
             WriteCall(w) \/ WriteSyncCall(w) \/ PollWrites(w) \/ CloseWriter(w)
      PROVE  PipeInv'
  <2>1. w \in Tasks /\ w \notin Readers
    BY RolesDisjoint DEF Tasks
  <2>2. CASE WriteCall(w)
    BY <1>2, <2>1, <2>2, ControlStep DEF WriteCall, ends, Places
  <2>3. CASE WriteSyncCall(w)
    BY <1>2, <2>1, <2>3, ControlStep DEF WriteSyncCall, ends, Places
  <2>4. CASE PollWriteCheck(w)
    BY <1>2, <2>1, <2>4, ControlStep DEF PollWriteCheck, ends, Places
  <2>5. ASSUME NEW len \in 1 .. MaxChunk, PollWrite(w, len)
        PROVE  PipeInv'
    BY <1>2, <2>1, <2>5, TransferStep DEF PollWrite, ends
  <2>6. ASSUME NEW len \in 1 .. MaxChunk, WriteSync(w, len)
        PROVE  PipeInv'
    <3>1. CASE Free > 0
      BY <1>2, <2>1, <2>6, <3>1, TransferStep DEF WriteSync, ends
    <3>2. CASE ~(Free > 0)
      BY <1>2, <2>1, <2>6, <3>2, ControlStep DEF WriteSync, ends, Places
    <3> QED
      BY <3>1, <3>2
  <2>7. CASE PollWriteFull(w)
    <3>1. CASE non_blocking
      BY <1>2, <2>1, <2>7, <3>1, ControlStep DEF PollWriteFull, ends, Places
    <3>2. CASE ~non_blocking
      BY <1>2, <2>1, <2>7, <3>2, ControlStep DEF PollWriteFull, ends, Places
    <3> QED
      BY <3>1, <3>2
  <2>8. CASE CloseWriter(w)
    BY <2>1, <2>8, ControlStep DEF CloseWriter, ends, Places
  <2> QED
    BY <1>4, <2>2, <2>3, <2>4, <2>5, <2>6, <2>7, <2>8 DEF PollWrites
<1>5. ASSUME NEW t \in Tasks, Repoll(t) \/ Cancel(t)
      PROVE  PipeInv'
  <2>1. CASE Repoll(t)
    BY <1>2, <2>1, ControlStep DEF Repoll, ends, Places
  <2>2. CASE Cancel(t)
    BY <1>2, <2>2, ControlStep DEF Cancel, ends, Places
  <2> QED
    BY <1>5, <2>1, <2>2
<1>6. ASSUME NEW t \in Tasks, DropEnd(t)
      PROVE  PipeInv'
  <2>1. CASE t \in Readers
    <3>1. UNCHANGED writer_open /\ UNCHANGED ring /\ t \notin Writers
      BY <1>1, <1>6, <2>1, RolesDisjoint DEF DropEnd
    <3> QED
      BY <1>6, <3>1, ControlStep DEF DropEnd, Places
  <2>2. CASE t \in Writers /\ ~LastOwner(t)
    <3>1. UNCHANGED writer_open /\ UNCHANGED ring /\ t \notin Readers
      BY <1>1, <1>6, <2>2, RolesDisjoint DEF DropEnd
    <3> QED
      BY <1>2, <1>6, <2>2, <3>1, ControlStep DEF DropEnd, Places
  <2>3. CASE t \in Writers /\ LastOwner(t)
    <3>1. /\ UNCHANGED ring /\ t \notin Readers /\ writer_open' = FALSE
          /\ Goto(t, "closing")
          /\ \A u \in Writers \ {t} : pc[u] = "gone"
      BY <1>6, <2>3, RolesDisjoint DEF DropEnd, LastOwner
    <3>2. /\ pc' \in [Tasks -> Places] /\ pc'[t] = "closing"
          /\ \A u \in Tasks \ {t} : pc'[u] = pc[u]
      BY <1>1, <3>1 DEF Goto, Places
    <3>3. Used' = Used
      BY <3>1 DEF ring, Used
    <3>4. PipeTypeOK'
      BY <3>1, <3>2 DEF PipeInv, PipeTypeOK, ring
    <3>5. DataIntact'
      BY <3>1, <3>3 DEF PipeInv, DataIntact, ring
    <3>6. WritersLeft'
      BY <2>3, <3>1, <3>2 DEF WritersLeft, Tasks
    <3>7. EofIsFinal'
      BY <3>1, <3>2, <3>3, <3>6 DEF PipeInv, EofIsFinal, WritersLeft, Tasks
    <3> QED
      BY <3>4, <3>5, <3>6, <3>7 DEF PipeInv
  <2> QED
    BY <2>1, <2>2, <2>3 DEF Tasks
<1>7. CASE UNCHANGED vars
  <2>1. Used' = Used
    BY <1>7 DEF vars, ring, Used
  <2> QED
    BY <1>7, <2>1 DEF vars, ring, ends, wakers, PipeInv, PipeTypeOK,
                      DataIntact, WritersLeft, EofIsFinal
<1> QED
  BY <1>3, <1>4, <1>5, <1>6, <1>7 DEF Next

\* For every number of readers and writers, every capacity that divides the
\* range of usize and every chunk length: what RingBuffer::read hands out is
\* what RingBuffer::write took, byte for byte, and a reader is told
\* end-of-file only when nothing is left and nothing can follow.
THEOREM PipeCorrect == Spec => []PipeSound
<1>1. PipeInv => PipeSound
  BY DEF PipeInv, PipeSound
<1> QED
  BY <1>1, InitHolds, StepHolds, PTL DEF Spec
=============================================================================
