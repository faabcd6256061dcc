------------------------------ MODULE SpscRing ------------------------------
(***************************************************************************)
(* SpscRingBuffer<T, N> of src/sync/lockfree.rs: one producer, one         *)
(* consumer, two indices modulo N and N slots, one of which stays unused.  *)
(*                                                                         *)
(* A step of the model is one access to shared memory.  The producer alone *)
(* stores `head' and the consumer alone stores `tail', so the copies they  *)
(* load of their own index need no variable.  Release stores and Acquire   *)
(* loads of the two indices are what makes interleaving a faithful reading *)
(* of the buffer accesses (the kernel runs on x86_64 only).                *)
(*                                                                         *)
(* `pushed' and `popped' are history: the values whose push has returned   *)
(* Ok, and the values handed out by pop or destroyed by drop, in order.    *)
(***************************************************************************)
EXTENDS Integers, Sequences

CONSTANTS N,          \* slots of the buffer
          Val,        \* values of the element type T
          Uninit,     \* a slot that was never written
          WordMod,    \* 2^w for the width w of usize, the modulus of wrapping_sub
          MaxPushes   \* bound: pushes that may succeed in one behaviour

ASSUME NAssumption == N \in Nat /\ N >= 2
ASSUME UninitAssumption == Uninit \notin Val
ASSUME MaxPushesAssumption == MaxPushes \in Nat

VARIABLES head,      \* write index, stored by the producer only
          tail,      \* read index, stored by the consumer only
          buffer,    \* the slots
          prodPc, prodVal,   \* the producer's position inside push, its value
          consPc, consVal,   \* the consumer's position inside pop or peek, what it read
          alive,     \* FALSE once the buffer has been dropped
          pushed, popped, res

vars == <<head, tail, buffer, prodPc, prodVal, consPc, consVal, alive,
          pushed, popped, res>>

Slots == 0 .. N - 1

\* (i + 1) % N, the successor of an index
NextIndex(i) == (i + 1) % N

Init ==
    /\ head = 0
    /\ tail = 0
    /\ buffer = [i \in Slots |-> Uninit]
    /\ prodPc = "idle" /\ prodVal = Uninit
    /\ consPc = "idle" /\ consVal = Uninit
    /\ alive = TRUE
    /\ pushed = <<>> /\ popped = <<>> /\ res = "none"

------------------------------------------------------------------------------
(* push *)

\* Faulty variant: push without its fullness test.
PushCheckUnchecked(v) ==
    /\ alive /\ prodPc = "idle" /\ Len(pushed) < MaxPushes
    /\ prodPc' = "write" /\ prodVal' = v /\ res' = res
    /\ UNCHANGED <<head, tail, buffer, consPc, consVal, alive, pushed, popped>>

\* Load head and tail; a full buffer returns the value to the caller.
PushCheck(v) ==
    /\ alive
    /\ prodPc = "idle"
    /\ Len(pushed) < MaxPushes
    /\ \/ /\ NextIndex(head) = tail
          /\ res' = "full"
          /\ UNCHANGED <<prodPc, prodVal>>
       \/ /\ NextIndex(head) # tail
          /\ prodPc' = "write"
          /\ prodVal' = v
          /\ UNCHANGED res
    /\ UNCHANGED <<head, tail, buffer, consPc, consVal, alive, pushed, popped>>

\* Write the value into slot[head].
PushWrite ==
    /\ prodPc = "write"
    /\ buffer' = [buffer EXCEPT ![head] = prodVal]
    /\ prodPc' = "publish"
    /\ UNCHANGED <<head, tail, prodVal, consPc, consVal, alive, pushed, popped, res>>

\* Store head: the element becomes visible to the consumer and push returns Ok.
PushPublish ==
    /\ prodPc = "publish"
    /\ head' = NextIndex(head)
    /\ prodPc' = "idle"
    /\ prodVal' = Uninit
    /\ pushed' = Append(pushed, prodVal)
    /\ res' = "ok"
    /\ UNCHANGED <<tail, buffer, consPc, consVal, alive, popped>>

------------------------------------------------------------------------------
(* pop and peek *)

\* Faulty variant: the slot is handed back to the producer before it is read.
PopCheckEarlyRelease ==
    /\ alive /\ consPc = "idle" /\ tail # head
    /\ tail' = NextIndex(tail)
    /\ consPc' = "read"
    /\ UNCHANGED <<head, buffer, prodPc, prodVal, consVal, alive, pushed, popped, res>>

\* Load tail and head; an empty buffer returns None.
PopCheck ==
    /\ alive
    /\ consPc = "idle"
    /\ \/ /\ tail = head
          /\ res' = "empty"
          /\ UNCHANGED consPc
       \/ /\ tail # head
          /\ consPc' = "read"
          /\ UNCHANGED res
    /\ UNCHANGED <<head, tail, buffer, prodPc, prodVal, consVal, alive, pushed, popped>>

\* Move the value out of slot[tail].
PopRead ==
    /\ consPc = "read"
    /\ consVal' = buffer[tail]
    /\ consPc' = "release"
    /\ UNCHANGED <<head, tail, buffer, prodPc, prodVal, alive, pushed, popped, res>>

\* Store tail: the slot goes back to the producer and pop returns Some(value).
PopRelease ==
    /\ consPc = "release"
    /\ tail' = NextIndex(tail)
    /\ consPc' = "idle"
    /\ consVal' = Uninit
    /\ popped' = Append(popped, consVal)
    /\ res' = "some"
    /\ UNCHANGED <<head, buffer, prodPc, prodVal, alive, pushed>>

\* peek takes the same branch as pop and lends a reference to slot[tail] ...
PeekBegin ==
    /\ alive
    /\ consPc = "idle"
    /\ tail # head
    /\ consPc' = "peek"
    /\ consVal' = buffer[tail]
    /\ UNCHANGED <<head, tail, buffer, prodPc, prodVal, alive, pushed, popped, res>>

\* ... which the consumer gives up before it pops again.
PeekEnd ==
    /\ consPc = "peek"
    /\ consPc' = "idle"
    /\ consVal' = Uninit
    /\ UNCHANGED <<head, tail, buffer, prodPc, prodVal, alive, pushed, popped, res>>

------------------------------------------------------------------------------
(* observers and drop *)

\* Number of slots from tail to head going forward.
Distance == IF head >= tail THEN head - tail ELSE head + N - tail

\* Faulty variant: the subtraction is not reduced modulo N.
LenNotReduced == (head - tail) % WordMod

\* len(): head.wrapping_sub(tail) % N on w-bit words
LenOp == ((head - tail) % WordMod) % N

\* is_empty() and is_full()
IsEmpty == head = tail
IsFull == NextIndex(head) = tail

\* Faulty variant: drop forgets the element in the last slot before the wrap.
DrainedShort == [k \in 1 .. (IF tail > head THEN Distance - 1 ELSE Distance) |->
                    buffer[(tail + k - 1) % N]]

\* What `while self.pop().is_some() {}' hands out, in order.
Drained == [k \in 1 .. Distance |-> buffer[(tail + k - 1) % N]]

\* Drop has exclusive access: no operation is in progress.
Drop ==
    /\ alive
    /\ prodPc = "idle"
    /\ consPc = "idle"
    /\ alive' = FALSE
    /\ tail' = head
    /\ popped' = popped \o Drained
    /\ res' = "dropped"
    /\ UNCHANGED <<head, buffer, prodPc, prodVal, consPc, consVal, pushed>>

------------------------------------------------------------------------------
ProducerStep == (\E v \in Val : PushCheck(v)) \/ PushWrite \/ PushPublish
ConsumerStep == PopCheck \/ PopRead \/ PopRelease \/ PeekBegin \/ PeekEnd

Next == ProducerStep \/ ConsumerStep \/ Drop

Spec == Init /\ [][Next]_vars

------------------------------------------------------------------------------
(* Properties *)

\* Every variable stays in its range: in particular both indices remain valid
\* subscripts of the buffer, which push, pop and peek use unchecked.
TypeOK ==
    /\ head \in Slots
    /\ tail \in Slots
    /\ buffer \in [Slots -> Val \cup {Uninit}]
    /\ prodPc \in {"idle", "write", "publish"}
    /\ prodVal \in Val \cup {Uninit}
    /\ consPc \in {"idle", "read", "release", "peek"}
    /\ consVal \in Val \cup {Uninit}
    /\ alive \in BOOLEAN
    /\ pushed \in Seq(Val)
    /\ popped \in Seq(Val \cup {Uninit})
    /\ res \in {"none", "ok", "full", "some", "empty", "dropped"}

\* The producer never writes the slot the consumer is moving a value out of or
\* has lent through peek (the plain accesses of push and pop never race).
NoSlotRace ==
    prodPc = "write" /\ consPc \in {"read", "release", "peek"} => head # tail

\* From the emptiness test of pop or peek until the operation is over, slot[tail]
\* holds the oldest value not yet delivered: assume_init_read and the reference
\* lent by peek always see an initialised element, and the right one.
BorrowedSlotIsOldest ==
    consPc \in {"read", "release", "peek"} =>
        /\ Len(popped) < Len(pushed)
        /\ buffer[tail] = pushed[Len(popped) + 1]

\* Every operation takes effect atomically on a first-in first-out queue of
\* N - 1 elements: push fails only when that queue is full, pop returns None only
\* when it is empty, and drop destroys exactly the elements that were left.
Fifo == INSTANCE BoundedFifo WITH enq <- pushed, deq <- popped, Capacity <- N - 1
ImplementsFifo == Fifo!Spec

\* What the comment on len ("the current number of elements") says of an
\* observer that sees both indices at one moment.
LenIsCount == LenOp = Len(pushed) - Len(popped)

\* is_empty and is_full tell the truth to such an observer.
EmptyFullExact ==
    /\ IsEmpty <=> Len(pushed) = Len(popped)
    /\ IsFull <=> Len(pushed) - Len(popped) = N - 1

------------------------------------------------------------------------------
(* The inductive invariant behind the properties *)

\* The buffer holds between 0 and N - 1 elements, and each index is the slot of
\* the next position of its side.
IndexInv ==
    /\ Len(popped) <= Len(pushed)
    /\ Len(pushed) - Len(popped) <= N - 1
    /\ head = Len(pushed) % N
    /\ tail = Len(popped) % N

\* What was delivered is what was pushed, in the same order; what was pushed and
\* not delivered is still in its slot.
ContentInv ==
    /\ \A k \in 1 .. Len(popped) : popped[k] = pushed[k]
    /\ \A k \in Len(popped) + 1 .. Len(pushed) : buffer[(k - 1) % N] = pushed[k]

\* A producer past the fullness test still has a free slot, and before it
\* publishes, the value is in it.
ProducerInv ==
    /\ prodPc # "idle" => /\ alive
                          /\ prodVal \in Val
                          /\ Len(pushed) - Len(popped) < N - 1
    /\ prodPc = "publish" => buffer[head] = prodVal

\* A consumer past the emptiness test still has an element, and what it copied
\* is that element.
ConsumerInv ==
    /\ consPc # "idle" => alive /\ Len(popped) < Len(pushed)
    /\ consPc \in {"release", "peek"} => consVal = pushed[Len(popped) + 1]

\* Together the four parts are inductive: each operation of push, pop, peek and
\* drop re-establishes them whatever the other side is doing.
RingInv == TypeOK /\ IndexInv /\ ContentInv /\ ProducerInv /\ ConsumerInv

=============================================================================
