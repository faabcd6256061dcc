----------------------------- MODULE SharedRing -----------------------------
(***************************************************************************)
(* SharedRingBuffer<T> of src/ipc/shared_mem.rs: a ring in a region of     *)
(* shared memory whose header both sides read.  The producer creates the   *)
(* region under a name and then writes the header; the consumer opens it   *)
(* by the name and copies the capacity from the header.  `ordered' says    *)
(* that it opens the ring only after create has returned.                  *)
(*                                                                         *)
(* `enq', `deq' and `res' are history: the values push accepted, the       *)
(* values pop handed out, and the outcome of the latest operation.         *)
(***************************************************************************)
EXTENDS Integers, Sequences

CONSTANTS Capacity,      \* elements create is asked for
          Val, MaxPushes \* bound: pushes that succeed

SharedRingAssumption == Capacity \in Nat \ {0} /\ MaxPushes \in Nat

Unwritten == "uninit"

VARIABLES ordered,
          creator,                     \* where create is
          writePos, readPos, headerCapacity, slots,
          ownCapacity,                 \* the consumer's copy
          pusher, pushVal, popper, popVal,
          enq, deq, res

headerVars == <<writePos, readPos, headerCapacity>>
pushVars == <<pusher, pushVal>>
popVars == <<popper, popVal>>
history == <<enq, deq, res>>
vars == <<ordered, creator, headerVars, slots, ownCapacity, pushVars, popVars, history>>

Init ==
    /\ ordered \in BOOLEAN
    /\ creator = "absent"
    /\ writePos = 0 /\ readPos = 0 /\ headerCapacity = 0
    /\ slots = [i \in 0..(Capacity - 1) |-> Unwritten]
    /\ ownCapacity = 0
    /\ pusher = "idle" /\ pushVal = Unwritten /\ popper = "closed" /\ popVal = Unwritten
    /\ enq = <<>> /\ deq = <<>> /\ res = "none"

------------------------------------------------------------------------------
(* create and open *)

\* shm_open: the region is there, zeroed, and can be found by its name.
CreateRegion ==
    /\ creator = "absent" /\ creator' = "header"
    /\ UNCHANGED <<ordered, headerVars, slots, ownCapacity, pushVars, popVars, history>>

\* The header: the positions are zero already, so the capacity is what changes.
CreateHeader ==
    /\ creator = "header" /\ creator' = "done"
    /\ writePos' = 0 /\ readPos' = 0 /\ headerCapacity' = Capacity
    /\ UNCHANGED <<ordered, slots, ownCapacity, pushVars, popVars, history>>

\* Faulty variant: open does not look at the header.
OpenUnread ==
    /\ popper = "closed" /\ creator # "absent" /\ (ordered => creator = "done")
    /\ ownCapacity' = Capacity + 1 /\ popper' = "idle"
    /\ UNCHANGED <<ordered, creator, headerVars, slots, pushVars, popVal, history>>

\* open: the capacity is what the header holds now.
Open ==
    /\ popper = "closed" /\ creator # "absent" /\ (ordered => creator = "done")
    /\ ownCapacity' = headerCapacity /\ popper' = "idle"
    /\ UNCHANGED <<ordered, creator, headerVars, slots, pushVars, popVal, history>>

------------------------------------------------------------------------------
(* push *)

\* Faulty variant: the last free slot is used too.
PushCheckFull(v) ==
    /\ creator = "done" /\ pusher = "idle" /\ Len(enq) < MaxPushes
    /\ pusher' = "write" /\ pushVal' = v
    /\ UNCHANGED <<ordered, creator, headerVars, slots, ownCapacity, popVars, history>>

\* Both positions are loaded and compared.
PushCheck(v) ==
    /\ creator = "done" /\ pusher = "idle" /\ Len(enq) < MaxPushes
    /\ IF (writePos + 1) % Capacity = readPos
       THEN res' = "full" /\ UNCHANGED <<pusher, pushVal>>
       ELSE pusher' = "write" /\ pushVal' = v /\ UNCHANGED res
    /\ UNCHANGED <<ordered, creator, headerVars, slots, ownCapacity, popVars, enq, deq>>

PushWrite ==
    /\ pusher = "write"
    /\ slots' = [slots EXCEPT ![writePos] = pushVal]
    /\ pusher' = "store"
    /\ UNCHANGED <<ordered, creator, headerVars, ownCapacity, pushVal, popVars, history>>

PushStore ==
    /\ pusher = "store"
    /\ writePos' = (writePos + 1) % Capacity
    /\ pusher' = "idle" /\ pushVal' = Unwritten
    /\ enq' = Append(enq, pushVal) /\ res' = "ok"
    /\ UNCHANGED <<ordered, creator, readPos, headerCapacity, slots, ownCapacity, popVars, deq>>

------------------------------------------------------------------------------
(* pop *)

PopCheck ==
    /\ popper = "idle"
    /\ IF readPos = writePos
       THEN res' = "empty" /\ UNCHANGED popper
       ELSE popper' = "read" /\ UNCHANGED res
    /\ UNCHANGED <<ordered, creator, headerVars, slots, ownCapacity, pushVars, popVal, enq, deq>>

PopRead ==
    /\ popper = "read"
    /\ popVal' = slots[readPos]
    /\ popper' = "store"
    /\ UNCHANGED <<ordered, creator, headerVars, slots, ownCapacity, pushVars, history>>

\* The position is advanced modulo the consumer's capacity; modulo zero is a panic.
PopStore ==
    /\ popper = "store"
    /\ IF ownCapacity = 0
       THEN popper' = "panicked" /\ UNCHANGED <<readPos, popVal, deq, res>>
       ELSE /\ readPos' = (readPos + 1) % ownCapacity
            /\ popper' = "idle" /\ popVal' = Unwritten
            /\ deq' = Append(deq, popVal) /\ res' = "some"
    /\ UNCHANGED <<ordered, creator, writePos, headerCapacity, slots, ownCapacity, pushVars, enq>>

Next ==
    \/ CreateRegion \/ CreateHeader \/ Open
    \/ \E v \in Val : PushCheck(v)
    \/ PushWrite \/ PushStore
    \/ PopCheck \/ PopRead \/ PopStore

Spec == Init /\ [][Next]_vars

------------------------------------------------------------------------------
(* Properties *)

Fifo == INSTANCE BoundedFifo WITH Capacity <- Capacity - 1

\* The ring is a queue of Capacity - 1 elements, whatever the interleaving of
\* push, pop, create and open.  (A consumer that opened it before the header was
\* written stops at its first pop, which delivers nothing.)
RingImplementsFifo == Fifo!Spec

\* The two sides agree on the capacity when the ring is opened after create, and
\* then pop never divides by zero.
OpenSound ==
    ordered => popper # "panicked" /\ (popper # "closed" => ownCapacity = headerCapacity)

\* No slot is read and written at the same time, and the slots between the
\* positions hold what was pushed and not yet popped, in order.
SlotsInOrder ==
    LET count == (writePos - readPos) % Capacity
    IN ordered =>
         /\ Len(enq) - Len(deq) = count
         /\ \A i \in 1..count : slots[(readPos + i - 1) % Capacity] = enq[Len(deq) + i]
         /\ ~(pusher = "write" /\ popper = "read" /\ writePos = readPos)
=============================================================================
