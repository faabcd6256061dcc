---------------------------- MODULE BoundedFifo ----------------------------
(***************************************************************************)
(* What a bounded queue of sync/lockfree.rs promises its users, with every *)
(* operation a single step: `enq' is the sequence of values accepted by    *)
(* push so far, `deq' the sequence of values delivered so far (by pop or   *)
(* by dropping the buffer), `res' the outcome of the latest operation.     *)
(***************************************************************************)
EXTENDS Integers, Sequences

CONSTANTS Val,       \* values a caller may push
          Capacity   \* elements the queue can hold

VARIABLES enq, deq, res

fifoVars == <<enq, deq, res>>

Count == Len(enq) - Len(deq)

Init == enq = <<>> /\ deq = <<>> /\ res = "none"

PushOk(v) ==
    /\ Count < Capacity
    /\ enq' = Append(enq, v)
    /\ res' = "ok"
    /\ UNCHANGED deq

PushFull ==
    /\ Count = Capacity
    /\ res' = "full"
    /\ UNCHANGED <<enq, deq>>

PopSome ==
    /\ Count > 0
    /\ deq' = Append(deq, enq[Len(deq) + 1])
    /\ res' = "some"
    /\ UNCHANGED enq

PopEmpty ==
    /\ Count = 0
    /\ res' = "empty"
    /\ UNCHANGED <<enq, deq>>

\* Dropping the buffer delivers what is left, in order, to nobody.
DropRest ==
    /\ deq' = enq
    /\ res' = "dropped"
    /\ UNCHANGED enq

Next ==
    \/ \E v \in Val : PushOk(v)
    \/ PushFull
    \/ PopSome
    \/ PopEmpty
    \/ DropRest

Spec == Init /\ [][Next]_fifoVars

=============================================================================
