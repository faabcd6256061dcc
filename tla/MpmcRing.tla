------------------------------ MODULE MpmcRing ------------------------------
(***************************************************************************)
(* MpmcRingBuffer<T, N> of src/sync/lockfree.rs: any number of producers   *)
(* and consumers, two ever-growing positions and one sequence number per   *)
(* slot.  A step is one access to shared memory.                           *)
(*                                                                         *)
(* Positions are naturals: they wrap at 2^64 in the code, after more       *)
(* operations than can happen; what a stale load makes of the wrapping     *)
(* subtraction is kept (LooksFull).  compare_exchange_weak does not fail   *)
(* spuriously on x86_64, the only target.                                  *)
(*                                                                         *)
(* `enq' is history: the values in the order their position was reserved.  *)
(* `res' is the latest definite outcome; a try_ operation that gives up    *)
(* because of contention leaves it alone.                                  *)
(***************************************************************************)
EXTENDS Integers, Sequences

CONSTANTS N, Val, Uninit, Pushers, Poppers,
          SpinLimit,  \* BACKOFF_SPIN_LIMIT, 6 in the code
          YieldLimit, \* BACKOFF_YIELD_LIMIT, 10 in the code
          MaxPushes   \* bound: positions that may be reserved by push

NAssumption == N \in Nat /\ N >= 2
UninitAssumption == Uninit \notin Val
ThreadsAssumption == Pushers \cap Poppers = {}
LimitAssumption ==
    SpinLimit \in Nat /\ YieldLimit \in Nat /\ SpinLimit < YieldLimit

VARIABLES head, tail,     \* next position to write, next position to read
          sequence, data, \* the slots
          pc, once,       \* where a thread is; whether it is in a try_ operation
          pos,            \* the position the thread loaded and works on
          val,            \* the value being pushed, or what was read
          step,           \* the thread's backoff counter
          alive, enq, res

ringVars == <<head, tail, sequence, data>>
vars == <<head, tail, sequence, data, pc, once, pos, val, step, alive, enq, res>>

Threads == Pushers \cup Poppers
Slots == 0 .. N - 1

Init ==
    /\ head = 0 /\ tail = 0
    /\ sequence = [i \in Slots |-> i]
    /\ data = [i \in Slots |-> Uninit]
    /\ pc = [t \in Threads |-> "idle"]
    /\ once = [t \in Threads |-> FALSE]
    /\ pos = [t \in Threads |-> 0]
    /\ val = [t \in Threads |-> Uninit]
    /\ step = [t \in Threads |-> 0]
    /\ alive = TRUE /\ enq = <<>> /\ res = "none"

------------------------------------------------------------------------------
(* Backoff, as functions of its `step'; how long a call spins is timing *)

\* spin(): the counter stops at the yield limit
Spin(n) == IF n < YieldLimit THEN n + 1 ELSE n

\* snooze(): only the short spins advance the counter
Snooze(n) == IF n <= SpinLimit THEN n + 1 ELSE n

\* is_completed()
IsCompleted(n) == n > YieldLimit

------------------------------------------------------------------------------

Goto(t, l) == pc' = [pc EXCEPT ![t] = l]

\* The operation is over; its locals go out of scope.
Return(t) ==
    /\ Goto(t, "idle")
    /\ step' = [step EXCEPT ![t] = 0]
    /\ val' = [val EXCEPT ![t] = Uninit]
    /\ pos' = [pos EXCEPT ![t] = 0]
    /\ once' = [once EXCEPT ![t] = FALSE]

\* Start the loop again with the given backoff; a try_ operation returns instead.
Retry(t, first, newStep) ==
    IF once[t] THEN Return(t)
    ELSE /\ Goto(t, first)
         /\ step' = [step EXCEPT ![t] = newStep]
         /\ pos' = [pos EXCEPT ![t] = 0]
         /\ UNCHANGED <<val, once>>

------------------------------------------------------------------------------
(* push and try_push *)

Push(t, v, try) ==
    /\ alive
    /\ pc[t] = "idle"
    /\ Goto(t, "loadHead")
    /\ once' = [once EXCEPT ![t] = try]
    /\ val' = [val EXCEPT ![t] = v]
    /\ UNCHANGED <<ringVars, pos, step, alive, enq, res>>

PushLoadHead(t) ==
    /\ pc[t] = "loadHead"
    /\ pos' = [pos EXCEPT ![t] = head]
    /\ Goto(t, "checkFull")
    /\ UNCHANGED <<ringVars, once, val, step, alive, enq, res>>

\* head.wrapping_sub(tail) >= N; a stale head below tail wraps to a huge number
LooksFull(h, t) == h < t \/ h - t >= N

\* Load tail.  push waits while the buffer looks full and returns Err only once
\* the backoff has completed; try_push returns Err at once.
PushCheckFull(t) ==
    /\ pc[t] = "checkFull"
    /\ IF LooksFull(pos[t], tail)
       THEN IF once[t] \/ IsCompleted(step[t])
            THEN /\ Return(t)
                 /\ res' = IF pos[t] < tail THEN res ELSE "full"
            ELSE Retry(t, "loadHead", Spin(step[t])) /\ UNCHANGED res
       ELSE Goto(t, "checkSlot") /\ UNCHANGED <<once, pos, val, step, res>>
    /\ UNCHANGED <<ringVars, alive, enq>>

\* Load the slot's sequence number: the slot must be free for this position.
PushCheckSlot(t) ==
    /\ pc[t] = "checkSlot"
    /\ LET seq == sequence[pos[t] % N] IN
       IF seq = pos[t]
       THEN Goto(t, "reserveHead") /\ UNCHANGED <<once, pos, val, step>>
       ELSE Retry(t, "loadHead",
                  IF seq < pos[t] THEN Spin(step[t]) ELSE Snooze(step[t]))
    /\ UNCHANGED <<ringVars, alive, enq, res>>

\* Faulty variant: head is stored without comparing it.
PushReserveBlind(t) ==
    /\ pc[t] = "reserveHead"
    /\ head' = pos[t] + 1
    /\ enq' = Append(enq, val[t])
    /\ res' = "ok"
    /\ Goto(t, "write")
    /\ UNCHANGED <<tail, sequence, data, once, pos, val, step, alive>>

\* Compare-exchange on head.
PushReserve(t) ==
    /\ pc[t] = "reserveHead"
    /\ Len(enq) < MaxPushes
    /\ IF head = pos[t]
       THEN /\ head' = head + 1
            /\ enq' = Append(enq, val[t])
            /\ res' = "ok"
            /\ Goto(t, "write")
            /\ UNCHANGED <<once, pos, val, step>>
       ELSE /\ Retry(t, "loadHead", Snooze(step[t]))
            /\ UNCHANGED <<head, enq, res>>
    /\ UNCHANGED <<tail, sequence, data, alive>>

PushWrite(t) ==
    /\ pc[t] = "write"
    /\ data' = [data EXCEPT ![pos[t] % N] = val[t]]
    /\ Goto(t, "publish")
    /\ UNCHANGED <<head, tail, sequence, once, pos, val, step, alive, enq, res>>

\* Faulty variant: the slot keeps the sequence number of a free slot.
PushPublishForgotten(t) ==
    /\ pc[t] = "publish"
    /\ Return(t)
    /\ UNCHANGED <<ringVars, alive, enq, res>>

\* Store the sequence number: the element can be read.
PushPublish(t) ==
    /\ pc[t] = "publish"
    /\ sequence' = [sequence EXCEPT ![pos[t] % N] = pos[t] + 1]
    /\ Return(t)
    /\ UNCHANGED <<head, tail, data, alive, enq, res>>

------------------------------------------------------------------------------
(* pop and try_pop *)

Pop(t, try) ==
    /\ alive
    /\ pc[t] = "idle"
    /\ Goto(t, "loadTail")
    /\ once' = [once EXCEPT ![t] = try]
    /\ UNCHANGED <<ringVars, pos, val, step, alive, enq, res>>

PopLoadTail(t) ==
    /\ pc[t] = "loadTail"
    /\ pos' = [pos EXCEPT ![t] = tail]
    /\ Goto(t, "checkEmpty")
    /\ UNCHANGED <<ringVars, once, val, step, alive, enq, res>>

PopCheckEmpty(t) ==
    /\ pc[t] = "checkEmpty"
    /\ IF pos[t] = head
       THEN Return(t) /\ res' = "empty"
       ELSE Goto(t, "checkReady") /\ UNCHANGED <<once, pos, val, step, res>>
    /\ UNCHANGED <<ringVars, alive, enq>>

\* Faulty variant: the element is taken as soon as its position is reserved.
PopCheckReadyEarly(t) ==
    /\ pc[t] = "checkReady"
    /\ Goto(t, "reserveTail")
    /\ UNCHANGED <<ringVars, once, pos, val, step, alive, enq, res>>

\* Load the slot's sequence number: the element must have been published.
PopCheckReady(t) ==
    /\ pc[t] = "checkReady"
    /\ LET seq == sequence[pos[t] % N] IN
       CASE seq = pos[t] + 1 ->
                Goto(t, "reserveTail") /\ UNCHANGED <<once, pos, val, step>>
         [] seq < pos[t] + 1 ->
                IF once[t] THEN Return(t)
                ELSE Goto(t, "recheckTail") /\ UNCHANGED <<once, pos, val, step>>
         [] OTHER -> Retry(t, "loadTail", Snooze(step[t]))
    /\ UNCHANGED <<ringVars, alive, enq, res>>

\* Reserved but unwritten: load tail again and, if it has not moved, wait (None
\* is returned only once the backoff has completed).
PopRecheckTail(t) ==
    /\ pc[t] = "recheckTail"
    /\ IF pos[t] = tail /\ IsCompleted(step[t])
       THEN Return(t)
       ELSE Retry(t, "loadTail", IF pos[t] = tail THEN Spin(step[t]) ELSE step[t])
    /\ UNCHANGED <<ringVars, alive, enq, res>>

\* Compare-exchange on tail.
PopReserve(t) ==
    /\ pc[t] = "reserveTail"
    /\ IF tail = pos[t]
       THEN /\ tail' = tail + 1
            /\ res' = "some"
            /\ Goto(t, "read")
            /\ UNCHANGED <<once, pos, val, step>>
       ELSE Retry(t, "loadTail", Snooze(step[t])) /\ UNCHANGED <<tail, res>>
    /\ UNCHANGED <<head, sequence, data, alive, enq>>

PopRead(t) ==
    /\ pc[t] = "read"
    /\ val' = [val EXCEPT ![t] = data[pos[t] % N]]
    /\ Goto(t, "release")
    /\ UNCHANGED <<ringVars, once, pos, step, alive, enq, res>>

\* Store the sequence number of the next lap: the slot can be written again.
PopRelease(t) ==
    /\ pc[t] = "release"
    /\ sequence' = [sequence EXCEPT ![pos[t] % N] = pos[t] + N]
    /\ Return(t)
    /\ UNCHANGED <<head, tail, data, alive, enq, res>>

------------------------------------------------------------------------------
(* drop: exclusive access, pops until the buffer is empty *)

Drop ==
    /\ alive
    /\ \A t \in Threads : pc[t] = "idle"
    /\ alive' = FALSE
    /\ tail' = head
    /\ sequence' = [i \in Slots |->
                      IF \E p \in tail .. head - 1 : p % N = i /\ sequence[i] = p + 1
                      THEN sequence[i] - 1 + N ELSE sequence[i]]
    /\ res' = "dropped"
    /\ UNCHANGED <<head, data, pc, once, pos, val, step, enq>>

------------------------------------------------------------------------------
PushStep(t) == \/ PushLoadHead(t) \/ PushCheckFull(t) \/ PushCheckSlot(t)
               \/ PushReserve(t) \/ PushWrite(t) \/ PushPublish(t)

PopStep(t) == \/ PopLoadTail(t) \/ PopCheckEmpty(t) \/ PopCheckReady(t)
              \/ PopRecheckTail(t) \/ PopReserve(t) \/ PopRead(t) \/ PopRelease(t)

Next ==
    \/ \E t \in Pushers : PushStep(t) \/ \E v \in Val, try \in BOOLEAN : Push(t, v, try)
    \/ \E t \in Poppers : PopStep(t) \/ \E try \in BOOLEAN : Pop(t, try)
    \/ Drop

Spec == Init /\ [][Next]_vars

\* Every core keeps executing the operation it is in; consumers keep calling pop.
Fairness ==
    /\ \A t \in Pushers : WF_vars(PushStep(t))
    /\ \A t \in Poppers : WF_vars(PopStep(t)) /\ WF_vars(Pop(t, FALSE))

FairSpec == Init /\ [][Next]_vars /\ Fairness

------------------------------------------------------------------------------
(* Properties *)

\* Threads that have reserved a position and are not done with its slot.
InSlot(t) == pc[t] \in {"write", "publish", "read", "release"}

\* Whatever stale positions the threads loaded, no two are ever inside the same
\* slot, so the plain accesses to slot.data never race; and a consumer that
\* reserved a position finds there the value pushed at that position, never an
\* uninitialised slot, a value of another lap or one read twice.
SlotsSound ==
    /\ \A t, u \in Threads : InSlot(t) /\ InSlot(u) /\ t # u => pos[t] % N # pos[u] % N
    /\ \A t \in Threads : pc[t] = "read" => data[pos[t] % N] = enq[pos[t] + 1]

\* Reservations take effect like the operations of a first-in first-out queue of
\* N elements; "empty" and "full" are reported only when it is empty or full.
Fifo == INSTANCE BoundedFifo WITH deq <- SubSeq(enq, 1, tail), Capacity <- N
ImplementsFifo == Fifo!Spec

\* As long as consumers keep calling pop, everything that was pushed is consumed:
\* waiting consumers never block each other or miss a published element.
EverythingIsPopped == \A k \in 1 .. MaxPushes : Len(enq) >= k ~> tail >= k

=============================================================================
