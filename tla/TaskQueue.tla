----------------------------- MODULE TaskQueue ------------------------------
(***************************************************************************)
(* LockFreeQueue of src/task/executor.rs, the ring of task ids behind both *)
(* WAKE_QUEUE and GLOBAL_QUEUE.  `head' and `tail' are free-running, so    *)
(* equal indices mean an empty queue; a slot holds EMPTY_SLOT until the    *)
(* pusher that reserved it stores its id, and again once it was popped.    *)
(* Wakers push from tasks and from interrupt handlers, executors pop; a    *)
(* step is one access to shared memory.  compare_exchange_weak is taken to *)
(* fail only on a different value, as the x86-64 build's cmpxchg does.     *)
(*                                                                         *)
(* `sent' (ids in the order of reservation) and `got' (ids in the order of *)
(* the poppers' compare-exchange) are history.  A caller starts a push     *)
(* only while fewer than MaxPending ids are queued or being pushed: with   *)
(* MaxPending above N the queue can fill up.                               *)
(***************************************************************************)
EXTENDS Integers, Sequences, FiniteSets

CONSTANTS N,           \* QUEUE_SIZE
          Ids, EmptySlot, Pushers, Poppers,
          MaxPending,  \* ids the callers keep in the queue at a time
          MaxPushes    \* bound: reservations in one behaviour

QueueAssumption ==
    /\ N \in Nat \ {0} /\ MaxPending \in Nat
    /\ EmptySlot \notin Ids

VARIABLES head, tail, buffer,
          pc, old, id,   \* a thread's position, the index it loaded, its id
          sent, got

vars == <<head, tail, buffer, pc, old, id, sent, got>>

Threads == Pushers \cup Poppers

Init ==
    /\ head = 0 /\ tail = 0
    /\ buffer = [i \in 0 .. N - 1 |-> EmptySlot]
    /\ pc = [t \in Threads |-> "idle"]
    /\ old = [t \in Threads |-> 0]
    /\ id = [t \in Threads |-> EmptySlot]
    /\ sent = <<>> /\ got = <<>>

Goto(t, l) == pc' = [pc EXCEPT ![t] = l]

\* Return to the caller: the locals of the call are gone.
Return(t) ==
    /\ Goto(t, "idle")
    /\ old' = [old EXCEPT ![t] = 0]
    /\ id' = [id EXCEPT ![t] = EmptySlot]

------------------------------------------------------------------------------
(* push *)

Pending ==
    tail - head + Cardinality({p \in Pushers : pc[p] \in {"pushLoad", "checkFull", "reserveTail"}})

PushCall(p, i) ==
    /\ pc[p] = "idle" /\ Pending < MaxPending /\ Len(sent) < MaxPushes
    /\ id' = [id EXCEPT ![p] = i]
    /\ Goto(p, "pushLoad")
    /\ UNCHANGED <<head, tail, buffer, old, sent, got>>

PushLoadTail(p) ==
    /\ pc[p] = "pushLoad"
    /\ old' = [old EXCEPT ![p] = tail]
    /\ Goto(p, "checkFull")
    /\ UNCHANGED <<head, tail, buffer, id, sent, got>>

\* Load head; a full queue returns false and the caller drops the id.
PushCheckFull(p) ==
    /\ pc[p] = "checkFull"
    /\ IF old[p] - head >= N
         THEN Return(p)
         ELSE Goto(p, "reserveTail") /\ UNCHANGED <<old, id>>
    /\ UNCHANGED <<head, tail, buffer, sent, got>>

\* The compare-exchange on tail.
PushReserve(p) ==
    /\ pc[p] = "reserveTail"
    /\ IF tail = old[p]
         THEN /\ tail' = tail + 1
              /\ sent' = Append(sent, id[p])
              /\ Goto(p, "store")
         ELSE Goto(p, "pushLoad") /\ UNCHANGED <<tail, sent>>
    /\ UNCHANGED <<head, buffer, old, id, got>>

\* Faulty variant: the reserved slot is never written.
PushStoreForgotten(p) ==
    /\ pc[p] = "store"
    /\ Return(p)
    /\ UNCHANGED <<head, tail, buffer, sent, got>>

PushStore(p) ==
    /\ pc[p] = "store"
    /\ buffer' = [buffer EXCEPT ![old[p] % N] = id[p]]
    /\ Return(p)
    /\ UNCHANGED <<head, tail, sent, got>>

------------------------------------------------------------------------------
(* pop *)

PopLoadHead(c) ==
    /\ pc[c] \in {"idle", "popLoad"}
    /\ old' = [old EXCEPT ![c] = head]
    /\ Goto(c, "checkEmpty")
    /\ UNCHANGED <<head, tail, buffer, id, sent, got>>

PopCheckEmpty(c) ==
    /\ pc[c] = "checkEmpty"
    /\ IF old[c] = tail
         THEN Return(c)
         ELSE Goto(c, "loadSlot") /\ UNCHANGED <<old, id>>
    /\ UNCHANGED <<head, tail, buffer, sent, got>>

\* Faulty variant: a reserved slot is taken for a written one.
PopLoadSlotEarly(c) ==
    /\ pc[c] = "loadSlot"
    /\ id' = [id EXCEPT ![c] = buffer[old[c] % N]]
    /\ Goto(c, "reserveHead")
    /\ UNCHANGED <<head, tail, buffer, old, sent, got>>

\* Load the slot; one that was reserved and not yet written sends pop back.
PopLoadSlot(c) ==
    /\ pc[c] = "loadSlot"
    /\ IF buffer[old[c] % N] = EmptySlot
         THEN Goto(c, "popLoad") /\ UNCHANGED id
         ELSE /\ id' = [id EXCEPT ![c] = buffer[old[c] % N]]
              /\ Goto(c, "reserveHead")
    /\ UNCHANGED <<head, tail, buffer, old, sent, got>>

\* The compare-exchange on head.
PopReserve(c) ==
    /\ pc[c] = "reserveHead"
    /\ IF head = old[c]
         THEN /\ head' = head + 1
              /\ got' = Append(got, id[c])
              /\ Goto(c, "clear")
         ELSE Goto(c, "popLoad") /\ UNCHANGED <<head, got>>
    /\ UNCHANGED <<tail, buffer, old, id, sent>>

PopClear(c) ==
    /\ pc[c] = "clear"
    /\ buffer' = [buffer EXCEPT ![old[c] % N] = EmptySlot]
    /\ Return(c)
    /\ UNCHANGED <<head, tail, sent, got>>

------------------------------------------------------------------------------

PushStep(p) == PushLoadTail(p) \/ PushCheckFull(p) \/ PushReserve(p) \/ PushStore(p)
PopStep(c) ==
    PopLoadHead(c) \/ PopCheckEmpty(c) \/ PopLoadSlot(c) \/ PopReserve(c) \/ PopClear(c)

Next ==
    \/ \E p \in Pushers : PushStep(p) \/ \E i \in Ids : PushCall(p, i)
    \/ \E c \in Poppers : PopStep(c)

Spec == Init /\ [][Next]_vars

\* A call that was started is carried on, and the executors pop for ever.
FairSpec ==
    /\ Spec
    /\ \A p \in Pushers : WF_vars(PushStep(p))
    /\ \A c \in Poppers : WF_vars(PopStep(c))

------------------------------------------------------------------------------
(* Properties *)

\* Ids are popped in the order in which push reserved their slots, and pop
\* returns what was pushed (pop's slot load and its compare-exchange on head
\* agree about whose id it is).
DeliversInOrder == got = SubSeq(sent, 1, Len(got))

\* No id that push accepted is overwritten or erased: between head and tail
\* every slot holds its own id, or is still about to be stored by its pusher.
\* It is what PushStore and PopClear, the two writers of a slot, must respect.
NothingErased ==
    \A k \in head .. tail - 1 :
        \/ buffer[k % N] = sent[k + 1]
        \/ \E p \in Pushers : pc[p] = "store" /\ old[p] = k

\* Once the pushes have come to an end (MaxPushes bounds them), every id that
\* push accepted has been popped, and stays so: a wake-up that reached
\* WAKE_QUEUE reaches an executor.
EverythingIsPopped == <>[](Len(got) = Len(sent))

=============================================================================
