------------------------------ MODULE MpscRing ------------------------------
(***************************************************************************)
(* MpscRingBuffer<T, N> of src/sync/lockfree.rs: producers reserve a slot  *)
(* with a compare-exchange on `head', write it, and publish it in the      *)
(* order of reservation through `committed'; one consumer reads up to      *)
(* `committed'.  All three indices are kept modulo N, so equal indices may *)
(* belong to different laps.  A step is one access to shared memory.       *)
(*                                                                         *)
(* `pushed' (values in the order of reservation) and `popped' (values      *)
(* delivered, or destroyed by drop) are history.  So is `loaded', the      *)
(* number of reservations when a producer loaded head, and `lapped': a     *)
(* compare-exchange succeeded although other producers had taken the ring  *)
(* once round since that load.  What the ring promises, it promises until  *)
(* then.                                                                   *)
(***************************************************************************)
EXTENDS Integers, Sequences

CONSTANTS N, Val, Uninit, Producers,
          MaxPushes   \* bound: reservations in one behaviour

NAssumption == N \in Nat /\ N >= 2
UninitAssumption == Uninit \notin Val

VARIABLES head, tail, committed, buffer,
          pc, old, val,     \* a producer's position, the head it loaded, its value
          consPc, consVal,  \* the consumer's position and what it read
          alive, pushed, popped, loaded, lapped

prodVars == <<pc, old, val>>
consVars == <<consPc, consVal>>
lapVars == <<loaded, lapped>>
vars == <<head, tail, committed, buffer, pc, old, val, consPc, consVal, alive,
          pushed, popped, loaded, lapped>>

Slots == 0 .. N - 1

NextIndex(i) == (i + 1) % N

Init ==
    /\ head = 0 /\ tail = 0 /\ committed = 0
    /\ buffer = [i \in Slots |-> Uninit]
    /\ pc = [p \in Producers |-> "idle"]
    /\ old = [p \in Producers |-> 0]
    /\ val = [p \in Producers |-> Uninit]
    /\ consPc = "idle" /\ consVal = Uninit
    /\ alive = TRUE /\ pushed = <<>> /\ popped = <<>>
    /\ loaded = [p \in Producers |-> 0] /\ lapped = FALSE

Goto(p, l) == pc' = [pc EXCEPT ![p] = l]

------------------------------------------------------------------------------
(* push *)

\* Call push and load head.
PushLoadHead(p, v) ==
    /\ alive
    /\ \/ pc[p] = "idle" /\ val' = [val EXCEPT ![p] = v]
       \/ pc[p] = "retry" /\ v = val[p] /\ UNCHANGED val
    /\ old' = [old EXCEPT ![p] = head]
    /\ Goto(p, "checkFull")
    /\ loaded' = [loaded EXCEPT ![p] = Len(pushed)]
    /\ UNCHANGED <<head, tail, committed, buffer, consVars, alive, pushed, popped, lapped>>

\* Load tail; a full buffer gives the value back to the caller.
PushCheckFull(p) ==
    /\ pc[p] = "checkFull"
    /\ IF NextIndex(old[p]) = tail
       THEN /\ Goto(p, "idle")
            /\ val' = [val EXCEPT ![p] = Uninit]
            /\ old' = [old EXCEPT ![p] = 0]
       ELSE Goto(p, "reserve") /\ UNCHANGED <<val, old>>
    /\ loaded' = [loaded EXCEPT ![p] = IF NextIndex(old[p]) = tail THEN 0 ELSE @]
    /\ UNCHANGED <<head, tail, committed, buffer, consVars, alive, pushed, popped, lapped>>

\* Compare-exchange on head; a loser backs off and starts again.
PushReserve(p) ==
    /\ pc[p] = "reserve"
    /\ Len(pushed) < MaxPushes
    /\ IF head = old[p]
       THEN /\ head' = NextIndex(old[p])
            /\ pushed' = Append(pushed, val[p])
            /\ Goto(p, "write")
       ELSE Goto(p, "retry") /\ UNCHANGED <<head, pushed>>
    /\ loaded' = [loaded EXCEPT ![p] = 0]
    /\ lapped' = (lapped \/ (head = old[p] /\ loaded[p] # Len(pushed)))
    /\ UNCHANGED <<tail, committed, buffer, old, val, consVars, alive, popped>>

PushWrite(p) ==
    /\ pc[p] = "write"
    /\ buffer' = [buffer EXCEPT ![old[p]] = val[p]]
    /\ Goto(p, "commit")
    /\ UNCHANGED <<head, tail, committed, old, val, consVars, alive, pushed, popped, lapVars>>

\* Faulty variant: a producer commits without waiting for its predecessors.
PushCommitEager(p) ==
    /\ pc[p] = "commit"
    /\ committed' = NextIndex(old[p])
    /\ Goto(p, "idle")
    /\ val' = [val EXCEPT ![p] = Uninit]
    /\ old' = [old EXCEPT ![p] = 0]
    /\ UNCHANGED <<head, tail, buffer, consVars, alive, pushed, popped, lapVars>>

\* Faulty variant: the commit does not move past the producer's own slot.
PushCommitOwn(p) ==
    /\ pc[p] = "commit"
    /\ committed = old[p]
    /\ Goto(p, "idle")
    /\ val' = [val EXCEPT ![p] = Uninit]
    /\ old' = [old EXCEPT ![p] = 0]
    /\ UNCHANGED <<head, tail, committed, buffer, consVars, alive, pushed, popped, lapVars>>

\* Wait until every earlier reservation has been committed, then commit.
PushCommit(p) ==
    /\ pc[p] = "commit"
    /\ committed = old[p]
    /\ committed' = NextIndex(old[p])
    /\ Goto(p, "idle")
    /\ val' = [val EXCEPT ![p] = Uninit]
    /\ old' = [old EXCEPT ![p] = 0]
    /\ UNCHANGED <<head, tail, buffer, consVars, alive, pushed, popped, lapVars>>

------------------------------------------------------------------------------
(* pop, by the only consumer *)

PopCheck ==
    /\ alive
    /\ consPc = "idle"
    /\ tail # committed
    /\ consPc' = "read"
    /\ UNCHANGED <<head, tail, committed, buffer, prodVars, consVal, alive, pushed, popped, lapVars>>

PopRead ==
    /\ consPc = "read"
    /\ consVal' = buffer[tail]
    /\ consPc' = "release"
    /\ UNCHANGED <<head, tail, committed, buffer, prodVars, alive, pushed, popped, lapVars>>

PopRelease ==
    /\ consPc = "release"
    /\ tail' = NextIndex(tail)
    /\ popped' = Append(popped, consVal)
    /\ consPc' = "idle"
    /\ consVal' = Uninit
    /\ UNCHANGED <<head, committed, buffer, prodVars, alive, pushed, lapVars>>

\* drop pops until tail meets committed
Drained == [k \in 1 .. (committed - tail) % N |-> buffer[(tail + k - 1) % N]]

Drop ==
    /\ alive
    /\ consPc = "idle" /\ \A p \in Producers : pc[p] = "idle"
    /\ alive' = FALSE
    /\ tail' = committed
    /\ popped' = popped \o Drained
    /\ UNCHANGED <<head, committed, buffer, prodVars, consVars, pushed, lapVars>>

------------------------------------------------------------------------------
PushStep(p) == PushCheckFull(p) \/ PushReserve(p) \/ PushWrite(p) \/ PushCommit(p)

Pushing(p) == PushStep(p) \/ PushLoadHead(p, val[p])
Popping == PopCheck \/ PopRead \/ PopRelease

Next ==
    \/ \E p \in Producers : PushStep(p) \/ \E v \in Val : PushLoadHead(p, v)
    \/ Popping
    \/ Drop

Spec == Init /\ [][Next]_vars

\* Every core keeps executing the push it is in (also when it has to start over)
\* and the consumer keeps popping.
Fairness ==
    /\ \A p \in Producers : WF_vars(Pushing(p))
    /\ WF_vars(Popping)

FairSpec == Init /\ [][Next]_vars /\ Fairness

------------------------------------------------------------------------------
(* Properties *)

\* As long as no producer was lapped, two producers never hold the same slot,
\* and no producer holds the slot the consumer is reading: a reservation gives
\* exclusive access until the commit.
SlotExclusive ==
    \A p \in Producers : (~lapped /\ pc[p] \in {"write", "commit"}) =>
        /\ \A q \in Producers \ {p} : pc[q] \in {"write", "commit"} => old[q] # old[p]
        /\ consPc \in {"read", "release"} => tail # old[p]

\* As long as no producer was lapped, values come out in the order in which
\* their slots were reserved, none invented and none read before it was
\* written (the order that the commit wait is there to guarantee).
DeliversInOrder ==
    ~lapped => /\ Len(popped) <= Len(pushed)
               /\ popped = SubSeq(pushed, 1, Len(popped))

\* When no producer was lapped and nobody is inside an operation, a consumer
\* that sees an empty buffer has been given everything that was accepted.
NothingLost ==
    (~lapped /\ consPc = "idle" /\ tail = committed /\ \A p \in Producers : pc[p] = "idle")
        => Len(popped) = Len(pushed)

\* Unless a producer is lapped, the wait for earlier producers to commit comes
\* to an end.
CommitsEventually ==
    \A p \in Producers : pc[p] = "commit" ~> (pc[p] = "idle" \/ lapped)

=============================================================================
