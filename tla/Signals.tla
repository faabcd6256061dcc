------------------------------ MODULE Signals ------------------------------
(***************************************************************************)
(* SignalContext, SignalQueue and SignalManager of src/task/signal.rs, for *)
(* one task.  A sender enqueues under the queue's lock and then wakes      *)
(* under the wakers' lock; the waiting future looks into the queue and     *)
(* then files its waker, holding only the lock of the blocked mask in      *)
(* between.  These are separate steps when `parallel', senders and the     *)
(* task being on different CPUs; otherwise the task's poll is not          *)
(* interrupted.                                                            *)
(*                                                                         *)
(* A signal is a number; Wide is one from 64 on, which masks cannot hold.  *)
(* Senders, data and time stamps of a signal are left out, as are the      *)
(* counters; `sent' and `delivered' are what the task should and did get.  *)
(***************************************************************************)
EXTENDS Integers, Sequences, FiniteSets, SequencesExt

CONSTANTS Senders,
          Narrow, Wide,   \* signals below 64, and from 64 on
          Uncatchable,    \* SIGKILL and SIGSTOP
          Configured,     \* signals the task sets an action for
          MaxSize,        \* max_size of the queue
          MaxSends        \* bound: signals sent

Signal == Narrow \cup Wide
Masks == SUBSET Narrow

SignalAssumption ==
    /\ Narrow \cap Wide = {} /\ Uncatchable \subseteq Narrow
    /\ MaxSize \in Nat /\ MaxSends \in Nat

VARIABLES parallel, registered,
          pending, pendingMask, blocked, action,   \* SignalContext
          wakerFiled,
          sending,                   \* senders that have enqueued and not woken
          task,                      \* running, looked, parked
          woken, sent, delivered

queueVars == <<pending, pendingMask, sent, delivered>>
configVars == <<blocked, action>>
wakeVars == <<wakerFiled, sending, task, woken>>
vars == <<parallel, registered, queueVars, configVars, wakeVars>>

\* A new context: no configuration, so every signal has its default action.
Init ==
    /\ parallel \in BOOLEAN /\ registered = TRUE
    /\ pending = <<>> /\ pendingMask = {} /\ sent = <<>> /\ delivered = <<>>
    /\ blocked = {} /\ action = [s \in Signal |-> "default_for"]
    /\ wakerFiled = FALSE /\ sending = {} /\ task = "running" /\ woken = FALSE

Undisturbed == parallel \/ task # "looked"

------------------------------------------------------------------------------
(* Sending: SignalManager::send, broadcast, SignalContext::send *)

\* Faulty variant: a full queue still sets the bit.
EnqueueMarksFull(x, s) ==
    /\ Undisturbed /\ registered /\ x \notin sending /\ Len(sent) < MaxSends
    /\ pendingMask' = pendingMask \cup ({s} \cap Narrow)
    /\ IF Len(pending) >= MaxSize
       THEN UNCHANGED <<pending, sent, sending>>
       ELSE /\ pending' = Append(pending, s) /\ sent' = Append(sent, s)
            /\ sending' = sending \cup {x}
    /\ UNCHANGED <<parallel, registered, delivered, configVars, wakerFiled, task, woken>>

\* enqueue: a full queue refuses (QueueFull), and then nobody is woken.
Enqueue(x, s) ==
    /\ Undisturbed /\ registered /\ x \notin sending /\ Len(sent) < MaxSends
    /\ Len(pending) < MaxSize
    /\ pendingMask' = pendingMask \cup ({s} \cap Narrow)
    /\ pending' = Append(pending, s) /\ sent' = Append(sent, s)
    /\ sending' = sending \cup {x}
    /\ UNCHANGED <<parallel, registered, delivered, configVars, wakerFiled, task, woken>>

\* The wakers are drained and woken.
WakeWaiters(x) ==
    /\ Undisturbed /\ x \in sending
    /\ sending' = sending \ {x}
    /\ woken' = (woken \/ wakerFiled)
    /\ wakerFiled' = FALSE
    /\ UNCHANGED <<parallel, registered, queueVars, configVars, task>>

------------------------------------------------------------------------------
(* Receiving *)

Deliverable(i) == pending[i] \notin blocked

\* dequeue: the first signal that is not blocked leaves the queue, and its bit
\* is cleared when no other is queued.
Dequeue ==
    LET i == SelectInSeq(pending, LAMBDA s : s \notin blocked)
        rest == RemoveAt(pending, i)
    IN /\ pending' = rest
       /\ pendingMask' = (IF pending[i] \in ToSet(rest) THEN pendingMask
                          ELSE pendingMask \ {pending[i]})
       /\ delivered' = Append(delivered, pending[i])
       /\ UNCHANGED sent

\* Faulty variant: the bit is cleared although the same signal is queued again.
ProcessClearsBit ==
    LET i == SelectInSeq(pending, LAMBDA s : s \notin blocked)
    IN /\ task = "running" /\ i # 0
       /\ pending' = RemoveAt(pending, i)
       /\ pendingMask' = pendingMask \ {pending[i]}
       /\ delivered' = Append(delivered, pending[i])
       /\ UNCHANGED <<sent, parallel, registered, configVars, wakeVars>>

\* process, and SignalFuture::poll when it finds a signal.  What the caller of
\* process does with the signal is told by `action'.
Process ==
    /\ task = "running" /\ \E i \in DOMAIN pending : Deliverable(i)
    /\ Dequeue
    /\ UNCHANGED <<parallel, registered, configVars, wakeVars>>

\* SignalFuture::poll finds none; the waker is filed, once, in a second step.
PollEmpty ==
    /\ task = "running" /\ ~\E i \in DOMAIN pending : Deliverable(i)
    /\ task' = "looked"
    /\ UNCHANGED <<parallel, registered, queueVars, configVars, wakerFiled, sending, woken>>

\* Faulty variant: the waker is not filed.
PollPendingUnfiled ==
    /\ task = "looked"
    /\ task' = "parked" /\ woken' = FALSE
    /\ UNCHANGED <<parallel, registered, queueVars, configVars, sending, wakerFiled>>

PollPending ==
    /\ task = "looked"
    /\ task' = "parked" /\ wakerFiled' = TRUE /\ woken' = FALSE
    /\ UNCHANGED <<parallel, registered, queueVars, configVars, sending>>

\* The executor polls a woken task again.
Resume ==
    /\ task = "parked" /\ woken
    /\ task' = "running" /\ woken' = FALSE
    /\ UNCHANGED <<parallel, registered, queueVars, configVars, wakerFiled, sending>>

------------------------------------------------------------------------------
(* Configuration, by the task itself *)

\* set_action; signal, sigignore and sigdefault call it.
SetAction(s, a) ==
    /\ task = "running" /\ registered
    /\ s \in Uncatchable => a = "Default"
    /\ action' = [action EXCEPT ![s] = a]
    /\ UNCHANGED <<parallel, registered, queueVars, blocked, wakeVars>>

\* A mask holds no wide signal.
Block(s) ==
    /\ task = "running"
    /\ blocked' = blocked \cup ({s} \cap Narrow)
    /\ UNCHANGED <<parallel, registered, queueVars, action, wakeVars>>

Unblock(s) ==
    /\ task = "running"
    /\ blocked' = blocked \ {s}
    /\ UNCHANGED <<parallel, registered, queueVars, action, wakeVars>>

SetBlocked(mask) ==
    /\ task = "running"
    /\ blocked' = mask
    /\ UNCHANGED <<parallel, registered, queueVars, action, wakeVars>>

\* unregister: the manager forgets the context, the task keeps it.
Unregister ==
    /\ registered
    /\ registered' = FALSE
    /\ UNCHANGED <<parallel, queueVars, configVars, wakeVars>>

Next ==
    \/ \E x \in Senders : WakeWaiters(x) \/ \E s \in Signal : Enqueue(x, s)
    \/ Process \/ PollEmpty \/ PollPending \/ Resume \/ Unregister
    \/ \E s \in Signal : Block(s) \/ Unblock(s)
    \/ \E mask \in Masks : SetBlocked(mask)
    \/ \E s \in Configured, a \in {"Default", "Handle"} : SetAction(s, a)

Spec == Init /\ [][Next]_vars

------------------------------------------------------------------------------
(* Properties *)

Of(q, s) == SelectSeq(q, LAMBDA x : x = s)

\* The bitmap that is_pending and has_pending read without the lock is exact for
\* the signals it can hold, whatever is queued twice and taken out of order.
MaskExact == pendingMask = ToSet(pending) \cap Narrow

\* Nothing is lost or invented between the senders and the task: what was sent
\* is delivered once or still queued, and signals of one kind keep their order.
SignalsConserved ==
    /\ \A s \in Signal : Of(sent, s) = Of(delivered, s) \o Of(pending, s)
    /\ Len(pending) <= MaxSize

\* A task that waits is not left behind with a signal it could have: its waker
\* is filed, or it has been woken, or the sender is about to wake it.  Only for
\* senders that cannot run inside the poll: with parallel ones a signal that
\* arrives between the look and the filing wakes nobody.
WaiterNotForgotten ==
    ~parallel /\ task = "parked" =>
        /\ wakerFiled \/ woken
        /\ (\E i \in DOMAIN pending : Deliverable(i)) => woken \/ sending # {}
=============================================================================
