--------------------------- MODULE InterruptWaker ---------------------------
(***************************************************************************)
(* The interrupt-waker bridge of src/task/interrupt_waker.rs: an           *)
(* AtomicWaker per interrupt source, the registry that keeps them in a map *)
(* behind one lock, and InterruptFuture, the future of a task that waits   *)
(* for an interrupt.  Tasks register with a blocking lock, interrupt       *)
(* handlers wake with try_lock, each in steps of one access to shared      *)
(* state (what AtomicWaker::wake does under its try_lock is one step).     *)
(* `direct' says that a driver owns the AtomicWaker itself, so that the    *)
(* registry's lock is not involved; the kernel only uses the registry.     *)
(*                                                                         *)
(* History: `came' tells a waiting task that an interrupt of its source    *)
(* was in progress when it began to wait or has happened since, `owed' is  *)
(* the task whose waker was in place when an interrupt was taken.          *)
(***************************************************************************)
EXTENDS Integers, FiniteSets

CONSTANTS Tasks, Sources,
          SourceOf,     \* the source a task waits for
          Handlers,     \* interrupt handlers that may run at once
          MaxWaits      \* bound: waits begun in one behaviour

WakerAssumption == SourceOf \in [Tasks -> Sources]

None == "none"

VARIABLES direct,
          regLock,                  \* holder of the registry's lock
          lock, waker, has, req,    \* an AtomicWaker: its lock's holder, waker,
                                    \* has_waker, wake_requested
          pc, woken,                \* a task's position; tasks to be polled
          hpc, src,                 \* a handler's position and source
          came, owed, waits

wakerVars == <<lock, waker, has, req>>
historyVars == <<came, owed, waits>>
vars == <<direct, regLock, lock, waker, has, req, pc, woken, hpc, src, came, owed, waits>>

Init ==
    /\ direct \in BOOLEAN
    /\ regLock = None
    /\ lock = [s \in Sources |-> None] /\ waker = [s \in Sources |-> None]
    /\ has = [s \in Sources |-> FALSE] /\ req = [s \in Sources |-> FALSE]
    /\ pc = [t \in Tasks |-> "idle"] /\ woken = {}
    /\ hpc = [h \in Handlers |-> "idle"] /\ src = [h \in Handlers |-> None]
    /\ came = [t \in Tasks |-> FALSE] /\ owed = [h \in Handlers |-> None] /\ waits = 0

Goto(t, l) == pc' = [pc EXCEPT ![t] = l]
HGoto(h, l) == hpc' = [hpc EXCEPT ![h] = l]

\* waker.wake(): the executor will poll the task.
Wake(t) == woken' = woken \cup {t}

------------------------------------------------------------------------------
(* InterruptFuture::poll and register *)

\* wait_for_interrupt and the first poll of its future.
WaitBegin(t) ==
    /\ pc[t] = "idle" /\ waits < MaxWaits
    /\ waits' = waits + 1
    /\ came' = [came EXCEPT ![t] =
                   \E h \in Handlers : hpc[h] # "idle" /\ src[h] = SourceOf[t]]
    /\ owed' = [h \in Handlers |-> IF owed[h] = t THEN None ELSE owed[h]]
    /\ woken' = woken \ {t}
    /\ Goto(t, IF direct THEN "lock" ELSE "regLock")
    /\ UNCHANGED <<direct, regLock, wakerVars, hpc, src>>

RegistryLock(t) ==
    /\ pc[t] = "regLock" /\ regLock = None
    /\ regLock' = t
    /\ Goto(t, "lock")
    /\ UNCHANGED <<direct, wakerVars, woken, hpc, src, historyVars>>

WakerLock(t) ==
    /\ pc[t] = "lock" /\ lock[SourceOf[t]] = None
    /\ lock' = [lock EXCEPT ![SourceOf[t]] = t]
    /\ Goto(t, "update")
    /\ UNCHANGED <<direct, regLock, waker, has, req, woken, hpc, src, historyVars>>

\* Store the waker unless the same one is there, and raise has_waker.
RegisterUpdate(t) ==
    /\ pc[t] = "update"
    /\ waker' = [waker EXCEPT ![SourceOf[t]] = t]
    /\ has' = [has EXCEPT ![SourceOf[t]] = has[SourceOf[t]] \/ waker[SourceOf[t]] # t]
    /\ Goto(t, "swap")
    /\ UNCHANGED <<direct, regLock, lock, req, woken, hpc, src, historyVars>>

\* Faulty variant: the old value of the request is not looked at.
RegisterSwapAlways(t) ==
    /\ pc[t] = "swap"
    /\ req' = [req EXCEPT ![SourceOf[t]] = FALSE]
    /\ waker' = [waker EXCEPT ![SourceOf[t]] = None]
    /\ has' = [has EXCEPT ![SourceOf[t]] = FALSE]
    /\ Wake(t)
    /\ Goto(t, "unlock")
    /\ UNCHANGED <<direct, regLock, lock, hpc, src, historyVars>>

\* A wake request left by a handler is served at once.
RegisterSwap(t) ==
    /\ pc[t] = "swap"
    /\ LET s == SourceOf[t]
       IN  IF req[s]
             THEN /\ req' = [req EXCEPT ![s] = FALSE]
                  /\ waker' = [waker EXCEPT ![s] = None]
                  /\ has' = [has EXCEPT ![s] = FALSE]
                  /\ Wake(t)
             ELSE UNCHANGED <<req, waker, has, woken>>
    /\ Goto(t, "unlock")
    /\ UNCHANGED <<direct, regLock, lock, hpc, src, historyVars>>

\* The guards go out of scope and poll returns Pending.
RegisterUnlock(t) ==
    /\ pc[t] = "unlock"
    /\ lock' = [lock EXCEPT ![SourceOf[t]] = None]
    /\ regLock' = IF direct THEN regLock ELSE None
    /\ Goto(t, "waiting")
    /\ UNCHANGED <<direct, waker, has, req, woken, hpc, src, historyVars>>

\* The second poll: the future is Ready without looking at anything.
PollAgain(t) ==
    /\ pc[t] = "waiting" /\ t \in woken
    /\ Goto(t, "idle")
    /\ woken' = woken \ {t}
    /\ UNCHANGED <<direct, regLock, wakerVars, hpc, src, historyVars>>

------------------------------------------------------------------------------
(* wake, from an interrupt handler *)

\* The handlers that use the registry are behind the 8259 PIC, which delivers
\* to one CPU, with interrupts disabled: one of them runs at a time.
Interrupt(h, s) ==
    /\ hpc[h] = "idle"
    /\ direct \/ \A g \in Handlers : hpc[g] = "idle"
    /\ src' = [src EXCEPT ![h] = s]
    /\ came' = [t \in Tasks |-> came[t] \/ (SourceOf[t] = s /\ pc[t] # "idle")]
    /\ owed' = [owed EXCEPT ![h] =
                   IF waker[s] # None /\ pc[waker[s]] = "waiting" THEN waker[s] ELSE None]
    /\ HGoto(h, IF direct THEN "tryLock" ELSE "tryReg")
    /\ UNCHANGED <<direct, regLock, wakerVars, pc, woken, waits>>

HandlerEnd(h) ==
    /\ hpc' = [hpc EXCEPT ![h] = "idle"]
    /\ src' = [src EXCEPT ![h] = None]

\* The registry's try_lock: when it fails the interrupt is not delivered.
TryRegistry(h) ==
    /\ hpc[h] = "tryReg"
    /\ IF regLock = None
         THEN regLock' = h /\ HGoto(h, "tryLock")
         ELSE HGoto(h, "end") /\ UNCHANGED regLock
    /\ UNCHANGED <<direct, wakerVars, pc, woken, src, historyVars>>

\* Faulty variant: the waker is taken and not woken.
TryWakeForgotten(h) ==
    /\ hpc[h] = "tryLock"
    /\ LET s == src[h]
       IN  IF lock[s] = None /\ waker[s] # None
             THEN /\ waker' = [waker EXCEPT ![s] = None]
                  /\ has' = [has EXCEPT ![s] = FALSE]
                  /\ HGoto(h, "end")
             ELSE HGoto(h, "flag") /\ UNCHANGED <<waker, has>>
    /\ UNCHANGED <<direct, regLock, lock, req, pc, woken, src, historyVars>>

\* AtomicWaker::wake under try_lock: take the waker and wake it.  Without the
\* lock, or with nobody registered, wake goes on to has_waker.
TryWake(h) ==
    /\ hpc[h] = "tryLock"
    /\ LET s == src[h]
       IN  IF lock[s] = None /\ waker[s] # None
             THEN /\ Wake(waker[s])
                  /\ waker' = [waker EXCEPT ![s] = None]
                  /\ has' = [has EXCEPT ![s] = FALSE]
                  /\ HGoto(h, "end")
             ELSE HGoto(h, "flag") /\ UNCHANGED <<woken, waker, has>>
    /\ UNCHANGED <<direct, regLock, lock, req, pc, src, historyVars>>

\* Otherwise leave a request, but only if has_waker is up.
Flag(h) ==
    /\ hpc[h] = "flag"
    /\ req' = [req EXCEPT ![src[h]] = @ \/ has[src[h]]]
    /\ HGoto(h, "end")
    /\ UNCHANGED <<direct, regLock, lock, waker, has, pc, woken, src, historyVars>>

HandlerReturn(h) ==
    /\ hpc[h] = "end"
    /\ HandlerEnd(h)
    /\ regLock' = IF regLock = h THEN None ELSE regLock
    /\ owed' = [owed EXCEPT ![h] = None]
    /\ UNCHANGED <<direct, wakerVars, pc, woken, came, waits>>

------------------------------------------------------------------------------

TaskStep(t) ==
    \/ RegistryLock(t) \/ WakerLock(t) \/ RegisterUpdate(t) \/ RegisterSwap(t)
    \/ RegisterUnlock(t) \/ PollAgain(t)
HandlerStep(h) == TryRegistry(h) \/ TryWake(h) \/ Flag(h) \/ HandlerReturn(h)
Interrupted(s) == \E h \in Handlers : Interrupt(h, s)

Next ==
    \/ \E t \in Tasks : TaskStep(t) \/ WaitBegin(t)
    \/ \E h \in Handlers : HandlerStep(h)
    \/ \E s \in Sources : Interrupted(s)

Spec == Init /\ [][Next]_vars

\* Tasks and handlers run on, locks are passed on fairly, and every device
\* interrupts again and again.
FairSpec ==
    /\ Spec
    /\ \A t \in Tasks : SF_vars(TaskStep(t))
    /\ \A h \in Handlers : WF_vars(HandlerStep(h))
    /\ \A s \in Sources : SF_vars(Interrupted(s))

------------------------------------------------------------------------------
(* Properties *)

\* Through the registry, wait_for_interrupt returns only if an interrupt of its
\* source has happened since the wait began: the registry's lock keeps a
\* request of an earlier wait from ending a later one.
ReadyMeansInterrupt ==
    [][\A t \in Tasks :
          (~direct /\ pc[t] = "waiting" /\ pc'[t] = "idle") => came[t]]_vars

\* Where the driver owns the AtomicWaker, an interrupt taken while a waiter's
\* waker is in place wakes that waiter before the handler returns.
InterruptWakesWaiter ==
    \A h \in Handlers :
        (direct /\ hpc[h] = "end" /\ owed[h] # None /\ pc[owed[h]] = "waiting") => owed[h] \in woken

\* As long as the device keeps interrupting, whoever waits is woken: a wake
\* that was dropped on a busy lock is made good by a later interrupt.
WaitEnds == \A t \in Tasks : pc[t] = "waiting" ~> pc[t] = "idle"

=============================================================================
