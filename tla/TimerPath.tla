----------------------------- MODULE TimerPath ------------------------------
(***************************************************************************)
(* From the timer interrupt to the tasks that wait for time:               *)
(* timer_interrupt_handler and poll_timer_events of src/interrupts/mod.rs, *)
(* sleep_ms and SleepFuture of src/task/timer.rs, with_timeout of          *)
(* src/task/mod.rs and the PreemptionController of src/task/preemption.rs. *)
(*                                                                         *)
(* The handler only counts the interrupt and raises a flag; TICKS, which   *)
(* sleepers wait on, moves when poll_timer_events runs outside the         *)
(* handler.  The kernel never calls poll_timer_events: EventsPolled says   *)
(* whether an instance has such a caller.                                  *)
(*                                                                         *)
(* Both counters stop at a bound that no waiting future reaches.  `ready'  *)
(* stands for the executor: the tasks it will poll.  `displaced' is        *)
(* history: sleepers whose registry entry was taken away by another task.  *)
(***************************************************************************)
EXTENDS Integers, FiniteSets, FiniteSetsExt

CONSTANTS Tasks, Durations,
          EventsPolled,   \* does anything call poll_timer_events?
          Slice,          \* DEFAULT_TIME_SLICE
          StartBy,        \* bound: futures are made while TICKS is at most this
          MaxTick,        \* bound: TICKS stops here
          MaxHw,          \* bound: TIMER_TICKS stops here
          MaxFutures      \* bound: futures made in one behaviour

ASSUME TimerAssumption ==
    /\ Durations \subseteq Nat /\ EventsPolled \in BOOLEAN
    /\ \A d \in Durations : StartBy + d < MaxTick

VARIABLES hwTicks, eventPending,         \* TIMER_TICKS, TIMER_EVENT_PENDING
          ticks, registry,               \* TICKS, SLEEP_REGISTRY
          timeSlice, startTick,          \* of the PreemptionController
          preempt, preemptPending, yieldRequested,
          polling,                       \* poll_timer_events has swapped the flag
          st, wakeTick, registered,      \* a task's future
          ready, displaced, made

timerVars == <<hwTicks, eventPending, ticks, polling>>
preemptVars == <<timeSlice, startTick, preempt, preemptPending, yieldRequested>>
futureVars == <<st, wakeTick, registered, made>>
vars == <<hwTicks, eventPending, ticks, registry, timeSlice, startTick, preempt,
          preemptPending, yieldRequested, polling, st, wakeTick, registered, ready,
          displaced, made>>

\* SLEEP_REGISTRY is a map from tick to waker: a set of entries, one per tick.
EntriesAt(k) == {e \in registry : e.tick = k}

Init ==
    /\ hwTicks = 0 /\ eventPending = FALSE /\ ticks = 0 /\ registry = {}
    /\ timeSlice = Slice /\ startTick = 0
    /\ preempt = FALSE /\ preemptPending = FALSE /\ yieldRequested = FALSE
    /\ polling = FALSE
    /\ st = [t \in Tasks |-> "run"]
    /\ wakeTick = [t \in Tasks |-> 0]
    /\ registered = [t \in Tasks |-> FALSE]
    /\ ready = {} /\ displaced = {} /\ made = 0

Capped(n, bound) == IF n > bound THEN bound ELSE n

------------------------------------------------------------------------------
(* The interrupt and its deferred half *)

\* timer_interrupt_handler: count, raise the flag, decrement_time_slice, and
\* note a preemption that is due.
TimerInterrupt ==
    /\ hwTicks' = Capped(hwTicks + 1, MaxHw)
    /\ eventPending' = TRUE
    /\ timeSlice' = IF timeSlice > 0 THEN timeSlice - 1 ELSE timeSlice
    /\ preemptPending' = (preemptPending \/ preempt)
    /\ UNCHANGED <<ticks, registry, startTick, preempt, yieldRequested, polling,
                   futureVars, ready, displaced>>

PollSwap ==
    /\ EventsPolled /\ ~polling /\ eventPending
    /\ eventPending' = FALSE
    /\ polling' = TRUE
    /\ UNCHANGED <<hwTicks, ticks, registry, preemptVars, futureVars, ready, displaced>>

\* Faulty variant: an entry is due only on its own tick.
DueExact(now) == {e \in registry : e.tick = now}

\* handle_timer_interrupt removes and wakes range(..=current_tick).
Due(now) == {e \in registry : e.tick <= now}

\* check_time_slice, enabled.
OverSlice(now) == now - startTick >= timeSlice

\* The rest of poll_timer_events: handle_timer_interrupt, handle_timer_tick,
\* handle_timer_interrupt_waker (which calls handle_timer_interrupt again) and
\* request_yield.
PollTimerEvents ==
    /\ polling
    /\ polling' = FALSE
    /\ ticks' = Capped(ticks + 2, MaxTick)
    /\ LET due == Due(Capped(ticks + 1, MaxTick)) \cup Due(Capped(ticks + 2, MaxTick))
       IN  /\ registry' = registry \ due
           /\ ready' = ready \cup {e.task : e \in due}
    /\ preempt' = (preempt \/ OverSlice(hwTicks))
    /\ yieldRequested' = (yieldRequested \/ preemptPending)
    /\ UNCHANGED <<hwTicks, eventPending, timeSlice, startTick, preemptPending,
                   futureVars, displaced>>

\* notify_task_started, yield_point and check_and_clear_yield_request.
TaskStarted ==
    /\ startTick' = hwTicks /\ preempt' = FALSE
    /\ UNCHANGED <<timerVars, registry, timeSlice, preemptPending, yieldRequested,
                   futureVars, ready, displaced>>

YieldPoint ==
    /\ preempt
    /\ preempt' = FALSE
    /\ UNCHANGED <<timerVars, registry, timeSlice, startTick, preemptPending,
                   yieldRequested, futureVars, ready, displaced>>

CheckYieldRequest ==
    /\ yieldRequested
    /\ yieldRequested' = FALSE
    /\ UNCHANGED <<timerVars, registry, timeSlice, startTick, preempt, preemptPending,
                   futureVars, ready, displaced>>

------------------------------------------------------------------------------
(* sleep_ms and with_timeout *)

\* A task makes a SleepFuture, or a TimeoutFuture around a future whose own
\* event never happens, and awaits it.
Start(t, kind, d) ==
    /\ st[t] = "run" /\ ticks <= StartBy /\ made < MaxFutures
    /\ made' = made + 1
    /\ st' = [st EXCEPT ![t] = kind]
    /\ wakeTick' = [wakeTick EXCEPT ![t] = ticks + d]
    /\ registered' = [registered EXCEPT ![t] = FALSE]
    /\ ready' = ready \cup {t}
    /\ displaced' = displaced \ {t}
    /\ UNCHANGED <<timerVars, registry, preemptVars>>

\* Faulty variant: a dropped future leaves its entry behind.
UnregisterForgotten(t) == UNCHANGED <<registry, displaced>>

\* Drop of a SleepFuture removes the entry at its tick, whoever it belongs to.
Unregister(t) ==
    LET gone == IF registered[t] THEN EntriesAt(wakeTick[t]) ELSE {}
    IN  /\ registry' = registry \ gone
        /\ displaced' = displaced \cup {e.task : e \in {x \in gone : x.task # t}}

\* Poll::Ready: the future is dropped and the task goes on.
Finish(t) ==
    /\ st' = [st EXCEPT ![t] = "run"]
    /\ registered' = [registered EXCEPT ![t] = FALSE]
    /\ wakeTick' = [wakeTick EXCEPT ![t] = 0]
    /\ Unregister(t)
    /\ UNCHANGED made

PollSleep(t) ==
    /\ t \in ready /\ st[t] = "sleep"
    /\ IF ticks >= wakeTick[t]
         THEN Finish(t) /\ ready' = ready \ {t}
         ELSE /\ st' = [st EXCEPT ![t] = IF registered[t] THEN "sleep" ELSE "insert"]
              /\ ready' = ready \ {t}
              /\ UNCHANGED <<registry, wakeTick, registered, made, displaced>>
    /\ UNCHANGED <<timerVars, preemptVars>>

\* The insertion of poll: ticks may have passed since the comparison.  The
\* waker of another task with the same wake_tick is replaced.
Insert(t) ==
    /\ st[t] = "insert"
    /\ registry' = (registry \ EntriesAt(wakeTick[t]))
                       \cup {[tick |-> wakeTick[t], task |-> t]}
    /\ displaced' = displaced \cup {e.task : e \in EntriesAt(wakeTick[t])}
    /\ registered' = [registered EXCEPT ![t] = TRUE]
    /\ st' = [st EXCEPT ![t] = "sleep"]
    /\ UNCHANGED <<timerVars, preemptVars, wakeTick, made, ready>>

\* A sleeping future is dropped before it is ready (its task was cancelled or
\* another branch won).
Cancel(t) ==
    /\ st[t] = "sleep"
    /\ Finish(t)
    /\ ready' = ready \ {t}
    /\ UNCHANGED <<timerVars, preemptVars>>

\* TimeoutFuture::poll: the deadline is compared, no waker is filed for it.
PollTimeout(t) ==
    /\ t \in ready /\ st[t] = "timeout"
    /\ IF ticks >= wakeTick[t]
         THEN Finish(t)
         ELSE UNCHANGED <<st, registered, registry, displaced, wakeTick, made>>
    /\ ready' = ready \ {t}
    /\ UNCHANGED <<timerVars, preemptVars>>

------------------------------------------------------------------------------

TaskStep(t) == PollSleep(t) \/ Insert(t) \/ PollTimeout(t)

Next ==
    \/ TimerInterrupt \/ PollSwap \/ PollTimerEvents \/ TaskStarted \/ YieldPoint
    \/ CheckYieldRequest
    \/ \E t \in Tasks :
          \/ TaskStep(t) \/ Cancel(t)
          \/ \E k \in {"sleep", "timeout"}, d \in Durations : Start(t, k, d)

Spec == Init /\ [][Next]_vars

\* The timer keeps interrupting, poll_timer_events (where it is called at all)
\* keeps being called, and the executor polls the tasks that were woken.
FairSpec ==
    /\ Spec
    /\ WF_vars(TimerInterrupt) /\ WF_vars(PollSwap) /\ WF_vars(PollTimerEvents)
    /\ \A t \in Tasks : WF_vars(TaskStep(t))

------------------------------------------------------------------------------
(* Properties *)

\* SLEEP_REGISTRY and the sleepers correspond.  A sleeper whose poll returned
\* Pending, and which was not displaced, is filed under its own tick or on its
\* way back to the executor, also when ticks passed during the registration;
\* and no entry outlives its future, so that a later sleep of the same task is
\* not woken by the leftovers of an earlier one.
SleepersFiled ==
    /\ \A t \in Tasks :
         (st[t] = "sleep" /\ registered[t] /\ t \notin displaced)
             => [tick |-> wakeTick[t], task |-> t] \in registry \/ t \in ready
    /\ \A e \in registry :
         st[e.task] = "sleep" /\ registered[e.task] /\ wakeTick[e.task] = e.tick

\* A sleeper whose entry nobody takes away wakes up and finishes.
SleeperWakes == \A t \in Tasks : st[t] = "sleep" ~> (st[t] = "run" \/ t \in displaced)

\* sleep_ms ends: whoever sleeps finishes sleeping.
SleepEnds == \A t \in Tasks : st[t] = "sleep" ~> st[t] = "run"

=============================================================================
