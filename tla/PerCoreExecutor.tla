--------------------------- MODULE PerCoreExecutor ---------------------------
(***************************************************************************)
(* The reference-counted executors of src/task/per_core_executor.rs: one   *)
(* executor per core, the manager with its global queue, and the wakers.   *)
(* A task is freed when its Arc count reaches zero.  What the futures do   *)
(* in a poll is external: they may call wake_by_ref on the waker they are  *)
(* given, clone and file it ("filed" use), and return Ready or Pending.    *)
(* Whoever has a filed clone may wake or drop it.  In "yield" and "steal"  *)
(* use no clone is filed, and only in "steal" and "filed" use do idle      *)
(* cores steal.  The priority of a task decides its queue; TaskState, which *)
(* nothing reads to decide, times and statistics are left out.             *)
(***************************************************************************)
EXTENDS Integers, SequencesExt, FiniteSetsExt

CONSTANTS Cores, Tasks,
          High,        \* tasks of Priority::High or above
          MaxPolls,    \* bound on the polls of a task
          MaxEntries   \* bound on the queue entries of a task

VARIABLES usage,
          started,     \* init has made the executors
          local, high, \* per core: local_queue, high_priority_queue
          global,      \* global_queue
          strong,      \* Arc count of each task; -1 before it is spawned
          running,     \* per core: the task being polled or 0
          held,        \* per task: the core id in its filed waker clone or 0
          polls,       \* per task: polls so far
          owed         \* tasks woken and not polled since

vars == <<usage, started, local, high, global, strong, running, held, polls, owed>>

Init ==
    /\ usage \in {"yield", "steal", "filed"} /\ started = FALSE
    /\ local = [c \in Cores |-> << >>] /\ high = [c \in Cores |-> << >>] /\ global = << >>
    /\ strong = [t \in Tasks |-> -1] /\ running = [c \in Cores |-> 0]
    /\ held = [t \in Tasks |-> 0] /\ polls = [t \in Tasks |-> 0] /\ owed = {}

Start ==
    /\ ~started /\ started' = TRUE
    /\ UNCHANGED <<usage, local, high, global, strong, running, held, polls, owed>>

\* PerCoreExecutor::spawn, and schedule
Push(c, t) ==
    IF t \in High THEN high' = [high EXCEPT ![c] = Append(@, t)] /\ UNCHANGED local
                  ELSE local' = [local EXCEPT ![c] = Append(@, t)] /\ UNCHANGED high

\* The queue entries of a task
Places(t) ==
    {<<0, i>> : i \in {i \in 1 .. Len(global) : global[i] = t}}
    \cup UNION {{<<c, i>> : i \in {i \in 1 .. Len(local[c]) : local[c][i] = t}}
                \cup {<<c, -i>> : i \in {i \in 1 .. Len(high[c]) : high[c][i] = t}} : c \in Cores}

\* Bound on the wake-ups: one more would not put the task in too many places.
MayWake(t) == Cardinality(Places(t)) < MaxEntries

Add(t, n) == strong' = [strong EXCEPT ![t] = @ + n]

\* ExecutorManager::spawn: to the global queue while there are no executors;
\* then to the least loaded one.  The lengths are read before the push, while
\* the queues change, so it may be any.
Spawn(t) ==
    /\ strong[t] = -1 /\ Add(t, 2)
    /\ IF started THEN (\E c \in Cores : Push(c, t)) /\ UNCHANGED global
                  ELSE global' = Append(global, t) /\ UNCHANGED <<local, high>>
    /\ UNCHANGED <<usage, started, running, held, polls, owed>>

\* run_once: next_task, and run_task up to the poll; the waker counts for one.
Begin(c, t) ==
    /\ polls[t] < MaxPolls /\ strong[t] > 0
    /\ running' = [running EXCEPT ![c] = t]
    /\ polls' = [polls EXCEPT ![t] = @ + 1]
    /\ owed' = owed \ {t}
    /\ Add(t, 1)
    /\ UNCHANGED <<usage, started, global, held>>

RunHigh(c) ==
    /\ started /\ running[c] = 0 /\ high[c] # << >>
    /\ Begin(c, Head(high[c]))
    /\ high' = [high EXCEPT ![c] = Tail(@)] /\ UNCHANGED local

RunLocal(c) ==
    /\ started /\ running[c] = 0 /\ high[c] = << >> /\ local[c] # << >>
    /\ Begin(c, Last(local[c]))
    /\ local' = [local EXCEPT ![c] = Front(@)] /\ UNCHANGED high

\* Faulty variant: the task goes to the queue without a count of its own.
ScheduleUncounted(c, t) ==
    /\ Push(c, t) /\ owed' = owed \cup {t}
    /\ UNCHANGED <<usage, started, global, strong, running, held, polls>>

\* waker_wake_by_ref: the clone of the Arc goes to the waker's core.
Schedule(c, t) ==
    /\ Push(c, t) /\ owed' = owed \cup {t}
    /\ Add(t, 1)
    /\ UNCHANGED <<usage, started, global, running, held, polls>>

\* The polled future wakes itself.
WakeByRef(c) ==
    /\ running[c] # 0 /\ MayWake(running[c])
    /\ Schedule(c, running[c])

\* The polled future clones its waker and files it: waker_clone drops the
\* clone of the Arc that it makes.
WakerClone(c) ==
    /\ usage = "filed" /\ running[c] # 0 /\ held[running[c]] = 0
    /\ held' = [held EXCEPT ![running[c]] = c]
    /\ UNCHANGED <<usage, started, local, high, global, strong, running, polls, owed>>

\* The poll returns; the waker and then the task of run_once are dropped.
EndPoll(c) ==
    /\ running[c] # 0
    /\ Add(running[c], -2)
    /\ running' = [running EXCEPT ![c] = 0]
    /\ UNCHANGED <<usage, started, local, high, global, held, polls, owed>>

\* Waker::wake of a filed clone: wake_by_ref, then waker_drop.  A clone whose
\* task is freed is not followed further.
WakerWake(t) ==
    /\ held[t] # 0 /\ strong[t] > 0 /\ MayWake(t)
    /\ Push(held[t], t) /\ owed' = owed \cup {t}
    /\ held' = [held EXCEPT ![t] = 0]
    /\ UNCHANGED <<usage, started, global, strong, running, polls>>

WakerDrop(t) ==
    /\ held[t] # 0 /\ strong[t] > 0
    /\ held' = [held EXCEPT ![t] = 0]
    /\ Add(t, -1)
    /\ UNCHANGED <<usage, started, local, high, global, running, polls, owed>>

\* try_steal: the global queue first
StealGlobal(c) ==
    /\ started /\ running[c] = 0 /\ global # << >>
    /\ Push(c, Head(global)) /\ global' = Tail(global)
    /\ UNCHANGED <<usage, started, strong, running, held, polls, owed>>

Load(c) == Len(local[c]) + Len(high[c])

\* try_steal from the most loaded other core: only is_some() of the task that
\* steal_from returns is used, and the Arc is dropped.
StealOne(c, v) ==
    /\ started /\ usage # "yield" /\ running[c] = 0 /\ global = << >>
    /\ v # c /\ \A w \in Cores \ {c} : Load(w) <= Load(v)
    /\ Load(v) > 1 /\ local[v] # << >>
    /\ Add(Head(local[v]), -1)
    /\ local' = [local EXCEPT ![v] = Tail(@)]
    /\ UNCHANGED <<usage, started, high, global, running, held, polls, owed>>

\* steal_batch_from, one task of it
StealBatch(c, v) ==
    /\ started /\ usage # "yield" /\ running[c] = 0
    /\ v # c /\ local[v] # << >>
    /\ local' = [local EXCEPT ![v] = Tail(@), ![c] = Append(@, Head(local[v]))]
    /\ UNCHANGED <<usage, started, high, global, strong, running, held, polls, owed>>

Next ==
    \/ Start
    \/ \E t \in Tasks : Spawn(t) \/ WakerWake(t) \/ WakerDrop(t)
    \/ \E c \in Cores : \/ RunHigh(c) \/ RunLocal(c) \/ WakeByRef(c) \/ WakerClone(c)
                        \/ EndPoll(c) \/ StealGlobal(c)
                        \/ \E v \in Cores : StealOne(c, v) \/ StealBatch(c, v)

Spec == Init /\ [][Next]_vars

------------------------------------------------------------------------------
Pollers(t) == {c \in Cores : running[c] = t}

\* Exact bookkeeping where no clone is filed: a task has one count for each
\* queue entry and two while it is polled, so none is freed early or kept.
\* Without stealing, moreover, no two cores poll a task at once (the Safety
\* comment of Task::poll) and a task that was woken since its last poll began
\* is in a queue.
PerCoreSound ==
    /\ usage # "filed" => \A t \in Tasks : strong[t] >= 0 =>
          strong[t] = Cardinality(Places(t)) + 2 * Cardinality(Pollers(t))
    /\ usage = "yield" => \A t \in Tasks :
          /\ Cardinality(Pollers(t)) <= 1
          /\ t \in owed => Places(t) # {}
=============================================================================
