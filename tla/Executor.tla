------------------------------ MODULE Executor ------------------------------
(***************************************************************************)
(* The asynchronous executor of src/task/executor.rs: Executor::run on     *)
(* every CPU, the per-core stores of waiting tasks, WAKE_QUEUE,            *)
(* GLOBAL_QUEUE, work stealing and the idle halt, with wake-ups arriving   *)
(* from interrupt handlers at any moment.  The two queues appear as what   *)
(* TaskQueue shows them to be while they are not lapped: bounded FIFOs of  *)
(* task ids that drop an id when full.                                     *)
(*                                                                         *)
(* A task is a future that waits for some events one after the other.      *)
(* Polling it consumes an event that has happened, or leaves its waker     *)
(* with the event's source.  A waker left behind by an earlier poll (the   *)
(* losing branch of a with_timeout) may still be woken: StaleWake.         *)
(*                                                                         *)
(* TASK_STORE, the legacy store, is searched by the code but nothing ever  *)
(* inserts into it, so it is the empty set throughout and is left out.     *)
(***************************************************************************)
EXTENDS Integers, Sequences, FiniteSets, FiniteSetTheorems, TLAPS

CONSTANTS Cpus, Tasks,
          Home,          \* the CPU on which a task is spawned locally
          Globals,       \* tasks spawned with spawn_global or spawn_on_cpu
          Target,        \* the CPU whose store spawn_global chooses for them
          MaxLoad,       \* bound: events a task waits for, times executors
          Batch,         \* batch_size
          WakeCap, GlobalCap,  \* QUEUE_SIZE of the two queues
          MaxStale       \* bound: wakes by wakers left behind

ASSUME ExecutorAssumption ==
    /\ Globals \subseteq Tasks
    /\ Home \in [Tasks \ Globals -> Cpus] /\ Target \in [Globals -> Cpus]
    /\ MaxLoad \in Nat /\ Batch \in Nat \ {0}
    /\ IsFiniteSet(Cpus) /\ IsFiniteSet(Tasks)

NoTask == "none"

VARIABLES active,          \* CPUs that called register_cpu and run an executor
          pc, count, cur,  \* an executor's position, batch counter, task at hand
          local,           \* local_queue
          cache,           \* local_cache: ids found in no store
          store,           \* PER_CORE_STORES
          wakeQ, globalQ,  \* WAKE_QUEUE, GLOBAL_QUEUE
          need,            \* events a task still waits for
          fired,           \* its next event has happened
          waker,           \* the event's source holds the task's waker
          polled,          \* the task has been polled, so wakers of it exist
          spawning,        \* global tasks: "no", "stored" or "yes"
          stale

taskVars == <<need, fired, waker, polled>>
execVars == <<active, pc, count, cur, local, cache>>
vars == <<active, pc, count, cur, local, cache, store, wakeQ, globalQ, need, fired, waker,
          polled, spawning, stale>>

\* The orders in which the tasks of S can have been spawned.
Orders(S) ==
    {q \in [1 .. Cardinality(S) -> S] :
        /\ \A x \in S : \E i \in DOMAIN q : q[i] = x
        /\ \A i, j \in DOMAIN q : q[i] = q[j] => i = j}

Init ==
    /\ active \in {cs \in SUBSET Cpus : \A t \in Tasks :
                      (IF t \in Globals THEN Target[t] ELSE Home[t]) \in cs}
    /\ pc = [c \in Cpus |-> "run"] /\ count = [c \in Cpus |-> 0]
    /\ cur = [c \in Cpus |-> NoTask]
    /\ local \in [Cpus -> UNION {Orders(S) : S \in SUBSET Tasks}]
    /\ \A c \in Cpus : local[c] \in Orders({t \in Tasks \ Globals : Home[t] = c})
    /\ cache = [c \in Cpus |-> {}]
    /\ store = [c \in Cpus |-> {}]
    /\ wakeQ = <<>> /\ globalQ = <<>>
    /\ \E rounds \in 1 .. MaxLoad : /\ rounds * Cardinality(active) <= MaxLoad
                                    /\ need = [t \in Tasks |-> rounds]
    /\ fired = [t \in Tasks |-> FALSE]
    /\ waker = [t \in Tasks |-> FALSE]
    /\ polled = [t \in Tasks |-> FALSE]
    /\ spawning = [t \in Globals |-> "no"]
    /\ stale = 0

Done(t) == polled[t] /\ need[t] = 0

\* A CPU without an executor takes no step.
At(c, l) == c \in active /\ pc[c] = l

\* The next part of the main loop, with a fresh batch counter.
Enter(c, l) ==
    /\ pc' = [pc EXCEPT ![c] = l]
    /\ count' = [count EXCEPT ![c] = 0]
    /\ cur' = [cur EXCEPT ![c] = NoTask]

Goto(c, l, t) ==
    /\ pc' = [pc EXCEPT ![c] = l]
    /\ cur' = [cur EXCEPT ![c] = t]

Counted(c) == count' = [count EXCEPT ![c] = @ + 1]

\* push of a bounded queue: false, and no effect, when it is full.
Pushed(q, t, cap) == IF Len(q) < cap THEN Append(q, t) ELSE q

------------------------------------------------------------------------------
(* run_ready_tasks *)

\* The batch is over: the local queue is empty or batch_size tasks were polled.
RunEnd(c) ==
    /\ At(c, "run") /\ (local[c] = <<>> \/ count[c] = Batch)
    /\ Enter(c, "wake")
    /\ UNCHANGED <<active, local, cache, store, wakeQ, globalQ, taskVars, spawning, stale>>

\* Pop a task and poll it.  The events that have happened are consumed; if the
\* task is not finished it leaves its waker and returns Pending.
Poll(c) ==
    /\ At(c, "run") /\ local[c] # <<>> /\ count[c] < Batch
    /\ LET t == Head(local[c])
           left == IF fired[t] THEN need[t] - 1 ELSE need[t]
       IN  /\ local' = [local EXCEPT ![c] = Tail(@)]
           /\ polled' = [polled EXCEPT ![t] = TRUE]
           /\ need' = [need EXCEPT ![t] = left]
           /\ fired' = [fired EXCEPT ![t] = FALSE]
           /\ waker' = [waker EXCEPT ![t] = left > 0]
           /\ IF left = 0
                THEN Goto(c, "run", NoTask) /\ Counted(c)
                ELSE Goto(c, "park", t) /\ UNCHANGED count
    /\ UNCHANGED <<active, cache, store, wakeQ, globalQ, spawning, stale>>

\* Poll::Pending: only now does the task enter its CPU's store.
Park(c) ==
    /\ At(c, "park")
    /\ store' = [store EXCEPT ![c] = @ \cup {cur[c]}]
    /\ Goto(c, "run", NoTask) /\ Counted(c)
    /\ UNCHANGED <<active, local, cache, wakeQ, globalQ, taskVars, spawning, stale>>

------------------------------------------------------------------------------
(* process_wake_queue and fetch_from_global *)

\* Faulty variant: the task is run and stays in the store.
TakeCopy(c, d, t) ==
    /\ local' = [local EXCEPT ![c] = Append(@, t)]
    /\ Counted(c)
    /\ UNCHANGED store

\* A task found in the store of CPU d moves to the local queue.
Take(c, d, t) ==
    /\ store' = [store EXCEPT ![d] = @ \ {t}]
    /\ local' = [local EXCEPT ![c] = Append(@, t)]
    /\ Counted(c)

WakeEnd(c) ==
    /\ At(c, "wake") /\ (wakeQ = <<>> \/ count[c] = Batch)
    /\ Enter(c, "global")
    /\ UNCHANGED <<active, local, cache, store, wakeQ, globalQ, taskVars, spawning, stale>>

WakePop(c) ==
    /\ At(c, "wake") /\ wakeQ # <<>> /\ count[c] < Batch
    /\ wakeQ' = Tail(wakeQ)
    /\ Goto(c, "wakeOwn", Head(wakeQ))
    /\ UNCHANGED <<active, count, local, cache, store, globalQ, taskVars, spawning, stale>>

WakeOwn(c) ==
    /\ At(c, "wakeOwn")
    /\ IF cur[c] \in store[c]
         THEN Take(c, c, cur[c]) /\ Goto(c, "wake", NoTask)
         ELSE Goto(c, "wakeOthers", cur[c]) /\ UNCHANGED <<count, local, store>>
    /\ UNCHANGED <<active, cache, wakeQ, globalQ, taskVars, spawning, stale>>

\* Only the stores of registered CPUs are searched.  An id found nowhere goes
\* to local_cache, which nothing ever empties.
WakeOthers(c) ==
    /\ At(c, "wakeOthers")
    /\ Goto(c, "wake", NoTask)
    /\ LET holders == {d \in active \ {c} : cur[c] \in store[d]}
       IN  IF holders # {}
             THEN (\E d \in holders : Take(c, d, cur[c])) /\ UNCHANGED cache
             ELSE /\ cache' = [cache EXCEPT ![c] = @ \cup {cur[c]}]
                  /\ UNCHANGED <<count, local, store>>
    /\ UNCHANGED <<active, wakeQ, globalQ, taskVars, spawning, stale>>

GlobalEnd(c) ==
    /\ At(c, "global") /\ (globalQ = <<>> \/ count[c] = Batch)
    /\ Enter(c, "steal")
    /\ UNCHANGED <<active, local, cache, store, wakeQ, globalQ, taskVars, spawning, stale>>

GlobalPop(c) ==
    /\ At(c, "global") /\ globalQ # <<>> /\ count[c] < Batch
    /\ globalQ' = Tail(globalQ)
    /\ Goto(c, "globalOwn", Head(globalQ))
    /\ UNCHANGED <<active, count, local, cache, store, wakeQ, taskVars, spawning, stale>>

GlobalOwn(c) ==
    /\ At(c, "globalOwn")
    /\ IF cur[c] \in store[c]
         THEN Take(c, c, cur[c]) /\ Goto(c, "global", NoTask)
         ELSE Goto(c, "globalOthers", cur[c]) /\ UNCHANGED <<count, local, store>>
    /\ UNCHANGED <<active, cache, wakeQ, globalQ, taskVars, spawning, stale>>

\* Here every other store is searched; an id found nowhere is dropped.
GlobalOthers(c) ==
    /\ At(c, "globalOthers")
    /\ Goto(c, "global", NoTask)
    /\ LET holders == {d \in Cpus \ {c} : cur[c] \in store[d]}
       IN  IF holders # {}
             THEN \E d \in holders : Take(c, d, cur[c])
             ELSE UNCHANGED <<count, local, store>>
    /\ UNCHANGED <<active, cache, wakeQ, globalQ, taskVars, spawning, stale>>

------------------------------------------------------------------------------
(* try_steal and the idle halt *)

IsIdle(c) == local[c] = <<>> /\ cache[c] = {}

\* An idle executor visits the other registered CPUs and takes one task from
\* each store whose task_count exceeds one, up to half a batch.  task_count is
\* updated after the map and outside its lock, so that a thief may read it an
\* insertion or a removal late: any store that is not empty may be stolen from
\* or passed over.
StealLimit == IF Batch < 2 THEN 1 ELSE Batch \div 2

StealOne(c) ==
    /\ At(c, "steal") /\ cache[c] = {} /\ (local[c] = <<>> \/ count[c] > 0)
    /\ count[c] < StealLimit
    /\ \E d \in active \ {c}, t \in Tasks : t \in store[d] /\ Take(c, d, t)
    /\ UNCHANGED <<active, pc, cur, cache, wakeQ, globalQ, taskVars, spawning, stale>>

StealEnd(c) ==
    /\ At(c, "steal")
    /\ Enter(c, "idle")
    /\ UNCHANGED <<active, local, cache, store, wakeQ, globalQ, taskVars, spawning, stale>>

Idle(c) ==
    /\ At(c, "idle")
    /\ Enter(c, IF IsIdle(c) THEN "hlt" ELSE "run")
    /\ UNCHANGED <<active, local, cache, store, wakeQ, globalQ, taskVars, spawning, stale>>

\* The periodic timer interrupt ends a halt.
TimerInterrupt(c) ==
    /\ At(c, "hlt")
    /\ Enter(c, "run")
    /\ UNCHANGED <<active, local, cache, store, wakeQ, globalQ, taskVars, spawning, stale>>

------------------------------------------------------------------------------
(* wake_task, spawn_global and spawn_on_cpu *)

\* Faulty variant: the source forgets to call the waker.
FireSilently(t) ==
    /\ need[t] > 0 /\ ~fired[t]
    /\ fired' = [fired EXCEPT ![t] = TRUE]
    /\ UNCHANGED <<execVars, store, wakeQ, globalQ, need, waker, polled, spawning, stale>>

\* The event a task waits for happens, and its source wakes the waker it holds.
Fire(t) ==
    /\ need[t] > 0 /\ ~fired[t]
    /\ fired' = [fired EXCEPT ![t] = TRUE]
    /\ waker' = [waker EXCEPT ![t] = FALSE]
    /\ wakeQ' = IF waker[t] THEN Pushed(wakeQ, t, WakeCap) ELSE wakeQ
    /\ UNCHANGED <<execVars, store, globalQ, need, polled, spawning, stale>>

\* A waker left behind by an earlier poll is woken.
StaleWake(t) ==
    /\ polled[t] /\ stale < MaxStale
    /\ stale' = stale + 1
    /\ wakeQ' = Pushed(wakeQ, t, WakeCap)
    /\ UNCHANGED <<execVars, store, globalQ, taskVars, spawning>>

\* spawn_global: the task enters a store, then its id enters GLOBAL_QUEUE.
SpawnInsert(t) ==
    /\ spawning[t] = "no"
    /\ spawning' = [spawning EXCEPT ![t] = "stored"]
    /\ store' = [store EXCEPT ![Target[t]] = @ \cup {t}]
    /\ UNCHANGED <<execVars, wakeQ, globalQ, taskVars, stale>>

\* Faulty variant: the id is not queued.
SpawnPushForgotten(t) ==
    /\ spawning[t] = "stored"
    /\ spawning' = [spawning EXCEPT ![t] = "yes"]
    /\ UNCHANGED <<execVars, store, wakeQ, globalQ, taskVars, stale>>

SpawnPush(t) ==
    /\ spawning[t] = "stored"
    /\ spawning' = [spawning EXCEPT ![t] = "yes"]
    /\ globalQ' = Pushed(globalQ, t, GlobalCap)
    /\ UNCHANGED <<execVars, store, wakeQ, taskVars, stale>>

------------------------------------------------------------------------------

ExecStep(c) ==
    \/ RunEnd(c) \/ Poll(c) \/ Park(c)
    \/ WakeEnd(c) \/ WakePop(c) \/ WakeOwn(c) \/ WakeOthers(c)
    \/ GlobalEnd(c) \/ GlobalPop(c) \/ GlobalOwn(c) \/ GlobalOthers(c)
    \/ StealOne(c) \/ StealEnd(c) \/ Idle(c)

SpawnStep(t) == SpawnInsert(t) \/ SpawnPush(t)

Next ==
    \/ \E c \in Cpus : ExecStep(c) \/ TimerInterrupt(c)
    \/ \E t \in Tasks : Fire(t) \/ StaleWake(t)
    \/ \E t \in Globals : SpawnStep(t)

Spec == Init /\ [][Next]_vars

\* A CPU keeps executing its loop, the timer keeps interrupting it, devices
\* deliver their events and a spawn that was begun is finished.
FairSpec ==
    /\ Spec
    /\ \A c \in Cpus : WF_vars(ExecStep(c)) /\ WF_vars(TimerInterrupt(c))
    /\ \A t \in Tasks : WF_vars(Fire(t))
    /\ \A t \in Globals : WF_vars(SpawnStep(t))

------------------------------------------------------------------------------
(* Properties *)

Spawned(t) == t \in Globals => spawning[t] # "no"

\* The places at which an unfinished task is owned.
Places(t) ==
    {<<"store", c>> : c \in {d \in Cpus : t \in store[d]}}
    \cup {<<"poll", c>> : c \in {d \in Cpus : pc[d] = "park" /\ cur[d] = t}}
    \cup UNION {{<<"local", c, i>> : i \in {j \in DOMAIN local[c] : local[c][j] = t}} : c \in Cpus}

\* A task that was spawned and has not finished is in exactly one place, and a
\* finished one in none: it is never polled by two CPUs, run twice, or lost
\* between the local queues, the stores and the thieves.
OneOwner ==
    \A t \in Tasks :
        Cardinality(Places(t)) = IF Spawned(t) /\ ~Done(t) THEN 1 ELSE 0

SingleExecutor == Cardinality(active) = 1

\* While a wake-up is owed to a waiting task, its id is in WAKE_QUEUE or in an
\* executor's hands; only when there are several executors may it also have
\* ended in a local_cache, where it stays.
WakeupNotLost ==
    \A t \in Tasks :
        (polled[t] /\ fired[t] /\ \E c \in Cpus : t \in store[c])
            => \/ \E i \in DOMAIN wakeQ : wakeQ[i] = t
               \/ \E c \in Cpus : cur[c] = t
               \/ ~SingleExecutor /\ \E c \in Cpus : t \in cache[c]

\* No task is lost or run twice, and no wake-up of a waiting task is lost.
TasksSound == OneOwner /\ WakeupNotLost

\* With one executor every task that is spawned finishes once its events have
\* happened, although wake-ups may arrive between the last look at WAKE_QUEUE
\* and the halt.
TasksFinish == \A t \in Tasks : (SingleExecutor /\ Spawned(t)) ~> Done(t)

------------------------------------------------------------------------------
(* The proofs, for any CPUs, tasks, batch size and queue sizes *)

Labels == {"run", "park", "wake", "wakeOwn", "wakeOthers", "global", "globalOwn",
           "globalOthers", "steal", "idle", "hlt"}

\* Where cur is a task.
Holding == {"park", "wakeOwn", "wakeOthers", "globalOwn", "globalOthers"}

ExecutorsOK ==
    /\ active \subseteq Cpus
    /\ pc \in [Cpus -> Labels]
    /\ cur \in [Cpus -> Tasks \cup {NoTask}]
    /\ \A c \in Cpus : pc[c] \in Holding => cur[c] \in Tasks

QueuesOK ==
    /\ local \in [Cpus -> Seq(Tasks)]
    /\ cache \in [Cpus -> SUBSET Tasks]
    /\ store \in [Cpus -> SUBSET Tasks]
    /\ wakeQ \in Seq(Tasks) /\ globalQ \in Seq(Tasks)

\* An event is only consumed by a task that waits for one, and only a spawned
\* task is ever polled.
FuturesOK ==
    /\ need \in [Tasks -> Nat]
    /\ fired \in [Tasks -> BOOLEAN]
    /\ waker \in [Tasks -> BOOLEAN]
    /\ polled \in [Tasks -> BOOLEAN]
    /\ spawning \in [Globals -> {"no", "stored", "yes"}]
    /\ \A t \in Tasks : fired[t] => need[t] > 0
    /\ \A t \in Tasks : polled[t] => Spawned(t)

Listed(t, s) == \E i \in DOMAIN s : s[i] = t
Once(s) == \A i, j \in DOMAIN s : s[i] = s[j] => i = j

Stored(t, c) == t \in store[c]
Queued(t, c) == Listed(t, local[c])
Polling(t, c) == pc[c] = "park" /\ cur[c] = t
Held(t, c) == Stored(t, c) \/ Queued(t, c) \/ Polling(t, c)
Live(t) == Spawned(t) /\ ~Done(t)

\* A live task is held by one CPU, in one way; others are held by none.
Placed(t) ==
    /\ Live(t) <=> \E c \in Cpus : Held(t, c)
    /\ \A c, d \in Cpus : Held(t, c) /\ Held(t, d) => c = d
    /\ \A c \in Cpus : /\ ~(Stored(t, c) /\ Queued(t, c))
                       /\ ~(Stored(t, c) /\ Polling(t, c))
                       /\ ~(Queued(t, c) /\ Polling(t, c))

OwnerInv ==
    /\ \A c \in Cpus : Once(local[c])
    /\ \A t \in Tasks : Placed(t)

ExecInv == ExecutorsOK /\ QueuesOK /\ FuturesOK /\ OwnerInv

\* A task waits in a store, or is on its way into one.
Waiting(t) == polled[t] /\ \E c \in Cpus : Stored(t, c) \/ Polling(t, c)

\* Its wake-up is on its way.  A single executor that has looked at its store
\* has found the task there; another may look too early and leave the id in
\* its cache.
WakeComing(t) ==
    \/ Listed(t, wakeQ)
    \/ \E c \in Cpus : pc[c] = "wakeOwn" /\ cur[c] = t
    \/ /\ ~SingleExecutor
       /\ \E c \in Cpus : (pc[c] = "wakeOthers" /\ cur[c] = t) \/ t \in cache[c]

Woken(t) == Waiting(t) => IF fired[t] THEN WakeComing(t) ELSE waker[t]

\* Only registered CPUs leave the start of the loop or have tasks in store.
ActiveInv ==
    /\ \A t \in Globals : Target[t] \in active
    /\ \A c \in Cpus : pc[c] # "run" => c \in active
    /\ \A t \in Tasks, c \in Cpus : Stored(t, c) => c \in active

WakeInv == ActiveInv /\ \A t \in Tasks : Woken(t)

\* What the queues' operations do to the ids in them.
LEMMA AppendListed ==
    ASSUME NEW s \in Seq(Tasks), NEW t \in Tasks
    PROVE  /\ Append(s, t) \in Seq(Tasks)
           /\ \A x : Listed(x, Append(s, t)) <=> Listed(x, s) \/ x = t
           /\ Once(s) /\ ~Listed(t, s) => Once(Append(s, t))
<1>1. /\ Append(s, t) \in Seq(Tasks) /\ Len(s) \in Nat
      /\ DOMAIN s = 1 .. Len(s) /\ DOMAIN Append(s, t) = 1 .. Len(s) + 1
      /\ \A i \in 1 .. Len(s) : Append(s, t)[i] = s[i]
      /\ Append(s, t)[Len(s) + 1] = t
  OBVIOUS
<1>2. \A x : Listed(x, Append(s, t)) => Listed(x, s) \/ x = t
  BY <1>1 DEF Listed
<1>3. \A x : Listed(x, s) => Listed(x, Append(s, t))
  BY <1>1 DEF Listed
<1>4. Listed(t, Append(s, t))
  <2>1. Len(s) + 1 \in DOMAIN Append(s, t)
    BY <1>1
  <2> QED
    BY <1>1, <2>1 DEF Listed
<1>5. ASSUME Once(s), ~Listed(t, s)
      PROVE  Once(Append(s, t))
  BY <1>1, <1>5 DEF Once, Listed
<1> QED
  BY <1>1, <1>2, <1>3, <1>4, <1>5

\* A queue without its head lists the other ids, and the head no longer if it was
\* there once.
LEMMA TailListed ==
    ASSUME NEW s \in Seq(Tasks), s # <<>>
    PROVE  /\ Head(s) \in Tasks /\ Tail(s) \in Seq(Tasks)
           /\ \A x : Listed(x, s) <=> x = Head(s) \/ Listed(x, Tail(s))
           /\ Once(s) => Once(Tail(s)) /\ ~Listed(Head(s), Tail(s))
<1>1. /\ Head(s) \in Tasks /\ Tail(s) \in Seq(Tasks)
      /\ Len(s) \in Nat /\ Len(s) > 0 /\ Head(s) = s[1]
      /\ DOMAIN s = 1 .. Len(s) /\ DOMAIN Tail(s) = 1 .. Len(s) - 1
      /\ \A i \in 1 .. Len(s) - 1 : Tail(s)[i] = s[i + 1]
  OBVIOUS
<1>2. ASSUME NEW x, Listed(x, s), x # Head(s)
      PROVE  Listed(x, Tail(s))
  <2>1. PICK i \in 1 .. Len(s) : s[i] = x
    BY <1>1, <1>2 DEF Listed
  <2>2. i - 1 \in DOMAIN Tail(s) /\ Tail(s)[i - 1] = x
    BY <1>1, <1>2, <2>1
  <2> QED
    BY <2>2 DEF Listed
<1>3. ASSUME NEW x, Listed(x, Tail(s))
      PROVE  Listed(x, s)
  <2>1. PICK i \in 1 .. Len(s) - 1 : Tail(s)[i] = x
    BY <1>1, <1>3 DEF Listed
  <2>2. i + 1 \in DOMAIN s /\ s[i + 1] = x
    BY <1>1, <2>1
  <2> QED
    BY <2>2 DEF Listed
<1>4. Listed(Head(s), s)
  BY <1>1 DEF Listed
<1>5. ASSUME Once(s)
      PROVE  Once(Tail(s)) /\ ~Listed(Head(s), Tail(s))
  <2>1. \A i, j \in 1 .. Len(s) : s[i] = s[j] => i = j
    BY <1>1, <1>5 DEF Once
  <2>2. Once(Tail(s))
    <3> SUFFICES ASSUME NEW i \in 1 .. Len(s) - 1, NEW j \in 1 .. Len(s) - 1,
                        Tail(s)[i] = Tail(s)[j]
                 PROVE  i = j
      BY <1>1 DEF Once
    <3>1. i + 1 \in 1 .. Len(s) /\ j + 1 \in 1 .. Len(s) /\ s[i + 1] = s[j + 1]
      BY <1>1
    <3> QED
      BY <2>1, <3>1
  <2>3. ASSUME NEW i \in 1 .. Len(s) - 1, Tail(s)[i] = Head(s)
        PROVE  FALSE
    <3>1. i + 1 \in 1 .. Len(s) /\ 1 \in 1 .. Len(s) /\ s[i + 1] = s[1]
      BY <1>1, <2>3
    <3> QED
      BY <2>1, <3>1
  <2> QED
    BY <1>1, <2>2, <2>3 DEF Listed
<1> QED
  BY <1>1, <1>2, <1>3, <1>4, <1>5

\* A push to a bounded queue that is full changes nothing, otherwise it adds the id.
LEMMA PushedListed ==
    ASSUME NEW q \in Seq(Tasks), NEW t \in Tasks, NEW cap
    PROVE  /\ Pushed(q, t, cap) \in Seq(Tasks)
           /\ \A x : Listed(x, q) => Listed(x, Pushed(q, t, cap))
           /\ Len(q) < cap => Listed(t, Pushed(q, t, cap))
BY AppendListed DEF Pushed

\* spawn puts every local task into its CPU's queue, once.
LEMMA ListingOnce ==
    ASSUME NEW S \in SUBSET Tasks, NEW q \in Orders(S)
    PROVE  /\ q \in Seq(Tasks) /\ Once(q)
           /\ \A x : Listed(x, q) <=> x \in S
<1> DEFINE n == Cardinality(S)
<1>1. n \in Nat
  BY ExecutorAssumption, FS_Subset, FS_CardinalityType
<1>2. /\ q \in [1 .. n -> S]
      /\ \A x \in S : \E i \in 1 .. n : q[i] = x
      /\ \A i, j \in 1 .. n : q[i] = q[j] => i = j
  BY DEF Orders
<1> HIDE DEF n
<1>3. q \in Seq(Tasks) /\ DOMAIN q = 1 .. n
  BY <1>1, <1>2
<1> QED
  BY <1>2, <1>3 DEF Once, Listed

\* A step of the executor on CPU c leaves the others where they are, ...
OthersStay(c) == \A d \in Cpus \ {c} : pc'[d] = pc[d] /\ cur'[d] = cur[d]

\* An executor that goes to another part of the loop moves no other executor.
LEMMA GotoOK ==
    ASSUME ExecutorsOK, UNCHANGED active, NEW c \in Cpus, NEW l \in Labels,
           NEW t \in Tasks \cup {NoTask}, l \in Holding => t \in Tasks, Goto(c, l, t)
    PROVE  ExecutorsOK' /\ OthersStay(c) /\ pc'[c] = l /\ cur'[c] = t
<1>1. /\ pc' \in [Cpus -> Labels] /\ pc'[c] = l
      /\ \A d \in Cpus \ {c} : pc'[d] = pc[d]
  BY DEF Goto, ExecutorsOK
<1>2. /\ cur' \in [Cpus -> Tasks \cup {NoTask}] /\ cur'[c] = t
      /\ \A d \in Cpus \ {c} : cur'[d] = cur[d]
  BY DEF Goto, ExecutorsOK
<1>3. ExecutorsOK'
  BY <1>1, <1>2 DEF ExecutorsOK
<1> QED
  BY <1>1, <1>2, <1>3 DEF OthersStay

\* ... and what is held for a task stays as it is unless the step is about it.
Untouched(t) ==
    /\ Live(t)' <=> Live(t)
    /\ \A c \in Cpus : /\ Stored(t, c)' <=> Stored(t, c)
                       /\ Queued(t, c)' <=> Queued(t, c)
                       /\ Polling(t, c)' <=> Polling(t, c)

\* A task that no step touched stays where it was.
LEMMA PlacedFrame ==
    ASSUME NEW t \in Tasks, Placed(t), Untouched(t)
    PROVE  Placed(t)'
BY DEF Placed, Untouched, Held

\* Steps that move no task.
LEMMA QuietOwner ==
    ASSUME OwnerInv, UNCHANGED local, \A t \in Tasks : Untouched(t)
    PROVE  OwnerInv'
BY PlacedFrame DEF OwnerInv

\* A step moves task u and is about no other.
LEMMA MovedOwner ==
    ASSUME OwnerInv, NEW u \in Tasks, \A t \in Tasks \ {u} : Untouched(t),
           \A c \in Cpus : Once(local'[c]), Placed(u)'
    PROVE  OwnerInv'
BY PlacedFrame DEF OwnerInv

\* A step from and to a part of the loop other than the parking of a polled
\* task neither begins nor ends a poll.
LEMMA NotParking ==
    ASSUME NEW c \in Cpus, OthersStay(c), pc[c] # "park", pc'[c] # "park"
    PROVE  \A t \in Tasks, d \in Cpus : Polling(t, d)' <=> Polling(t, d)
BY DEF OthersStay, Polling

\* The futures' state is well formed as long as no step changes it.
LEMMA FuturesKept ==
    ASSUME FuturesOK, UNCHANGED <<taskVars, spawning>>
    PROVE  FuturesOK' /\ \A t \in Tasks : Live(t)' <=> Live(t)
<1>1. UNCHANGED <<need, fired, waker, polled, spawning>>
  BY DEF taskVars
<1> QED
  BY <1>1 DEF FuturesOK, Live, Spawned, Done

\* The steps of an executor that move no task.
LEMMA QuietStep ==
    ASSUME ExecInv, NEW c \in Cpus, ExecutorsOK', QueuesOK', OthersStay(c),
           pc[c] # "park", pc'[c] # "park", UNCHANGED <<local, store, taskVars, spawning>>
    PROVE  ExecInv'
<1>1. FuturesOK' /\ \A t \in Tasks : Live(t)' <=> Live(t)
  BY FuturesKept DEF ExecInv
<1>2. \A t \in Tasks, d \in Cpus : /\ Stored(t, d)' <=> Stored(t, d)
                                   /\ Queued(t, d)' <=> Queued(t, d)
                                   /\ Polling(t, d)' <=> Polling(t, d)
  BY NotParking DEF Stored, Queued
<1>3. \A t \in Tasks : Untouched(t)
  BY <1>1, <1>2 DEF Untouched
<1> QED
  BY <1>1, <1>3, QuietOwner DEF ExecInv

\* What Take does: task t goes from the store of d to the queue of c.
TakeDoes(c, d, t) ==
    /\ store' \in [Cpus -> SUBSET Tasks] /\ local' \in [Cpus -> Seq(Tasks)]
    /\ \A x \in Tasks, e \in Cpus :
          /\ Stored(x, e)' <=> Stored(x, e) /\ ~(x = t /\ e = d)
          /\ Queued(x, e)' <=> Queued(x, e) \/ (x = t /\ e = c)
    /\ local'[c] = Append(local[c], t)
    /\ \A e \in Cpus \ {c} : local'[e] = local[e]

\* Take on the two containers: out of the one, into the other, nobody else moved.
LEMMA TakeEffect ==
    ASSUME QueuesOK, NEW c \in Cpus, NEW d \in Cpus, NEW t \in Tasks, Take(c, d, t)
    PROVE  TakeDoes(c, d, t)
<1>1. store' = [store EXCEPT ![d] = @ \ {t}] /\ store \in [Cpus -> SUBSET Tasks]
  BY DEF Take, QueuesOK
<1>2. /\ local[c] \in Seq(Tasks) /\ local \in [Cpus -> Seq(Tasks)]
      /\ local' = [local EXCEPT ![c] = Append(local[c], t)]
  BY DEF Take, QueuesOK
<1>3. /\ Append(local[c], t) \in Seq(Tasks)
      /\ \A x : Listed(x, Append(local[c], t)) <=> Listed(x, local[c]) \/ x = t
  BY <1>2, AppendListed
<1>4. /\ local' \in [Cpus -> Seq(Tasks)] /\ local'[c] = Append(local[c], t)
      /\ \A e \in Cpus \ {c} : local'[e] = local[e]
  BY <1>2, <1>3
<1>5. \A x \in Tasks, e \in Cpus : Queued(x, e)' <=> Queued(x, e) \/ (x = t /\ e = c)
  BY <1>3, <1>4 DEF Queued
<1>6. \A x \in Tasks, e \in Cpus : Stored(x, e)' <=> Stored(x, e) /\ ~(x = t /\ e = d)
  BY <1>1 DEF Stored
<1>7. store' \in [Cpus -> SUBSET Tasks]
  BY <1>1
<1> QED
  BY <1>4, <1>5, <1>6, <1>7 DEF TakeDoes

\* Waking or stealing a task moves it from one container to one other.
LEMMA TakeStep ==
    ASSUME ExecInv, NEW c \in Cpus, NEW d \in Cpus, NEW t \in Tasks,
           t \in store[d], Take(c, d, t), ExecutorsOK', OthersStay(c),
           pc[c] # "park", pc'[c] # "park",
           UNCHANGED <<cache, wakeQ, globalQ, taskVars, spawning>>
    PROVE  ExecInv'
<1>1. FuturesOK' /\ \A x \in Tasks : Live(x)' <=> Live(x)
  BY FuturesKept DEF ExecInv
<1>2. /\ store' \in [Cpus -> SUBSET Tasks] /\ local' \in [Cpus -> Seq(Tasks)]
      /\ \A x \in Tasks, e \in Cpus :
            /\ Stored(x, e)' <=> Stored(x, e) /\ ~(x = t /\ e = d)
            /\ Queued(x, e)' <=> Queued(x, e) \/ (x = t /\ e = c)
      /\ local'[c] = Append(local[c], t)
      /\ \A e \in Cpus \ {c} : local'[e] = local[e]
  <2>1. TakeDoes(c, d, t)
    BY TakeEffect DEF ExecInv
  <2> QED
    BY <2>1 DEF TakeDoes
<1>3. \A x \in Tasks, e \in Cpus : Polling(x, e)' <=> Polling(x, e)
  BY NotParking
<1>4. QueuesOK'
  BY <1>2 DEF ExecInv, QueuesOK
<1>5. \A x \in Tasks \ {t} : Untouched(x)
  BY <1>1, <1>2, <1>3 DEF Untouched
<1>6. Placed(t) /\ Stored(t, d)
  BY DEF ExecInv, OwnerInv, Stored
<1>7. /\ Live(t)
      /\ \A e \in Cpus : ~Queued(t, e) /\ ~Polling(t, e) /\ (Stored(t, e) <=> e = d)
  BY <1>6 DEF Placed, Held
<1>8. \A e \in Cpus : ~Stored(t, e)' /\ ~Polling(t, e)' /\ (Queued(t, e)' <=> e = c)
  BY <1>2, <1>3, <1>7
<1>9. Placed(t)'
  BY <1>1, <1>7, <1>8 DEF Placed, Held
<1>10. \A e \in Cpus : Once(local'[e])
  <2>1. Once(local[c]) /\ ~Listed(t, local[c]) /\ local[c] \in Seq(Tasks)
    BY <1>7 DEF ExecInv, OwnerInv, Queued, QueuesOK
  <2>2. Once(local'[c])
    BY <1>2, <2>1, AppendListed
  <2> QED
    BY <1>2, <2>2 DEF ExecInv, OwnerInv
<1> QED
  BY <1>1, <1>4, <1>5, <1>9, <1>10, MovedOwner DEF ExecInv

\* Popping WAKE_QUEUE moves an id, no task.
LEMMA WakePopStep ==
    ASSUME ExecInv, NEW c \in Cpus, WakePop(c)
    PROVE  ExecInv'
<1>1. wakeQ \in Seq(Tasks) /\ wakeQ # <<>> /\ wakeQ' = Tail(wakeQ)
  BY DEF WakePop, ExecInv, QueuesOK
<1>2. Head(wakeQ) \in Tasks /\ wakeQ' \in Seq(Tasks)
  BY <1>1, TailListed
<1>3. /\ Goto(c, "wakeOwn", Head(wakeQ)) /\ pc[c] = "wake"
      /\ UNCHANGED <<active, local, cache, store, globalQ, taskVars, spawning>>
  BY DEF WakePop, At
<1>4. ExecutorsOK' /\ OthersStay(c) /\ pc'[c] = "wakeOwn"
  BY <1>2, <1>3, GotoOK DEF ExecInv, Labels
<1>5. QueuesOK'
  BY <1>2, <1>3 DEF ExecInv, QueuesOK
<1> QED
  BY <1>3, <1>4, <1>5, QuietStep

\* Popping the global queue moves an id, no task: its future is in a store.
LEMMA GlobalPopStep ==
    ASSUME ExecInv, NEW c \in Cpus, GlobalPop(c)
    PROVE  ExecInv'
<1>1. globalQ \in Seq(Tasks) /\ globalQ # <<>> /\ globalQ' = Tail(globalQ)
  BY DEF GlobalPop, ExecInv, QueuesOK
<1>2. Head(globalQ) \in Tasks /\ globalQ' \in Seq(Tasks)
  BY <1>1, TailListed
<1>3. /\ Goto(c, "globalOwn", Head(globalQ)) /\ pc[c] = "global"
      /\ UNCHANGED <<active, local, cache, store, wakeQ, taskVars, spawning>>
  BY DEF GlobalPop, At
<1>4. ExecutorsOK' /\ OthersStay(c) /\ pc'[c] = "globalOwn"
  BY <1>2, <1>3, GotoOK DEF ExecInv, Labels
<1>5. QueuesOK'
  BY <1>2, <1>3 DEF ExecInv, QueuesOK
<1> QED
  BY <1>3, <1>4, <1>5, QuietStep

\* The steps from one part of the loop to the next move no task.
LEMMA PhaseStep ==
    ASSUME ExecInv, NEW c \in Cpus,
           \/ RunEnd(c) \/ WakeEnd(c) \/ GlobalEnd(c) \/ StealEnd(c) \/ Idle(c)
           \/ TimerInterrupt(c)
    PROVE  ExecInv'
<1>1. \E l \in Labels \ Holding : Enter(c, l)
  BY DEF RunEnd, WakeEnd, GlobalEnd, StealEnd, Idle, TimerInterrupt, Labels, Holding
<1>2. PICK l \in Labels \ Holding : Enter(c, l)
  BY <1>1
<1>3. /\ pc[c] # "park"
      /\ UNCHANGED <<active, local, cache, store, wakeQ, globalQ, taskVars, spawning>>
  BY DEF RunEnd, WakeEnd, GlobalEnd, StealEnd, Idle, TimerInterrupt, At
<1>4. Goto(c, l, NoTask)
  BY <1>2 DEF Enter, Goto
<1>5. ExecutorsOK' /\ OthersStay(c) /\ pc'[c] = l
  BY <1>3, <1>4, GotoOK DEF ExecInv
<1>6. QueuesOK'
  BY <1>3 DEF ExecInv, QueuesOK
<1> QED
  BY <1>3, <1>5, <1>6, QuietStep DEF Holding

\* So none of the steps of the loop itself moves a task.
LEMMA LoopSteps ==
    ASSUME ExecInv, NEW c \in Cpus,
           \/ RunEnd(c) \/ WakeEnd(c) \/ GlobalEnd(c) \/ StealEnd(c) \/ Idle(c)
           \/ TimerInterrupt(c) \/ WakePop(c) \/ GlobalPop(c)
    PROVE  ExecInv'
BY WakePopStep, GlobalPopStep, PhaseStep

\* What the searches of the stores and the thief have in common.
Searches(c) ==
    /\ UNCHANGED <<active, wakeQ, globalQ, taskVars, spawning>>
    /\ c \in active /\ active \subseteq Cpus
    /\ pc[c] # "park" /\ (pc[c] # "steal" => cur[c] \in Tasks)

\* Every step of a search is a step of one active executor that holds an id.
LEMMA SearchBase ==
    ASSUME ExecInv, NEW c \in Cpus,
           \/ WakeOwn(c) \/ WakeOthers(c) \/ GlobalOwn(c) \/ GlobalOthers(c) \/ StealOne(c)
    PROVE  Searches(c)
BY DEF WakeOwn, WakeOthers, GlobalOwn, GlobalOthers, StealOne, At, ExecInv, ExecutorsOK,
       Holding, Searches

\* A woken id looked up in the executor's own store.
LEMMA WakeOwnStep ==
    ASSUME ExecInv, NEW c \in Cpus, WakeOwn(c)
    PROVE  ExecInv'
<1>0. Searches(c)
  BY SearchBase
<1>1. CASE cur[c] \in store[c]
  <2>1. Take(c, c, cur[c]) /\ Goto(c, "wake", NoTask) /\ UNCHANGED cache /\ cur[c] \in Tasks
    BY <1>0, <1>1 DEF WakeOwn, At, Searches
  <2>2. ExecutorsOK' /\ OthersStay(c) /\ pc'[c] = "wake"
    BY <1>0, <2>1, GotoOK DEF ExecInv, Labels, Holding, Searches
  <2> QED
    BY <1>0, <1>1, <2>1, <2>2, TakeStep DEF Searches
<1>2. CASE cur[c] \notin store[c]
  <2>1. /\ Goto(c, "wakeOthers", cur[c]) /\ UNCHANGED <<local, store, cache>>
        /\ cur[c] \in Tasks
    BY <1>0, <1>2 DEF WakeOwn, At, Searches
  <2>2. ExecutorsOK' /\ OthersStay(c) /\ pc'[c] = "wakeOthers"
    BY <1>0, <2>1, GotoOK DEF ExecInv, Labels, Searches
  <2>3. QueuesOK'
    BY <1>0, <2>1 DEF ExecInv, QueuesOK, Searches
  <2> QED
    BY <1>0, <2>1, <2>2, <2>3, QuietStep DEF Searches
<1> QED
  BY <1>1, <1>2

\* A global id looked up in the executor's own store.
LEMMA GlobalOwnStep ==
    ASSUME ExecInv, NEW c \in Cpus, GlobalOwn(c)
    PROVE  ExecInv'
<1>0. Searches(c)
  BY SearchBase
<1>1. CASE cur[c] \in store[c]
  <2>1. Take(c, c, cur[c]) /\ Goto(c, "global", NoTask) /\ UNCHANGED cache /\ cur[c] \in Tasks
    BY <1>0, <1>1 DEF GlobalOwn, At, Searches
  <2>2. ExecutorsOK' /\ OthersStay(c) /\ pc'[c] = "global"
    BY <1>0, <2>1, GotoOK DEF ExecInv, Labels, Holding, Searches
  <2> QED
    BY <1>0, <1>1, <2>1, <2>2, TakeStep DEF Searches
<1>2. CASE cur[c] \notin store[c]
  <2>1. /\ Goto(c, "globalOthers", cur[c]) /\ UNCHANGED <<local, store, cache>>
        /\ cur[c] \in Tasks
    BY <1>0, <1>2 DEF GlobalOwn, At, Searches
  <2>2. ExecutorsOK' /\ OthersStay(c) /\ pc'[c] = "globalOthers"
    BY <1>0, <2>1, GotoOK DEF ExecInv, Labels, Searches
  <2>3. QueuesOK'
    BY <1>0, <2>1 DEF ExecInv, QueuesOK, Searches
  <2> QED
    BY <1>0, <2>1, <2>2, <2>3, QuietStep DEF Searches
<1> QED
  BY <1>1, <1>2

\* A woken id looked up in the stores of the other executors.
LEMMA WakeOthersStep ==
    ASSUME ExecInv, NEW c \in Cpus, WakeOthers(c)
    PROVE  ExecInv'
<1>0. Searches(c)
  BY SearchBase
<1>1. Goto(c, "wake", NoTask) /\ cur[c] \in Tasks
  BY <1>0 DEF WakeOthers, At, Searches
<1>2. ExecutorsOK' /\ OthersStay(c) /\ pc'[c] = "wake"
  BY <1>0, <1>1, GotoOK DEF ExecInv, Labels, Holding, Searches
<1>3. CASE \E d \in active \ {c} : cur[c] \in store[d]
  <2>1. PICK d \in Cpus : cur[c] \in store[d] /\ Take(c, d, cur[c]) /\ UNCHANGED cache
    BY <1>0, <1>3 DEF WakeOthers, Searches
  <2> QED
    BY <1>0, <1>1, <1>2, <2>1, TakeStep DEF Searches
<1>4. CASE ~ \E d \in active \ {c} : cur[c] \in store[d]
  <2>1. UNCHANGED <<local, store>> /\ cache' = [cache EXCEPT ![c] = @ \cup {cur[c]}]
    BY <1>4 DEF WakeOthers
  <2>2. cache' \in [Cpus -> SUBSET Tasks]
    BY <1>1, <2>1 DEF ExecInv, QueuesOK
  <2>3. QueuesOK'
    BY <1>0, <2>1, <2>2 DEF ExecInv, QueuesOK, Searches
  <2> QED
    BY <1>0, <1>2, <2>1, <2>3, QuietStep DEF Searches
<1> QED
  BY <1>3, <1>4

\* A global id looked up in the stores of the other executors.
LEMMA GlobalOthersStep ==
    ASSUME ExecInv, NEW c \in Cpus, GlobalOthers(c)
    PROVE  ExecInv'
<1>0. Searches(c)
  BY SearchBase
<1>1. Goto(c, "global", NoTask) /\ cur[c] \in Tasks /\ UNCHANGED cache
  BY <1>0 DEF GlobalOthers, At, Searches
<1>2. ExecutorsOK' /\ OthersStay(c) /\ pc'[c] = "global"
  BY <1>0, <1>1, GotoOK DEF ExecInv, Labels, Holding, Searches
<1>3. CASE \E d \in Cpus \ {c} : cur[c] \in store[d]
  <2>1. PICK d \in Cpus : cur[c] \in store[d] /\ Take(c, d, cur[c])
    BY <1>3 DEF GlobalOthers
  <2> QED
    BY <1>0, <1>1, <1>2, <2>1, TakeStep DEF Searches
<1>4. CASE ~ \E d \in Cpus \ {c} : cur[c] \in store[d]
  <2>1. UNCHANGED <<local, store>>
    BY <1>4 DEF GlobalOthers
  <2>2. QueuesOK'
    BY <1>0, <1>1, <2>1 DEF ExecInv, QueuesOK, Searches
  <2> QED
    BY <1>0, <1>2, <2>1, <2>2, QuietStep DEF Searches
<1> QED
  BY <1>3, <1>4

\* A task stolen from another executor's store.
LEMMA StealStep ==
    ASSUME ExecInv, NEW c \in Cpus, StealOne(c)
    PROVE  ExecInv'
<1>0. Searches(c)
  BY SearchBase
<1>1. PICK d \in Cpus, t \in Tasks : t \in store[d] /\ Take(c, d, t)
  BY <1>0 DEF StealOne, Searches
<1>2. UNCHANGED <<active, pc, cur, cache>>
  BY DEF StealOne
<1>3. ExecutorsOK' /\ OthersStay(c) /\ pc'[c] = pc[c]
  BY <1>2 DEF ExecInv, ExecutorsOK, OthersStay
<1> QED
  BY <1>0, <1>1, <1>2, <1>3, TakeStep DEF Searches

\* However an id is searched for, tasks keep one owner.
LEMMA SearchSteps ==
    ASSUME ExecInv, NEW c \in Cpus,
           \/ WakeOwn(c) \/ WakeOthers(c) \/ GlobalOwn(c) \/ GlobalOthers(c) \/ StealOne(c)
    PROVE  ExecInv'
BY WakeOwnStep, GlobalOwnStep, WakeOthersStep, GlobalOthersStep, StealStep

\* Popping a task to poll it takes it out of the queue.
LEMMA PopEffect ==
    ASSUME QueuesOK, NEW c \in Cpus, local[c] # <<>>, Once(local[c]),
           local' = [local EXCEPT ![c] = Tail(@)]
    PROVE  /\ Head(local[c]) \in Tasks /\ local' \in [Cpus -> Seq(Tasks)]
           /\ Queued(Head(local[c]), c)
           /\ \A x \in Tasks, e \in Cpus :
                 Queued(x, e)' <=> Queued(x, e) /\ ~(x = Head(local[c]) /\ e = c)
           /\ Once(local'[c]) /\ \A e \in Cpus \ {c} : local'[e] = local[e]
<1>1. local \in [Cpus -> Seq(Tasks)] /\ local[c] \in Seq(Tasks)
  BY DEF QueuesOK
<1>2. /\ Head(local[c]) \in Tasks /\ Tail(local[c]) \in Seq(Tasks)
      /\ \A x : Listed(x, local[c]) <=> x = Head(local[c]) \/ Listed(x, Tail(local[c]))
      /\ Once(Tail(local[c])) /\ ~Listed(Head(local[c]), Tail(local[c]))
  BY <1>1, TailListed
<1>3. /\ local' \in [Cpus -> Seq(Tasks)] /\ local'[c] = Tail(local[c])
      /\ \A e \in Cpus \ {c} : local'[e] = local[e]
  BY <1>1, <1>2
<1>4. \A x \in Tasks, e \in Cpus :
         Queued(x, e)' <=> Queued(x, e) /\ ~(x = Head(local[c]) /\ e = c)
  BY <1>2, <1>3 DEF Queued
<1> QED
  BY <1>2, <1>3, <1>4 DEF Queued

\* What Poll does to the polled task t and to the executor.
PollEffect(c, t) ==
    /\ t \in Tasks /\ Queued(t, c) /\ pc[c] = "run" /\ OthersStay(c)
    /\ UNCHANGED <<active, cache, store, wakeQ, globalQ, spawning>>
    /\ \A x \in Tasks, e \in Cpus : Queued(x, e)' <=> Queued(x, e) /\ ~(x = t /\ e = c)
    /\ polled'[t] /\ ~fired'[t] /\ (waker'[t] <=> need'[t] > 0)
    /\ \A x \in Tasks \ {t} : /\ polled'[x] = polled[x] /\ need'[x] = need[x]
                              /\ fired'[x] = fired[x] /\ waker'[x] = waker[x]
    /\ IF need'[t] = 0 THEN pc'[c] = "run" ELSE pc'[c] = "park" /\ cur'[c] = t

\* A poll takes the head of the queue and leaves the rest of the queues alone.
LEMMA PollDoes ==
    ASSUME ExecInv, NEW c \in Cpus, Poll(c)
    PROVE  /\ PollEffect(c, Head(local[c])) /\ ExecutorsOK' /\ QueuesOK'
           /\ \A e \in Cpus : Once(local'[e])
           /\ need' \in [Tasks -> Nat] /\ fired' \in [Tasks -> BOOLEAN]
           /\ waker' \in [Tasks -> BOOLEAN] /\ polled' \in [Tasks -> BOOLEAN]
<1> DEFINE t == Head(local[c])
           left == IF fired[t] THEN need[t] - 1 ELSE need[t]
<1>1. /\ pc[c] = "run" /\ local[c] # <<>> /\ local' = [local EXCEPT ![c] = Tail(@)]
      /\ UNCHANGED <<active, cache, store, wakeQ, globalQ, spawning>>
  BY DEF Poll, At
<1>2. /\ polled' = [polled EXCEPT ![t] = TRUE] /\ need' = [need EXCEPT ![t] = left]
      /\ fired' = [fired EXCEPT ![t] = FALSE] /\ waker' = [waker EXCEPT ![t] = left > 0]
      /\ IF left = 0 THEN Goto(c, "run", NoTask) ELSE Goto(c, "park", t)
  BY DEF Poll
<1>3. /\ t \in Tasks /\ local' \in [Cpus -> Seq(Tasks)] /\ Queued(t, c)
      /\ \A x \in Tasks, e \in Cpus : Queued(x, e)' <=> Queued(x, e) /\ ~(x = t /\ e = c)
      /\ Once(local'[c]) /\ \A e \in Cpus \ {c} : local'[e] = local[e]
  BY <1>1, PopEffect DEF ExecInv, OwnerInv
<1>4. \A e \in Cpus : Once(local'[e])
  BY <1>3 DEF ExecInv, OwnerInv
<1>5. QueuesOK'
  BY <1>1, <1>3 DEF ExecInv, QueuesOK
<1> HIDE DEF t
<1>6. left \in Nat
  BY <1>3 DEF ExecInv, FuturesOK
<1> HIDE DEF left
<1>7. need' \in [Tasks -> Nat] /\ need'[t] = left /\ \A x \in Tasks \ {t} : need'[x] = need[x]
  BY <1>2, <1>3, <1>6 DEF ExecInv, FuturesOK
<1>8. /\ polled' \in [Tasks -> BOOLEAN] /\ polled'[t]
      /\ \A x \in Tasks \ {t} : polled'[x] = polled[x]
  BY <1>2, <1>3 DEF ExecInv, FuturesOK
<1>9. /\ fired' \in [Tasks -> BOOLEAN] /\ ~fired'[t]
      /\ \A x \in Tasks \ {t} : fired'[x] = fired[x]
  BY <1>2, <1>3 DEF ExecInv, FuturesOK
<1>10. /\ waker' \in [Tasks -> BOOLEAN] /\ (waker'[t] <=> left > 0)
       /\ \A x \in Tasks \ {t} : waker'[x] = waker[x]
  <2> DEFINE more == left > 0
  <2>1. more \in BOOLEAN /\ waker' = [waker EXCEPT ![t] = more]
    BY <1>2
  <2> HIDE DEF more
  <2>2. waker \in [Tasks -> BOOLEAN]
    BY DEF ExecInv, FuturesOK
  <2>3. /\ waker' \in [Tasks -> BOOLEAN] /\ (waker'[t] <=> more)
        /\ \A x \in Tasks \ {t} : waker'[x] = waker[x]
    BY <1>3, <2>1, <2>2
  <2> QED
    BY <2>3 DEF more
<1>11. /\ ExecutorsOK' /\ OthersStay(c)
       /\ IF left = 0 THEN pc'[c] = "run" ELSE pc'[c] = "park" /\ cur'[c] = t
  <2>1. CASE left = 0
    BY <1>1, <1>2, <2>1, GotoOK DEF ExecInv, Labels, Holding
  <2>2. CASE left # 0
    BY <1>1, <1>2, <1>3, <2>2, GotoOK DEF ExecInv, Labels
  <2> QED
    BY <2>1, <2>2
<1>12. PollEffect(c, t)
  BY <1>1, <1>3, <1>7, <1>8, <1>9, <1>10, <1>11 DEF PollEffect
<1> QED
  BY <1>4, <1>5, <1>7, <1>8, <1>9, <1>10, <1>11, <1>12 DEF t

\* A polled task is in the hands of its executor, or finished.
LEMMA PollStep ==
    ASSUME ExecInv, NEW c \in Cpus, Poll(c)
    PROVE  ExecInv'
<1>1. PICK t \in Tasks :
         /\ PollEffect(c, t) /\ ExecutorsOK' /\ QueuesOK' /\ \A e \in Cpus : Once(local'[e])
         /\ need' \in [Tasks -> Nat] /\ fired' \in [Tasks -> BOOLEAN]
         /\ waker' \in [Tasks -> BOOLEAN] /\ polled' \in [Tasks -> BOOLEAN]
  BY PollDoes DEF PollEffect
<1>2. t \in Tasks /\ Queued(t, c) /\ Placed(t)
  BY <1>1 DEF PollEffect, ExecInv, OwnerInv
<1>3. /\ Live(t) /\ Spawned(t)
      /\ \A e \in Cpus : ~Stored(t, e) /\ ~Polling(t, e) /\ (Queued(t, e) <=> e = c)
  BY <1>2 DEF Placed, Held, Live
<1>4. \A x \in Tasks : Spawned(x)' <=> Spawned(x)
  BY <1>1 DEF PollEffect, Spawned
<1>5. FuturesOK'
  BY <1>1, <1>3, <1>4 DEF PollEffect, ExecInv, FuturesOK
<1>6. \A x \in Tasks, e \in Cpus :
         Polling(x, e)' <=> Polling(x, e) \/ (need'[t] # 0 /\ x = t /\ e = c)
  BY <1>1 DEF PollEffect, Polling, OthersStay
<1>7. \A x \in Tasks, e \in Cpus : /\ Stored(x, e)' <=> Stored(x, e)
                                   /\ Queued(x, e)' <=> Queued(x, e) /\ ~(x = t /\ e = c)
  BY <1>1 DEF PollEffect, Stored
<1>8. \A x \in Tasks \ {t} : Live(x)' <=> Live(x)
  BY <1>1, <1>4 DEF PollEffect, Live, Done
<1>9. \A x \in Tasks \ {t} : Untouched(x)
  BY <1>6, <1>7, <1>8 DEF Untouched
<1>10. Live(t)' <=> need'[t] # 0
  BY <1>1, <1>2, <1>3, <1>4 DEF PollEffect, Live, Done
<1>11. \A e \in Cpus : /\ ~Stored(t, e)' /\ ~Queued(t, e)'
                       /\ Polling(t, e)' <=> need'[t] # 0 /\ e = c
  BY <1>2, <1>3, <1>6, <1>7
<1>12. Placed(t)'
  BY <1>10, <1>11 DEF Placed, Held
<1> QED
  BY <1>1, <1>2, <1>5, <1>9, <1>12, MovedOwner DEF ExecInv

\* What Park does: the task at hand enters the store of its CPU.
ParkEffect(c) ==
    /\ pc[c] = "park" /\ pc'[c] = "run" /\ cur[c] \in Tasks /\ OthersStay(c)
    /\ UNCHANGED <<active, local, cache, wakeQ, globalQ, taskVars, spawning>>
    /\ \A x \in Tasks, e \in Cpus : Stored(x, e)' <=> Stored(x, e) \/ (x = cur[c] /\ e = c)

\* Parking puts the polled task into the executor's own store.
LEMMA ParkDoes ==
    ASSUME ExecInv, NEW c \in Cpus, Park(c)
    PROVE  ParkEffect(c) /\ ExecutorsOK' /\ QueuesOK'
<1>1. /\ pc[c] = "park" /\ cur[c] \in Tasks /\ Goto(c, "run", NoTask)
      /\ UNCHANGED <<active, local, cache, wakeQ, globalQ, taskVars, spawning>>
      /\ store' = [store EXCEPT ![c] = @ \cup {cur[c]}]
  BY DEF Park, At, ExecInv, ExecutorsOK, Holding
<1>2. ExecutorsOK' /\ OthersStay(c) /\ pc'[c] = "run"
  BY <1>1, GotoOK DEF ExecInv, Labels, Holding
<1>3. /\ store' \in [Cpus -> SUBSET Tasks]
      /\ \A x \in Tasks, e \in Cpus : Stored(x, e)' <=> Stored(x, e) \/ (x = cur[c] /\ e = c)
  BY <1>1 DEF ExecInv, QueuesOK, Stored
<1>4. QueuesOK'
  BY <1>1, <1>3 DEF ExecInv, QueuesOK
<1> QED
  BY <1>1, <1>2, <1>3, <1>4 DEF ParkEffect

\* A parked task goes from the executor's hands to its store.
LEMMA ParkStep ==
    ASSUME ExecInv, NEW c \in Cpus, Park(c)
    PROVE  ExecInv'
<1>1. ParkEffect(c) /\ ExecutorsOK' /\ QueuesOK'
  BY ParkDoes
<1> PICK t \in Tasks : t = cur[c]
  BY <1>1 DEF ParkEffect
<1>2. FuturesOK' /\ \A x \in Tasks : Live(x)' <=> Live(x)
  BY <1>1, FuturesKept DEF ParkEffect, ExecInv
<1>3. t \in Tasks /\ Polling(t, c) /\ Placed(t)
  BY <1>1 DEF ParkEffect, Polling, ExecInv, OwnerInv
<1>4. /\ Live(t)
      /\ \A e \in Cpus : ~Stored(t, e) /\ ~Queued(t, e) /\ (Polling(t, e) <=> e = c)
  BY <1>3 DEF Placed, Held
<1>5. \A x \in Tasks, e \in Cpus : /\ Stored(x, e)' <=> Stored(x, e) \/ (x = t /\ e = c)
                                   /\ Queued(x, e)' <=> Queued(x, e)
                                   /\ Polling(x, e)' <=> Polling(x, e) /\ e # c
  BY <1>1 DEF ParkEffect, Queued, Polling, OthersStay
<1>6. \A x \in Tasks \ {t} : Untouched(x)
  BY <1>1, <1>2, <1>5 DEF Untouched, Polling
<1>7. \A e \in Cpus : ~Queued(t, e)' /\ ~Polling(t, e)' /\ (Stored(t, e)' <=> e = c)
  BY <1>3, <1>4, <1>5
<1>8. Placed(t)'
  BY <1>2, <1>3, <1>4, <1>7 DEF Placed, Held
<1>9. \A e \in Cpus : Once(local'[e])
  BY <1>1 DEF ParkEffect, ExecInv, OwnerInv
<1> QED
  BY <1>1, <1>2, <1>3, <1>6, <1>8, <1>9, MovedOwner DEF ExecInv

\* Events and wakers touch no task's place.
LEMMA EventSteps ==
    ASSUME ExecInv, NEW t \in Tasks, Fire(t) \/ StaleWake(t)
    PROVE  ExecInv'
<1>1. /\ UNCHANGED <<active, pc, cur, local, cache, store, globalQ, need, polled, spawning>>
      /\ wakeQ' \in {wakeQ, Pushed(wakeQ, t, WakeCap)}
  BY DEF Fire, StaleWake, execVars, taskVars
<1>2. wakeQ' \in Seq(Tasks)
  BY <1>1, PushedListed DEF ExecInv, QueuesOK
<1>3. ExecutorsOK' /\ QueuesOK'
  BY <1>1, <1>2 DEF ExecInv, ExecutorsOK, QueuesOK
<1>4. \A x \in Tasks : (Live(x)' <=> Live(x)) /\ (Spawned(x)' <=> Spawned(x))
  BY <1>1 DEF Live, Spawned, Done
<1>5. FuturesOK'
  <2>1. CASE Fire(t)
    BY <1>1, <1>4, <2>1 DEF Fire, ExecInv, FuturesOK
  <2>2. CASE StaleWake(t)
    BY <1>1, <1>4, <2>2 DEF StaleWake, taskVars, ExecInv, FuturesOK
  <2> QED
    BY <2>1, <2>2
<1>6. \A x \in Tasks : Untouched(x)
  BY <1>1, <1>4 DEF Untouched, Stored, Queued, Polling
<1> QED
  BY <1>1, <1>3, <1>5, <1>6, QuietOwner DEF ExecInv

\* A spawned task appears in the store of its target CPU.
LEMMA SpawnSteps ==
    ASSUME ExecInv, NEW t \in Globals, SpawnInsert(t) \/ SpawnPush(t)
    PROVE  ExecInv'
<1>1. t \in Tasks /\ Target[t] \in Cpus
  BY ExecutorAssumption
<1>2. UNCHANGED <<active, pc, cur, local, cache, wakeQ, need, fired, waker, polled>>
  BY DEF SpawnInsert, SpawnPush, execVars, taskVars
<1>3. ExecutorsOK'
  BY <1>2 DEF ExecInv, ExecutorsOK
<1>4. /\ spawning' \in [Globals -> {"no", "stored", "yes"}] /\ spawning'[t] # "no"
      /\ \A x \in Globals \ {t} : spawning'[x] = spawning[x]
  BY DEF SpawnInsert, SpawnPush, ExecInv, FuturesOK
<1>5. \A x \in Tasks : Spawned(x)' <=> Spawned(x) \/ x = t
  BY <1>4 DEF Spawned
<1>6. FuturesOK'
  BY <1>2, <1>4, <1>5 DEF ExecInv, FuturesOK
<1>7. \A x \in Tasks \ {t} : Live(x)' <=> Live(x)
  BY <1>2, <1>5 DEF Live, Done
<1>8. CASE SpawnInsert(t)
  <2>1. spawning[t] = "no" /\ UNCHANGED globalQ
    BY <1>8 DEF SpawnInsert
  <2>2. ~Spawned(t) /\ ~polled[t] /\ ~Live(t) /\ Live(t)'
    BY <1>1, <1>2, <1>5, <2>1 DEF Live, Done, Spawned, ExecInv, FuturesOK
  <2>3. /\ store' \in [Cpus -> SUBSET Tasks]
        /\ \A x \in Tasks, e \in Cpus :
              Stored(x, e)' <=> Stored(x, e) \/ (x = t /\ e = Target[t])
    BY <1>1, <1>8 DEF SpawnInsert, ExecInv, QueuesOK, Stored
  <2>4. QueuesOK'
    BY <1>2, <2>1, <2>3 DEF ExecInv, QueuesOK
  <2>5. \A x \in Tasks, e \in Cpus : /\ Queued(x, e)' <=> Queued(x, e)
                                     /\ Polling(x, e)' <=> Polling(x, e)
    BY <1>2 DEF Queued, Polling
  <2>6. \A x \in Tasks \ {t} : Untouched(x)
    BY <1>7, <2>3, <2>5 DEF Untouched
  <2>7. \A e \in Cpus : ~Stored(t, e) /\ ~Queued(t, e) /\ ~Polling(t, e)
    BY <1>1, <2>2 DEF ExecInv, OwnerInv, Placed, Held
  <2>8. \A e \in Cpus : ~Queued(t, e)' /\ ~Polling(t, e)' /\ (Stored(t, e)' <=> e = Target[t])
    BY <1>1, <2>3, <2>5, <2>7
  <2>9. Placed(t)'
    BY <1>1, <2>2, <2>8 DEF Placed, Held
  <2>10. \A e \in Cpus : Once(local'[e])
    BY <1>2 DEF ExecInv, OwnerInv
  <2> QED
    BY <1>1, <1>3, <1>6, <2>4, <2>6, <2>9, <2>10, MovedOwner DEF ExecInv
<1>9. CASE SpawnPush(t)
  <2>1. Spawned(t) /\ UNCHANGED store /\ globalQ' = Pushed(globalQ, t, GlobalCap)
    BY <1>9 DEF SpawnPush, Spawned
  <2>2. globalQ' \in Seq(Tasks)
    BY <1>1, <2>1, PushedListed DEF ExecInv, QueuesOK
  <2>3. QueuesOK'
    BY <1>2, <2>1, <2>2 DEF ExecInv, QueuesOK
  <2>4. Live(t)' <=> Live(t)
    BY <1>1, <1>2, <1>5, <2>1 DEF Live, Done
  <2>5. \A x \in Tasks : Untouched(x)
    BY <1>2, <1>7, <2>1, <2>4 DEF Untouched, Stored, Queued, Polling
  <2> QED
    BY <1>2, <1>3, <1>6, <2>3, <2>5, QuietOwner DEF ExecInv
<1> QED
  BY <1>8, <1>9

\* At the start the local tasks are in their queues and the global ones nowhere.
LEMMA InitExec == Init => ExecInv
<1> SUFFICES ASSUME Init
             PROVE  ExecInv
  OBVIOUS
<1>1. ExecutorsOK
  BY DEF Init, ExecutorsOK, Labels, Holding
<1>2. \A c \in Cpus :
         /\ local[c] \in Seq(Tasks) /\ Once(local[c])
         /\ \A x : Listed(x, local[c]) <=> x \in Tasks \ Globals /\ Home[x] = c
  <2> SUFFICES ASSUME NEW c \in Cpus
               PROVE  /\ local[c] \in Seq(Tasks) /\ Once(local[c])
                      /\ \A x : Listed(x, local[c]) <=> x \in Tasks \ Globals /\ Home[x] = c
    OBVIOUS
  <2> DEFINE S == {t \in Tasks \ Globals : Home[t] = c}
  <2>1. local[c] \in Orders(S)
    BY DEF Init
  <2>2. S \in SUBSET Tasks /\ \A x : x \in S <=> x \in Tasks \ Globals /\ Home[x] = c
    OBVIOUS
  <2> HIDE DEF S
  <2> QED
    BY <2>1, <2>2, ListingOnce
<1>3. local \in [Cpus -> Seq(Tasks)]
  <2>1. local = [c \in Cpus |-> local[c]]
    BY DEF Init
  <2> QED
    BY <1>2, <2>1
<1>4. QueuesOK
  <2>1. cache \in [Cpus -> SUBSET Tasks] /\ store \in [Cpus -> SUBSET Tasks]
    BY DEF Init
  <2>2. wakeQ \in Seq(Tasks) /\ globalQ \in Seq(Tasks)
    BY DEF Init
  <2> QED
    BY <1>3, <2>1, <2>2 DEF QueuesOK
<1>5. PICK rounds \in 1 .. MaxLoad : need = [t \in Tasks |-> rounds]
  BY DEF Init
<1>6. FuturesOK
  BY <1>5, ExecutorAssumption DEF Init, FuturesOK, Spawned
<1>7. ASSUME NEW t \in Tasks
      PROVE  Placed(t)
  <2>1. \A c \in Cpus : ~Stored(t, c) /\ ~Polling(t, c)
    BY DEF Init, Stored, Polling
  <2>2. Live(t) <=> t \notin Globals
    BY DEF Init, Live, Spawned, Done
  <2>3. \A c \in Cpus : Queued(t, c) <=> t \notin Globals /\ Home[t] = c
    BY <1>2, <1>7 DEF Queued
  <2>4. t \notin Globals => Home[t] \in Cpus
    BY ExecutorAssumption
  <2> QED
    BY <2>1, <2>2, <2>3, <2>4 DEF Placed, Held
<1> QED
  BY <1>1, <1>2, <1>4, <1>6, <1>7 DEF ExecInv, OwnerInv

\* Every step keeps the invariant of ownership.
LEMMA StepExec == ExecInv /\ [Next]_vars => ExecInv'
<1> SUFFICES ASSUME ExecInv, [Next]_vars
             PROVE  ExecInv'
  OBVIOUS
<1>1. CASE UNCHANGED vars
  <2>1. UNCHANGED <<active, pc, cur, local, cache, store, wakeQ, globalQ, need, fired, waker,
                    polled, spawning>>
    BY <1>1 DEF vars
  <2>2. ExecutorsOK' /\ QueuesOK'
    BY <2>1 DEF ExecInv, ExecutorsOK, QueuesOK
  <2>3. FuturesOK' /\ \A t \in Tasks : Live(t)' <=> Live(t)
    BY <2>1, FuturesKept DEF ExecInv, taskVars
  <2>4. \A t \in Tasks : Untouched(t)
    BY <2>1, <2>3 DEF Untouched, Stored, Queued, Polling
  <2> QED
    BY <2>1, <2>2, <2>3, <2>4, QuietOwner DEF ExecInv
<1>2. CASE \E c \in Cpus : ExecStep(c) \/ TimerInterrupt(c)
  BY <1>2, LoopSteps, SearchSteps, PollStep, ParkStep DEF ExecStep
<1>3. CASE \E t \in Tasks : Fire(t) \/ StaleWake(t)
  BY <1>3, EventSteps
<1>4. CASE \E t \in Globals : SpawnStep(t)
  BY <1>4, SpawnSteps DEF SpawnStep
<1> QED
  BY <1>1, <1>2, <1>3, <1>4 DEF Next

\* Being held by one CPU in one way is having one place.
LEMMA OnePlace == ExecInv => OneOwner
<1> SUFFICES ASSUME ExecInv, NEW t \in Tasks
             PROVE  Cardinality(Places(t)) = IF Live(t) THEN 1 ELSE 0
  BY DEF OneOwner, Live
<1>1. Placed(t)
  BY DEF ExecInv, OwnerInv
<1>2. \A p : p \in Places(t) <=>
         \/ \E c \in Cpus : p = <<"store", c>> /\ Stored(t, c)
         \/ \E c \in Cpus : p = <<"poll", c>> /\ Polling(t, c)
         \/ \E c \in Cpus : \E i \in DOMAIN local[c] : p = <<"local", c, i>> /\ local[c][i] = t
  BY DEF Places, Stored, Polling
<1>3. CASE ~Live(t)
  <2>1. \A c \in Cpus : ~Stored(t, c) /\ ~Polling(t, c) /\ ~Queued(t, c)
    BY <1>1, <1>3 DEF Placed, Held
  <2>2. Places(t) = {}
    BY <1>2, <2>1 DEF Queued, Listed
  <2> QED
    BY <1>3, <2>2, FS_EmptySet
<1>4. CASE Live(t)
  <2>1. PICK c \in Cpus : Held(t, c)
    BY <1>1, <1>4 DEF Placed
  <2>2. \A d \in Cpus : Held(t, d) => d = c
    BY <1>1, <2>1 DEF Placed
  <2>3. \E p : Places(t) = {p}
    <3>1. CASE Stored(t, c)
      <4>1. \A d \in Cpus : ~Polling(t, d) /\ ~Queued(t, d) /\ (Stored(t, d) <=> d = c)
        BY <1>1, <2>2, <3>1 DEF Placed, Held
      <4> DEFINE x == <<"store", c>>
      <4>2. \A p : p \in Places(t) <=> p = x
        BY <1>2, <4>1 DEF Queued, Listed
      <4> HIDE DEF x
      <4>3. Places(t) = {x}
        BY <4>2
      <4> QED
        BY <4>3
    <3>2. CASE Polling(t, c)
      <4>1. \A d \in Cpus : ~Stored(t, d) /\ ~Queued(t, d) /\ (Polling(t, d) <=> d = c)
        BY <1>1, <2>2, <3>2 DEF Placed, Held
      <4> DEFINE x == <<"poll", c>>
      <4>2. \A p : p \in Places(t) <=> p = x
        BY <1>2, <4>1 DEF Queued, Listed
      <4> HIDE DEF x
      <4>3. Places(t) = {x}
        BY <4>2
      <4> QED
        BY <4>3
    <3>3. CASE Queued(t, c)
      <4>1. \A d \in Cpus : ~Stored(t, d) /\ ~Polling(t, d) /\ (Queued(t, d) <=> d = c)
        BY <1>1, <2>2, <3>3 DEF Placed, Held
      <4>2. PICK i \in DOMAIN local[c] : local[c][i] = t
        BY <3>3 DEF Queued, Listed
      <4>3. \A j \in DOMAIN local[c] : local[c][j] = t => j = i
        BY <4>2 DEF ExecInv, OwnerInv, Once
      <4>4. \A d \in Cpus : \A j \in DOMAIN local[d] : local[d][j] = t => d = c
        BY <4>1 DEF Queued, Listed
      <4> DEFINE x == <<"local", c, i>>
      <4>5. \A p : p \in Places(t) <=> p = x
        BY <1>2, <4>1, <4>2, <4>3, <4>4
      <4> HIDE DEF x
      <4>6. Places(t) = {x}
        BY <4>5
      <4> QED
        BY <4>6
    <3> QED
      BY <2>1, <3>1, <3>2, <3>3 DEF Held
  <2> QED
    BY <1>4, <2>3, FS_Singleton
<1> QED
  BY <1>3, <1>4

\* For any CPUs, tasks, batch size and queue sizes: a spawned task that has not
\* finished is in exactly one queue, store or pair of hands, and a finished one
\* in none, whatever the executors, thieves, interrupts and spawners do.
THEOREM TasksHaveOneOwner == Spec => []OneOwner
BY InitExec, StepExec, OnePlace, PTL DEF Spec

\* What is owed to a waiting task depends on where it is and what is on its way.
LEMMA WokenFrame ==
    ASSUME NEW t \in Tasks, Woken(t), Waiting(t)' => Waiting(t), fired'[t] = fired[t],
           waker'[t] = waker[t], WakeComing(t) => WakeComing(t)'
    PROVE  Woken(t)'
BY DEF Woken

\* A wake-up stays on its way until the executor that has its id acts on it.
LEMMA ComingFrame ==
    ASSUME NEW c \in Cpus, OthersStay(c), UNCHANGED active,
           NEW t \in Tasks, pc[c] \in {"wakeOwn", "wakeOthers"} => cur[c] # t,
           Listed(t, wakeQ) => Listed(t, wakeQ'),
           \A e \in Cpus : t \in cache[e] => t \in cache'[e]
    PROVE  WakeComing(t) => WakeComing(t)'
<1>1. SingleExecutor' <=> SingleExecutor
  BY DEF SingleExecutor
<1>2. \A e \in Cpus : pc[e] = "wakeOwn" /\ cur[e] = t => pc'[e] = "wakeOwn" /\ cur'[e] = t
  BY DEF OthersStay
<1>3. \A e \in Cpus :
         pc[e] = "wakeOthers" /\ cur[e] = t => pc'[e] = "wakeOthers" /\ cur'[e] = t
  BY DEF OthersStay
<1> QED
  BY <1>1, <1>2, <1>3 DEF WakeComing

\* Only active executors hold tasks, as long as neither changes.
LEMMA ActiveFrame ==
    ASSUME ActiveInv, NEW c \in active, OthersStay(c), UNCHANGED active,
           \A t \in Tasks, e \in Cpus : Stored(t, e)' => Stored(t, e) \/ e = c
    PROVE  ActiveInv'
BY DEF ActiveInv, OthersStay

\* An executor's step that neither polls nor moves a task keeps what is owed to
\* the waiting ones.
LEMMA QuietWake ==
    ASSUME WakeInv, NEW c \in Cpus, c \in active, OthersStay(c), pc[c] # "park", pc'[c] # "park",
           UNCHANGED <<active, store, taskVars>>,
           \A t \in Tasks : WakeComing(t) /\ Waiting(t) => WakeComing(t)'
    PROVE  WakeInv'
<1>1. ActiveInv'
  BY ActiveFrame DEF WakeInv, Stored
<1>2. \A t \in Tasks : Waiting(t)' => Waiting(t)
  BY NotParking DEF Waiting, Stored, taskVars
<1>3. \A t \in Tasks : Woken(t)'
  BY <1>2 DEF WakeInv, Woken, taskVars
<1> QED
  BY <1>1, <1>3 DEF WakeInv

\* An id popped from WAKE_QUEUE is on its way in the executor's hands.
LEMMA WakePopKeeps ==
    ASSUME ExecInv, WakeInv, NEW c \in Cpus, WakePop(c)
    PROVE  WakeInv'
<1>1. /\ wakeQ \in Seq(Tasks) /\ wakeQ # <<>> /\ wakeQ' = Tail(wakeQ)
      /\ c \in active /\ pc[c] = "wake" /\ Goto(c, "wakeOwn", Head(wakeQ))
      /\ UNCHANGED <<active, cache, store, taskVars>>
  BY DEF WakePop, At, ExecInv, QueuesOK
<1>2. /\ Head(wakeQ) \in Tasks
      /\ \A x : Listed(x, wakeQ) <=> x = Head(wakeQ) \/ Listed(x, wakeQ')
  BY <1>1, TailListed
<1>3. OthersStay(c) /\ pc'[c] = "wakeOwn" /\ cur'[c] = Head(wakeQ)
  BY <1>1, <1>2, GotoOK DEF ExecInv, Labels
<1>4. ASSUME NEW t \in Tasks, WakeComing(t)
      PROVE  WakeComing(t)'
  <2>1. CASE t = Head(wakeQ)
    BY <1>3, <2>1 DEF WakeComing
  <2>2. CASE t # Head(wakeQ)
    BY <1>1, <1>2, <1>3, <1>4, <2>2, ComingFrame
  <2> QED
    BY <2>1, <2>2
<1> QED
  BY <1>1, <1>3, <1>4, QuietWake

\* The global queue carries no wake-ups.
LEMMA GlobalPopKeeps ==
    ASSUME ExecInv, WakeInv, NEW c \in Cpus, GlobalPop(c)
    PROVE  WakeInv'
<1>1. /\ globalQ \in Seq(Tasks) /\ globalQ # <<>>
      /\ c \in active /\ pc[c] = "global" /\ Goto(c, "globalOwn", Head(globalQ))
      /\ UNCHANGED <<active, cache, store, wakeQ, taskVars>>
  BY DEF GlobalPop, At, ExecInv, QueuesOK
<1>2. Head(globalQ) \in Tasks
  BY <1>1, TailListed
<1>3. OthersStay(c) /\ pc'[c] = "globalOwn"
  BY <1>1, <1>2, GotoOK DEF ExecInv, Labels
<1>4. \A t \in Tasks : WakeComing(t) => WakeComing(t)'
  BY <1>1, <1>3, ComingFrame
<1> QED
  BY <1>1, <1>3, <1>4, QuietWake

\* Going on in the loop drops no wake-up.
LEMMA PhaseKeeps ==
    ASSUME ExecInv, WakeInv, NEW c \in Cpus,
           \/ RunEnd(c) \/ WakeEnd(c) \/ GlobalEnd(c) \/ StealEnd(c) \/ Idle(c)
           \/ TimerInterrupt(c)
    PROVE  WakeInv'
<1>1. \E l \in Labels \ Holding : Enter(c, l)
  BY DEF RunEnd, WakeEnd, GlobalEnd, StealEnd, Idle, TimerInterrupt, Labels, Holding
<1>2. PICK l \in Labels \ Holding : Enter(c, l)
  BY <1>1
<1>3. /\ pc[c] \notin Holding /\ c \in active
      /\ UNCHANGED <<active, cache, store, wakeQ, taskVars>>
  BY DEF RunEnd, WakeEnd, GlobalEnd, StealEnd, Idle, TimerInterrupt, At, Holding
<1>4. Goto(c, l, NoTask)
  BY <1>2 DEF Enter, Goto
<1>5. OthersStay(c) /\ pc'[c] = l
  BY <1>3, <1>4, GotoOK DEF ExecInv
<1>6. pc[c] \notin {"wakeOwn", "wakeOthers", "park"} /\ pc'[c] # "park"
  BY <1>3, <1>5 DEF Holding
<1>7. \A t \in Tasks : WakeComing(t) => WakeComing(t)'
  BY <1>3, <1>5, <1>6, ComingFrame
<1> QED
  BY <1>3, <1>5, <1>6, <1>7, QuietWake

\* So no step of the loop itself loses one.
LEMMA LoopWake ==
    ASSUME ExecInv, WakeInv, NEW c \in Cpus,
           \/ RunEnd(c) \/ WakeEnd(c) \/ GlobalEnd(c) \/ StealEnd(c) \/ Idle(c)
           \/ TimerInterrupt(c) \/ WakePop(c) \/ GlobalPop(c)
    PROVE  WakeInv'
BY WakePopKeeps, GlobalPopKeeps, PhaseKeeps

\* A task taken from a store no longer waits.
LEMMA TakeWake ==
    ASSUME ExecInv, WakeInv, NEW c \in Cpus, NEW d \in Cpus, NEW t \in Tasks,
           t \in store[d], Take(c, d, t), c \in active, OthersStay(c),
           pc[c] # "park", pc'[c] # "park",
           pc[c] \in {"wakeOwn", "wakeOthers"} => cur[c] = t,
           UNCHANGED <<active, cache, wakeQ, taskVars>>
    PROVE  WakeInv'
<1>1. \A x \in Tasks, e \in Cpus :
         /\ Stored(x, e)' <=> Stored(x, e) /\ ~(x = t /\ e = d)
         /\ Polling(x, e)' <=> Polling(x, e)
  <2>1. TakeDoes(c, d, t)
    BY TakeEffect DEF ExecInv
  <2>2. \A x \in Tasks, e \in Cpus : Stored(x, e)' <=> Stored(x, e) /\ ~(x = t /\ e = d)
    BY <2>1 DEF TakeDoes
  <2>3. \A x \in Tasks, e \in Cpus : Polling(x, e)' <=> Polling(x, e)
    BY NotParking
  <2> QED
    BY <2>2, <2>3
<1>2. ActiveInv'
  BY <1>1, ActiveFrame DEF WakeInv
<1>3. Placed(t) /\ Stored(t, d)
  BY DEF ExecInv, OwnerInv, Stored
<1>4. \A e \in Cpus : ~Polling(t, e) /\ (Stored(t, e) <=> e = d)
  BY <1>3 DEF Placed, Held
<1>5. ~Waiting(t)'
  BY <1>1, <1>4 DEF Waiting
<1>6. ASSUME NEW x \in Tasks \ {t}
      PROVE  Woken(x)'
  <2>1. Waiting(x)' => Waiting(x)
    BY <1>1 DEF Waiting, taskVars
  <2>2. WakeComing(x) => WakeComing(x)'
    BY ComingFrame
  <2> QED
    BY <2>1, <2>2, WokenFrame DEF WakeInv, taskVars
<1>7. Woken(t)'
  BY <1>5 DEF Woken
<1> QED
  BY <1>2, <1>6, <1>7 DEF WakeInv

\* With one executor, only it has tasks in store or at hand.
LEMMA Alone ==
    ASSUME ExecInv, NEW c \in active, SingleExecutor
    PROVE  active = {c}
<1>1. IsFiniteSet(active)
  BY ExecutorAssumption, FS_Subset DEF ExecInv, ExecutorsOK
<1>2. \E x : active = {x}
  BY <1>1, FS_Singleton DEF SingleExecutor
<1> QED
  BY <1>2

\* An id found in the own store is served, one that is not goes on being searched.
LEMMA WakeOwnKeeps ==
    ASSUME ExecInv, WakeInv, NEW c \in Cpus, WakeOwn(c)
    PROVE  WakeInv'
<1>0. Searches(c)
  BY SearchBase
<1>1. pc[c] = "wakeOwn" /\ cur[c] \in Tasks /\ UNCHANGED cache
  BY <1>0 DEF WakeOwn, At, Searches
<1>2. CASE cur[c] \in store[c]
  <2>1. Take(c, c, cur[c]) /\ Goto(c, "wake", NoTask)
    BY <1>2 DEF WakeOwn
  <2>2. OthersStay(c) /\ pc'[c] = "wake"
    BY <1>0, <2>1, GotoOK DEF ExecInv, Labels, Holding, Searches
  <2> QED
    BY <1>0, <1>1, <1>2, <2>1, <2>2, TakeWake DEF Searches
<1>3. CASE cur[c] \notin store[c]
  <2>1. Goto(c, "wakeOthers", cur[c]) /\ UNCHANGED store
    BY <1>3 DEF WakeOwn
  <2>2. OthersStay(c) /\ pc'[c] = "wakeOthers" /\ cur'[c] = cur[c]
    BY <1>0, <1>1, <2>1, GotoOK DEF ExecInv, Labels, Searches
  <2>3. SingleExecutor => ~Waiting(cur[c])
    <3> SUFFICES ASSUME SingleExecutor, NEW e \in Cpus, Stored(cur[c], e) \/ Polling(cur[c], e)
                 PROVE  FALSE
      BY DEF Waiting
    <3>1. active = {c}
      BY <1>0, Alone DEF Searches
    <3>2. e \in active
      BY <1>1 DEF WakeInv, ActiveInv, Polling
    <3> QED
      BY <1>1, <1>3, <3>1, <3>2 DEF Stored, Polling
  <2>4. ASSUME NEW t \in Tasks, WakeComing(t), Waiting(t)
        PROVE  WakeComing(t)'
    <3>1. CASE t # cur[c]
      BY <1>0, <1>1, <2>2, <2>4, <3>1, ComingFrame DEF Searches
    <3>2. CASE t = cur[c]
      <4>1. ~SingleExecutor'
        BY <1>0, <2>3, <2>4, <3>2 DEF SingleExecutor, Searches
      <4> QED
        BY <2>2, <3>2, <4>1 DEF WakeComing
    <3> QED
      BY <3>1, <3>2
  <2> QED
    BY <1>0, <2>1, <2>2, <2>4, QuietWake DEF Searches
<1> QED
  BY <1>2, <1>3

\* A search for a global id serves or keeps, and has no wake-up to lose.
LEMMA GlobalOwnKeeps ==
    ASSUME ExecInv, WakeInv, NEW c \in Cpus, GlobalOwn(c)
    PROVE  WakeInv'
<1>0. Searches(c)
  BY SearchBase
<1>1. pc[c] = "globalOwn" /\ cur[c] \in Tasks /\ UNCHANGED cache
  BY <1>0 DEF GlobalOwn, At, Searches
<1>2. CASE cur[c] \in store[c]
  <2>1. Take(c, c, cur[c]) /\ Goto(c, "global", NoTask)
    BY <1>2 DEF GlobalOwn
  <2>2. OthersStay(c) /\ pc'[c] = "global"
    BY <1>0, <2>1, GotoOK DEF ExecInv, Labels, Holding, Searches
  <2> QED
    BY <1>0, <1>1, <1>2, <2>1, <2>2, TakeWake DEF Searches
<1>3. CASE cur[c] \notin store[c]
  <2>1. Goto(c, "globalOthers", cur[c]) /\ UNCHANGED store
    BY <1>3 DEF GlobalOwn
  <2>2. OthersStay(c) /\ pc'[c] = "globalOthers"
    BY <1>0, <1>1, <2>1, GotoOK DEF ExecInv, Labels, Searches
  <2>3. \A t \in Tasks : WakeComing(t) => WakeComing(t)'
    BY <1>0, <1>1, <2>2, ComingFrame DEF Searches
  <2> QED
    BY <1>0, <2>1, <2>2, <2>3, QuietWake DEF Searches
<1> QED
  BY <1>2, <1>3

\* An id that no store of another executor has goes to the cache.
LEMMA WakeOthersKeeps ==
    ASSUME ExecInv, WakeInv, NEW c \in Cpus, WakeOthers(c)
    PROVE  WakeInv'
<1>0. Searches(c)
  BY SearchBase
<1>1. pc[c] = "wakeOthers" /\ cur[c] \in Tasks /\ Goto(c, "wake", NoTask)
  BY <1>0 DEF WakeOthers, At, Searches
<1>2. OthersStay(c) /\ pc'[c] = "wake"
  BY <1>0, <1>1, GotoOK DEF ExecInv, Labels, Holding, Searches
<1>3. CASE \E d \in active \ {c} : cur[c] \in store[d]
  <2>1. PICK d \in Cpus : cur[c] \in store[d] /\ Take(c, d, cur[c]) /\ UNCHANGED cache
    BY <1>0, <1>3 DEF WakeOthers, Searches
  <2> QED
    BY <1>0, <1>1, <1>2, <2>1, TakeWake DEF Searches
<1>4. CASE ~ \E d \in active \ {c} : cur[c] \in store[d]
  <2>1. UNCHANGED store /\ cache' = [cache EXCEPT ![c] = @ \cup {cur[c]}]
    BY <1>4 DEF WakeOthers
  <2>2. /\ cur[c] \in cache'[c]
        /\ \A t \in Tasks, e \in Cpus : t \in cache[e] => t \in cache'[e]
    BY <2>1 DEF ExecInv, QueuesOK
  <2>3. ASSUME NEW t \in Tasks, WakeComing(t)
        PROVE  WakeComing(t)'
    <3>1. CASE t # cur[c]
      BY <1>0, <1>1, <1>2, <2>2, <2>3, <3>1, ComingFrame DEF Searches
    <3>2. CASE t = cur[c]
      <4>1. SingleExecutor' <=> SingleExecutor
        BY <1>0 DEF SingleExecutor, Searches
      <4>2. \A e \in Cpus : pc[e] = "wakeOwn" => pc'[e] = "wakeOwn" /\ cur'[e] = cur[e]
        BY <1>1, <1>2 DEF OthersStay
      <4> QED
        BY <1>0, <2>2, <2>3, <3>2, <4>1, <4>2 DEF WakeComing, Searches
    <3> QED
      BY <3>1, <3>2
  <2> QED
    BY <1>0, <1>2, <2>1, <2>3, QuietWake DEF Searches
<1> QED
  BY <1>3, <1>4

\* The same search on behalf of the global queue.
LEMMA GlobalOthersKeeps ==
    ASSUME ExecInv, WakeInv, NEW c \in Cpus, GlobalOthers(c)
    PROVE  WakeInv'
<1>0. Searches(c)
  BY SearchBase
<1>1. /\ pc[c] = "globalOthers" /\ cur[c] \in Tasks /\ Goto(c, "global", NoTask)
      /\ UNCHANGED cache
  BY <1>0 DEF GlobalOthers, At, Searches
<1>2. OthersStay(c) /\ pc'[c] = "global"
  BY <1>0, <1>1, GotoOK DEF ExecInv, Labels, Holding, Searches
<1>3. CASE \E d \in Cpus \ {c} : cur[c] \in store[d]
  <2>1. PICK d \in Cpus : cur[c] \in store[d] /\ Take(c, d, cur[c])
    BY <1>3 DEF GlobalOthers
  <2> QED
    BY <1>0, <1>1, <1>2, <2>1, TakeWake DEF Searches
<1>4. CASE ~ \E d \in Cpus \ {c} : cur[c] \in store[d]
  <2>1. UNCHANGED store
    BY <1>4 DEF GlobalOthers
  <2>2. \A t \in Tasks : WakeComing(t) => WakeComing(t)'
    BY <1>0, <1>1, <1>2, ComingFrame DEF Searches
  <2> QED
    BY <1>0, <1>2, <2>1, <2>2, QuietWake DEF Searches
<1> QED
  BY <1>3, <1>4

\* A stolen task no longer waits.
LEMMA StealKeeps ==
    ASSUME ExecInv, WakeInv, NEW c \in Cpus, StealOne(c)
    PROVE  WakeInv'
<1>0. Searches(c)
  BY SearchBase
<1>1. PICK d \in Cpus, t \in Tasks : t \in store[d] /\ Take(c, d, t)
  BY <1>0 DEF StealOne, Searches
<1>2. pc[c] = "steal" /\ UNCHANGED <<pc, cur, cache>>
  BY DEF StealOne, At
<1>3. OthersStay(c) /\ pc'[c] = "steal"
  BY <1>2 DEF OthersStay
<1> QED
  BY <1>0, <1>1, <1>2, <1>3, TakeWake DEF Searches

\* However an id is searched for, no wake-up is lost.
LEMMA SearchWake ==
    ASSUME ExecInv, WakeInv, NEW c \in Cpus,
           \/ WakeOwn(c) \/ WakeOthers(c) \/ GlobalOwn(c) \/ GlobalOthers(c) \/ StealOne(c)
    PROVE  WakeInv'
BY WakeOwnKeeps, GlobalOwnKeeps, WakeOthersKeeps, GlobalOthersKeeps, StealKeeps

\* A polled task that is not finished has left its waker and expects nothing yet.
LEMMA PollWake ==
    ASSUME ExecInv, WakeInv, NEW c \in Cpus, Poll(c)
    PROVE  WakeInv'
<1>1. PICK t \in Tasks : PollEffect(c, t) /\ need' \in [Tasks -> Nat] /\ c \in active
  BY PollDoes DEF PollEffect, Poll, At
<1>2. /\ OthersStay(c) /\ pc[c] = "run"
      /\ UNCHANGED <<active, cache, store, wakeQ>>
  BY <1>1 DEF PollEffect
<1>3. Placed(t) /\ Queued(t, c)
  BY <1>1, <1>2 DEF PollEffect, ExecInv, OwnerInv
<1>4. \A e \in Cpus : ~Stored(t, e) /\ ~Polling(t, e)
  BY <1>3 DEF Placed, Held
<1>5. ActiveInv'
  BY <1>1, <1>2, ActiveFrame DEF WakeInv, Stored
<1>6. \A x \in Tasks, e \in Cpus :
         Polling(x, e)' <=> Polling(x, e) \/ (need'[t] # 0 /\ x = t /\ e = c)
  BY <1>1 DEF PollEffect, Polling, OthersStay
<1>7. Woken(t)'
  <2>1. \A e \in Cpus : ~Stored(t, e)'
    BY <1>2, <1>4 DEF Stored
  <2>2. Waiting(t)' => need'[t] # 0
    BY <1>2, <1>4, <1>6, <2>1 DEF Waiting
  <2>3. need'[t] # 0 => need'[t] > 0
    BY <1>1
  <2>4. (waker'[t] <=> need'[t] > 0) /\ ~fired'[t]
    BY <1>1 DEF PollEffect
  <2> QED
    BY <2>2, <2>3, <2>4 DEF Woken
<1>8. ASSUME NEW x \in Tasks \ {t}
      PROVE  Woken(x)'
  <2>1. polled'[x] = polled[x] /\ fired'[x] = fired[x] /\ waker'[x] = waker[x]
    BY <1>1 DEF PollEffect
  <2>2. Waiting(x)' => Waiting(x)
    BY <1>2, <1>6, <2>1 DEF Waiting, Stored
  <2>3. WakeComing(x) => WakeComing(x)'
    BY <1>2, ComingFrame
  <2> QED
    BY <2>1, <2>2, <2>3, WokenFrame DEF WakeInv
<1> QED
  BY <1>5, <1>7, <1>8 DEF WakeInv

\* Parking a task keeps the waker it left and the event it may have had since.
LEMMA ParkWake ==
    ASSUME ExecInv, WakeInv, NEW c \in Cpus, Park(c)
    PROVE  WakeInv'
<1>1. ParkEffect(c) /\ c \in active
  BY ParkDoes DEF Park, At
<1>2. /\ OthersStay(c) /\ pc[c] = "park" /\ UNCHANGED <<active, cache, wakeQ, taskVars>>
      /\ \A x \in Tasks, e \in Cpus : Stored(x, e)' <=> Stored(x, e) \/ (x = cur[c] /\ e = c)
  BY <1>1 DEF ParkEffect
<1>3. ActiveInv'
  BY <1>1, <1>2, ActiveFrame DEF WakeInv
<1>4. ASSUME NEW x \in Tasks
      PROVE  Woken(x)'
  <2>1. \A e \in Cpus : Polling(x, e)' => Polling(x, e)
    BY <1>1 DEF ParkEffect, OthersStay, Polling
  <2>2. Waiting(x)' => Waiting(x)
    BY <1>2, <2>1 DEF Waiting, Polling, taskVars
  <2>3. WakeComing(x) => WakeComing(x)'
    BY <1>2, ComingFrame
  <2> QED
    BY <1>2, <2>2, <2>3, WokenFrame DEF WakeInv, taskVars
<1> QED
  BY <1>3, <1>4 DEF WakeInv

\* What happens outside the executors: their positions stay.
LEMMA OutsideFrame ==
    ASSUME NEW t \in Tasks, UNCHANGED <<active, pc, cur, cache>>,
           Listed(t, wakeQ) => Listed(t, wakeQ')
    PROVE  WakeComing(t) => WakeComing(t)'
BY DEF WakeComing, SingleExecutor

\* An event finds the waker of a waiting task and, WAKE_QUEUE not being full,
\* puts the task's id there.
LEMMA EventWake ==
    ASSUME ExecInv, WakeInv, NEW t \in Tasks, Fire(t) \/ StaleWake(t), Len(wakeQ) < WakeCap
    PROVE  WakeInv'
<1>1. /\ UNCHANGED <<active, pc, cur, cache, store, polled>>
      /\ wakeQ' \in {wakeQ, Pushed(wakeQ, t, WakeCap)} /\ wakeQ \in Seq(Tasks)
  BY DEF Fire, StaleWake, execVars, taskVars, ExecInv, QueuesOK
<1>2. \A x : Listed(x, wakeQ) => Listed(x, wakeQ')
  BY <1>1, PushedListed
<1>3. ActiveInv'
  BY <1>1 DEF WakeInv, ActiveInv, Stored
<1>4. \A x \in Tasks : (Waiting(x)' <=> Waiting(x)) /\ (WakeComing(x) => WakeComing(x)')
  BY <1>1, <1>2, OutsideFrame DEF Waiting, Stored, Polling
<1>5. CASE StaleWake(t)
  <2>1. \A x \in Tasks : fired'[x] = fired[x] /\ waker'[x] = waker[x]
    BY <1>5 DEF StaleWake, taskVars
  <2>2. \A x \in Tasks : Woken(x)'
    BY <1>4, <2>1, WokenFrame DEF WakeInv
  <2> QED
    BY <1>3, <2>2 DEF WakeInv
<1>6. CASE Fire(t)
  <2>1. /\ \A x \in Tasks \ {t} : fired'[x] = fired[x] /\ waker'[x] = waker[x]
        /\ fired'[t] /\ ~fired[t]
    BY <1>6 DEF Fire, ExecInv, FuturesOK
  <2>2. \A x \in Tasks \ {t} : Woken(x)'
    BY <1>4, <2>1, WokenFrame DEF WakeInv
  <2>3. ASSUME Waiting(t)
        PROVE  WakeComing(t)'
    <3>1. waker[t]
      BY <2>1, <2>3 DEF WakeInv, Woken
    <3>2. wakeQ' = Pushed(wakeQ, t, WakeCap)
      BY <1>6, <3>1 DEF Fire
    <3>3. Listed(t, wakeQ')
      BY <1>1, <3>2, PushedListed
    <3> QED
      BY <3>3 DEF WakeComing
  <2>4. Woken(t)'
    BY <1>4, <2>1, <2>3 DEF Woken
  <2> QED
    BY <1>3, <2>2, <2>4 DEF WakeInv
<1> QED
  BY <1>5, <1>6

\* A task being spawned has not been polled: it expects no event yet.
LEMMA SpawnWake ==
    ASSUME ExecInv, WakeInv, NEW t \in Globals, SpawnInsert(t) \/ SpawnPush(t)
    PROVE  WakeInv'
<1>1. t \in Tasks /\ Target[t] \in Cpus /\ Target[t] \in active
  BY ExecutorAssumption DEF WakeInv, ActiveInv
<1>2. UNCHANGED <<active, pc, cur, cache, wakeQ, fired, waker, polled>>
  BY DEF SpawnInsert, SpawnPush, execVars, taskVars
<1>3. \A x \in Tasks : WakeComing(x) => WakeComing(x)'
  BY <1>2, OutsideFrame
<1>4. \A x \in Tasks, e \in Cpus :
         Stored(x, e)' => Stored(x, e) \/ (x = t /\ e = Target[t] /\ ~polled[t])
  <2>1. CASE SpawnInsert(t)
    <3>1. ~polled[t]
      BY <1>1, <2>1 DEF SpawnInsert, ExecInv, FuturesOK, Spawned
    <3> QED
      BY <1>1, <2>1, <3>1 DEF SpawnInsert, ExecInv, QueuesOK, Stored
  <2>2. CASE SpawnPush(t)
    BY <2>2 DEF SpawnPush, Stored
  <2> QED
    BY <2>1, <2>2
<1>5. ActiveInv'
  BY <1>1, <1>2, <1>4 DEF WakeInv, ActiveInv
<1>6. \A x \in Tasks : Waiting(x)' => Waiting(x)
  BY <1>2, <1>4 DEF Waiting, Polling
<1>7. \A x \in Tasks : Woken(x)'
  BY <1>2, <1>3, <1>6, WokenFrame DEF WakeInv
<1> QED
  BY <1>5, <1>7 DEF WakeInv

\* At the start no task waits for an event.
LEMMA InitWake == Init => WakeInv
<1> SUFFICES ASSUME Init
             PROVE  WakeInv
  OBVIOUS
<1>1. \A t \in Globals : Target[t] \in active
  BY ExecutorAssumption DEF Init
<1>2. ActiveInv
  BY <1>1 DEF Init, ActiveInv, Stored
<1>3. \A t \in Tasks : ~Waiting(t)
  BY DEF Init, Waiting
<1> QED
  BY <1>2, <1>3 DEF WakeInv, Woken

\* Every step keeps what is owed to the waiting tasks, WAKE_QUEUE not being full.
LEMMA StepWake ==
    ExecInv /\ WakeInv /\ Len(wakeQ) < WakeCap /\ [Next]_vars => WakeInv'
<1> SUFFICES ASSUME ExecInv, WakeInv, Len(wakeQ) < WakeCap, [Next]_vars
             PROVE  WakeInv'
  OBVIOUS
<1>1. CASE UNCHANGED vars
  <2>1. UNCHANGED <<active, pc, cur, cache, store, wakeQ, fired, waker, polled>>
    BY <1>1 DEF vars
  <2>2. ActiveInv'
    BY <2>1 DEF WakeInv, ActiveInv, Stored
  <2>3. \A t \in Tasks : (Waiting(t)' => Waiting(t)) /\ (WakeComing(t) => WakeComing(t)')
    BY <2>1, OutsideFrame DEF Waiting, Stored, Polling
  <2>4. \A t \in Tasks : Woken(t)'
    BY <2>1, <2>3, WokenFrame DEF WakeInv
  <2> QED
    BY <2>2, <2>4 DEF WakeInv
<1>2. CASE \E c \in Cpus : ExecStep(c) \/ TimerInterrupt(c)
  BY <1>2, LoopWake, SearchWake, PollWake, ParkWake DEF ExecStep
<1>3. CASE \E t \in Tasks : Fire(t) \/ StaleWake(t)
  BY <1>3, EventWake
<1>4. CASE \E t \in Globals : SpawnStep(t)
  BY <1>4, SpawnWake DEF SpawnStep
<1> QED
  BY <1>1, <1>2, <1>3, <1>4 DEF Next

\* For any CPUs, tasks and batch size: as long as WAKE_QUEUE, whose overflow
\* wake_task does not report, has room, no task is lost or run twice and no
\* wake-up owed to a waiting task is lost.
THEOREM NoWakeupLost == Spec /\ [](Len(wakeQ) < WakeCap) => []TasksSound
<1>1. ExecInv /\ WakeInv => TasksSound
  <2> SUFFICES ASSUME ExecInv, WakeInv
               PROVE  TasksSound
    OBVIOUS
  <2>1. WakeupNotLost
    <3> SUFFICES ASSUME NEW t \in Tasks, polled[t], fired[t],
                        \E c \in Cpus : t \in store[c]
                 PROVE  \/ \E i \in DOMAIN wakeQ : wakeQ[i] = t
                        \/ \E c \in Cpus : cur[c] = t
                        \/ ~SingleExecutor /\ \E c \in Cpus : t \in cache[c]
      BY DEF WakeupNotLost
    <3>1. WakeComing(t)
      BY DEF WakeInv, Woken, Waiting, Stored
    <3> QED
      BY <3>1 DEF WakeComing, Listed
  <2> QED
    BY <2>1, OnePlace DEF TasksSound
<1> QED
  BY <1>1, InitExec, StepExec, InitWake, StepWake, PTL DEF Spec

=============================================================================
