----------------------------- MODULE MCWakeups -----------------------------
(*****************************************************************************)
(* The ways by which a waiting task is woken, for TLC: the timer path, the   *)
(* interrupt-waker bridge and the queue of task ids; and the start of the    *)
(* application processors, which wait for one another.  They share           *)
(* nothing, so a behaviour exercises one of them: `subject', chosen at the   *)
(* start.  The others stay in their initial states.                          *)
(*****************************************************************************)
EXTENDS TimerPath

CONSTANTS t1, t2, timer, keyboard, h1, h2, p1, p2, c1, EmptySlot

VARIABLES subject,
          direct, regLock, lock, waker, has, req, bridgePc, woken, hpc, src, came, owed,
          waits,
          head, tail, buffer, queuePc, old, id, sent, got,
          bspHolds, bspPc, current, waited, apsStarted, started, apState, apPc

TwoTasks == {t1, t2}
Sources == {timer, keyboard}
SourceOf == [t \in {t1, t2} |-> IF t = t1 THEN timer ELSE keyboard]
Handlers == {h1, h2}
MaxWaits == 2
Pushers == {p1, p2}

\* Each pusher of the queue wakes a task of its own.
IdOf(p) == IF p = p1 THEN t1 ELSE t2

Bridge == INSTANCE InterruptWaker WITH
    pc <- bridgePc

Queue == INSTANCE TaskQueue WITH
    N <- 3, MaxPending <- 2, MaxPushes <- 4, Ids <- Tasks, Poppers <- {c1},
    pc <- queuePc

Boot == INSTANCE ApStart WITH
    NumAps <- 3, MaxWait <- 2

ASSUME ComponentAssumptions ==
    /\ Bridge!WakerAssumption
    /\ Queue!QueueAssumption
    /\ Boot!ApStartAssumption

bridgeVars == <<direct, regLock, lock, waker, has, req, bridgePc, woken, hpc, src, came,
                owed, waits>>
queueVars == <<head, tail, buffer, queuePc, old, id, sent, got>>
bootVars == <<bspHolds, bspPc, current, waited, apsStarted, started, apState, apPc>>
allVars == <<subject, vars, bridgeVars, queueVars, bootVars>>

WakeupsInit ==
    /\ subject \in {"timer", "bridge", "queue", "boot"}
    /\ Init /\ Bridge!Init /\ Queue!Init /\ Boot!Init
    /\ direct => subject = "bridge"

OnlyTimer == UNCHANGED <<subject, bridgeVars, queueVars, bootVars>>
OnlyBridge == UNCHANGED <<subject, vars, queueVars, bootVars>>
OnlyQueue == UNCHANGED <<subject, vars, bridgeVars, bootVars>>
OnlyBoot == UNCHANGED <<subject, vars, bridgeVars, queueVars>>

WakeupsNext ==
    \/ subject = "timer" /\ TimerInterrupt /\ OnlyTimer
    \/ subject = "timer" /\ PollSwap /\ OnlyTimer
    \/ subject = "timer" /\ PollTimerEvents /\ OnlyTimer
    \/ subject = "timer" /\ TaskStarted /\ OnlyTimer
    \/ subject = "timer" /\ YieldPoint /\ OnlyTimer
    \/ subject = "timer" /\ CheckYieldRequest /\ OnlyTimer
    \/ /\ subject = "timer"
       /\ \E t \in Tasks, k \in {"sleep", "timeout"}, d \in Durations : Start(t, k, d)
       /\ OnlyTimer
    \/ subject = "timer" /\ (\E t \in Tasks : PollSleep(t)) /\ OnlyTimer
    \/ subject = "timer" /\ (\E t \in Tasks : Insert(t)) /\ OnlyTimer
    \/ subject = "timer" /\ (\E t \in Tasks : Cancel(t)) /\ OnlyTimer
    \/ subject = "timer" /\ (\E t \in Tasks : PollTimeout(t)) /\ OnlyTimer
    \/ subject = "bridge" /\ (\E t \in Tasks : Bridge!WaitBegin(t)) /\ OnlyBridge
    \/ subject = "bridge" /\ (\E t \in Tasks : Bridge!RegistryLock(t)) /\ OnlyBridge
    \/ subject = "bridge" /\ (\E t \in Tasks : Bridge!WakerLock(t)) /\ OnlyBridge
    \/ subject = "bridge" /\ (\E t \in Tasks : Bridge!RegisterUpdate(t)) /\ OnlyBridge
    \/ subject = "bridge" /\ (\E t \in Tasks : Bridge!RegisterSwap(t)) /\ OnlyBridge
    \/ subject = "bridge" /\ (\E t \in Tasks : Bridge!RegisterUnlock(t)) /\ OnlyBridge
    \/ subject = "bridge" /\ (\E t \in Tasks : Bridge!PollAgain(t)) /\ OnlyBridge
    \/ /\ subject = "bridge"
       /\ \E h \in Handlers, s \in Sources : Bridge!Interrupt(h, s)
       /\ OnlyBridge
    \/ subject = "bridge" /\ (\E h \in Handlers : Bridge!TryRegistry(h)) /\ OnlyBridge
    \/ subject = "bridge" /\ (\E h \in Handlers : Bridge!TryWake(h)) /\ OnlyBridge
    \/ subject = "bridge" /\ (\E h \in Handlers : Bridge!Flag(h)) /\ OnlyBridge
    \/ subject = "bridge" /\ (\E h \in Handlers : Bridge!HandlerReturn(h)) /\ OnlyBridge
    \/ subject = "queue" /\ (\E p \in Pushers : Queue!PushCall(p, IdOf(p))) /\ OnlyQueue
    \/ subject = "queue" /\ (\E p \in Pushers : Queue!PushLoadTail(p)) /\ OnlyQueue
    \/ subject = "queue" /\ (\E p \in Pushers : Queue!PushCheckFull(p)) /\ OnlyQueue
    \/ subject = "queue" /\ (\E p \in Pushers : Queue!PushReserve(p)) /\ OnlyQueue
    \/ subject = "queue" /\ (\E p \in Pushers : Queue!PushStore(p)) /\ OnlyQueue
    \/ subject = "queue" /\ Queue!PopLoadHead(c1) /\ OnlyQueue
    \/ subject = "queue" /\ Queue!PopCheckEmpty(c1) /\ OnlyQueue
    \/ subject = "queue" /\ Queue!PopLoadSlot(c1) /\ OnlyQueue
    \/ subject = "queue" /\ Queue!PopReserve(c1) /\ OnlyQueue
    \/ subject = "queue" /\ Queue!PopClear(c1) /\ OnlyQueue
    \/ subject = "boot" /\ Boot!StartAps /\ OnlyBoot
    \/ subject = "boot" /\ Boot!SendInit /\ OnlyBoot
    \/ subject = "boot" /\ Boot!SendSipi /\ OnlyBoot
    \/ subject = "boot" /\ Boot!Wait /\ OnlyBoot
    \/ subject = "boot" /\ Boot!WaitEnds /\ OnlyBoot
    \/ subject = "boot" /\ (\E a \in Boot!Aps : Boot!Enter(a)) /\ OnlyBoot
    \/ subject = "boot" /\ (\E a \in Boot!Aps : Boot!MarkStarted(a)) /\ OnlyBoot
    \/ subject = "boot" /\ (\E a \in Boot!Aps : Boot!MarkOnline(a)) /\ OnlyBoot

WakeupsSpec ==
    /\ WakeupsInit /\ [][WakeupsNext]_allVars
    /\ WF_allVars(subject = "timer" /\ TimerInterrupt /\ OnlyTimer)
    /\ WF_allVars(subject = "timer" /\ PollSwap /\ OnlyTimer)
    /\ WF_allVars(subject = "timer" /\ PollTimerEvents /\ OnlyTimer)
    /\ \A t \in Tasks : WF_allVars(subject = "timer" /\ TaskStep(t) /\ OnlyTimer)
    /\ \A t \in Tasks : SF_allVars(subject = "bridge" /\ Bridge!TaskStep(t) /\ OnlyBridge)
    /\ \A h \in Handlers : WF_allVars(subject = "bridge" /\ Bridge!HandlerStep(h) /\ OnlyBridge)
    /\ \A s \in Sources : SF_allVars(subject = "bridge" /\ Bridge!Interrupted(s) /\ OnlyBridge)
    /\ \A p \in Pushers : WF_allVars(subject = "queue" /\ Queue!PushStep(p) /\ OnlyQueue)
    /\ WF_allVars(subject = "queue" /\ Queue!PopStep(c1) /\ OnlyQueue)
    /\ WF_allVars(subject = "boot" /\ Boot!Bsp /\ OnlyBoot)
    /\ \A a \in Boot!Aps : WF_allVars(subject = "boot" /\ (Boot!MarkStarted(a) \/ Boot!MarkOnline(a)) /\ OnlyBoot)

------------------------------------------------------------------------------
(* The properties *)

\* Timer: a task that sleeps is filed under its own tick or on its way back to
\* the executor, and no entry outlives its future.
\* AtomicWaker: where the driver owns it, an interrupt taken while a waiter's
\* waker is in place wakes that waiter before the handler returns.
\* LockFreeQueue: ids are popped in the order in which push reserved their
\* slots, and none that push accepted is overwritten or erased before.
\* AP start: the states of the processors and the starter stay well formed.
WakeupsSound ==
    /\ SleepersFiled
    /\ Bridge!InterruptWakesWaiter
    /\ Queue!DeliversInOrder /\ Queue!NothingErased
    /\ subject = "boot" => Boot!TypeOK

\* InterruptFuture: through the registry, a wait ends only if an interrupt of
\* its source has happened since it began, and as long as the device keeps
\* interrupting it does end, although a wake that meets a busy lock is dropped.
\* LockFreeQueue: every id that push accepted is popped eventually, so a
\* wake-up that reached WAKE_QUEUE reaches an executor.
WaitsEnd ==
    /\ Bridge!ReadyMeansInterrupt /\ Bridge!WaitEnds
    /\ Queue!EverythingIsPopped

\* Start of the processors: start_all_aps comes to its end although it waits,
\* holding the lock, for processors that need the lock, and a processor that
\* entered the kernel comes online.
StartupEnds == Boot!StartupEnds
=============================================================================
