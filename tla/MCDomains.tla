----------------------------- MODULE MCDomains -----------------------------
(*****************************************************************************)
(* Domains, processes and tasks, for TLC: the domain system, the process     *)
(* table, the signals of a task and the per-core executor.  They share       *)
(* nothing, so a behaviour exercises one of them: `subject', chosen at the   *)
(* start.  The others stay in their initial states.                          *)
(*****************************************************************************)
EXTENDS DomainSystem, TLC

CONSTANTS kernel, d1, o1, o2, t1, t2

VARIABLES subject,
          tame, nextPid, table, ppid, procState, exitCode, children, reaped, procPc,
          procParent, procScan, procGot,
          parallel, registered, pending, pendingMask, blocked, action, wakerFiled,
          sending, task, woken, sent, delivered,
          usage, started, local, high, global, strong, running, held, polls, owed

TwoDomains == {kernel, d1}
TwoObjects == {o1, o2}
TwoThreads == {t1, t2}
Cores == {1, 2}
Jobs == {1, 2}

Symmetric == Permutations(TwoObjects) \cup Permutations(TwoThreads)

Procs == INSTANCE ProcessTable WITH
    MaxPid <- 4, Codes <- {"c0"}, States <- {"Running", "Dead"}, Waiters <- Threads

Sig == INSTANCE Signals WITH
    Narrow <- {"s1", "s2"}, Wide <- {"w"}, Uncatchable <- {"s1"}, Configured <- {"s1"},
    MaxSize <- 2, MaxSends <- 3, Senders <- Threads

PerCore == INSTANCE PerCoreExecutor WITH
    Tasks <- Jobs, High <- {2}, MaxPolls <- 2, MaxEntries <- 2

ASSUME ComponentAssumptions ==
    /\ Procs!ProcessAssumption
    /\ Sig!SignalAssumption

procVars == <<tame, nextPid, table, ppid, procState, exitCode, children, reaped, procPc,
              procParent, procScan, procGot>>
sigVars == <<parallel, registered, pending, pendingMask, blocked, action, wakerFiled,
             sending, task, woken, sent, delivered>>
coreVars == <<usage, started, local, high, global, strong, running, held, polls, owed>>
allVars == <<subject, vars, procVars, sigVars, coreVars>>

DomainsInit ==
    /\ subject \in {"domains", "processes", "signals", "perCore"}
    /\ Init /\ Procs!Init /\ Sig!Init /\ PerCore!Init
    /\ subject # "domains" => callers = Threads /\ ~lifecycle
    /\ lifecycle => Cardinality(callers) = 1
    /\ subject # "processes" => ~tame
    /\ subject # "signals" => ~parallel
    /\ subject # "perCore" => usage = "yield"

OnlyDom == UNCHANGED <<subject, procVars, sigVars, coreVars>>
OnlyProcs == UNCHANGED <<subject, vars, sigVars, coreVars>>
OnlySig == UNCHANGED <<subject, vars, procVars, coreVars>>
OnlyPerCore == UNCHANGED <<subject, vars, procVars, sigVars>>

DomainsNext ==
    \/ subject = "domains" /\ (\E t \in Threads : SpawnRun(t)) /\ OnlyDom
    \/ subject = "domains" /\ (\E t \in Threads : RestartInit(t)) /\ OnlyDom
    \/ subject = "domains" /\ (\E t \in Threads : AddDependent(t)) /\ OnlyDom
    \/ subject = "domains" /\ (\E t \in Threads : ReclaimObjects(t)) /\ OnlyDom
    \/ subject = "domains" /\ (\E t \in Threads : ReclaimZero(t)) /\ OnlyDom
    \/ subject = "domains" /\ (\E t \in Threads : Notify(t)) /\ OnlyDom
    \/ subject = "domains" /\ (\E t \in Threads : OutOfMemory(t)) /\ OnlyDom
    \/ subject = "domains" /\ (\E t \in Threads : RegisterCount(t)) /\ OnlyDom
    \/ subject = "domains" /\ (\E t \in Threads : UnregisterCount(t)) /\ OnlyDom
    \/ subject = "domains" /\ (\E t \in Threads : TransferCount(t)) /\ OnlyDom
    \/ /\ subject = "domains"
       /\ \E t \in Threads, d \in Domains, s \in BOOLEAN : Create(t, d, s)
       /\ OnlyDom
    \/ /\ subject = "domains"
       /\ \E t \in Threads, d \in Domains : StartDomain(t, d)
       /\ OnlyDom
    \/ /\ subject = "domains"
       /\ \E t \in Threads, d \in Domains : StopDomain(t, d)
       /\ OnlyDom
    \/ /\ subject = "domains"
       /\ \E t \in Threads, d \in Domains : RestartCheck(t, d)
       /\ OnlyDom
    \/ subject = "domains" /\ (\E t \in Threads, d \in Domains : Terminate(t, d)) /\ OnlyDom
    \/ subject = "domains" /\ (\E t \in Threads, d \in Domains : Panic(t, d)) /\ OnlyDom
    \/ /\ subject = "domains"
       /\ \E t \in Threads, d \in Domains, s \in {"Terminated", "Stopped"} : LifecycleEnd(t, d, s)
       /\ OnlyDom
    \/ /\ subject = "domains"
       /\ \E t \in Threads, d, e \in Domains : d # e /\ AddDependency(t, d, e)
       /\ OnlyDom
    \/ /\ subject = "domains"
       /\ \E t \in Threads, d \in Domains, l \in {"register", "transfer"} : Decide(t, l, d)
       /\ OnlyDom
    \/ subject = "domains" /\ (\E t \in Threads, o \in Objects : Register(t, o)) /\ OnlyDom
    \/ subject = "domains" /\ (\E t \in Threads, o \in Objects : Transfer(t, o)) /\ OnlyDom
    \/ /\ subject = "domains"
       /\ \E t \in Threads, o \in Objects : Unregister(t, o)
       /\ OnlyDom
    \/ /\ subject = "processes"
       /\ \E p \in Procs!Pids, s \in {"Running", "Dead"} : Procs!SetState(p, s)
       /\ OnlyProcs
    \/ subject = "processes" /\ (\E p \in Procs!Pids : Procs!Exit(p, "c0")) /\ OnlyProcs
    \/ /\ subject = "processes"
       /\ \E w \in Threads, parent \in 0 .. 4 : Procs!Create(w, parent)
       /\ OnlyProcs
    \/ /\ subject = "processes"
       /\ \E w \in Threads, parent \in Procs!Pids, only \in Procs!Pids \cup {0} : Procs!WaitBegin(w, parent, only)
       /\ OnlyProcs
    \/ subject = "processes" /\ (\E w \in Threads : Procs!Adopt(w)) /\ OnlyProcs
    \/ subject = "processes" /\ (\E w \in Threads : Procs!WaitScan(w)) /\ OnlyProcs
    \/ subject = "processes" /\ (\E w \in Threads : Procs!Reap(w)) /\ OnlyProcs
    \/ subject = "processes" /\ (\E w \in Threads : Procs!Unlist(w)) /\ OnlyProcs
    \/ subject = "signals" /\ (\E x \in Threads : Sig!WakeWaiters(x)) /\ OnlySig
    \/ /\ subject = "signals"
       /\ \E x \in Threads, s \in Sig!Signal : Sig!Enqueue(x, s)
       /\ OnlySig
    \/ subject = "signals" /\ Sig!Process /\ OnlySig
    \/ subject = "signals" /\ Sig!PollEmpty /\ OnlySig
    \/ subject = "signals" /\ Sig!PollPending /\ OnlySig
    \/ subject = "signals" /\ Sig!Resume /\ OnlySig
    \/ subject = "signals" /\ Sig!Unregister /\ OnlySig
    \/ subject = "signals" /\ (\E s \in Sig!Signal : Sig!Block(s)) /\ OnlySig
    \/ subject = "signals" /\ (\E s \in Sig!Signal : Sig!Unblock(s)) /\ OnlySig
    \/ subject = "signals" /\ (\E mask \in Sig!Masks : Sig!SetBlocked(mask)) /\ OnlySig
    \/ /\ subject = "signals"
       /\ \E a \in {"Default", "Handle"} : Sig!SetAction("s1", a)
       /\ OnlySig
    \/ subject = "perCore" /\ PerCore!Start /\ OnlyPerCore
    \/ subject = "perCore" /\ (\E t \in Jobs : PerCore!Spawn(t)) /\ OnlyPerCore
    \/ subject = "perCore" /\ (\E t \in Jobs : PerCore!WakerWake(t)) /\ OnlyPerCore
    \/ subject = "perCore" /\ (\E t \in Jobs : PerCore!WakerDrop(t)) /\ OnlyPerCore
    \/ subject = "perCore" /\ (\E c \in Cores : PerCore!RunHigh(c)) /\ OnlyPerCore
    \/ subject = "perCore" /\ (\E c \in Cores : PerCore!RunLocal(c)) /\ OnlyPerCore
    \/ subject = "perCore" /\ (\E c \in Cores : PerCore!WakeByRef(c)) /\ OnlyPerCore
    \/ subject = "perCore" /\ (\E c \in Cores : PerCore!WakerClone(c)) /\ OnlyPerCore
    \/ subject = "perCore" /\ (\E c \in Cores : PerCore!EndPoll(c)) /\ OnlyPerCore
    \/ subject = "perCore" /\ (\E c \in Cores : PerCore!StealGlobal(c)) /\ OnlyPerCore
    \/ subject = "perCore" /\ (\E c, v \in Cores : PerCore!StealOne(c, v)) /\ OnlyPerCore
    \/ subject = "perCore" /\ (\E c, v \in Cores : PerCore!StealBatch(c, v)) /\ OnlyPerCore
    \/ subject # "domains" /\ UNCHANGED allVars

DomainsSpec == DomainsInit /\ [][DomainsNext]_allVars

------------------------------------------------------------------------------
(* The properties of the components that are not in DomainSystem *)

\* Process table: whoever waits, a child is collected once and with its code,
\* and a zombie can be found by a wait until it is collected.
ProcessesSound == subject = "processes" => Procs!CollectedOnce /\ Procs!ZombiesAreListed

\* Signals: the bitmap read without the lock is exact, a signal is delivered
\* once and in order among its kind or still queued, and a task that waits is
\* not left behind with a signal it could have.
SignalsSound ==
    subject = "signals" => Sig!MaskExact /\ Sig!SignalsConserved /\ Sig!WaiterNotForgotten

\* Per-core executor: a task's reference count is exact where no waker is kept,
\* and where no task is stolen one core polls a task and a woken task is queued.
PerCoreSound == subject = "perCore" => PerCore!PerCoreSound
=============================================================================
