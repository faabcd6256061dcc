------------------------------ MODULE MCLocks ------------------------------
(*****************************************************************************)
(* Seqlock, IrqMutex and MpmcRing for TLC.  They share nothing, so a         *)
(* behaviour exercises one of them: `subject', chosen at the start.  The     *)
(* others stay in their initial states.                                      *)
(*****************************************************************************)
EXTENDS Seqlock, TLC

CONSTANTS p1, p2, c1, k1, k2, v1, v2

VARIABLES subject,
          locked, ifFlag, stack,
          head, tail, ringSequence, ringData, pc, once, pos, val, step, alive, enq, res

Cpus == {k1, k2}
Pushers == {p1, p2}
RingVal == {v1, v2}

Symmetric == Permutations(Pushers)

Irq == INSTANCE IrqMutex WITH
    NumLocks <- 2, MaxGuards <- 2, Lifo <- TRUE, MaxFrames <- 2

Mpmc == INSTANCE MpmcRing WITH
    N <- 2, Val <- RingVal, Uninit <- NoValue, Poppers <- {c1}, SpinLimit <- 0,
    YieldLimit <- 1, MaxPushes <- 3, sequence <- ringSequence, data <- ringData

ASSUME ComponentAssumptions ==
    /\ Irq!LockAssumption
    /\ Mpmc!NAssumption
    /\ Mpmc!UninitAssumption
    /\ Mpmc!ThreadsAssumption
    /\ Mpmc!LimitAssumption

irqVars == <<locked, ifFlag, stack>>
ringVars == <<head, tail, ringSequence, ringData, pc, once, pos, val, step, alive, enq,
              res>>
allVars == <<subject, vars, irqVars, ringVars>>

LocksInit ==
    /\ subject \in {"seqlock", "irqMutex", "mpmc"}
    /\ Init /\ Irq!Init /\ Mpmc!Init
    /\ subject # "seqlock" => data = [i \in Words |-> 0]

OnlySeqlock == UNCHANGED <<subject, irqVars, ringVars>>
OnlyIrq == UNCHANGED <<subject, vars, ringVars>>
OnlyMpmc == UNCHANGED <<subject, vars, irqVars>>

LocksNext ==
    \/ subject = "seqlock" /\ (\E w \in Writers : WriteBegin(w)) /\ OnlySeqlock
    \/ /\ subject = "seqlock"
       /\ \E w \in Writers, i \in Words, v \in Val : WriteWord(w, i, v)
       /\ OnlySeqlock
    \/ subject = "seqlock" /\ (\E w \in Writers : WriteEnd(w)) /\ OnlySeqlock
    \/ subject = "seqlock" /\ (\E r \in Readers : ReadBegin(r)) /\ OnlySeqlock
    \/ /\ subject = "seqlock"
       /\ \E r \in Readers, i \in Words : ReadWord(r, i)
       /\ OnlySeqlock
    \/ subject = "seqlock" /\ (\E r \in Readers : ReadEnd(r)) /\ OnlySeqlock
    \/ /\ subject = "irqMutex"
       /\ \E c \in Cpus, m \in {"lock", "try", "section"}, l \in 0 .. 2 : Irq!SaveFlags(c, m, l)
       /\ OnlyIrq
    \/ subject = "irqMutex" /\ (\E c \in Cpus : Irq!Cli(c)) /\ OnlyIrq
    \/ subject = "irqMutex" /\ (\E c \in Cpus : Irq!Acquire(c)) /\ OnlyIrq
    \/ subject = "irqMutex" /\ (\E c \in Cpus : Irq!TryFails(c)) /\ OnlyIrq
    \/ /\ subject = "irqMutex"
       /\ \E c \in Cpus, i \in 1 .. 2 : Irq!DropBegin(c, i)
       /\ OnlyIrq
    \/ subject = "irqMutex" /\ (\E c \in Cpus : Irq!Restore(c)) /\ OnlyIrq
    \/ subject = "irqMutex" /\ (\E c \in Cpus : Irq!Interrupt(c)) /\ OnlyIrq
    \/ subject = "irqMutex" /\ (\E c \in Cpus : Irq!Iret(c)) /\ OnlyIrq
    \/ /\ subject = "mpmc"
       /\ \E p \in Pushers, v \in RingVal, try \in BOOLEAN : Mpmc!Push(p, v, try)
       /\ OnlyMpmc
    \/ subject = "mpmc" /\ (\E p \in Pushers : Mpmc!PushLoadHead(p)) /\ OnlyMpmc
    \/ subject = "mpmc" /\ (\E p \in Pushers : Mpmc!PushCheckFull(p)) /\ OnlyMpmc
    \/ subject = "mpmc" /\ (\E p \in Pushers : Mpmc!PushCheckSlot(p)) /\ OnlyMpmc
    \/ subject = "mpmc" /\ (\E p \in Pushers : Mpmc!PushReserve(p)) /\ OnlyMpmc
    \/ subject = "mpmc" /\ (\E p \in Pushers : Mpmc!PushWrite(p)) /\ OnlyMpmc
    \/ subject = "mpmc" /\ (\E p \in Pushers : Mpmc!PushPublish(p)) /\ OnlyMpmc
    \/ subject = "mpmc" /\ (\E try \in BOOLEAN : Mpmc!Pop(c1, try)) /\ OnlyMpmc
    \/ subject = "mpmc" /\ Mpmc!PopLoadTail(c1) /\ OnlyMpmc
    \/ subject = "mpmc" /\ Mpmc!PopCheckEmpty(c1) /\ OnlyMpmc
    \/ subject = "mpmc" /\ Mpmc!PopCheckReady(c1) /\ OnlyMpmc
    \/ subject = "mpmc" /\ Mpmc!PopRecheckTail(c1) /\ OnlyMpmc
    \/ subject = "mpmc" /\ Mpmc!PopReserve(c1) /\ OnlyMpmc
    \/ subject = "mpmc" /\ Mpmc!PopRead(c1) /\ OnlyMpmc
    \/ subject = "mpmc" /\ Mpmc!PopRelease(c1) /\ OnlyMpmc
    \/ subject = "mpmc" /\ Mpmc!Drop /\ OnlyMpmc
    \/ subject = "mpmc" /\ UNCHANGED allVars

LocksSpec == LocksInit /\ [][LocksNext]_allVars

------------------------------------------------------------------------------
(* The properties of the components that are not in Seqlock *)

\* IrqMutex: a lock that is taken has exactly one guard in the whole machine,
\* over all CPUs and the frames of each; a handler never spins on a lock that
\* the code it interrupted on its CPU holds; and a frame without guards has the
\* interrupt flag it began with.
LocksSound ==
    subject = "irqMutex" => Irq!OneGuardPerLock /\ Irq!NoSelfDeadlock /\ Irq!FlagIsRestored

\* MpmcRingBuffer: no two threads are inside one slot, and who reserved a
\* position to read finds there the value pushed at that position.
SlotsSound == subject = "mpmc" => Mpmc!SlotsSound

\* MpmcRingBuffer: push and pop are those of a bounded FIFO queue of N elements.
MpmcImplementsFifo == Mpmc!ImplementsFifo
=============================================================================
