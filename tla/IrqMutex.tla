------------------------------ MODULE IrqMutex ------------------------------
(***************************************************************************)
(* IrqMutex of src/sync/irq_mutex.rs: a spin lock that disables interrupts *)
(* on its CPU while it is held and restores the previous interrupt flag    *)
(* when the guard is dropped.                                              *)
(*                                                                         *)
(* A CPU is a stack of frames: the thread, and above it the interrupt      *)
(* handlers that interrupted what is below.  The top frame runs.  A frame  *)
(* holds guards, each with the flag it saved; try_lock's failure and       *)
(* with_interrupts_disabled restore the flag in the same way (the latter   *)
(* is a guard of no lock).  Within a frame locks are taken in increasing   *)
(* order, the callers' lock order.  Lifo says that guards are dropped in   *)
(* the reverse order of their creation, as lexical scopes do it.           *)
(***************************************************************************)
EXTENDS Integers, Sequences, FiniteSets, SequencesExt

CONSTANTS Cpus, NumLocks, Lifo,
          MaxFrames,   \* bound: handlers nested on a thread, plus one
          MaxGuards    \* bound: guards a frame holds

LockAssumption == NumLocks \in Nat /\ Lifo \in BOOLEAN /\ MaxFrames \in Nat \ {0}

NoLock == 0
Locks == 1 .. NumLocks

VARIABLES locked,   \* the lock words
          ifFlag,   \* RFLAGS.IF of each CPU
          stack     \* the frames of each CPU

vars == <<locked, ifFlag, stack>>

\* pc: "run", "cli", "spin", "try" or "restore"; lock, mode ("lock", "try" or
\* "section") and was: the operation in progress and the flag it saved;
\* guards: the guards held, oldest first.
NewFrame == [pc |-> "run", lock |-> NoLock, mode |-> "none", was |-> FALSE, guards |-> <<>>]

Init ==
    /\ locked = [l \in Locks |-> FALSE]
    /\ ifFlag = [c \in Cpus |-> TRUE]
    /\ stack = [c \in Cpus |-> <<NewFrame>>]

Top(c) == Last(stack[c])
SetTop(c, f) == stack' = [stack EXCEPT ![c] = Append(Front(@), f)]

\* Faulty variant: the flag to restore is taken for set.
SavedAlways(c) == TRUE

Saved(c) == ifFlag[c]

------------------------------------------------------------------------------
(* lock, try_lock, with_interrupts_disabled *)

Idle(f) == [f EXCEPT !.pc = "run", !.lock = NoLock, !.mode = "none", !.was = FALSE]

\* Read RFLAGS; an interrupt may still come before the cli.
SaveFlags(c, m, l) ==
    /\ Top(c).pc = "run" /\ Len(Top(c).guards) < MaxGuards
    /\ m = "section" <=> l = NoLock
    /\ m = "lock" => \A i \in DOMAIN Top(c).guards : Top(c).guards[i].lock < l
    /\ m = "try" => \A i \in DOMAIN Top(c).guards : Top(c).guards[i].lock # l
    /\ SetTop(c, [Top(c) EXCEPT !.pc = "cli", !.lock = l, !.mode = m, !.was = Saved(c)])
    /\ UNCHANGED <<locked, ifFlag>>

\* The guard that the operation of frame f returns.
WithGuard(f) == [Idle(f) EXCEPT !.guards = Append(@, [lock |-> f.lock, was |-> f.was])]

\* Faulty variant: interrupts stay enabled.
CliForgotten(c) ==
    /\ Top(c).pc = "cli"
    /\ SetTop(c, IF Top(c).mode = "section" THEN WithGuard(Top(c))
                 ELSE [Top(c) EXCEPT !.pc = IF Top(c).mode = "lock" THEN "spin" ELSE "try"])
    /\ UNCHANGED <<locked, ifFlag>>

Cli(c) ==
    /\ Top(c).pc = "cli"
    /\ ifFlag' = [ifFlag EXCEPT ![c] = FALSE]
    /\ SetTop(c, IF Top(c).mode = "section" THEN WithGuard(Top(c))
                 ELSE [Top(c) EXCEPT !.pc = IF Top(c).mode = "lock" THEN "spin" ELSE "try"])
    /\ UNCHANGED locked

\* Faulty variant: the lock word is stored without comparing it.
AcquireBlind(c) ==
    /\ Top(c).pc \in {"spin", "try"}
    /\ locked' = [locked EXCEPT ![Top(c).lock] = TRUE]
    /\ SetTop(c, WithGuard(Top(c)))
    /\ UNCHANGED ifFlag

\* The compare-exchange that takes the lock, of lock or of try_lock.
Acquire(c) ==
    /\ Top(c).pc \in {"spin", "try"} /\ ~locked[Top(c).lock]
    /\ locked' = [locked EXCEPT ![Top(c).lock] = TRUE]
    /\ SetTop(c, WithGuard(Top(c)))
    /\ UNCHANGED ifFlag

TryFails(c) ==
    /\ Top(c).pc = "try" /\ locked[Top(c).lock]
    /\ SetTop(c, [Top(c) EXCEPT !.pc = "restore"])
    /\ UNCHANGED <<locked, ifFlag>>

------------------------------------------------------------------------------
(* Drop of a guard *)

\* A guard goes out of scope: its lock word is stored first.
DropBegin(c, i) ==
    /\ Top(c).pc = "run" /\ i \in DOMAIN Top(c).guards
    /\ Lifo => i = Len(Top(c).guards)
    /\ LET g == Top(c).guards[i]
       IN  /\ SetTop(c, [Top(c) EXCEPT !.pc = "restore", !.was = g.was,
                                       !.guards = RemoveAt(@, i)])
           /\ locked' = IF g.lock = NoLock THEN locked ELSE [locked EXCEPT ![g.lock] = FALSE]
    /\ UNCHANGED ifFlag

\* restore_interrupts: sti if the flag was set.
Restore(c) ==
    /\ Top(c).pc = "restore"
    /\ ifFlag' = [ifFlag EXCEPT ![c] = @ \/ Top(c).was]
    /\ SetTop(c, Idle(Top(c)))
    /\ UNCHANGED locked

------------------------------------------------------------------------------
(* Interrupts: a handler starts with IF clear and iret sets it again *)

Interrupt(c) ==
    /\ ifFlag[c] /\ Len(stack[c]) < MaxFrames
    /\ stack' = [stack EXCEPT ![c] = Append(@, NewFrame)]
    /\ ifFlag' = [ifFlag EXCEPT ![c] = FALSE]
    /\ UNCHANGED locked

Iret(c) ==
    /\ Len(stack[c]) > 1 /\ Top(c).pc = "run" /\ Top(c).guards = <<>>
    /\ stack' = [stack EXCEPT ![c] = Front(@)]
    /\ ifFlag' = [ifFlag EXCEPT ![c] = TRUE]
    /\ UNCHANGED locked

------------------------------------------------------------------------------

Next ==
    \E c \in Cpus :
        \/ Cli(c) \/ Acquire(c) \/ TryFails(c) \/ Restore(c) \/ Interrupt(c) \/ Iret(c)
        \/ \E i \in 1 .. MaxGuards : DropBegin(c, i)
        \/ \E m \in {"lock", "try", "section"}, l \in 0 .. NumLocks : SaveFlags(c, m, l)

Spec == Init /\ [][Next]_vars

------------------------------------------------------------------------------
(* Properties *)

Guards(c) == UNION {{<<c, k, i>> : i \in DOMAIN stack[c][k].guards} : k \in DOMAIN stack[c]}
GuardLock(g) == stack[g[1]][g[2]].guards[g[3]].lock

\* A lock that is taken has exactly one guard in the whole machine, over all
\* CPUs and all the frames of each; a free one has none.
OneGuardPerLock ==
    \A l \in Locks :
        Cardinality({g \in UNION {Guards(c) : c \in Cpus} : GuardLock(g) = l})
            = IF locked[l] THEN 1 ELSE 0

\* A frame never waits for a lock that a frame below it on the same CPU holds:
\* the deadlock that IrqMutex exists to rule out.
NoSelfDeadlock ==
    \A c \in Cpus :
        Top(c).pc = "spin" => \A g \in Guards(c) : GuardLock(g) # Top(c).lock

\* Once a frame holds no guard and is in no operation the flag is what it was
\* when the frame began: set for a thread, clear for a handler.
FlagIsRestored ==
    \A c \in Cpus :
        (Top(c).pc = "run" /\ Top(c).guards = <<>>) => (ifFlag[c] <=> Len(stack[c]) = 1)

=============================================================================
