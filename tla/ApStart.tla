------------------------------ MODULE ApStart ------------------------------
(***************************************************************************)
(* The start of the application processors, src/smp/bootstrap.rs.  The     *)
(* boot processor runs start_all_aps with AP_BOOTSTRAP locked throughout;  *)
(* an application processor that enters the kernel takes the same lock to  *)
(* report.  What an application processor does between the startup         *)
(* interrupt and ap_entry (the trampoline) is outside the code: it may     *)
(* take any time, or never end.                                            *)
(***************************************************************************)
EXTENDS Integers, FiniteSets

CONSTANTS NumAps,     \* expected_aps
          MaxWait     \* polls of the start flag before the timeout

ApStartAssumption == NumAps \in Nat \ {0} /\ MaxWait \in Nat

Aps == 1 .. NumAps

VARIABLES bspHolds,   \* the boot processor holds AP_BOOTSTRAP's lock
          bspPc, current, waited, apsStarted,
          started, apState, apPc

vars == <<bspHolds, bspPc, current, waited, apsStarted, started, apState, apPc>>

\* ApBootstrap::new, stored by init.
Init ==
    /\ bspHolds = FALSE /\ bspPc = "idle" /\ current = 1 /\ waited = 0 /\ apsStarted = 0
    /\ started = [a \in Aps |-> FALSE]
    /\ apState = [a \in Aps |-> "Offline"]
    /\ apPc = [a \in Aps |-> "reset"]

StartAps ==
    /\ bspPc = "idle"
    /\ bspHolds' = TRUE /\ bspPc' = "init"
    /\ UNCHANGED <<current, waited, apsStarted, started, apState, apPc>>

SendInit ==
    /\ bspPc = "init"
    /\ apState' = [apState EXCEPT ![current] = "InitSent"]
    /\ bspPc' = "sipi"
    /\ UNCHANGED <<bspHolds, current, waited, apsStarted, started, apPc>>

\* Both startup interrupts; the second finds the processor running.
SendSipi ==
    /\ bspPc = "sipi"
    /\ apState' = [apState EXCEPT ![current] = "SipiSent"]
    /\ apPc' = [apPc EXCEPT ![current] = "trampoline"]
    /\ waited' = 0 /\ bspPc' = "wait"
    /\ UNCHANGED <<bspHolds, current, apsStarted, started>>

Wait ==
    /\ bspPc = "wait" /\ ~started[current] /\ waited < MaxWait
    /\ waited' = waited + 1
    /\ UNCHANGED <<bspHolds, bspPc, current, apsStarted, started, apState, apPc>>

\* The outcome for `current', then the next processor, or the lock is let go.
Conclude ==
    /\ apState' = [apState EXCEPT ![current] = IF started[current] THEN "Online" ELSE "Failed"]
    /\ apsStarted' = IF started[current] THEN apsStarted + 1 ELSE apsStarted
    /\ IF current = NumAps
       THEN bspPc' = "done" /\ bspHolds' = FALSE /\ UNCHANGED current
       ELSE bspPc' = "init" /\ current' = current + 1 /\ UNCHANGED bspHolds
    /\ UNCHANGED <<waited, started, apPc>>

\* Faulty variant: the wait has no timeout.
WaitEndsStarted == bspPc = "wait" /\ started[current] /\ Conclude

WaitEnds ==
    /\ bspPc = "wait" /\ (started[current] \/ waited >= MaxWait)
    /\ Conclude

\* The trampoline reaches ap_entry (outside the code).
Enter(a) ==
    /\ apPc[a] = "trampoline"
    /\ apPc' = [apPc EXCEPT ![a] = "entered"]
    /\ UNCHANGED <<bspHolds, bspPc, current, waited, apsStarted, started, apState>>

\* ap_entry: each of the two reports is made under the lock.
MarkStarted(a) ==
    /\ apPc[a] = "entered" /\ ~bspHolds
    /\ started' = [started EXCEPT ![a] = TRUE]
    /\ apState' = [apState EXCEPT ![a] = "Initializing"]
    /\ apPc' = [apPc EXCEPT ![a] = "started"]
    /\ UNCHANGED <<bspHolds, bspPc, current, waited, apsStarted>>

MarkOnline(a) ==
    /\ apPc[a] = "started" /\ ~bspHolds
    /\ apState' = [apState EXCEPT ![a] = "Online"]
    /\ apPc' = [apPc EXCEPT ![a] = "running"]
    /\ UNCHANGED <<bspHolds, bspPc, current, waited, apsStarted, started>>

Bsp == StartAps \/ SendInit \/ SendSipi \/ Wait \/ WaitEnds

Next == Bsp \/ \E a \in Aps : Enter(a) \/ MarkStarted(a) \/ MarkOnline(a)

\* Every processor keeps executing; the trampoline need not get anywhere.
Fairness == WF_vars(Bsp) /\ \A a \in Aps : WF_vars(MarkStarted(a) \/ MarkOnline(a))

Spec == Init /\ [][Next]_vars /\ Fairness

TypeOK ==
    /\ bspHolds \in BOOLEAN /\ bspPc \in {"idle", "init", "sipi", "wait", "done"}
    /\ current \in Aps /\ waited \in 0 .. MaxWait /\ apsStarted \in 0 .. NumAps
    /\ started \in [Aps -> BOOLEAN]
    /\ apState \in [Aps -> {"Offline", "InitSent", "SipiSent", "Initializing", "Online", "Failed"}]
    /\ apPc \in [Aps -> {"reset", "trampoline", "entered", "started", "running"}]

\* Waiting for one another ends: the boot processor gets to the end of
\* start_all_aps although it waits, holding the lock, for processors that need
\* the lock, and a processor that entered the kernel does come online.
StartupEnds ==
    /\ (bspPc = "init") ~> (bspPc = "done")
    /\ \A a \in Aps : (apPc[a] = "entered") ~> (apState[a] = "Online")
=============================================================================
