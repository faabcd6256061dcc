---------------------------- MODULE ProcessTable ----------------------------
(***************************************************************************)
(* ProcessManager of src/task/process.rs: creation, exit and collection of *)
(* processes.  The table and each process have a lock of their own, and an *)
(* operation takes them one after the other; between its steps it holds an *)
(* Arc, so a process may be reaped under it.                               *)
(*                                                                         *)
(* Pid 1 exists for the callers but is not in the table: nobody inserts    *)
(* it.  When `tame', exit is called once for a process, and the scheduler  *)
(* sets the state of processes that have not exited only; otherwise        *)
(* anybody calls either at any time, as the code allows.  Names,           *)
(* credentials, limits, priorities, threads and statistics are left out.   *)
(***************************************************************************)
EXTENDS Integers, Sequences, FiniteSets, SequencesExt

CONSTANTS MaxPid,    \* bound: processes created
          Waiters,   \* threads that call create and wait
          Codes,     \* exit codes
          States     \* the states the scheduler sets

ProcessAssumption == MaxPid \in Nat /\ MaxPid >= 2

KernelPid == 0
InitPid == 1
Pids == 2..MaxPid
NoCode == "none"
LiveStates == {"Creating", "Ready", "Running", "Blocked", "Stopped"}

VARIABLES tame,
          nextPid, table,             \* processes: the pids it holds
          ppid, procState, exitCode, children,
          reaped,                     \* pids returned by a wait, with the code
          procPc, procParent, procScan, procGot   \* a caller's position and locals

infoVars == <<ppid, procState, exitCode>>
localVars == <<procPc, procParent, procScan, procGot>>
vars == <<tame, nextPid, table, infoVars, children, reaped, localVars>>

Init ==
    /\ tame \in BOOLEAN
    /\ nextPid = 2 /\ table = {}
    /\ ppid = [p \in Pids |-> KernelPid]
    /\ procState = [p \in Pids |-> "Creating"]
    /\ exitCode = [p \in Pids |-> NoCode]
    /\ children = [p \in Pids |-> <<>>]
    /\ reaped = {}
    /\ procPc = [w \in Waiters |-> "idle"]
    /\ procParent = [w \in Waiters |-> KernelPid]
    /\ procScan = [w \in Waiters |-> <<>>]
    /\ procGot = [w \in Waiters |-> NoCode]

Goto(w, pc, parent, scan, code) ==
    /\ procPc' = [procPc EXCEPT ![w] = pc]
    /\ procParent' = [procParent EXCEPT ![w] = parent]
    /\ procScan' = [procScan EXCEPT ![w] = scan]
    /\ procGot' = [procGot EXCEPT ![w] = code]
Return(w) == Goto(w, "idle", KernelPid, <<>>, NoCode)

------------------------------------------------------------------------------
(* create *)

\* The pid is allocated and the process enters the table.  The parent is any
\* process that was there, the kernel, or pid 1.
Create(w, parent) ==
    /\ procPc[w] = "idle" /\ nextPid <= MaxPid
    /\ parent \in table \cup {KernelPid, InitPid}
    /\ nextPid' = nextPid + 1
    /\ table' = table \cup {nextPid}
    /\ ppid' = [ppid EXCEPT ![nextPid] = parent]
    /\ IF parent = KernelPid THEN UNCHANGED localVars ELSE Goto(w, "adopt", parent, <<nextPid>>, NoCode)
    /\ UNCHANGED <<tame, procState, exitCode, children, reaped>>

\* Faulty variant: the parent does not learn of the child.
AdoptForgotten(w) ==
    /\ procPc[w] = "adopt"
    /\ Return(w)
    /\ UNCHANGED <<tame, nextPid, table, infoVars, children, reaped>>

\* The child is added to its parent's list, if the parent is still there.
Adopt(w) ==
    /\ procPc[w] = "adopt"
    /\ children' = (IF procParent[w] \in table
                    THEN [children EXCEPT ![procParent[w]] = @ \o procScan[w]]
                    ELSE children)
    /\ Return(w)
    /\ UNCHANGED <<tame, nextPid, table, infoVars, reaped>>

------------------------------------------------------------------------------
(* set_state, exit *)

SetState(p, s) ==
    /\ p \in table
    /\ tame => {procState[p], s} \subseteq LiveStates
    /\ procState' = [procState EXCEPT ![p] = s]
    /\ UNCHANGED <<tame, nextPid, table, ppid, exitCode, children, reaped, localVars>>

\* exit: refused for a Dead process only.
Exit(p, code) ==
    /\ p \in table /\ procState[p] # "Dead"
    /\ tame => procState[p] \in LiveStates
    /\ procState' = [procState EXCEPT ![p] = "Zombie"]
    /\ exitCode' = [exitCode EXCEPT ![p] = code]
    /\ UNCHANGED <<tame, nextPid, table, ppid, children, reaped, localVars>>

------------------------------------------------------------------------------
(* wait *)

\* The children of the parent are copied: all of them, or the one asked for.
\* NotFound and NoChild return at once.
WaitBegin(w, parent, only) ==
    /\ procPc[w] = "idle"
    /\ parent \in table
    /\ LET scan == IF only = KernelPid THEN children[parent]
                   ELSE SelectSeq(children[parent], LAMBDA c : c = only)
       IN scan # <<>> /\ Goto(w, "scan", parent, scan, NoCode)
    /\ UNCHANGED <<tame, nextPid, table, infoVars, children, reaped>>

\* The next child of the copy is looked up and read.  One that is no longer in
\* the table, or no zombie, is passed over; after the last, NoChild.
WaitScan(w) ==
    /\ procPc[w] = "scan"
    /\ LET c == Head(procScan[w])
       IN IF c \in table /\ procState[c] = "Zombie" /\ exitCode[c] # NoCode
          THEN Goto(w, "reap", procParent[w], procScan[w], exitCode[c])
          ELSE IF Len(procScan[w]) = 1 THEN Return(w)
          ELSE Goto(w, "scan", procParent[w], Tail(procScan[w]), NoCode)
    /\ UNCHANGED <<tame, nextPid, table, infoVars, children, reaped>>

\* Faulty variant: whether the process was still there is not looked at.
ReapBlind(w) ==
    /\ procPc[w] = "reap"
    /\ table' = table \ {Head(procScan[w])}
    /\ Goto(w, "unlist", procParent[w], procScan[w], procGot[w])
    /\ UNCHANGED <<tame, nextPid, infoVars, children, reaped>>

\* reap: of two callers that saw the same zombie one removes it, the other gets
\* NotFound.
Reap(w) ==
    /\ procPc[w] = "reap"
    /\ table' = table \ {Head(procScan[w])}
    /\ IF Head(procScan[w]) \in table
       THEN Goto(w, "unlist", procParent[w], procScan[w], procGot[w])
       ELSE Return(w)
    /\ UNCHANGED <<tame, nextPid, infoVars, children, reaped>>

\* remove_child, and the pid and the code are returned.
Unlist(w) ==
    /\ procPc[w] = "unlist"
    /\ LET c == Head(procScan[w])
       IN /\ children' = [children EXCEPT ![procParent[w]] =
                              SelectSeq(@, LAMBDA d : d # c)]
          /\ reaped' = reaped \cup {<<w, c, procGot[w]>>}
    /\ Return(w)
    /\ UNCHANGED <<tame, nextPid, table, infoVars>>

Next ==
    \/ \E p \in Pids : \/ \E s \in States : SetState(p, s)
                       \/ \E code \in Codes : Exit(p, code)
    \/ \E w \in Waiters :
         \/ \E parent \in Pids \cup {KernelPid, InitPid} : Create(w, parent)
         \/ \E parent \in Pids, only \in Pids \cup {KernelPid} : WaitBegin(w, parent, only)
         \/ Adopt(w) \/ WaitScan(w) \/ Reap(w) \/ Unlist(w)

Spec == Init /\ [][Next]_vars

------------------------------------------------------------------------------
(* Properties *)

Collected == {r[2] : r \in reaped}

\* However many callers wait for the same children, a process is collected by
\* one of them, with the code it exited with, and is gone from the table.
CollectedOnce ==
    /\ \A r, s \in reaped : r[2] = s[2] => r = s
    /\ \A r \in reaped : r[2] \notin table /\ (tame => exitCode[r[2]] = r[3])

\* A zombie whose parent is in the table is in the parent's list, so a wait can
\* find it; and a list names no process that has been collected, except while
\* the wait that collected it is about to take it off.
ZombiesAreListed ==
    /\ \A p \in table : ppid[p] \in table =>
         \/ p \in ToSet(children[ppid[p]])
         \/ \E w \in Waiters : procPc[w] = "adopt" /\ procScan[w] = <<p>>
    /\ \A p \in Pids : \A c \in ToSet(children[p]) : c \notin table =>
         \E w \in Waiters : procPc[w] = "unlist" /\ Head(procScan[w]) = c
=============================================================================
