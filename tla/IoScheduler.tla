---------------------------- MODULE IoScheduler ----------------------------
(***************************************************************************)
(* IoScheduler, IoFuture, PollingExecutor, IoInterruptBridge and           *)
(* HybridIoCoordinator of src/io/io_scheduler.rs, for one device.  The     *)
(* driver takes requests from the priority queues, starts them and hands   *)
(* them to the device; the device's completions come back through an       *)
(* interrupt or through polling.  Drivers and PollHandlers are not in the  *)
(* repository: the driver here issues only a request that start_request    *)
(* has left InProgress, and the device finishes each issued request once.  *)
(*                                                                         *)
(* `parallel' says whether completions can run inside a poll of IoFuture,  *)
(* which reads the state and files its waker under separate locks.         *)
(* Statistics other than the queue depth are left out; the mode of the     *)
(* device, which its DeviceIoModeController computes, may be any.          *)
(***************************************************************************)
EXTENDS Integers, Sequences, FiniteSets, SequencesExt

CONSTANTS MaxRequest,    \* bound: requests submitted
          Priorities     \* 0..4 in the code: the index of a queue

IoAssumption == MaxRequest \in Nat /\ Priorities \in Nat \ {0}

Requests == 1..MaxRequest
Queues == 0..(Priorities - 1)
Modes == {"Interrupt", "Polling", "Hybrid"}
Open == {"Pending", "InProgress"}
Final == {"Completed", "Failed", "Cancelled"}

VARIABLES parallel,
          nextRequest, ioState, queues, depth,
          counting, listing,     \* submits before their later steps
          scan, taken,           \* the driver in next_request, and what it got
          issued, finished,      \* requests with the device, and done there
          waker, registered, woken, future,   \* of the IoFuture of a request
          pendingRequests,       \* IoInterruptBridge
          globalMode, active

requestVars == <<nextRequest, ioState, queues, depth>>
submitVars == <<counting, listing>>
driverVars == <<scan, taken, issued, finished>>
futureVars == <<waker, registered, woken, future>>
modeVars == <<globalMode, active>>
vars == <<parallel, requestVars, submitVars, driverVars, futureVars, pendingRequests, modeVars>>

Nothing == -1

Init ==
    /\ parallel \in BOOLEAN
    /\ nextRequest = 1 /\ ioState = [r \in Requests |-> "none"]
    /\ queues = [q \in Queues |-> <<>>] /\ depth = 0
    /\ counting = {} /\ listing = {}
    /\ scan = Nothing /\ taken = Nothing /\ issued = {} /\ finished = {}
    /\ waker = {} /\ registered = {} /\ woken = {}
    /\ future = [r \in Requests |-> "none"]
    /\ pendingRequests = <<>>
    /\ globalMode = "Interrupt" /\ active = FALSE

\* Nothing runs inside a poll unless completions are parallel to it.
Undisturbed == parallel \/ \A r \in Requests : future[r] # "looked"

------------------------------------------------------------------------------
(* submit, submit_io *)

\* The request is registered and queued; nobody knows its id until it is queued.
Submit(q) ==
    /\ Undisturbed /\ nextRequest <= MaxRequest
    /\ nextRequest' = nextRequest + 1
    /\ ioState' = [ioState EXCEPT ![nextRequest] = "Pending"]
    /\ queues' = [queues EXCEPT ![q] = Append(@, nextRequest)]
    /\ counting' = counting \cup {nextRequest}
    /\ UNCHANGED <<parallel, depth, listing, driverVars, futureVars, pendingRequests, modeVars>>

\* current_queue_depth follows, when the driver may already be done with it.
SubmitCount(r) ==
    /\ Undisturbed /\ r \in counting
    /\ depth' = depth + 1
    /\ counting' = counting \ {r} /\ listing' = listing \cup {r}
    /\ UNCHANGED <<parallel, nextRequest, ioState, queues, driverVars, futureVars,
                   pendingRequests, modeVars>>

\* submit_io: by the mode of the device, m, the bridge learns of the request, and
\* the caller gets its future.
SubmitList(r, m) ==
    /\ Undisturbed /\ r \in listing
    /\ listing' = listing \ {r}
    /\ pendingRequests' = (IF m = "Polling" THEN pendingRequests
                           ELSE Append(pendingRequests, r))
    /\ future' = [future EXCEPT ![r] = "ready"]
    /\ UNCHANGED <<parallel, requestVars, counting, driverVars, waker, registered, woken, modeVars>>

------------------------------------------------------------------------------
(* The driver: next_request, start_request *)

\* next_request looks at one queue after the other, from the highest.
ScanBegin ==
    /\ Undisturbed /\ scan = Nothing /\ taken = Nothing
    /\ scan' = Priorities - 1
    /\ UNCHANGED <<parallel, requestVars, submitVars, taken, issued, finished, futureVars,
                   pendingRequests, modeVars>>

Scan ==
    /\ Undisturbed /\ scan # Nothing
    /\ IF queues[scan] = <<>>
       THEN scan' = scan - 1 /\ UNCHANGED <<queues, taken>>
       ELSE /\ queues' = [queues EXCEPT ![scan] = Tail(@)]
            /\ taken' = Head(queues[scan]) /\ scan' = Nothing
    /\ UNCHANGED <<parallel, nextRequest, ioState, depth, submitVars, issued, finished, futureVars,
                   pendingRequests, modeVars>>

\* Faulty variant: a request is started whatever its state.
StartAny ==
    /\ Undisturbed /\ taken # Nothing
    /\ ioState' = [ioState EXCEPT ![taken] = "InProgress"]
    /\ issued' = issued \cup {taken}
    /\ taken' = Nothing
    /\ UNCHANGED <<parallel, nextRequest, queues, depth, submitVars, scan, finished, futureVars,
                   pendingRequests, modeVars>>

\* start_request: a request cancelled while it was queued stays so.
Start ==
    /\ Undisturbed /\ taken # Nothing
    /\ IF ioState[taken] = "Pending"
       THEN /\ ioState' = [ioState EXCEPT ![taken] = "InProgress"]
            /\ issued' = issued \cup {taken}
       ELSE UNCHANGED <<ioState, issued>>
    /\ taken' = Nothing
    /\ UNCHANGED <<parallel, nextRequest, queues, depth, submitVars, scan, finished, futureVars,
                   pendingRequests, modeVars>>

DeviceFinishes(r) ==
    /\ Undisturbed /\ r \in issued
    /\ issued' = issued \ {r} /\ finished' = finished \cup {r}
    /\ UNCHANGED <<parallel, requestVars, submitVars, scan, taken, futureVars, pendingRequests,
                   modeVars>>

------------------------------------------------------------------------------
(* Completion and cancellation *)

\* The waker is taken with the lock held and woken after it.
TakeWaker(r) ==
    /\ woken' = (IF r \in waker THEN woken \cup {r} ELSE woken)
    /\ waker' = waker \ {r}
    /\ UNCHANGED <<registered, future>>

\* complete_request.
Complete(r, s) ==
    /\ ioState' = [ioState EXCEPT ![r] = s]
    /\ depth' = depth - 1
    /\ TakeWaker(r)
    /\ finished' = finished \ {r}
    /\ UNCHANGED <<parallel, nextRequest, queues, submitVars, scan, taken, issued, modeVars>>

\* handle_interrupt: the bridge forgets what was completed.
HandleInterrupt(r, s) ==
    /\ Undisturbed /\ r \in finished
    /\ Complete(r, s)
    /\ pendingRequests' = SelectSeq(pendingRequests, LAMBDA x : x # r)

\* tick: poll_batch or poll_once, neither of which does anything unless the
\* polling executor is active.
Tick(r, s) ==
    /\ Undisturbed /\ globalMode \in {"Polling", "Hybrid"} /\ active /\ r \in finished
    /\ Complete(r, s)
    /\ UNCHANGED pendingRequests

\* Faulty variant: a request with the device can be cancelled too.
CancelAny(r) ==
    /\ Undisturbed /\ ioState[r] \in Open /\ future[r] # "none"
    /\ ioState' = [ioState EXCEPT ![r] = "Cancelled"]
    /\ depth' = depth - 1
    /\ TakeWaker(r)
    /\ UNCHANGED <<parallel, nextRequest, queues, submitVars, driverVars, pendingRequests, modeVars>>

\* cancel_request: only what no driver has started.  The id stays in its queue
\* and with the bridge.
Cancel(r) ==
    /\ Undisturbed /\ ioState[r] = "Pending" /\ future[r] # "none"
    /\ ioState' = [ioState EXCEPT ![r] = "Cancelled"]
    /\ depth' = depth - 1
    /\ TakeWaker(r)
    /\ UNCHANGED <<parallel, nextRequest, queues, submitVars, driverVars, pendingRequests, modeVars>>

------------------------------------------------------------------------------
(* IoFuture::poll *)

\* The state is read; a final one ends the future with its result.
PollState(r) ==
    /\ Undisturbed /\ future[r] = "ready"
    /\ future' = [future EXCEPT ![r] = IF ioState[r] \in Final THEN "done" ELSE "looked"]
    /\ UNCHANGED <<parallel, requestVars, submitVars, driverVars, waker, registered, woken,
                   pendingRequests, modeVars>>

\* Faulty variant: every poll but the first files the waker.
PollSetWakerLate(r) ==
    /\ future[r] = "looked"
    /\ waker' = (IF r \in registered THEN waker \cup {r} ELSE waker)
    /\ registered' = registered \cup {r}
    /\ future' = [future EXCEPT ![r] = "parked"]
    /\ UNCHANGED <<parallel, requestVars, submitVars, driverVars, woken, pendingRequests, modeVars>>

\* set_waker, by the first poll only; a request that is final by now keeps the
\* waker for good.
PollSetWaker(r) ==
    /\ future[r] = "looked"
    /\ waker' = (IF r \in registered THEN waker ELSE waker \cup {r})
    /\ registered' = registered \cup {r}
    /\ future' = [future EXCEPT ![r] = "parked"]
    /\ UNCHANGED <<parallel, requestVars, submitVars, driverVars, woken, pendingRequests, modeVars>>

\* The executor polls again: the task was woken, or for another reason.
PollAgain(r, spurious) ==
    /\ Undisturbed /\ future[r] = "parked" /\ (r \in woken \/ spurious)
    /\ woken' = woken \ {r}
    /\ future' = [future EXCEPT ![r] = "ready"]
    /\ UNCHANGED <<parallel, requestVars, submitVars, driverVars, waker, registered,
                   pendingRequests, modeVars>>

------------------------------------------------------------------------------
(* Modes *)

\* set_global_mode: the polling executor is started for Polling and stopped for
\* the other modes.
SetGlobalMode(m) ==
    /\ Undisturbed /\ globalMode' = m /\ active' = (m = "Polling")
    /\ UNCHANGED <<parallel, requestVars, submitVars, driverVars, futureVars, pendingRequests>>

Next ==
    \/ \E q \in Queues : Submit(q)
    \/ ScanBegin \/ Scan \/ Start
    \/ \E r \in Requests :
         \/ SubmitCount(r) \/ DeviceFinishes(r) \/ Cancel(r)
         \/ \E s \in {"Completed", "Failed"} : HandleInterrupt(r, s) \/ Tick(r, s)
         \/ PollState(r) \/ PollSetWaker(r)
         \/ \E spurious \in BOOLEAN : PollAgain(r, spurious)
    \/ \E m \in Modes : SetGlobalMode(m) \/ \E r \in Requests : SubmitList(r, m)

Spec == Init /\ [][Next]_vars

------------------------------------------------------------------------------
(* Properties *)

\* The queue depth is the number of requests submitted and not yet final,
\* though completions race with the submitter that has still to count its own,
\* and cancellations with the driver that has taken the request.
DepthExact ==
    depth + Cardinality(counting) = Cardinality({r \in Requests : ioState[r] \in Open})

\* A request that is final stays as it is: a cancelled one is not completed
\* later by the driver that found it in the queue, and none is completed twice.
FinalIsFinal ==
    [][\A r \in Requests : ioState[r] \in Final => ioState'[r] = ioState[r]]_vars

\* A future that waits will be woken: while its request is open its waker is
\* filed, and when it is final the future has been woken.  Only when completions
\* cannot run inside the poll: one between the look at the state and the filing
\* of the waker is never noticed, since the waker is filed once.
FutureNotForgotten ==
    ~parallel => \A r \in Requests : future[r] = "parked" =>
        IF ioState[r] \in Open THEN r \in waker ELSE r \in woken

\* What was issued is known to be with the device: each request is queued, with
\* the driver, with the device, or final, and in one place only.
OnePlace ==
    \A r \in Requests : ioState[r] # "none" =>
        LET queued == \E q \in Queues : r \in ToSet(queues[q])
        IN /\ ioState[r] = "Pending" <=> (queued \/ taken = r) /\ ioState[r] # "Cancelled"
           /\ ioState[r] = "InProgress" <=> r \in issued \cup finished
           /\ ~(queued /\ taken = r)
=============================================================================
