------------------------------ MODULE BlkQueue ------------------------------
(***************************************************************************)
(* The request queue of the virtio block driver, src/io/virtio/blk.rs: one *)
(* VirtQueue, the read and write futures on it, the interrupt handler, and *)
(* the device (external), which completes the requests it was given in any *)
(* order.  What the driver does under the queue's lock is one step; the    *)
(* waker table has a lock of its own.  A poll is thus submit, register,    *)
(* check, register again, with the handler and the device between.         *)
(*                                                                         *)
(* No index wraps: a completed request gives back at most its head         *)
(* descriptor, so a queue takes fewer than Size requests in its life and   *)
(* the indices of the rings are plain numbers.  Sectors, buffers and the   *)
(* flags of a descriptor are left out; reads and writes differ only there. *)
(***************************************************************************)
EXTENDS Integers, Sequences, FiniteSetsExt

CONSTANTS Size,      \* queue_size, below 64
          Futures    \* ReadFutures and WriteFutures, numbers from 1

Descs == 0 .. Size - 1

VARIABLES freeBitmap,    \* the free descriptors
          descNext,      \* desc_table: the next field
          avail,         \* heads the device was given and has not completed
          used,          \* the used ring, from its first entry
          lastUsed,      \* last_used_idx
          wakers,        \* pending_wakers: a future or 0
          futPc, descId, \* of each future
          woken,         \* the executor will poll the future
          served         \* futures whose request the device has completed

vars == <<freeBitmap, descNext, avail, used, lastUsed, wakers, futPc, descId, woken, served>>

Init ==
    /\ freeBitmap = Descs /\ descNext = [d \in Descs |-> 0]
    /\ avail = {} /\ used = << >> /\ lastUsed = 0
    /\ wakers = [d \in Descs |-> 0]
    /\ futPc = [f \in Futures |-> "new"] /\ descId = [f \in Futures |-> -1]
    /\ woken = Futures /\ served = {}

\* Faulty variant: the third descriptor is not taken from the bitmap.
AllocatedTwo(chain) == {chain[1], chain[2]}

\* The descriptors submit_read and submit_write take from the free ones
Allocated(chain) == {chain[1], chain[2], chain[3]}

\* The lowest free descriptors, in order: three calls of alloc_desc
Lowest(S) ==
    LET a == Min(S)
        b == Min(S \ {a})
    IN  <<a, b, Min(S \ {a, b})>>

\* submit_read, submit_write; a chain that is not complete is given back
Submit(f) ==
    /\ futPc[f] = "new" /\ f \in woken
    /\ woken' = woken \ {f}
    /\ IF \E a, b, c \in freeBitmap : a < b /\ b < c
       THEN LET chain == Lowest(freeBitmap) IN
            /\ freeBitmap' = freeBitmap \ Allocated(chain)
            /\ descNext' = [descNext EXCEPT ![chain[1]] = chain[2], ![chain[2]] = chain[3],
                                            ![chain[3]] = 0]
            /\ avail' = avail \cup {chain[1]}
            /\ descId' = [descId EXCEPT ![f] = chain[1]]
            /\ futPc' = [futPc EXCEPT ![f] = "register"]
       ELSE /\ futPc' = [futPc EXCEPT ![f] = "full"]
            /\ UNCHANGED <<freeBitmap, descNext, avail, descId>>
    /\ UNCHANGED <<used, lastUsed, wakers, served>>

\* Register waker: after the submission, and again before Pending
Register(f) ==
    /\ futPc[f] \in {"register", "again"}
    /\ wakers' = [wakers EXCEPT ![descId[f]] = f]
    /\ futPc' = [futPc EXCEPT ![f] = IF @ = "register" THEN "check" ELSE "pending"]
    /\ UNCHANGED <<freeBitmap, descNext, avail, used, lastUsed, descId, woken, served>>

Repoll(f) ==
    /\ futPc[f] = "pending" /\ f \in woken
    /\ woken' = woken \ {f}
    /\ futPc' = [futPc EXCEPT ![f] = "check"]
    /\ UNCHANGED <<freeBitmap, descNext, avail, used, lastUsed, wakers, descId, served>>

\* Faulty variant: any completion makes the future that finds it ready.
IsMineAny(f, id) == TRUE

IsMine(f, id) == id = descId[f]

\* Check for completion: poll_completions takes the next one, whose ever it is.
Check(f) ==
    /\ futPc[f] = "check"
    /\ IF lastUsed = Len(used)
       THEN futPc' = [futPc EXCEPT ![f] = "again"] /\ UNCHANGED lastUsed
       ELSE /\ lastUsed' = lastUsed + 1
            /\ futPc' = [futPc EXCEPT ![f] =
                            IF IsMine(f, used[lastUsed + 1]) THEN "ready" ELSE "again"]
    /\ UNCHANGED <<freeBitmap, descNext, avail, used, wakers, descId, woken, served>>

\* handle_interrupt, one turn of its loop: free_desc and wake
Interrupt ==
    /\ lastUsed < Len(used)
    /\ LET id == used[lastUsed + 1] IN
       /\ lastUsed' = lastUsed + 1
       /\ freeBitmap' = freeBitmap \cup {id}
       /\ woken' = woken \cup ({wakers[id]} \ {0})
       /\ wakers' = [wakers EXCEPT ![id] = 0]
    /\ UNCHANGED <<descNext, avail, used, futPc, descId, served>>

\* The future whose request a head in the device's hands stands for
Waits(f, h) == descId[f] = h /\ f \notin served /\ futPc[f] # "new"

\* The device completes a request: its effect, then the used element.
DeviceCompletes(h) ==
    /\ h \in avail
    /\ avail' = avail \ {h}
    /\ used' = Append(used, h)
    /\ served' = served \cup {f \in Futures : Waits(f, h)}
    /\ UNCHANGED <<freeBitmap, descNext, lastUsed, wakers, futPc, descId, woken>>

Next ==
    \/ \E f \in Futures : Submit(f) \/ Register(f) \/ Repoll(f) \/ Check(f)
    \/ Interrupt
    \/ \E h \in Descs : DeviceCompletes(h)

Spec == Init /\ [][Next]_vars

------------------------------------------------------------------------------
\* What the device reads from the table for a head
Chain(h) == <<h, descNext[h], descNext[descNext[h]]>>
ChainSet(h) == {Chain(h)[i] : i \in 1 .. 3}

TypeOK ==
    /\ freeBitmap \subseteq Descs /\ avail \subseteq Descs /\ used \in Seq(Descs)
    /\ wakers \in [Descs -> Futures \cup {0}]
    /\ descNext \in [Descs -> Descs] /\ lastUsed \in 0 .. Len(used)

\* Until the device has completed a request its chain is three descriptors
\* that are neither free nor part of another chain the device holds, so no
\* submission rewrites them under it (alloc_desc, free_desc, handle_interrupt).
ChainsApart ==
    \A h \in avail :
        /\ Cardinality(ChainSet(h)) = 3 /\ ChainSet(h) \cap freeBitmap = {}
        /\ \A g \in avail \ {h} : ChainSet(g) \cap ChainSet(h) = {}

\* A future is ready only after the device has completed its own request, even
\* though futures and the handler take each other's completions and head
\* numbers are used again (the comparison with desc_id in poll).
ReadyMeansServed == \A f \in Futures : futPc[f] = "ready" => f \in served
=============================================================================
