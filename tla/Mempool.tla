------------------------------ MODULE Mempool ------------------------------
(***************************************************************************)
(* The packet buffer pool of src/net/mempool.rs.  Handles are the          *)
(* identities of PacketRef values, any number of them on any threads; the  *)
(* steps of alloc (pop under the free list's lock, then the stores to the  *)
(* buffer) and of drop (the decrement, then the push) interleave freely.   *)
(* The free list is a Vec, so a buffer could be in it twice: inList counts *)
(* it.  Its order, the contents of a buffer and the statistics are left    *)
(* out.  PerCoreMempoolCache is not used: nothing calls its free.          *)
(***************************************************************************)
EXTENDS Integers, FiniteSets

CONSTANTS Buffers, Handles

ASSUME MempoolAssumption == IsFiniteSet(Handles)

VARIABLES inList,      \* free_list: how often each buffer is in it
          refCount,
          handleSt,    \* none, popped, live, released
          handleBuf    \* the buffer of a handle that is not none

poolVars == <<inList, refCount, handleSt, handleBuf>>

\* After init: every buffer is in the list, with count 0.
PoolInit ==
    /\ inList = [b \in Buffers |-> 1]
    /\ refCount = [b \in Buffers |-> 0]
    /\ handleSt = [h \in Handles |-> "none"]
    /\ handleBuf \in [Handles -> Buffers]

\* alloc, first half: pop
Pop(h, b) ==
    /\ handleSt[h] = "none" /\ inList[b] > 0
    /\ inList' = [inList EXCEPT ![b] = @ - 1]
    /\ handleSt' = [handleSt EXCEPT ![h] = "popped"]
    /\ handleBuf' = [handleBuf EXCEPT ![h] = b]
    /\ UNCHANGED refCount

\* alloc, second half: the count is stored, the PacketRef returned
Deliver(h) ==
    /\ handleSt[h] = "popped"
    /\ refCount' = [refCount EXCEPT ![handleBuf[h]] = 1]
    /\ handleSt' = [handleSt EXCEPT ![h] = "live"]
    /\ UNCHANGED <<inList, handleBuf>>

\* clone_ref
CloneRef(h, g) ==
    /\ handleSt[h] = "live" /\ handleSt[g] = "none"
    /\ refCount' = [refCount EXCEPT ![handleBuf[h]] = @ + 1]
    /\ handleSt' = [handleSt EXCEPT ![g] = "live"]
    /\ handleBuf' = [handleBuf EXCEPT ![g] = handleBuf[h]]
    /\ UNCHANGED inList

\* Faulty variant: the count is compared after another owner's decrement.
ReleaseTwo(h) ==
    LET b == handleBuf[h] IN
    /\ handleSt[h] = "live"
    /\ refCount' = [refCount EXCEPT ![b] = @ - 1]
    /\ handleSt' = [handleSt EXCEPT ![h] = IF refCount[b] <= 2 THEN "released" ELSE "none"]
    /\ UNCHANGED <<inList, handleBuf>>

\* drop, first half: release
Release(h) ==
    LET b == handleBuf[h] IN
    /\ handleSt[h] = "live"
    /\ refCount' = [refCount EXCEPT ![b] = @ - 1]
    /\ handleSt' = [handleSt EXCEPT ![h] = IF refCount[b] = 1 THEN "released" ELSE "none"]
    /\ UNCHANGED <<inList, handleBuf>>

\* drop, second half, of the last reference: return_buffer
ReturnBuffer(h) ==
    /\ handleSt[h] = "released"
    /\ inList' = [inList EXCEPT ![handleBuf[h]] = @ + 1]
    /\ handleSt' = [handleSt EXCEPT ![h] = "none"]
    /\ UNCHANGED <<refCount, handleBuf>>

PoolNext ==
    \E h \in Handles :
        \/ \E b \in Buffers : Pop(h, b)
        \/ Deliver(h)
        \/ \E g \in Handles : CloneRef(h, g)
        \/ Release(h)
        \/ ReturnBuffer(h)

PoolSpec == PoolInit /\ [][PoolNext]_poolVars

------------------------------------------------------------------------------
Live(b) == {h \in Handles : handleSt[h] = "live" /\ handleBuf[h] = b}
InTransit(h, b) == handleSt[h] \in {"popped", "released"} /\ handleBuf[h] = b

PoolTypeOK ==
    /\ inList \in [Buffers -> Int] /\ refCount \in [Buffers -> Int]
    /\ handleSt \in [Handles -> {"none", "popped", "live", "released"}]
    /\ handleBuf \in [Handles -> Buffers]

BufferSound(b) ==
    /\ inList[b] \in {0, 1}
    /\ Live(b) # {} => refCount[b] = Cardinality(Live(b))
    /\ inList[b] = 1 => Live(b) = {} /\ \A h \in Handles : ~InTransit(h, b)
    /\ \A h, g \in Handles : InTransit(h, b) /\ InTransit(g, b) => h = g
    /\ (\E h \in Handles : InTransit(h, b)) => Live(b) = {}
    /\ inList[b] = 0 => Live(b) # {} \/ \E h \in Handles : InTransit(h, b)

\* No buffer is handed out twice or lost: the reference count of a buffer in
\* use is the number of PacketRefs to it, and a buffer is in exactly one place,
\* once in the free list, on its way in or out of it by one handle, or in use.
PoolSound == \A b \in Buffers : BufferSound(b)

=============================================================================
