------------------------------ MODULE RRefHeap ------------------------------
(***************************************************************************)
(* RRef<T> of src/ipc/rref.rs over its two shared structures, each behind  *)
(* a mutex of its own: the exchange heap that holds the values and the     *)
(* HeapRegistry that records their owners.  Creating an RRef allocates     *)
(* under one lock and registers under the other; dropping one unregisters  *)
(* and then frees.  Between the two steps other RRefs, and the reclamation *)
(* of a crashed or terminated domain, may run.                             *)
(*                                                                         *)
(* An RRef is owned by one thread at a time, so each RRef is its own       *)
(* process.  The exchange heap is the Allocator it implements.             *)
(***************************************************************************)
EXTENDS Integers, FiniteSets

CONSTANTS Addr, Sizes, Domains, MaxRef,
          MaxGen,     \* bound: registrations in one behaviour
          Refs,       \* RRef values
          MinBlock    \* size_of::<FreeBlock>, the smallest block

VARIABLES objects, index, nextGeneration, registered, freed, \* HEAP_REGISTRY
          blocks,                                            \* EXCHANGE_HEAP
          pc, ptr, size, owner, \* an RRef's progress and fields
          orphaned              \* RRefs whose registration a reclaim removed

Reg == INSTANCE HeapRegistry
Heap == INSTANCE Allocator WITH Space <- Addr

registryVars == <<objects, index, nextGeneration, registered, freed>>
vars == <<registryVars, blocks, pc, ptr, size, owner, orphaned>>

\* The fields of an RRef that does not exist.
NoPtr == CHOOSE a \in Addr : TRUE
NoSize == CHOOSE s \in Sizes : TRUE
NoOwner == CHOOSE d \in Domains : TRUE

Init ==
    /\ Reg!Init
    /\ Heap!Init
    /\ pc = [r \in Refs |-> "none"]
    /\ ptr = [r \in Refs |-> NoPtr]
    /\ size = [r \in Refs |-> NoSize]
    /\ owner = [r \in Refs |-> NoOwner]
    /\ orphaned = {}

BlockSize(s) == IF s < MinBlock THEN MinBlock ELSE s

------------------------------------------------------------------------------
(* RRef operations *)

\* RRef::new, first half: allocate_on_exchange.  When no block fits the code
\* panics (expect); the RRef is then never created.
NewAllocate(r, a, s, d) ==
    /\ pc[r] = "none"
    /\ nextGeneration < MaxGen
    /\ Heap!Allocate(a, BlockSize(s))
    /\ ptr' = [ptr EXCEPT ![r] = a]
    /\ size' = [size EXCEPT ![r] = s]
    /\ owner' = [owner EXCEPT ![r] = d]
    /\ pc' = [pc EXCEPT ![r] = "new"]
    /\ UNCHANGED <<registryVars, orphaned>>

\* RRef::new, second half: register_simple, whose error is ignored.
NewRegister(r) ==
    /\ pc[r] = "new"
    /\ IF Reg!CanRegister(ptr[r], size[r])
       THEN Reg!Register(ptr[r], size[r], owner[r])
       ELSE UNCHANGED registryVars
    /\ pc' = [pc EXCEPT ![r] = "live"]
    /\ UNCHANGED <<blocks, ptr, size, owner, orphaned>>

\* move_to: change_owner, whose error is ignored; the field changes anyway.
MoveTo(r, d) ==
    /\ pc[r] = "live"
    /\ IF Reg!CanTransfer(ptr[r], owner[r])
       THEN Reg!TransferOwnership(ptr[r], owner[r], d)
       ELSE UNCHANGED registryVars
    /\ owner' = [owner EXCEPT ![r] = d]
    /\ UNCHANGED <<blocks, pc, ptr, size, orphaned>>

\* Faulty variant: the memory is freed first and unregistered afterwards.
DropFreeFirst(r) ==
    /\ pc[r] = "live"
    /\ Heap!Free(ptr[r])
    /\ pc' = [pc EXCEPT ![r] = "dropping"]
    /\ UNCHANGED <<registryVars, ptr, size, owner, orphaned>>

\* Drop and into_inner, first half: unregister_simple.
DropUnregister(r) ==
    /\ pc[r] = "live"
    /\ Reg!UnregisterSimple(ptr[r])
    /\ pc' = [pc EXCEPT ![r] = "dropping"]
    /\ UNCHANGED <<blocks, ptr, size, owner, orphaned>>

\* The RRef is gone.
Vanish(r) ==
    /\ pc' = [pc EXCEPT ![r] = "none"]
    /\ ptr' = [ptr EXCEPT ![r] = NoPtr]
    /\ size' = [size EXCEPT ![r] = NoSize]
    /\ owner' = [owner EXCEPT ![r] = NoOwner]
    /\ orphaned' = orphaned \ {r}

\* Drop and into_inner, second half: deallocate_raw.
DropFree(r) ==
    /\ pc[r] = "dropping"
    /\ Heap!Free(ptr[r])
    /\ Vanish(r)
    /\ UNCHANGED registryVars

\* reclaim_domain_resources: called when a domain panics or is terminated.
\* It empties the registry of the domain's objects and frees no memory.
Reclaim(d) ==
    /\ Reg!ReclaimAll(d)
    /\ orphaned' = orphaned \cup
         {r \in Refs : pc[r] = "live" /\ ptr[r] \in DOMAIN objects \ DOMAIN objects'}
    /\ UNCHANGED <<blocks, pc, ptr, size, owner>>

Next ==
    \/ \E r \in Refs, a \in Addr, s \in Sizes, d \in Domains : NewAllocate(r, a, s, d)
    \/ \E r \in Refs : NewRegister(r)
    \/ \E r \in Refs, d \in Domains : MoveTo(r, d)
    \/ \E r \in Refs : DropUnregister(r)
    \/ \E r \in Refs : DropFree(r)
    \/ \E d \in Domains : Reclaim(d)

Spec == Init /\ [][Next]_vars

------------------------------------------------------------------------------
(* Properties *)

Held(r) == pc[r] # "none"

\* Every RRef that exists has its own allocated block, from allocation to
\* deallocation: no value is freed while its RRef lives, whatever reclaims
\* run, and no two RRefs share one.
HoldsItsBlock ==
    /\ \A r \in Refs : Held(r) => ptr[r] \in DOMAIN blocks
                                  /\ blocks[ptr[r]] = BlockSize(size[r])
    /\ \A r, q \in Refs : Held(r) /\ Held(q) /\ ptr[r] = ptr[q] => r = q

\* The registry never refers to freed memory: each entry is the block of
\* exactly one live RRef (register comes after the allocation, unregister
\* before the deallocation).
EntriesAreLive ==
    \A a \in DOMAIN objects :
        \E r \in Refs : pc[r] = "live" /\ ptr[r] = a /\ objects[a].size = size[r]

\* RRef::new ignores the result of the registration; it never fails, since
\* no stale entry is left over an address the heap hands out again.
RegistrationSucceeds ==
    \A r \in Refs : pc[r] = "new" => Reg!CanRegister(ptr[r], size[r])

\* The owner in the RRef and the owner in the registry are the same, unless
\* a reclaim has taken the RRef out of the registry.
OwnersAgree ==
    \A r \in Refs : pc[r] = "live" /\ r \notin orphaned =>
        ptr[r] \in DOMAIN objects /\ objects[ptr[r]].owner = owner[r]

=============================================================================
