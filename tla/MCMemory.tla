------------------------------ MODULE MCMemory ------------------------------
(*****************************************************************************)
(* The owners of memory, for TLC: the heap registry under arbitrary          *)
(* callers, RRef with a registry and a heap, the three allocators, the       *)
(* packet pool and the page tables.  A behaviour exercises one of them:      *)
(* `subject', chosen at the start.  The exchange heap counts in units of     *)
(* four bytes: a header is four units, aligned to two, and the layouts are   *)
(* of 20 bytes aligned to 4, of 8 bytes aligned to 8 and of 32 bytes         *)
(* aligned to 16.  The buddy heap has nine of its smallest blocks, which     *)
(* is not a power of two, and one of the orders asked for is too large.      *)
(* The frame allocator has two regions with a hole between them, and lists   *)
(* that hold all the blocks.                                                 *)
(*****************************************************************************)
EXTENDS HeapRegistry, Mempool, TLC

CONSTANTS Refs

VARIABLES subject,
          rrefObjects, rrefIndex, rrefNextGeneration, rrefRegistered, rrefFreed,
          rrefBlocks, pc, ptr, size, owner, orphaned,
          exchFree, exchBlocks, allocatedBytes,
          heapFree, heapBlocks,
          frmFree, bitmap, freeFrames, frmBlocks,
          tables, usedTables

SomeAddr == 0..3
SomeSizes == {0, 1, 3}
RefSizes == {0, 2}
Layouts == {<<5, 1>>, <<2, 2>>, <<8, 4>>}
BuddyOrders == {0, 1, 2, 4}
TwoRegions == <<<<3, 8>>, <<10, 14>>>>
Offsets == {0, 1}
PageFlags == {{}, {"w"}}

Symmetric == Permutations(Refs)

RRef == INSTANCE RRefHeap WITH
    Sizes <- RefSizes, MaxGen <- 5, MinBlock <- 1, objects <- rrefObjects,
    index <- rrefIndex, nextGeneration <- rrefNextGeneration,
    registered <- rrefRegistered, freed <- rrefFreed, blocks <- rrefBlocks

Exchange == INSTANCE ExchangeHeap WITH
    HeapStart <- 0, HeapSize <- 26, HeaderSize <- 4, HeaderAlign <- 2, SplitSlack <- 4,
    free <- exchFree, blocks <- exchBlocks

KernelHeap == INSTANCE BuddyHeap WITH
    HeapStart <- 16, HeapSize <- 9, MaxOrder <- 3, Orders <- BuddyOrders,
    free <- heapFree, blocks <- heapBlocks

FrameAlloc == INSTANCE FrameBuddy WITH
    Regions <- TwoRegions, MaxOrder <- 3, ListCap <- 7, Orders <- 0 .. 2,
    free <- frmFree, blocks <- frmBlocks

Tables == INSTANCE PageTables WITH
    Fan <- 2, MaxTables <- 4, MaxPage <- 4, Flags <- PageFlags

ASSUME ComponentAssumptions ==
    /\ Exchange!HeapAssumption
    /\ KernelHeap!BuddyAssumption
    /\ FrameAlloc!FrameAssumption
    /\ Tables!PageTablesAssumption

rrefVars == <<rrefObjects, rrefIndex, rrefNextGeneration, rrefRegistered, rrefFreed,
              rrefBlocks, pc, ptr, size, owner, orphaned>>
exchVars == <<exchFree, exchBlocks, allocatedBytes>>
heapVars == <<heapFree, heapBlocks>>
frmVars == <<frmFree, bitmap, freeFrames, frmBlocks>>
ptVars == <<tables, usedTables>>
allVars == <<subject, registryVars, poolVars, rrefVars, exchVars, heapVars, frmVars,
             ptVars>>

MemoryInit ==
    /\ subject \in {"registry", "pool", "rref", "exchange", "kernelHeap", "frames",
                   "tables"}
    /\ Init /\ PoolInit /\ RRef!Init /\ Exchange!Init
    /\ KernelHeap!Init /\ FrameAlloc!Init /\ Tables!Init
    /\ subject # "pool" => handleBuf = [h \in Handles |-> CHOOSE b \in Buffers : TRUE]

OnlyRegistry == UNCHANGED <<subject, poolVars, rrefVars, exchVars, heapVars, frmVars,
                            ptVars>>
OnlyPool == UNCHANGED <<subject, registryVars, rrefVars, exchVars, heapVars, frmVars,
                        ptVars>>
OnlyRRef == UNCHANGED <<subject, registryVars, poolVars, exchVars, heapVars, frmVars,
                        ptVars>>
OnlyExchange == UNCHANGED <<subject, registryVars, poolVars, rrefVars, heapVars,
                            frmVars, ptVars>>
OnlyKernelHeap == UNCHANGED <<subject, registryVars, poolVars, rrefVars, exchVars,
                              frmVars, ptVars>>
OnlyFrameAlloc == UNCHANGED <<subject, registryVars, poolVars, rrefVars, exchVars,
                              heapVars, ptVars>>
OnlyTables == UNCHANGED <<subject, registryVars, poolVars, rrefVars, exchVars, heapVars,
                          frmVars>>

MemoryNext ==
    \/ /\ subject = "registry"
       /\ \E a \in Addr, s \in Sizes, d \in Domains : nextGeneration < MaxGen /\ Register(a, s, d)
       /\ OnlyRegistry
    \/ /\ subject = "registry"
       /\ \E a \in Addr, d \in Domains : Unregister(a, d)
       /\ OnlyRegistry
    \/ subject = "registry" /\ (\E a \in Addr : UnregisterSimple(a)) /\ OnlyRegistry
    \/ /\ subject = "registry"
       /\ \E a \in Addr, d, e \in Domains : TransferOwnership(a, d, e)
       /\ OnlyRegistry
    \/ subject = "registry" /\ (\E a \in Addr : AddRef(a)) /\ OnlyRegistry
    \/ subject = "registry" /\ (\E a \in Addr : ReleaseRef(a)) /\ OnlyRegistry
    \/ subject = "registry" /\ (\E d \in Domains : ReclaimAll(d)) /\ OnlyRegistry
    \/ subject = "pool" /\ (\E h \in Handles, b \in Buffers : Pop(h, b)) /\ OnlyPool
    \/ subject = "pool" /\ (\E h \in Handles : Deliver(h)) /\ OnlyPool
    \/ subject = "pool" /\ (\E h, g \in Handles : CloneRef(h, g)) /\ OnlyPool
    \/ subject = "pool" /\ (\E h \in Handles : Release(h)) /\ OnlyPool
    \/ subject = "pool" /\ (\E h \in Handles : ReturnBuffer(h)) /\ OnlyPool
    \/ /\ subject = "rref"
       /\ \E r \in Refs, a \in Addr, s \in RefSizes, d \in Domains : RRef!NewAllocate(r, a, s, d)
       /\ OnlyRRef
    \/ subject = "rref" /\ (\E r \in Refs : RRef!NewRegister(r)) /\ OnlyRRef
    \/ subject = "rref" /\ (\E r \in Refs, d \in Domains : RRef!MoveTo(r, d)) /\ OnlyRRef
    \/ subject = "rref" /\ (\E r \in Refs : RRef!DropUnregister(r)) /\ OnlyRRef
    \/ subject = "rref" /\ (\E r \in Refs : RRef!DropFree(r)) /\ OnlyRRef
    \/ subject = "rref" /\ (\E d \in Domains : RRef!Reclaim(d)) /\ OnlyRRef
    \/ /\ subject = "exchange"
       /\ \E layout \in Layouts : Exchange!Allocate(layout)
       /\ OnlyExchange
    \/ subject = "exchange" /\ (\E a \in 0 .. 26 : Exchange!Deallocate(a)) /\ OnlyExchange
    \/ /\ subject = "kernelHeap"
       /\ \E order \in BuddyOrders : KernelHeap!Allocate(order)
       /\ OnlyKernelHeap
    \/ /\ subject = "kernelHeap"
       /\ \E a \in 16 .. 25 : KernelHeap!Deallocate(a)
       /\ OnlyKernelHeap
    \/ /\ subject = "frames"
       /\ \E order \in 0 .. 2 : FrameAlloc!AllocateOrder(order)
       /\ OnlyFrameAlloc
    \/ /\ subject = "frames"
       /\ \E f \in FrameAlloc!Usable : FrameAlloc!DeallocateOrder(f)
       /\ OnlyFrameAlloc
    \/ /\ subject = "tables"
       /\ \E v \in Tables!Virt, d \in Offsets, f \in PageFlags, leaf \in 0 .. 2 : Tables!MapPage(v, v + d, f, leaf)
       /\ OnlyTables
    \/ /\ subject = "tables"
       /\ \E r \in Tables!Ranges, d \in Offsets, f \in PageFlags : Tables!MapRange(r[1], r[1] + d, f, r[2])
       /\ OnlyTables
    \/ subject = "tables" /\ (\E v \in Tables!Virt : Tables!UnmapPage(v)) /\ OnlyTables
    \/ /\ subject = "tables"
       /\ \E v \in Tables!Virt, f \in PageFlags : Tables!UpdateFlags(v, f)
       /\ OnlyTables
    \/ /\ subject = "tables"
       /\ \E r \in Tables!Ranges : Tables!UnmapRange(r[1], r[2])
       /\ OnlyTables
    \/ subject \notin {"registry", "rref"} /\ UNCHANGED allVars

MemorySpec == MemoryInit /\ [][MemoryNext]_allVars

------------------------------------------------------------------------------
(* The properties of the components that are not in HeapRegistry and Mempool *)

\* RRef: whatever reclaims run between its steps, an RRef has a block of its own
\* from allocation to deallocation, each entry of the registry is the block of a
\* live RRef, the registration whose result new ignores cannot fail, and owner
\* field and registry name the same owner unless a reclaim took the entry.
RRefSound ==
    subject = "rref" => /\ RRef!HoldsItsBlock /\ RRef!EntriesAreLive
                        /\ RRef!RegistrationSucceeds /\ RRef!OwnersAgree

\* Exchange heap: free blocks lie in the heap, are large enough for a header
\* and overlap neither each other nor an allocated block, whatever paddings
\* and remainders first-fit left behind; used() is at least what is held, and
\* free() at least what is on the list.
\* Kernel heap: after any splits and merges the free and the allocated blocks
\* tile the heap, each is aligned to its own size, no two buddies are free at
\* once, and when all is given back the lists are as init left them.
\* Frame allocator: each usable frame is in exactly one free or allocated block,
\* the lists, the bitmap and the count tell the same story, and no two buddies
\* are free at once.
AllocatorsSound ==
    /\ subject = "exchange" => Exchange!FreeListSound /\ Exchange!UsedBrackets
    /\ subject = "kernelHeap" => /\ KernelHeap!Tiled /\ KernelHeap!SelfAligned
                                 /\ KernelHeap!FullyMerged /\ KernelHeap!FreedHeapIsWhole
    /\ subject = "frames" => /\ FrameAlloc!EveryFrameOnce /\ FrameAlloc!BookkeepingAgrees
                             /\ FrameAlloc!FullyMerged

\* What any of the three allocators returns lies in its heap or its regions and
\* overlaps no block that is still allocated.
AllocatorsImplement ==
    /\ Exchange!ImplementsAllocator /\ KernelHeap!ImplementsAllocator
    /\ FrameAlloc!ImplementsAllocator

\* Page tables: map, map_range, update_flags and unmap_range change exactly the
\* translations they are asked to, with pages of three sizes in one table.
TablesExact ==
    subject = "tables" => /\ Tables!MapExact /\ Tables!MapRangeExact
                          /\ Tables!FlagsExact /\ Tables!UnmapExact
=============================================================================
