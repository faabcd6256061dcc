----------------------------- MODULE MemoryMap -----------------------------
(***************************************************************************)
(* The three allocators that memory::init (src/memory.rs) sets up over the *)
(* same physical memory: the global heap, the exchange heap and the frame  *)
(* allocator.  Each is the Allocator it implements, over the space it is   *)
(* given; the heaps are reached through the physical memory offset, so a   *)
(* unit of a heap is the same memory as the frame unit of that number.     *)
(***************************************************************************)
EXTENDS Integers

CONSTANTS HeapSpace,     \* heap_start(), HEAP_SIZE
          ExchangeSpace, \* exchange_heap_start(), EXCHANGE_HEAP_SIZE
          FrameSpace,    \* get_default_memory_regions()
          Sizes          \* the sizes asked for, in units

VARIABLES initialized, heap, exchange, frames

vars == <<initialized, heap, exchange, frames>>

Heap == INSTANCE Allocator WITH Space <- HeapSpace, blocks <- heap
Exchange == INSTANCE Allocator WITH Space <- ExchangeSpace, blocks <- exchange
FrameAlloc == INSTANCE Allocator WITH Space <- FrameSpace, blocks <- frames

Init == initialized = 0 /\ Heap!Init /\ Exchange!Init /\ FrameAlloc!Init

\* init: the global heap, then the frame allocator, then the exchange heap;
\* MEMORY_INITIALIZED lets it run once.
InitStep ==
    /\ initialized < 3
    /\ initialized' = initialized + 1
    /\ UNCHANGED <<heap, exchange, frames>>

HeapStep == initialized >= 1 /\ Heap!Next /\ UNCHANGED <<initialized, exchange, frames>>
FrameStep == initialized >= 2 /\ FrameAlloc!Next /\ UNCHANGED <<initialized, heap, exchange>>
ExchangeStep == initialized = 3 /\ Exchange!Next /\ UNCHANGED <<initialized, heap, frames>>

Next == InitStep \/ HeapStep \/ FrameStep \/ ExchangeStep

Spec == Init /\ [][Next]_vars

------------------------------------------------------------------------------
(* Properties *)

Taken(blocks) == UNION {a .. (a + blocks[a] - 1) : a \in DOMAIN blocks}

\* No memory is handed out by two allocators at once ("this region must not
\* overlap with another allocator", exchange_heap.rs).
AllocatorsApart ==
    /\ Taken(heap) \cap Taken(frames) = {}
    /\ Taken(exchange) \cap Taken(frames) = {}
    /\ Taken(heap) \cap Taken(exchange) = {}
=============================================================================
