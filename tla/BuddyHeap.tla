----------------------------- MODULE BuddyHeap -----------------------------
(***************************************************************************)
(* BuddyHeapAllocator of src/memory.rs, the kernel's global allocator.     *)
(* Addresses and sizes are in units of MIN_BLOCK_SIZE; a block of order o  *)
(* has 2^o units.  A free list is a sequence, head first.  Every operation *)
(* runs under the mutex of LockedBuddyHeap and is one action.  `blocks'    *)
(* records what the callers hold, with the order their layout asks for:    *)
(* they give it back with the same layout (the contract of GlobalAlloc).   *)
(***************************************************************************)
EXTENDS Integers, Sequences, FiniteSets, SequencesExt, FiniteSetsExt

CONSTANTS HeapStart, HeapSize, \* the heap, in units
          MaxOrder,
          Orders               \* orders that callers ask for

BuddyAssumption ==
    /\ HeapStart \in Nat \ {0} /\ HeapSize \in Nat /\ MaxOrder \in Nat
    /\ Orders \subseteq 0..(MaxOrder + 1)

VARIABLES free, blocks

vars == <<free, blocks>>

HeapEnd == HeapStart + HeapSize
Size(order) == 2 ^ order

------------------------------------------------------------------------------
(* init *)

\* The order of the block that starts at c: the largest one that c is a
\* multiple of and that ends inside the heap.
OrderAt(c) ==
    Max({o \in 0..MaxOrder : c % Size(o) = 0 /\ c + Size(o) <= HeapEnd})

\* The blocks that init cuts the heap into, from address c on.
Tiles[c \in HeapStart..HeapEnd] ==
    IF c = HeapEnd THEN <<>> ELSE <<c>> \o Tiles[c + Size(OrderAt(c))]

InitialFree ==
    [o \in 0..MaxOrder |-> Reverse(SelectSeq(Tiles[HeapStart], LAMBDA c : OrderAt(c) = o))]

Init == free = InitialFree /\ blocks = [a \in {} |-> 0]

------------------------------------------------------------------------------
(* allocate *)

\* remove_from_free_list takes the head of the list of order `from';
\* split_block then frees the upper half at each order below, down to `to'.
SplitBlock(list, addr, from, to) ==
    [o \in 0..MaxOrder |->
       IF o = from THEN Tail(list[o])
       ELSE IF to <= o /\ o < from THEN <<addr + Size(o)>> \o list[o]
       ELSE list[o]]

\* The orders whose lists can serve a request; the search takes the least.
\* When there is none, or the request is above MAX_ORDER, null is returned.
Serving(order) == {o \in order..MaxOrder : free[o] # <<>>}

Allocate(order) ==
    LET from == Min(Serving(order))
        addr == Head(free[from])
    IN /\ Serving(order) # {}
       /\ free' = SplitBlock(free, addr, from, order)
       /\ blocks' = [a \in DOMAIN blocks \cup {addr} |->
                       IF a = addr THEN order ELSE blocks[a]]

------------------------------------------------------------------------------
(* deallocate *)

\* heap_start + (offset ^ block_size)
BuddyAddr(a, o) ==
    IF ((a - HeapStart) \div Size(o)) % 2 = 0 THEN a + Size(o) ELSE a - Size(o)

\* The address of the merged block when `a' has reached order o: the smaller
\* of two buddies at every step.
Merged(a, o) == HeapStart + ((a - HeapStart) \div Size(o)) * Size(o)

BuddyIsFree(a, o) == BuddyAddr(Merged(a, o), o) \in Range(free[o])

\* Faulty variant: a block is merged only once.
MergeLimitOnce(a, order) ==
    IF order < MaxOrder /\ BuddyIsFree(a, order) THEN order + 1 ELSE order

\* Where the loop of coalesce stops: at the first order whose buddy is not on
\* its free list, or at MAX_ORDER.
MergeLimit(a, order) ==
    Min({o \in order..MaxOrder : o = MaxOrder \/ ~BuddyIsFree(a, o)})

\* Faulty variant: the buddies are not taken off their lists.
CoalesceKeeping(a, order) ==
    LET top == MergeLimit(a, order)
    IN [o \in 0..MaxOrder |->
          IF o = top THEN <<Merged(a, o)>> \o free[o] ELSE free[o]]

\* coalesce: remove_specific on every order below the limit, then
\* add_to_free_list.
Coalesce(a, order) ==
    LET top == MergeLimit(a, order)
    IN [o \in 0..MaxOrder |->
          IF o = top THEN <<Merged(a, o)>> \o free[o]
          ELSE IF order <= o /\ o < top
               THEN SelectSeq(free[o], LAMBDA b : b # BuddyAddr(Merged(a, o), o))
               ELSE free[o]]

Deallocate(a) ==
    /\ a \in DOMAIN blocks
    /\ free' = Coalesce(a, blocks[a])
    /\ blocks' = [b \in DOMAIN blocks \ {a} |-> blocks[b]]

Next ==
    \/ \E order \in Orders : Allocate(order)
    \/ \E a \in HeapStart..HeapEnd : Deallocate(a)

Spec == Init /\ [][Next]_vars

------------------------------------------------------------------------------
(* Properties *)

Units(a, o) == a .. (a + Size(o) - 1)
\* Free blocks as pairs of address and order.
FreeSet == UNION {{<<a, o>> : a \in Range(free[o])} : o \in 0..MaxOrder}
HeldSet == {<<a, blocks[a]>> : a \in DOMAIN blocks}

\* At every moment the free and the allocated blocks tile the heap: each unit
\* is in exactly one of them.  Nothing is handed out twice and nothing is
\* lost, whatever is split and merged, and no block is on a list twice.
Tiled ==
    /\ \A u \in HeapStart..(HeapEnd - 1) :
         Cardinality({b \in FreeSet \cup HeldSet : u \in Units(b[1], b[2])}) = 1
    /\ \A b \in FreeSet \cup HeldSet : Units(b[1], b[2]) \subseteq HeapStart..(HeapEnd - 1)
    /\ FreeSet \cap HeldSet = {}
    /\ \A o \in 0..MaxOrder : IsInjective(free[o])

\* Every block is aligned to its own size: allocate relies on it to meet the
\* alignment of the layout ("aligned to its own size", memory.rs).
SelfAligned == \A b \in FreeSet \cup HeldSet : b[1] % Size(b[2]) = 0

\* No two buddies are free at once: the free memory is always merged as far
\* as it can be, in any order of deallocations.
FullyMerged ==
    \A b \in FreeSet : b[2] < MaxOrder => <<BuddyAddr(b[1], b[2]), b[2]>> \notin FreeSet

\* When all is given back the heap is as init left it.
FreedHeapIsWhole ==
    DOMAIN blocks = {} =>
        \A o \in 0..MaxOrder : Range(free[o]) = Range(InitialFree[o])

Abstract == INSTANCE Allocator WITH
    Space <- HeapStart..(HeapEnd - 1),
    Sizes <- {Size(order) : order \in Orders},
    blocks <- [a \in DOMAIN blocks |-> Size(blocks[a])]

\* The global allocator implements the Allocator.
ImplementsAllocator == Abstract!Spec
=============================================================================
