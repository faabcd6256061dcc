---------------------------- MODULE ExchangeHeap ----------------------------
(***************************************************************************)
(* SimpleFreeListHeap of src/mm/exchange_heap.rs, the allocator behind     *)
(* every RRef.  All of it runs under one mutex, so an operation is one     *)
(* action.  The free list is a sequence of blocks, head first; the header  *)
(* of a free block is stored in the block itself.  `blocks' records what   *)
(* the callers hold: they give a block back with the layout they asked     *)
(* for, as the safety contract of deallocate demands.                      *)
(***************************************************************************)
EXTENDS Integers, Sequences, FiniteSets, SequencesExt, Functions

CONSTANTS HeapStart, HeapSize,
          HeaderSize,    \* size_of::<FreeBlock>()
          HeaderAlign,   \* align_of::<FreeBlock>()
          SplitSlack,    \* the 16 bytes a remainder must have beyond a header
          Layouts        \* the layouts asked for: pairs of size and alignment

HeapAssumption ==
    /\ HeapStart \in Nat /\ HeapSize \in Nat
    /\ HeaderSize \in Nat \ {0} /\ HeaderAlign \in Nat \ {0} /\ SplitSlack \in Nat
    /\ HeapSize >= HeaderSize
    /\ Layouts \subseteq Nat \X (Nat \ {0})

VARIABLES free, blocks, allocatedBytes

vars == <<free, blocks, allocatedBytes>>

HeapEnd == HeapStart + HeapSize

Init ==
    /\ free = <<[addr |-> HeapStart, size |-> HeapSize]>>
    /\ blocks = [a \in {} |-> 0]
    /\ allocatedBytes = 0

MaxOf(x, y) == IF x < y THEN y ELSE x

\* (addr + align - 1) & !(align - 1), for an alignment that is a power of two.
AlignUp(a, align) == ((a + align - 1) \div align) * align

\* Faulty variant: the padding is left out of the space a request needs.
NeededUnpadded(b, size, align) == size

\* total_needed: the padding up to the aligned address, and the size.
Needed(b, size, align) == (AlignUp(b.addr, align) - b.addr) + size

\* The first block of the list that a request fits in; 0 when there is none.
FirstFit(size, align) ==
    SelectInSeq(free, LAMBDA b : b.size >= Needed(b, size, align))

\* What becomes of the chosen block: the remainder stays in its place in the
\* list when it is large enough, and otherwise goes with the allocation.
Carve(i, size, align) ==
    LET b == free[i]
        remaining == b.size - Needed(b, size, align)
    IN IF remaining >= HeaderSize + SplitSlack
       THEN ReplaceAt(free, i, [addr |-> AlignUp(b.addr, align) + size, size |-> remaining])
       ELSE RemoveAt(free, i)

\* allocate_first_fit.
Allocate(layout) ==
    LET size == MaxOf(layout[1], HeaderSize)
        align == MaxOf(layout[2], HeaderAlign)
        i == FirstFit(size, align)
        a == AlignUp(free[i].addr, align)
    IN /\ i # 0
       /\ free' = Carve(i, size, align)
       /\ blocks' = [b \in DOMAIN blocks \cup {a} |-> IF b = a THEN size ELSE blocks[b]]
       /\ allocatedBytes' = allocatedBytes + Needed(free[i], size, align)

\* Faulty variant: the count is left as it is.
DeallocateUncounted(a) ==
    /\ a \in DOMAIN blocks
    /\ free' = <<[addr |-> a, size |-> blocks[a]]>> \o free
    /\ blocks' = Restrict(blocks, DOMAIN blocks \ {a})
    /\ UNCHANGED allocatedBytes

\* deallocate: the block goes to the head of the list, without merging.
\* saturating_sub keeps the count from going below 0.
Deallocate(a) ==
    /\ a \in DOMAIN blocks
    /\ free' = <<[addr |-> a, size |-> blocks[a]]>> \o free
    /\ blocks' = Restrict(blocks, DOMAIN blocks \ {a})
    /\ allocatedBytes' = MaxOf(allocatedBytes - blocks[a], 0)

Next ==
    \/ \E layout \in Layouts : Allocate(layout)
    \/ \E a \in HeapStart..HeapEnd : Deallocate(a)

Spec == Init /\ [][Next]_vars

------------------------------------------------------------------------------
(* Properties *)

Bytes(a, s) == a .. (a + s - 1)
Free(i) == Bytes(free[i].addr, free[i].size)

\* The list never hands out memory twice: its blocks lie in the heap, are
\* large enough for their own header, and share no byte with one another or
\* with an allocated block, whatever paddings and remainders splits left.
FreeListSound ==
    /\ \A i \in DOMAIN free : /\ Free(i) \subseteq Bytes(HeapStart, HeapSize)
                              /\ free[i].size >= HeaderSize
    /\ \A i, j \in DOMAIN free : i # j => Free(i) \cap Free(j) = {}
    /\ \A i \in DOMAIN free, a \in DOMAIN blocks :
         Free(i) \cap Bytes(a, blocks[a]) = {}

Abstract == INSTANCE Allocator WITH
    Space <- Bytes(HeapStart, HeapSize),
    Sizes <- {MaxOf(layout[1], HeaderSize) : layout \in Layouts}

\* The heap implements the Allocator: what first-fit returns is inside the
\* heap and disjoint from every block still allocated.
ImplementsAllocator == Abstract!Spec

\* used() and free() bracket the truth although paddings are never given back:
\* at least the bytes held are in use, and at least the bytes on the list are
\* free.
UsedBrackets ==
    /\ MapThenSumSet(LAMBDA a : blocks[a], DOMAIN blocks) <= allocatedBytes
    /\ MapThenSumSet(LAMBDA i : free[i].size, DOMAIN free) <= HeapSize - allocatedBytes
=============================================================================
