----------------------------- MODULE FrameBuddy -----------------------------
(***************************************************************************)
(* BuddyFrameAllocator of src/mm/buddy_allocator.rs: physical frames in    *)
(* blocks of 2^order, over usable regions with holes between them.  Each   *)
(* free list is an array used as a stack, of limited length: a push on a   *)
(* full list is dropped.  A bitmap and a count of the free frames are kept *)
(* beside the lists.  Every operation runs under an IrqMutex, so each is   *)
(* one action.  `blocks' records what the callers hold.                    *)
(***************************************************************************)
EXTENDS Integers, Sequences, FiniteSets, SequencesExt, FiniteSetsExt

CONSTANTS Regions,   \* the usable regions: a sequence of <<start, end>>, end excluded
          MaxOrder,
          ListCap,   \* entries of a free list (8192)
          Orders     \* orders that callers ask for: 4 KiB, 2 MiB, 1 GiB

FrameAssumption ==
    /\ Regions \in Seq(Nat \X Nat) /\ Len(Regions) > 0
    /\ MaxOrder \in Nat /\ ListCap \in Nat /\ Orders \subseteq Nat

VARIABLES free, bitmap, freeFrames, blocks

vars == <<free, bitmap, freeFrames, blocks>>

Size(order) == 2 ^ order
Frames(f, order) == f .. (f + Size(order) - 1)
Usable == UNION {r[1] .. (r[2] - 1) : r \in Range(Regions)}
TotalFrames == Max({r[2] : r \in Range(Regions)})

------------------------------------------------------------------------------
(* FreeList *)

Push(list, f) == IF Len(list) < ListCap THEN Append(list, f) ELSE list

Pop(list) == Front(list)

\* remove: the last entry takes the place of the one removed.
RemoveEntry(list, f) ==
    LET i == SelectInSeq(list, LAMBDA g : g = f)
    IN Front(ReplaceAt(list, i, Last(list)))

------------------------------------------------------------------------------
(* init and add_region *)

\* The largest aligned block that starts at c and ends in the region.
OrderAt(c, end) ==
    Max({o \in 0..MaxOrder : c % Size(o) = 0 /\ c + Size(o) <= end})

\* The blocks add_region cuts a region into, as <<frame, order>>.
Cut(r) ==
    LET cut[c \in r[1]..r[2]] ==
          IF c = r[2] THEN <<>>
          ELSE <<<<c, OrderAt(c, r[2])>>>> \o cut[c + Size(OrderAt(c, r[2]))]
    IN cut[r[1]]

Init ==
    /\ free = FoldLeft(LAMBDA lists, b : [lists EXCEPT ![b[2]] = Push(@, b[1])],
                       [o \in 0..MaxOrder |-> <<>>],
                       FlattenSeq([i \in DOMAIN Regions |-> Cut(Regions[i])]))
    /\ bitmap = Usable               \* the frames whose bit says free
    /\ freeFrames = Cardinality(Usable)
    /\ blocks = [f \in {} |-> 0]

------------------------------------------------------------------------------
(* allocate_order *)

\* The least order not below the request whose list is not empty.
Serving(order) == {o \in order..MaxOrder : free[o] # <<>>}

\* Faulty variant: only the first frame of the block is marked as used.
MarkUsedFirst(f, order) == bitmap \ {f}

MarkUsed(f, order) == bitmap \ Frames(f, order)

\* pop, then split_block: the upper half is pushed at every order below.
AllocateOrder(order) ==
    LET from == Min(Serving(order))
        f == Last(free[from])
    IN /\ Serving(order) # {}
       /\ free' = [o \in 0..MaxOrder |->
                     IF o = from THEN Pop(free[o])
                     ELSE IF order <= o /\ o < from THEN Push(free[o], f + Size(o))
                     ELSE free[o]]
       /\ bitmap' = MarkUsed(f, order)
       /\ freeFrames' = freeFrames - Size(order)
       /\ blocks' = [g \in DOMAIN blocks \cup {f} |-> IF g = f THEN order ELSE blocks[g]]

------------------------------------------------------------------------------
(* deallocate_order *)

\* FrameIndex::buddy (exclusive or with the size) and align_down.
Buddy(f, o) == IF (f \div Size(o)) % 2 = 0 THEN f + Size(o) ELSE f - Size(o)
AlignDown(f, o) == (f \div Size(o)) * Size(o)

\* is_buddy_free, on the bitmap, and the removal from the list, which fails
\* when the buddy is free only in smaller pieces.  `map' is the bitmap.
CanMerge(f, o, map) ==
    LET buddy == Buddy(AlignDown(f, o), o)
    IN /\ buddy + Size(o) <= TotalFrames
       /\ Frames(buddy, o) \subseteq map
       /\ buddy \in Range(free[o])

\* Faulty variant: merging goes on without looking for the buddy.
MergeLimitBlind(f, order, map) ==
    Min({o \in order..MaxOrder :
           o = MaxOrder \/ Buddy(AlignDown(f, o), o) + Size(o) > TotalFrames})

\* The order at which the loop of coalesce stops.
MergeLimit(f, order, map) ==
    Min({o \in order..MaxOrder : o = MaxOrder \/ ~CanMerge(f, o, map)})

FreedCount(order) == freeFrames + Size(order)

DeallocateOrder(f) ==
    LET order == blocks[f]
        map == bitmap \cup Frames(f, order)
        top == MergeLimit(f, order, map)
    IN /\ f \in DOMAIN blocks
       /\ bitmap' = map
       /\ freeFrames' = FreedCount(order)
       /\ free' = [o \in 0..MaxOrder |->
                     IF o = top THEN Push(free[o], AlignDown(f, o))
                     ELSE IF order <= o /\ o < top
                          THEN LET buddy == Buddy(AlignDown(f, o), o)
                               IN IF buddy \in Range(free[o])
                                  THEN RemoveEntry(free[o], buddy) ELSE free[o]
                     ELSE free[o]]
       /\ blocks' = [g \in DOMAIN blocks \ {f} |-> blocks[g]]

Next ==
    \/ \E order \in Orders : AllocateOrder(order)
    \/ \E f \in Usable : DeallocateOrder(f)

Spec == Init /\ [][Next]_vars

------------------------------------------------------------------------------
(* Properties *)

\* Blocks as pairs of first frame and order.
FreeSet == UNION {{<<f, o>> : f \in Range(free[o])} : o \in 0..MaxOrder}
HeldSet == {<<f, blocks[f]>> : f \in DOMAIN blocks}

\* No frame is handed out twice and none is lost: each usable frame is in
\* exactly one free or allocated block, and no block reaches into a hole.
EveryFrameOnce ==
    /\ \A f \in Usable :
         Cardinality({b \in FreeSet \cup HeldSet : f \in Frames(b[1], b[2])}) = 1
    /\ \A b \in FreeSet \cup HeldSet : Frames(b[1], b[2]) \subseteq Usable
    /\ FreeSet \cap HeldSet = {}
    /\ \A o \in 0..MaxOrder : IsInjective(free[o])

\* The bitmap, the count and the lists tell the same story: a frame is marked
\* free exactly when it is on a list, and free_frames counts those frames.
BookkeepingAgrees ==
    /\ bitmap = UNION {Frames(b[1], b[2]) : b \in FreeSet}
    /\ freeFrames = Cardinality(bitmap)

\* Free memory is always merged as far as the regions allow: no two buddies
\* are free at the same order.
FullyMerged ==
    \A b \in FreeSet : b[2] < MaxOrder => <<Buddy(b[1], b[2]), b[2]>> \notin FreeSet

Abstract == INSTANCE Allocator WITH
    Space <- Usable,
    Sizes <- {Size(order) : order \in Orders},
    blocks <- [f \in DOMAIN blocks |-> Size(blocks[f])]

\* The frame allocator implements the Allocator over the usable frames.
ImplementsAllocator == Abstract!Spec
=============================================================================
