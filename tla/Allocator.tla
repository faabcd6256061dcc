----------------------------- MODULE Allocator -----------------------------
(***************************************************************************)
(* What every allocator of the kernel promises: a block it hands out lies  *)
(* in its space and shares nothing with a block that is still allocated.   *)
(* The exchange heap and the buddy heap are shown to implement this.       *)
(***************************************************************************)
EXTENDS Integers

CONSTANTS Space,   \* the addresses that may be handed out
          Sizes    \* the sizes of the blocks that are asked for

VARIABLE blocks  \* allocated blocks: a function from address to size

Bytes(a, s) == a .. (a + s - 1)

Init == blocks = [a \in {} |-> 0]

Allocate(a, s) ==
    /\ s > 0
    /\ Bytes(a, s) \subseteq Space
    /\ \A b \in DOMAIN blocks : Bytes(a, s) \cap Bytes(b, blocks[b]) = {}
    /\ blocks' = [b \in DOMAIN blocks \cup {a} |-> IF b = a THEN s ELSE blocks[b]]

Free(a) ==
    /\ a \in DOMAIN blocks
    /\ blocks' = [b \in DOMAIN blocks \ {a} |-> blocks[b]]

Next ==
    \/ \E a \in Space, s \in Sizes : Allocate(a, s)
    \/ \E a \in Space : Free(a)

\* Both change the blocks; saying so first lets TLC pass over the steps of an
\* implementation that do not.
Spec == Init /\ [][blocks' # blocks /\ Next]_blocks
=============================================================================
