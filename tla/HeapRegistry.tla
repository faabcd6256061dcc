---------------------------- MODULE HeapRegistry ----------------------------
(***************************************************************************)
(* HeapRegistry of src/sas/heap_registry.rs: the table of heap objects     *)
(* with their owning domains that ipc/rref.rs, domain_system.rs and the    *)
(* SAS manager each keep one of, behind a mutex.  Every operation runs     *)
(* under that mutex, so each is one action; an operation that returns Err  *)
(* changes nothing and is a disabled action here.                          *)
(*                                                                         *)
(* `objects' is the BTreeMap, a function on the registered addresses;      *)
(* `index' is owner_index, where a vector of addresses is the number of    *)
(* times each address occurs in it: no operation depends on its order.     *)
(* type_id and the counts of transfers and access checks are left out.     *)
(***************************************************************************)
EXTENDS Integers, FiniteSets, Functions

CONSTANTS Addr,     \* addresses an object may be registered at
          Sizes,    \* sizes of the objects; 0 for a zero-sized type
          Domains,
          MaxRef,   \* u32::MAX, the largest ref_count
          MaxGen    \* bound: generations handed out in one behaviour

ASSUME RegistryAssumption ==
    /\ Addr \subseteq Nat
    /\ Sizes \subseteq Nat
    /\ MaxRef \in Nat \ {0}
    /\ MaxGen \in Nat

VARIABLES objects, index, nextGeneration, registered, freed

registryVars == <<objects, index, nextGeneration, registered, freed>>

Object == [size : Sizes, owner : Domains, generation : Nat, refCount : 0..MaxRef]

Init ==
    /\ objects = [a \in {} |-> 0]
    /\ index = [d \in Domains |-> [a \in Addr |-> 0]]
    /\ nextGeneration = 1
    /\ registered = 0
    /\ freed = 0

------------------------------------------------------------------------------
(* Lookups *)

\* Faulty variant: only the first byte of the new object is compared.
OverlapsAtStart(a, s) ==
    \E b \in DOMAIN objects : b <= a /\ a < b + objects[b].size

\* check_overlap: some registered range meets [a, a + s).
Overlaps(a, s) ==
    \E b \in DOMAIN objects : b < a + s /\ a < b + objects[b].size

\* range(..=p).rev().take(1): the nearest registered address not above p.
Nearest(p) ==
    {a \in DOMAIN objects : a <= p /\ \A b \in DOMAIN objects : b <= p => b <= a}

\* Faulty variant: the end of the range is taken to belong to it.
GetOwnerInclusive(p) ==
    IF p \in DOMAIN objects
    THEN {objects[p].owner}
    ELSE {objects[a].owner : a \in {b \in Nearest(p) : p <= b + objects[b].size}}

\* get_owner and the lookup of check_access; an Option is a set of at most
\* one element.
GetOwner(p) ==
    IF p \in DOMAIN objects
    THEN {objects[p].owner}
    ELSE {objects[a].owner : a \in {b \in Nearest(p) : p < b + objects[b].size}}

------------------------------------------------------------------------------
(* Operations *)

CanRegister(a, s) == a \notin DOMAIN objects /\ ~Overlaps(a, s)

\* register and register_simple.
Register(a, s, d) ==
    /\ CanRegister(a, s)
    /\ objects' = [b \in DOMAIN objects \cup {a} |->
                     IF b = a THEN [size |-> s, owner |-> d,
                                    generation |-> nextGeneration, refCount |-> 1]
                              ELSE objects[b]]
    /\ index' = [index EXCEPT ![d][a] = @ + 1]
    /\ nextGeneration' = nextGeneration + 1
    /\ registered' = registered + 1
    /\ freed' = freed

\* objects.remove and the retain on the owner's vector.
Remove(a) ==
    /\ objects' = Restrict(objects, DOMAIN objects \ {a})
    /\ index' = [index EXCEPT ![objects[a].owner][a] = 0]
    /\ freed' = freed + 1
    /\ UNCHANGED <<nextGeneration, registered>>

Unregister(a, d) ==
    /\ a \in DOMAIN objects
    /\ objects[a].owner = d
    /\ objects[a].refCount <= 1
    /\ Remove(a)

\* unregister_simple: neither owner nor references are looked at.
UnregisterSimple(a) ==
    IF a \in DOMAIN objects
    THEN Remove(a)
    ELSE UNCHANGED registryVars

CanTransfer(a, from) ==
    a \in DOMAIN objects /\ objects[a].owner = from /\ objects[a].refCount = 1

\* Faulty variant: the address stays in the old owner's vector.
TransferKeepingIndex(a, from, to) ==
    /\ CanTransfer(a, from)
    /\ objects' = [objects EXCEPT ![a].owner = to]
    /\ index' = [index EXCEPT ![to][a] = @ + 1]
    /\ UNCHANGED <<nextGeneration, registered, freed>>

\* transfer_ownership and change_owner: retain on one vector, then push on
\* the other, which may be the same one.
TransferOwnership(a, from, to) ==
    /\ CanTransfer(a, from)
    /\ objects' = [objects EXCEPT ![a].owner = to]
    /\ index' = [[index EXCEPT ![from][a] = 0] EXCEPT ![to][a] = @ + 1]
    /\ UNCHANGED <<nextGeneration, registered, freed>>

AddRef(a) ==
    /\ a \in DOMAIN objects
    /\ objects[a].refCount < MaxRef
    /\ objects' = [objects EXCEPT ![a].refCount = @ + 1]
    /\ UNCHANGED <<index, nextGeneration, registered, freed>>

\* The count may reach 0; the object stays registered.
ReleaseRef(a) ==
    /\ a \in DOMAIN objects
    /\ objects[a].refCount > 0
    /\ objects' = [objects EXCEPT ![a].refCount = @ - 1]
    /\ UNCHANGED <<index, nextGeneration, registered, freed>>

\* reclaim_all: every address of the domain's vector is removed, whatever
\* its references.
ReclaimAll(d) ==
    /\ objects' = Restrict(objects, {a \in DOMAIN objects : index[d][a] = 0})
    /\ index' = [index EXCEPT ![d] = [a \in Addr |-> 0]]
    /\ freed' = freed + FoldFunction(+, 0, index[d])
    /\ UNCHANGED <<nextGeneration, registered>>

Next ==
    \/ \E a \in Addr, s \in Sizes, d \in Domains :
         nextGeneration < MaxGen /\ Register(a, s, d)
    \/ \E a \in Addr, d \in Domains : Unregister(a, d)
    \/ \E a \in Addr : UnregisterSimple(a)
    \/ \E a \in Addr, d, e \in Domains : TransferOwnership(a, d, e)
    \/ \E a \in Addr : AddRef(a)
    \/ \E a \in Addr : ReleaseRef(a)
    \/ \E d \in Domains : ReclaimAll(d)

Spec == Init /\ [][Next]_registryVars

------------------------------------------------------------------------------
(* Properties *)

\* The table holds well-formed objects; a reference count neither passes
\* u32::MAX nor wraps below 0 (checked_add and checked_sub).
TypeOK ==
    /\ DOMAIN objects \subseteq Addr
    /\ objects \in [DOMAIN objects -> Object]
    /\ index \in [Domains -> [Addr -> Nat]]
    /\ nextGeneration \in Nat

\* owner_index and objects agree after any sequence of registrations,
\* transfers and removals: a domain's vector lists exactly the objects it
\* owns, each once.  reclaim_all relies on it to free all and only those.
IndexExact ==
    \A d \in Domains, a \in Addr :
        index[d][a] = IF a \in DOMAIN objects /\ objects[a].owner = d THEN 1 ELSE 0

\* No two registered objects share a byte, and none starts inside another,
\* zero-sized ones included: what check_overlap is for.
Disjoint ==
    \A a, b \in DOMAIN objects : a < b => a + objects[a].size <= b

\* p is an address of the object registered at a.
Covers(a, p) == a = p \/ (a <= p /\ p < a + objects[a].size)

\* get_owner and check_access look only at the nearest object below an
\* address; they still find the owner of whatever object contains it.
LookupExact ==
    \A p \in Addr :
        GetOwner(p) = {objects[a].owner : a \in {b \in DOMAIN objects : Covers(b, p)}}

\* No two live objects carry the same generation, and none carries one that
\* register has still to hand out.
GenerationsUnique ==
    /\ \A a \in DOMAIN objects : objects[a].generation < nextGeneration
    /\ \A a, b \in DOMAIN objects :
         objects[a].generation = objects[b].generation => a = b

\* The inductive invariant.
RegistryInv == TypeOK /\ IndexExact /\ Disjoint /\ GenerationsUnique
=============================================================================
