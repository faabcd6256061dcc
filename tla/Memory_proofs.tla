--------------------------- MODULE Memory_proofs ---------------------------
(***************************************************************************)
(* Proofs about HeapRegistry for any addresses, sizes and domains: the     *)
(* owner index is exact, objects are disjoint, generations are unique, and *)
(* looking only at the nearest object below an address finds its owner.    *)
(* And about Mempool for any buffers and handles: the reference counts are *)
(* exact and a buffer is never in two places.                              *)
(***************************************************************************)
EXTENDS HeapRegistry, Mempool, FiniteSetTheorems, TLAPS

\* The empty registry satisfies the invariant.
LEMMA InitInv == Init => RegistryInv
<1> SUFFICES ASSUME Init PROVE RegistryInv
    OBVIOUS
<1>1. DOMAIN objects = {}
    BY DEF Init
<1>2. TypeOK
    BY <1>1 DEF Init, TypeOK
<1>3. IndexExact
    BY <1>1 DEF Init, IndexExact
<1>4. Disjoint /\ GenerationsUnique
    BY <1>1 DEF Disjoint, GenerationsUnique
<1> QED
    BY <1>2, <1>3, <1>4 DEF RegistryInv

\* register keeps the invariant: check_overlap compares against every object.
LEMMA RegisterInv ==
    ASSUME RegistryInv, NEW a \in Addr, NEW s \in Sizes, NEW d \in Domains,
           Register(a, s, d)
    PROVE  RegistryInv'
<1> DEFINE new == [size |-> s, owner |-> d,
                   generation |-> nextGeneration, refCount |-> 1]
<1> USE RegistryAssumption
<1>1. /\ a \notin DOMAIN objects
      /\ DOMAIN objects' = DOMAIN objects \cup {a}
      /\ objects'[a] = new
      /\ \A b \in DOMAIN objects : objects'[b] = objects[b]
    BY DEF Register, CanRegister
<1>2. new \in Object
    BY DEF RegistryInv, TypeOK, Object
<1>3. TypeOK'
  <2>1. objects' \in [DOMAIN objects' -> Object]
      BY <1>1, <1>2 DEF RegistryInv, TypeOK, Register
  <2>2. index' \in [Domains -> [Addr -> Nat]]
      BY DEF RegistryInv, TypeOK, Register
  <2> QED
      BY <1>1, <2>1, <2>2 DEF RegistryInv, TypeOK, Register
<1>4. IndexExact'
    BY <1>1 DEF RegistryInv, TypeOK, IndexExact, Register
<1>5. Disjoint'
  <2> SUFFICES ASSUME NEW b \in DOMAIN objects', NEW c \in DOMAIN objects', b < c
               PROVE  b + objects'[b].size <= c
      BY DEF Disjoint
  <2>1. /\ b \in Nat /\ c \in Nat /\ a \in Nat /\ s \in Nat
        /\ \A x \in DOMAIN objects : objects[x].size \in Nat
      BY <1>1 DEF RegistryInv, TypeOK, Object
  <2>2. CASE b # a /\ c # a
      BY <1>1, <2>2 DEF RegistryInv, Disjoint
  <2>3. CASE b = a
    <3>1. c \in DOMAIN objects /\ objects'[b].size = s
        BY <1>1, <2>3
    <3>2. ~(c < a + s /\ a < c + objects[c].size)
        BY <3>1 DEF Register, CanRegister, Overlaps
    <3> QED
        BY <2>1, <2>3, <3>1, <3>2
  <2>4. CASE c = a
    <3>1. b \in DOMAIN objects /\ objects'[b].size = objects[b].size
        BY <1>1, <2>4
    <3>2. ~(b < a + s /\ a < b + objects[b].size)
        BY <3>1 DEF Register, CanRegister, Overlaps
    <3> QED
        BY <2>1, <2>4, <3>1, <3>2
  <2> QED
      BY <2>2, <2>3, <2>4
<1>6. GenerationsUnique'
  <2>1. nextGeneration' = nextGeneration + 1 /\ nextGeneration \in Nat
      BY DEF Register, RegistryInv, TypeOK
  <2>2. \A b \in DOMAIN objects :
          objects[b].generation \in Nat /\ objects[b].generation < nextGeneration
      BY DEF RegistryInv, TypeOK, Object, GenerationsUnique
  <2>3. \A b \in DOMAIN objects' :
          \/ b = a /\ objects'[b].generation = nextGeneration
          \/ b \in DOMAIN objects /\ objects'[b].generation = objects[b].generation
      BY <1>1
  <2> QED
      BY <2>1, <2>2, <2>3 DEF RegistryInv, GenerationsUnique
<1> QED
    BY <1>3, <1>4, <1>5, <1>6 DEF RegistryInv

\* Removing objects from the table and, exactly those, from the index keeps
\* the invariant: what every removal of the registry comes down to.
LEMMA RemovalInv ==
    ASSUME RegistryInv, NEW S \in SUBSET DOMAIN objects,
           objects' = Restrict(objects, S),
           index' \in [Domains -> [Addr -> Nat]],
           \A d \in Domains, a \in Addr :
             index'[d][a] = IF a \in DOMAIN objects \ S THEN 0 ELSE index[d][a],
           nextGeneration' = nextGeneration
    PROVE  RegistryInv'
<1>1. DOMAIN objects' = S /\ \A a \in S : objects'[a] = objects[a]
    BY DEF Restrict
<1>2. TypeOK'
    BY <1>1 DEF RegistryInv, TypeOK, Restrict
<1>3. IndexExact'
    BY <1>1 DEF RegistryInv, IndexExact
<1>4. Disjoint'
    BY <1>1 DEF RegistryInv, Disjoint
<1>5. GenerationsUnique'
    BY <1>1 DEF RegistryInv, GenerationsUnique
<1> QED
    BY <1>2, <1>3, <1>4, <1>5 DEF RegistryInv

\* unregister and unregister_simple remove one object and its index entry.
LEMMA RemoveInv ==
    ASSUME RegistryInv, NEW a \in DOMAIN objects, Remove(a)
    PROVE  RegistryInv'
<1>1. a \in Addr /\ objects[a].owner \in Domains
    BY DEF RegistryInv, TypeOK, Object
<1>2. index' = [index EXCEPT ![objects[a].owner][a] = 0]
      /\ index \in [Domains -> [Addr -> Nat]]
    BY DEF RegistryInv, TypeOK, Remove
<1>3. index' \in [Domains -> [Addr -> Nat]]
    BY <1>1, <1>2
<1>4. \A d \in Domains, b \in Addr :
        index'[d][b] = IF b \in DOMAIN objects \ (DOMAIN objects \ {a})
                       THEN 0 ELSE index[d][b]
    BY <1>1, <1>2 DEF RegistryInv, IndexExact
<1> QED
    BY <1>3, <1>4, RemovalInv DEF Remove

\* reclaim_all removes what the index lists; the index is exact, so nothing
\* of another domain goes and nothing of this one stays.
LEMMA ReclaimInv ==
    ASSUME RegistryInv, NEW d \in Domains, ReclaimAll(d)
    PROVE  RegistryInv'
<1> DEFINE S == {a \in DOMAIN objects : index[d][a] = 0}
<1>1. index' = [index EXCEPT ![d] = [a \in Addr |-> 0]]
      /\ index \in [Domains -> [Addr -> Nat]]
    BY DEF RegistryInv, TypeOK, ReclaimAll
<1>2. index' \in [Domains -> [Addr -> Nat]]
    BY <1>1
<1>3. DOMAIN objects \subseteq Addr
    BY DEF RegistryInv, TypeOK
<1>4. \A e \in Domains, b \in Addr :
        index'[e][b] = IF b \in DOMAIN objects \ S THEN 0 ELSE index[e][b]
    BY <1>1, <1>3 DEF RegistryInv, IndexExact
<1>5. S \in SUBSET DOMAIN objects
    OBVIOUS
<1> HIDE DEF S
<1> QED
    BY <1>2, <1>4, <1>5, RemovalInv DEF ReclaimAll, S

\* A transfer moves one index entry, also when both domains are the same.
LEMMA TransferInv ==
    ASSUME RegistryInv, NEW a \in Addr, NEW d \in Domains, NEW e \in Domains,
           TransferOwnership(a, d, e)
    PROVE  RegistryInv'
<1>1. /\ a \in DOMAIN objects /\ objects[a].owner = d
      /\ objects' = [objects EXCEPT ![a].owner = e]
      /\ index' = [[index EXCEPT ![d][a] = 0] EXCEPT ![e][a] = @ + 1]
      /\ nextGeneration' = nextGeneration
    BY DEF TransferOwnership, CanTransfer
<1>2. /\ DOMAIN objects' = DOMAIN objects
      /\ \A b \in DOMAIN objects :
           /\ objects'[b].size = objects[b].size
           /\ objects'[b].generation = objects[b].generation
           /\ objects'[b].owner = IF b = a THEN e ELSE objects[b].owner
    BY <1>1 DEF RegistryInv, TypeOK, Object
<1>3. TypeOK'
  <2>1. objects' \in [DOMAIN objects' -> Object]
      BY <1>1, <1>2 DEF RegistryInv, TypeOK, Object
  <2>2. index' \in [Domains -> [Addr -> Nat]]
    <3> DEFINE mid == [index EXCEPT ![d][a] = 0]
    <3>1. mid \in [Domains -> [Addr -> Nat]]
        BY DEF RegistryInv, TypeOK
    <3>2. index' = [mid EXCEPT ![e][a] = @ + 1]
        BY <1>1
    <3> HIDE DEF mid
    <3> QED
        BY <3>1, <3>2
  <2> QED
      BY <1>1, <1>2, <2>1, <2>2 DEF RegistryInv, TypeOK
<1>4. IndexExact'
    BY <1>1, <1>2 DEF RegistryInv, TypeOK, IndexExact
<1>5. Disjoint' /\ GenerationsUnique'
    BY <1>1, <1>2 DEF RegistryInv, Disjoint, GenerationsUnique
<1> QED
    BY <1>3, <1>4, <1>5 DEF RegistryInv

\* Reference counts change nothing else and stay in their type.
LEMMA RefInv ==
    ASSUME RegistryInv, NEW a \in Addr, AddRef(a) \/ ReleaseRef(a)
    PROVE  RegistryInv'
<1> USE RegistryAssumption
<1>1. PICK n \in 0..MaxRef : objects' = [objects EXCEPT ![a].refCount = n]
  <2>1. a \in DOMAIN objects /\ objects[a].refCount \in 0..MaxRef
      BY DEF RegistryInv, TypeOK, Object, AddRef, ReleaseRef
  <2> DEFINE c == objects[a].refCount
  <2>2. CASE AddRef(a)
    <3>1. objects' = [objects EXCEPT ![a].refCount = c + 1] /\ c < MaxRef
        BY <2>2 DEF AddRef
    <3>2. c + 1 \in 0..MaxRef
        BY <2>1, <3>1
    <3> QED
        BY <3>1, <3>2
  <2>3. CASE ReleaseRef(a)
    <3>1. objects' = [objects EXCEPT ![a].refCount = c - 1] /\ c > 0
        BY <2>3 DEF ReleaseRef
    <3>2. c - 1 \in 0..MaxRef
        BY <2>1, <3>1
    <3> QED
        BY <3>1, <3>2
  <2> QED
      BY <2>2, <2>3
<1>2. index' = index /\ nextGeneration' = nextGeneration
    BY DEF AddRef, ReleaseRef
<1>3. /\ DOMAIN objects' = DOMAIN objects
      /\ objects' \in [DOMAIN objects -> Object]
      /\ \A b \in DOMAIN objects :
           /\ objects'[b].size = objects[b].size
           /\ objects'[b].generation = objects[b].generation
           /\ objects'[b].owner = objects[b].owner
    BY <1>1 DEF RegistryInv, TypeOK, Object
<1> QED
    BY <1>2, <1>3
    DEF RegistryInv, TypeOK, IndexExact, Disjoint, GenerationsUnique

\* Every operation of the registry keeps the invariant.
LEMMA NextInv == RegistryInv /\ [Next]_registryVars => RegistryInv'
<1> SUFFICES ASSUME RegistryInv, [Next]_registryVars PROVE RegistryInv'
    OBVIOUS
<1>1. CASE UNCHANGED registryVars
    BY <1>1 DEF RegistryInv, TypeOK, IndexExact, Disjoint, GenerationsUnique,
                registryVars
<1>2. ASSUME NEW a \in Addr, NEW s \in Sizes, NEW d \in Domains, Register(a, s, d)
      PROVE  RegistryInv'
    BY <1>2, RegisterInv
<1>3. ASSUME NEW a \in Addr, NEW d \in Domains, Unregister(a, d)
      PROVE  RegistryInv'
    BY <1>3, RemoveInv DEF Unregister
<1>4. ASSUME NEW a \in Addr, UnregisterSimple(a)
      PROVE  RegistryInv'
    BY <1>1, <1>4, RemoveInv DEF UnregisterSimple
<1>5. ASSUME NEW a \in Addr, NEW d \in Domains, NEW e \in Domains,
             TransferOwnership(a, d, e)
      PROVE  RegistryInv'
    BY <1>5, TransferInv
<1>6. ASSUME NEW a \in Addr, AddRef(a) \/ ReleaseRef(a)
      PROVE  RegistryInv'
    BY <1>6, RefInv
<1>7. ASSUME NEW d \in Domains, ReclaimAll(d)
      PROVE  RegistryInv'
    BY <1>7, ReclaimInv
<1> QED
    BY <1>1, <1>2, <1>3, <1>4, <1>5, <1>6, <1>7 DEF Next

\* The invariant holds of every behaviour of the registry.
THEOREM RegistryInvariant == Spec => []RegistryInv
    BY InitInv, NextInv, PTL DEF Spec

\* owner_index lists exactly the objects each domain owns, each once, so
\* reclaim_all frees all of a domain's objects and no other's.
THEOREM IndexIsExact == Spec => []IndexExact
<1>1. RegistryInv => IndexExact
    BY DEF RegistryInv
<1> QED
    BY <1>1, RegistryInvariant, PTL

\* check_overlap keeps the registered objects disjoint.
THEOREM ObjectsDisjoint == Spec => []Disjoint
<1>1. RegistryInv => Disjoint
    BY DEF RegistryInv
<1> QED
    BY <1>1, RegistryInvariant, PTL

\* register never hands out a generation that a live object carries.
THEOREM GenerationsAreUnique == Spec => []GenerationsUnique
<1>1. RegistryInv => GenerationsUnique
    BY DEF RegistryInv
<1> QED
    BY <1>1, RegistryInvariant, PTL

\* An object that covers p is the nearest one below p: nothing is between.
LEMMA CoveringIsNearest ==
    ASSUME RegistryInv, NEW p \in Addr, NEW a \in DOMAIN objects, Covers(a, p)
    PROVE  a \in Nearest(p)
<1> USE RegistryAssumption
<1>1. /\ p \in Nat /\ a \in Nat /\ objects[a].size \in Nat /\ a <= p
      /\ \A b \in DOMAIN objects : b \in Nat
    BY DEF RegistryInv, TypeOK, Object, Covers
<1>2. SUFFICES ASSUME NEW b \in DOMAIN objects, b <= p, a < b PROVE FALSE
    BY <1>1 DEF Nearest
<1>3. a + objects[a].size <= b
    BY <1>2 DEF RegistryInv, Disjoint
<1> QED
    BY <1>1, <1>2, <1>3 DEF Covers

\* get_owner and check_access, which examine one object only, return the
\* owner of the object containing the address, and nothing when there is none.
THEOREM LookupIsExact == Spec => []LookupExact
<1>1. ASSUME RegistryInv PROVE LookupExact
  <2> SUFFICES ASSUME NEW p \in Addr
               PROVE  GetOwner(p) =
                        {objects[a].owner : a \in {b \in DOMAIN objects : Covers(b, p)}}
      BY DEF LookupExact
  <2> USE RegistryAssumption
  <2>1. /\ p \in Nat
        /\ \A b \in DOMAIN objects : b \in Nat /\ objects[b].size \in Nat
      BY <1>1 DEF RegistryInv, TypeOK, Object
  <2>2. \A a, b \in Nearest(p) : a = b
      BY <2>1 DEF Nearest
  <2>3. \A a \in DOMAIN objects : Covers(a, p) => a \in Nearest(p)
      BY <1>1, CoveringIsNearest
  <2>4. CASE p \in DOMAIN objects
    <3>1. p \in Nearest(p)
        BY <2>1, <2>4 DEF Nearest
    <3>2. {b \in DOMAIN objects : Covers(b, p)} = {p}
        BY <2>2, <2>3, <2>4, <3>1 DEF Covers
    <3> QED
        BY <2>4, <3>2 DEF GetOwner
  <2>5. CASE p \notin DOMAIN objects
    <3>1. {b \in Nearest(p) : p < b + objects[b].size}
            = {b \in DOMAIN objects : Covers(b, p)}
        BY <2>1, <2>3, <2>5 DEF Covers, Nearest
    <3> QED
        BY <2>5, <3>1 DEF GetOwner
  <2> QED
      BY <2>4, <2>5
<1> QED
    BY <1>1, RegistryInvariant, PTL

------------------------------------------------------------------------------
\* PoolTypeOK /\ PoolSound is inductive as it stands.  A step concerns the
\* buffer of one handle; what the others see is the frame lemma.
PoolInv == PoolTypeOK /\ PoolSound

\* The PacketRefs to a buffer are finitely many, so they can be counted.
LEMMA LiveFinite ==
    ASSUME NEW b PROVE IsFiniteSet(Live(b)) /\ Cardinality(Live(b)) \in Nat
BY MempoolAssumption, FS_Subset, FS_CardinalityType DEF Live

\* A step that touches nothing of a buffer leaves it sound.
LEMMA Frame ==
    ASSUME NEW b \in Buffers, BufferSound(b),
           inList'[b] = inList[b], refCount'[b] = refCount[b],
           Live(b)' = Live(b),
           \A h \in Handles : InTransit(h, b)' <=> InTransit(h, b)
    PROVE  BufferSound(b)'
BY DEF BufferSound

\* The state after init is sound.
LEMMA PoolInitSound == PoolInit => PoolInv
BY DEF PoolInit, PoolInv, PoolTypeOK, PoolSound, BufferSound, Live, InTransit

\* alloc's pop takes a buffer nobody refers to.
LEMMA PopSound ==
    ASSUME PoolInv, NEW h \in Handles, NEW c \in Buffers, Pop(h, c)
    PROVE  PoolInv'
<1>1. PoolTypeOK'
  BY DEF PoolInv, PoolTypeOK, Pop
<1>2. ASSUME NEW b \in Buffers PROVE BufferSound(b)'
  <2>1. Live(b)' = Live(b)
    BY DEF PoolInv, PoolTypeOK, Pop, Live
  <2>2. CASE b # c
    BY <2>1, <2>2, Frame DEF PoolInv, PoolTypeOK, PoolSound, Pop, InTransit
  <2>3. CASE b = c
    <3>1. inList[c] = 1 /\ inList'[c] = 0 /\ Live(c) = {}
      BY DEF PoolInv, PoolTypeOK, PoolSound, BufferSound, Pop
    <3>2. \A g \in Handles : InTransit(g, c)' <=> g = h
      BY <3>1 DEF PoolInv, PoolTypeOK, PoolSound, BufferSound, Pop, InTransit
    <3> QED
      BY <2>1, <2>3, <3>1, <3>2 DEF BufferSound
  <2> QED
    BY <2>2, <2>3
<1> QED
  BY <1>1, <1>2 DEF PoolInv, PoolSound

\* alloc's second half makes the one reference that is counted.
LEMMA DeliverSound ==
    ASSUME PoolInv, NEW h \in Handles, Deliver(h)
    PROVE  PoolInv'
<1>c. PICK c \in Buffers : c = handleBuf[h]
  BY DEF PoolInv, PoolTypeOK
<1>1. PoolTypeOK' /\ c \in Buffers
  BY <1>c DEF PoolInv, PoolTypeOK, Deliver
<1>2. ASSUME NEW b \in Buffers PROVE BufferSound(b)'
  <2>1. CASE b # c
    <3>1. Live(b)' = Live(b)
      BY <1>c, <2>1 DEF PoolInv, PoolTypeOK, Deliver, Live
    <3> QED
      BY <1>c, <2>1, <3>1, Frame DEF PoolInv, PoolTypeOK, PoolSound, Deliver, InTransit
  <2>2. CASE b = c
    <3>1. BufferSound(c) /\ InTransit(h, c)
      BY <1>c, <1>1 DEF PoolInv, PoolSound, Deliver, InTransit
    <3>2. Live(c) = {} /\ inList[c] = 0
      BY <1>c, <1>1, <3>1 DEF BufferSound
    <3>3. Live(c)' = {h}
      BY <1>c, <3>2 DEF PoolInv, PoolTypeOK, Deliver, Live
    <3>4. refCount'[c] = 1 /\ inList'[c] = 0 /\ handleBuf' = handleBuf
      BY <1>c, <1>1, <3>2 DEF PoolInv, PoolTypeOK, Deliver
    <3>5. \A g \in Handles : ~InTransit(g, c)'
      BY <1>c, <3>1 DEF BufferSound, PoolInv, PoolTypeOK, Deliver, InTransit
    <3>6. Cardinality(Live(c)') = 1
      BY <1>c, <3>3, FS_Singleton
    <3> QED
      BY <1>c, <2>2, <3>3, <3>4, <3>5, <3>6 DEF BufferSound
  <2> QED
    BY <2>1, <2>2
<1> QED
  BY <1>1, <1>2 DEF PoolInv, PoolSound

\* clone_ref adds one reference and one to the count.
LEMMA CloneRefSound ==
    ASSUME PoolInv, NEW h \in Handles, NEW g \in Handles, CloneRef(h, g)
    PROVE  PoolInv'
<1>c. PICK c \in Buffers : c = handleBuf[h]
  BY DEF PoolInv, PoolTypeOK
<1>1. PoolTypeOK' /\ c \in Buffers
  BY <1>c DEF PoolInv, PoolTypeOK, CloneRef
<1>2. ASSUME NEW b \in Buffers PROVE BufferSound(b)'
  <2>1. \A k \in Handles : InTransit(k, b)' <=> InTransit(k, b)
    BY <1>c DEF PoolInv, PoolTypeOK, CloneRef, InTransit
  <2>2. CASE b # c
    <3>1. Live(b)' = Live(b)
      BY <1>c, <2>2 DEF PoolInv, PoolTypeOK, CloneRef, Live
    <3> QED
      BY <1>c, <2>1, <2>2, <3>1, Frame DEF PoolInv, PoolTypeOK, PoolSound, CloneRef
  <2>3. CASE b = c
    <3>1. BufferSound(c) /\ h \in Live(c) /\ g \notin Live(c)
      BY <1>c, <1>1 DEF PoolInv, PoolSound, CloneRef, Live
    <3>2. Live(c)' = Live(c) \cup {g}
      BY <1>c DEF PoolInv, PoolTypeOK, CloneRef, Live
    <3>3. refCount'[c] = refCount[c] + 1 /\ inList' = inList
      BY <1>c, <1>1 DEF PoolInv, PoolTypeOK, CloneRef
    <3>4. Cardinality(Live(c)') = Cardinality(Live(c)) + 1
      <4>1. IsFiniteSet(Live(c))
        BY LiveFinite
      <4>2. Cardinality(Live(c) \cup {g}) = Cardinality(Live(c)) + 1
        BY <3>1, <4>1, FS_AddElement
      <4> QED
        BY <3>2, <4>2
    <3>5. refCount[c] = Cardinality(Live(c)) /\ inList[c] = 0
          /\ \A k \in Handles : ~InTransit(k, c)
      BY <3>1 DEF BufferSound
    <3>6. refCount'[c] = Cardinality(Live(c)') /\ Live(c)' # {}
      BY <3>2, <3>3, <3>4, <3>5
    <3>7. inList'[c] = 0 /\ \A k \in Handles : ~InTransit(k, c)'
      BY <2>1, <2>3, <3>3, <3>5
    <3> QED
      BY <2>3, <3>6, <3>7 DEF BufferSound
  <2> QED
    BY <2>2, <2>3
<1> QED
  BY <1>1, <1>2 DEF PoolInv, PoolSound

\* drop's decrement: exactly the last owner finds 1 and returns the buffer.
LEMMA ReleaseSound ==
    ASSUME PoolInv, NEW h \in Handles, Release(h)
    PROVE  PoolInv'
<1>c. PICK c \in Buffers : c = handleBuf[h]
  BY DEF PoolInv, PoolTypeOK
<1>1. c \in Buffers /\ BufferSound(c) /\ h \in Live(c)
  BY <1>c DEF PoolInv, PoolTypeOK, PoolSound, Release, Live
<1>2. refCount[c] = Cardinality(Live(c)) /\ inList[c] = 0
      /\ \A k \in Handles : ~InTransit(k, c)
  BY <1>c, <1>1 DEF BufferSound
<1>3. Cardinality(Live(c) \ {h}) = Cardinality(Live(c)) - 1
      /\ IsFiniteSet(Live(c) \ {h}) /\ Cardinality(Live(c) \ {h}) \in Nat
  <2>1. IsFiniteSet(Live(c))
    BY LiveFinite
  <2>2. IsFiniteSet(Live(c) \ {h})
        /\ Cardinality(Live(c) \ {h}) = Cardinality(Live(c)) - 1
    BY <1>1, <2>1, FS_RemoveElement
  <2> QED
    BY <2>2, FS_CardinalityType
<1>4. refCount[c] \in Nat /\ refCount[c] # 0
  <2>1. Cardinality(Live(c)) \in Nat
    BY LiveFinite
  <2> QED
    BY <1>2, <1>3, <2>1
<1>5. refCount[c] = 1 <=> Live(c) \ {h} = {}
  BY <1>c, <1>2, <1>3, <1>4, FS_EmptySet
<1>6. PoolTypeOK'
  BY <1>c, <1>1, <1>4 DEF PoolInv, PoolTypeOK, Release
<1>7. ASSUME NEW b \in Buffers PROVE BufferSound(b)'
  <2>1. CASE b # c
    <3>1. Live(b)' = Live(b)
      BY <1>c, <2>1 DEF PoolInv, PoolTypeOK, Release, Live
    <3> QED
      BY <1>c, <2>1, <3>1, Frame DEF PoolInv, PoolTypeOK, PoolSound, Release, InTransit
  <2>2. CASE b = c
    <3>1. Live(c)' = Live(c) \ {h}
      BY <1>c, <1>1 DEF PoolInv, PoolTypeOK, Release, Live
    <3>2. refCount'[c] = refCount[c] - 1 /\ inList' = inList
      BY <1>c, <1>1 DEF PoolInv, PoolTypeOK, Release
    <3>3. \A k \in Handles : InTransit(k, c)' <=> k = h /\ refCount[c] = 1
      BY <1>c, <1>1, <1>2 DEF PoolInv, PoolTypeOK, Release, InTransit
    <3> QED
      BY <1>c, <1>2, <1>3, <1>4, <1>5, <2>2, <3>1, <3>2, <3>3 DEF BufferSound
  <2> QED
    BY <2>1, <2>2
<1> QED
  BY <1>6, <1>7 DEF PoolInv, PoolSound

\* The push puts back a buffer that is neither in the list nor in use.
LEMMA ReturnBufferSound ==
    ASSUME PoolInv, NEW h \in Handles, ReturnBuffer(h)
    PROVE  PoolInv'
<1>c. PICK c \in Buffers : c = handleBuf[h]
  BY DEF PoolInv, PoolTypeOK
<1>1. c \in Buffers /\ BufferSound(c) /\ InTransit(h, c)
  BY <1>c DEF PoolInv, PoolTypeOK, PoolSound, ReturnBuffer, InTransit
<1>2. PoolTypeOK'
  BY <1>c, <1>1 DEF PoolInv, PoolTypeOK, ReturnBuffer
<1>3. ASSUME NEW b \in Buffers PROVE BufferSound(b)'
  <2>1. Live(b)' = Live(b)
    BY <1>c DEF PoolInv, PoolTypeOK, ReturnBuffer, Live
  <2>2. CASE b # c
    BY <1>c, <2>1, <2>2, Frame
    DEF PoolInv, PoolTypeOK, PoolSound, ReturnBuffer, InTransit
  <2>3. CASE b = c
    <3>1. Live(c) = {} /\ inList[c] = 0
      BY <1>c, <1>1 DEF BufferSound
    <3>2. inList'[c] = 1
      BY <1>c, <1>1, <3>1 DEF PoolInv, PoolTypeOK, ReturnBuffer
    <3>3. \A k \in Handles : ~InTransit(k, c)'
      BY <1>c, <1>1 DEF BufferSound, PoolInv, PoolTypeOK, ReturnBuffer, InTransit
    <3> QED
      BY <1>c, <2>1, <2>3, <3>1, <3>2, <3>3 DEF BufferSound
  <2> QED
    BY <2>2, <2>3
<1> QED
  BY <1>2, <1>3 DEF PoolInv, PoolSound

\* For any number of buffers and of PacketRefs on any threads: counts are exact
\* and every buffer is in one place (alloc, clone_ref and drop of mempool.rs).
THEOREM PoolCorrect == PoolSpec => []PoolSound
<1>1. PoolInv /\ [PoolNext]_poolVars => PoolInv'
  <2> SUFFICES ASSUME PoolInv, [PoolNext]_poolVars PROVE PoolInv'
    OBVIOUS
  <2>1. CASE UNCHANGED poolVars
    <3>1. ASSUME NEW b \in Buffers PROVE BufferSound(b)'
      BY <2>1, <3>1, Frame DEF PoolInv, PoolSound, Live, InTransit, poolVars
    <3>2. PoolTypeOK'
      BY <2>1 DEF PoolInv, PoolTypeOK, poolVars
    <3> QED
      BY <3>1, <3>2 DEF PoolInv, PoolSound
  <2>2. CASE PoolNext
    BY <2>2, PopSound, DeliverSound, CloneRefSound, ReleaseSound, ReturnBufferSound
    DEF PoolNext
  <2> QED
    BY <2>1, <2>2
<1>2. PoolInv => PoolSound
  BY DEF PoolInv
<1> QED
  BY PoolInitSound, <1>1, <1>2, PTL DEF PoolSpec
=============================================================================
