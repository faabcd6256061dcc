---------------------------- MODULE DomainSystem ----------------------------
(***************************************************************************)
(* Domains, their life cycle and their resources: src/domain_system.rs and *)
(* src/domain/lifecycle.rs.  domain_system keeps the domains behind        *)
(* REGISTRY's lock and the owners of exchange-heap objects behind          *)
(* HEAP_REGISTRY's; an operation takes one lock, releases it and takes the *)
(* other, and these are its steps.  The heap registry itself is the one of *)
(* HeapRegistry; here it is the owner of each object.                      *)
(*                                                                         *)
(* lifecycle has a terminate_domain and a handle_domain_panic of its own,  *)
(* which reclaim from another registry, that of ipc/rref.rs (RRefHeap):    *)
(* `lifecycle' says whether callers use them too, `callers' which threads  *)
(* call.  Callers register and receive objects only for domains that were  *)
(* active when they decided to, and make only existing domains depend on   *)
(* others.  The strings a domain carries and its task list are left out.   *)
(***************************************************************************)
EXTENDS Integers, FiniteSets, FiniteSetTheorems, TLAPS

CONSTANTS Domains, Kernel, Objects, Threads,
          MaxCount   \* bound: rref_count

Nobody == "nobody"

ASSUME DomainAssumption ==
    /\ Kernel \in Domains /\ Nobody \notin Domains
    /\ IsFiniteSet(Objects) /\ IsFiniteSet(Threads)

VARIABLES lifecycle, callers,
          state, count,                \* a domain's state and rref_count
          dependencies, dependents,
          owner,                       \* HEAP_REGISTRY
          told,                        \* domains with last_error set
          pc, dom, other, found        \* a thread's position and locals

usageVars == <<lifecycle, callers>>
domainVars == <<state, count, dependencies, dependents, told>>
localVars == <<dom, other, found>>
vars == <<usageVars, domainVars, owner, pc, localVars>>

Created(d) == state[d] # "none"
Active(d) == state[d] \notin {"none", "Terminated"}

\* domain_system::init has created the kernel domain.
Init ==
    /\ lifecycle \in BOOLEAN /\ callers \in SUBSET Threads \ {{}}
    /\ state = [d \in Domains |-> IF d = Kernel THEN "Running" ELSE "none"]
    /\ count = [d \in Domains |-> 0]
    /\ dependencies = [d \in Domains |-> {}] /\ dependents = [d \in Domains |-> {}]
    /\ owner = [o \in Objects |-> Nobody]
    /\ told = {}
    /\ pc = [t \in Threads |-> "idle"]
    /\ dom = [t \in Threads |-> Nobody] /\ other = [t \in Threads |-> Nobody]
    /\ found = [t \in Threads |-> {}]

MayCall(t) == t \in callers /\ pc[t] = "idle"

\* Begin an operation at step l with its arguments, or end it.
Call(t, l, d, e, f) ==
    /\ pc' = [pc EXCEPT ![t] = l]
    /\ dom' = [dom EXCEPT ![t] = d]
    /\ other' = [other EXCEPT ![t] = e]
    /\ found' = [found EXCEPT ![t] = f]
Return(t) == Call(t, "idle", Nobody, Nobody, {})
Goto(t, l) == pc' = [pc EXCEPT ![t] = l] /\ UNCHANGED localVars

SetState(d, s) == state' = [state EXCEPT ![d] = s]

------------------------------------------------------------------------------
(* Life cycle: steps under REGISTRY's lock *)

\* create_domain; spawn_domain_task then sets the new domain running.
Create(t, d, spawn) ==
    /\ MayCall(t) /\ ~Created(d)
    /\ SetState(d, "Initializing")
    /\ IF spawn THEN Call(t, "spawned", d, Nobody, {}) ELSE UNCHANGED <<pc, localVars>>
    /\ UNCHANGED <<usageVars, count, dependencies, dependents, owner, told>>

SpawnRun(t) ==
    /\ pc[t] = "spawned"
    /\ SetState(dom[t], "Running")
    /\ Return(t)
    /\ UNCHANGED <<usageVars, count, dependencies, dependents, owner, told>>

StartDomain(t, d) ==
    /\ MayCall(t) /\ state[d] = "Initializing"
    /\ SetState(d, "Running")
    /\ UNCHANGED <<usageVars, count, dependencies, dependents, owner, told, pc, localVars>>

StopDomain(t, d) ==
    /\ MayCall(t) /\ d # Kernel /\ Created(d)
    /\ SetState(d, "Stopped")
    /\ UNCHANGED <<usageVars, count, dependencies, dependents, owner, told, pc, localVars>>

\* restart_domain looks at the state, then sets it twice, each under the lock.
RestartCheck(t, d) ==
    /\ MayCall(t) /\ state[d] \in {"Stopped", "Terminated"}
    /\ Call(t, "restart", d, Nobody, {})
    /\ UNCHANGED <<usageVars, domainVars, owner>>

RestartInit(t) ==
    /\ pc[t] = "restart"
    /\ SetState(dom[t], "Initializing")
    /\ Goto(t, "spawned")
    /\ UNCHANGED <<usageVars, count, dependencies, dependents, owner, told>>

\* Faulty variant: the dependency is recorded at one end only.
AddDependentForgotten(t) ==
    /\ pc[t] = "dependent"
    /\ Return(t)
    /\ UNCHANGED <<usageVars, domainVars, owner>>

\* add_domain_dependency: each end is updated under the lock, one after the
\* other.
AddDependency(t, d, e) ==
    /\ MayCall(t) /\ Created(e) /\ Created(d)
    /\ dependencies' = [dependencies EXCEPT ![d] = @ \cup {e}]
    /\ Call(t, "dependent", d, e, {})
    /\ UNCHANGED <<usageVars, state, count, dependents, owner, told>>

AddDependent(t) ==
    /\ pc[t] = "dependent"
    /\ dependents' = [dependents EXCEPT ![other[t]] = @ \cup {dom[t]}]
    /\ Return(t)
    /\ UNCHANGED <<usageVars, state, count, dependencies, owner, told>>

------------------------------------------------------------------------------
(* Termination and panic *)

\* domain_system::terminate_domain: Terminated first, then the reclaim.
Terminate(t, d) ==
    /\ MayCall(t) /\ d # Kernel /\ Created(d)
    /\ SetState(d, "Terminated")
    /\ Call(t, "reclaim", d, Nobody, dependents[d])
    /\ UNCHANGED <<usageVars, count, dependencies, dependents, owner, told>>

\* domain_system::handle_domain_panic, of any domain.
Panic(t, d) ==
    /\ MayCall(t) /\ Created(d)
    /\ SetState(d, "Stopped")
    /\ Call(t, "reclaim", d, Nobody, {})
    /\ UNCHANGED <<usageVars, count, dependencies, dependents, owner, told>>

\* lifecycle's terminate_domain and handle_domain_panic: any domain, and
\* nothing of this registry is reclaimed.
LifecycleEnd(t, d, s) ==
    /\ lifecycle /\ MayCall(t) /\ Created(d)
    /\ s \in {"Terminated", "Stopped"}
    /\ SetState(d, s)
    /\ UNCHANGED <<usageVars, count, dependencies, dependents, owner, told, pc, localVars>>

\* Faulty variant: the objects are freed and stay in the registry.
ReclaimObjectsKept(t) ==
    /\ pc[t] = "reclaim"
    /\ Goto(t, "zero")
    /\ UNCHANGED <<usageVars, domainVars, owner>>

\* reclaim_domain_resources under HEAP_REGISTRY's lock ...
ReclaimObjects(t) ==
    /\ pc[t] = "reclaim"
    /\ owner' = [o \in Objects |-> IF owner[o] = dom[t] THEN Nobody ELSE owner[o]]
    /\ Goto(t, "zero")
    /\ UNCHANGED <<usageVars, domainVars>>

\* ... and then under REGISTRY's.
ReclaimZero(t) ==
    /\ pc[t] = "zero"
    /\ count' = [count EXCEPT ![dom[t]] = 0]
    /\ Goto(t, "notify")
    /\ UNCHANGED <<usageVars, state, dependencies, dependents, owner, told>>

\* terminate_domain tells the dependents it copied at the beginning.
Notify(t) ==
    /\ pc[t] = "notify"
    /\ told' = told \cup {d \in found[t] : Created(d)}
    /\ Return(t)
    /\ UNCHANGED <<usageVars, state, count, dependencies, dependents, owner>>

------------------------------------------------------------------------------
(* Resources: HEAP_REGISTRY first, REGISTRY second *)

Gain(c, d) == [c EXCEPT ![d] = @ + 1]
Lose(c, d) == IF c[d] > 0 THEN [c EXCEPT ![d] = @ - 1] ELSE c

\* A caller that acts for an active domain decides to register an object of
\* it, or to give it one.
Decide(t, l, d) ==
    /\ MayCall(t) /\ Active(d) /\ count[d] < MaxCount
    /\ Call(t, l, d, Nobody, {})
    /\ UNCHANGED <<usageVars, domainVars, owner>>

\* register_heap_object
Register(t, o) ==
    /\ pc[t] = "register" /\ owner[o] = Nobody
    /\ owner' = [owner EXCEPT ![o] = dom[t]]
    /\ Goto(t, "gain")
    /\ UNCHANGED <<usageVars, domainVars>>

\* The exchange heap has no block left for the object to register.
OutOfMemory(t) ==
    /\ pc[t] = "register" /\ \A o \in Objects : owner[o] # Nobody
    /\ Return(t)
    /\ UNCHANGED <<usageVars, domainVars, owner>>

RegisterCount(t) ==
    /\ pc[t] = "gain"
    /\ count' = Gain(count, dom[t])
    /\ Return(t)
    /\ UNCHANGED <<usageVars, state, dependencies, dependents, owner, told>>

\* unregister_heap_object
Unregister(t, o) ==
    /\ MayCall(t) /\ owner[o] # Nobody
    /\ owner' = [owner EXCEPT ![o] = Nobody]
    /\ Call(t, "lose", owner[o], Nobody, {})
    /\ UNCHANGED <<usageVars, domainVars>>

UnregisterCount(t) ==
    /\ pc[t] = "lose"
    /\ count' = Lose(count, dom[t])
    /\ Return(t)
    /\ UNCHANGED <<usageVars, state, dependencies, dependents, owner, told>>

\* transfer_ownership; it returns false for an object that is not registered.
Transfer(t, o) ==
    /\ pc[t] = "transfer"
    /\ IF owner[o] # Nobody
         THEN /\ owner' = [owner EXCEPT ![o] = dom[t]]
              /\ Call(t, "move", owner[o], dom[t], {})
         ELSE Return(t) /\ UNCHANGED owner
    /\ UNCHANGED <<usageVars, domainVars>>

\* Faulty variant: the old owner keeps the object in its count.
TransferCountKeeping(t) ==
    /\ pc[t] = "move"
    /\ count' = Gain(count, other[t])
    /\ Return(t)
    /\ UNCHANGED <<usageVars, state, dependencies, dependents, owner, told>>

TransferCount(t) ==
    /\ pc[t] = "move"
    /\ count' = Gain(Lose(count, dom[t]), other[t])
    /\ Return(t)
    /\ UNCHANGED <<usageVars, state, dependencies, dependents, owner, told>>

------------------------------------------------------------------------------

Next ==
    \E t \in Threads :
        \/ SpawnRun(t) \/ RestartInit(t) \/ AddDependent(t)
        \/ ReclaimObjects(t) \/ ReclaimZero(t) \/ Notify(t)
        \/ OutOfMemory(t) \/ RegisterCount(t) \/ UnregisterCount(t) \/ TransferCount(t)
        \/ \E d \in Domains :
              \/ \E s \in BOOLEAN : Create(t, d, s)
              \/ StartDomain(t, d) \/ StopDomain(t, d) \/ RestartCheck(t, d)
              \/ Terminate(t, d) \/ Panic(t, d)
              \/ \E s \in {"Terminated", "Stopped"} : LifecycleEnd(t, d, s)
              \/ \E e \in Domains \ {d} : AddDependency(t, d, e)
              \/ \E l \in {"register", "transfer"} : Decide(t, l, d)
        \/ \E o \in Objects : Register(t, o) \/ Transfer(t, o) \/ Unregister(t, o)

Spec == Init /\ [][Next]_vars

------------------------------------------------------------------------------
(* Properties *)

AtRest == \A t \in Threads : pc[t] = "idle"
Sequential == Cardinality(callers) = 1

\* With one caller at a time, rref_count is the number of objects the domain
\* owns in the heap registry whenever no operation is in progress, although
\* the two are kept under different locks and reclaim sets the count to 0.
CountIsExact ==
    (Sequential /\ AtRest)
        => \A d \in Domains : count[d] = Cardinality({o \in Objects : owner[o] = d})

\* With one caller at a time that ends domains only through domain_system, a
\* terminated domain owns nothing: its resources have been reclaimed.
TerminatedOwnsNothing ==
    (Sequential /\ ~lifecycle /\ AtRest)
        => \A d \in Domains : state[d] = "Terminated" => \A o \in Objects : owner[o] # d

\* dependencies and dependents are each other's converse whenever no operation
\* is in progress, whatever calls were interleaved.
DependenciesSymmetric ==
    AtRest => \A d, e \in Domains : e \in dependencies[d] <=> d \in dependents[e]

\* Domain system, between operations: with one caller at a time a domain's
\* rref_count is the number of objects it owns, and whatever calls overlapped,
\* dependencies and dependents are each other's converse.
BookkeepingExact == CountIsExact /\ DependenciesSymmetric

------------------------------------------------------------------------------
(* The proofs, for any domains, objects and threads *)

Steps == {"idle", "spawned", "restart", "dependent", "reclaim", "zero", "notify",
          "register", "gain", "lose", "transfer", "move"}

DataOK ==
    /\ callers \subseteq Threads
    /\ state \in [Domains -> {"none", "Initializing", "Running", "Stopped", "Terminated"}]
    /\ count \in [Domains -> Nat]
    /\ dependencies \in [Domains -> SUBSET Domains]
    /\ dependents \in [Domains -> SUBSET Domains]
    /\ owner \in [Objects -> Domains \cup {Nobody}]

LocalsOK ==
    /\ pc \in [Threads -> Steps]
    /\ dom \in [Threads -> Domains \cup {Nobody}]
    /\ other \in [Threads -> Domains \cup {Nobody}]
    /\ \A t \in Threads :
          /\ pc[t] # "idle" => t \in callers /\ dom[t] \in Domains
          /\ pc[t] \in {"dependent", "move"} => other[t] \in Domains

\* A dependency lacks its converse only while the thread that adds it is
\* between the two updates.
DependencyInv ==
    /\ \A d, e \in Domains : d \in dependents[e] => e \in dependencies[d]
    /\ \A d, e \in Domains : e \in dependencies[d] =>
          \/ d \in dependents[e]
          \/ \E t \in Threads : pc[t] = "dependent" /\ dom[t] = d /\ other[t] = e
    /\ \A t \in Threads : pc[t] = "dependent" => other[t] \in dependencies[dom[t]]

OwnedIn(owners, d) == {o \in Objects : owners[o] = d}
Owned(d) == OwnedIn(owner, d)

\* What the owner map already shows and the count does not yet.
Coming(t, d) ==
    IF \/ pc[t] = "gain" /\ d = dom[t]
       \/ pc[t] = "move" /\ d = other[t] THEN 1 ELSE 0
Leaving(t, d) == IF pc[t] \in {"lose", "move"} /\ d = dom[t] THEN 1 ELSE 0

\* Between its steps a sequential caller's count is behind by exactly what it
\* is about to add or take away; reclaim has emptied what it sets to zero.
CountInv ==
    Sequential => \A t \in callers :
        /\ pc[t] = "zero" => Owned(dom[t]) = {}
        /\ pc[t] = "move" => Owned(other[t]) # {}
        /\ \A d \in Domains : ~(pc[t] = "zero" /\ d = dom[t]) =>
              count[d] + Coming(t, d) = Cardinality(Owned(d)) + Leaving(t, d)

\* Only a domain whose reclaim is under way is terminated and owns something,
\* and nobody is about to give an object to a terminated one.
TerminatedInv ==
    Sequential /\ ~lifecycle => \A t \in callers :
        /\ pc[t] \in {"register", "transfer"} => state[dom[t]] # "Terminated"
        /\ \A d \in Domains :
              state[d] = "Terminated" /\ ~(pc[t] = "reclaim" /\ d = dom[t])
                  => Owned(d) = {}

DomainInv == DataOK /\ LocalsOK /\ DependencyInv /\ CountInv /\ TerminatedInv

\* A step of thread t leaves the others where they are.
OthersWait(t) ==
    \A u \in Threads \ {t} : pc'[u] = pc[u] /\ dom'[u] = dom[u] /\ other'[u] = other[u]

\* Beginning an operation, or ending it, keeps the locals in order, ...
LEMMA CallOK ==
    ASSUME LocalsOK, UNCHANGED callers, NEW t \in Threads, NEW l \in Steps,
           NEW d \in Domains \cup {Nobody}, NEW e \in Domains \cup {Nobody}, NEW f,
           Call(t, l, d, e, f),
           l # "idle" => t \in callers /\ d \in Domains,
           l \in {"dependent", "move"} => e \in Domains
    PROVE  /\ LocalsOK' /\ OthersWait(t)
           /\ pc'[t] = l /\ dom'[t] = d /\ other'[t] = e
<1>1. /\ pc' \in [Threads -> Steps] /\ pc'[t] = l
      /\ \A u \in Threads \ {t} : pc'[u] = pc[u]
  BY DEF Call, LocalsOK
<1>2. /\ dom' \in [Threads -> Domains \cup {Nobody}] /\ dom'[t] = d
      /\ \A u \in Threads \ {t} : dom'[u] = dom[u]
  BY DEF Call, LocalsOK
<1>3. /\ other' \in [Threads -> Domains \cup {Nobody}] /\ other'[t] = e
      /\ \A u \in Threads \ {t} : other'[u] = other[u]
  BY DEF Call, LocalsOK
<1>4. LocalsOK'
  BY <1>1, <1>2, <1>3 DEF LocalsOK
<1> QED
  BY <1>1, <1>2, <1>3, <1>4 DEF OthersWait

LEMMA ReturnOK ==
    ASSUME LocalsOK, UNCHANGED callers, NEW t \in Threads, Return(t)
    PROVE  /\ LocalsOK' /\ OthersWait(t) /\ pc'[t] = "idle"
BY CallOK DEF Return, Steps

\* ... and so does going on to the next step of it.
LEMMA GotoOK ==
    ASSUME LocalsOK, UNCHANGED callers, NEW t \in Threads, NEW l \in Steps,
           Goto(t, l), pc[t] # "idle", l \notin {"dependent", "move"}
    PROVE  /\ LocalsOK' /\ OthersWait(t)
           /\ pc'[t] = l /\ dom'[t] = dom[t] /\ other'[t] = other[t]
<1>1. /\ pc' \in [Threads -> Steps] /\ pc'[t] = l /\ dom' = dom /\ other' = other
      /\ \A u \in Threads \ {t} : pc'[u] = pc[u]
  BY DEF Goto, LocalsOK, localVars
<1>2. LocalsOK'
  BY <1>1 DEF LocalsOK
<1> QED
  BY <1>1, <1>2 DEF OthersWait

LEMMA StayOK ==
    ASSUME LocalsOK, UNCHANGED <<callers, pc, localVars>>, NEW t \in Threads
    PROVE  /\ LocalsOK' /\ OthersWait(t)
           /\ pc'[t] = pc[t] /\ dom'[t] = dom[t] /\ other'[t] = other[t]
BY DEF LocalsOK, OthersWait, localVars

\* With one caller, the thread that takes a step is that caller.
LEMMA Alone ==
    ASSUME DataOK, Sequential, NEW t \in callers
    PROVE  callers = {t}
<1>1. IsFiniteSet(callers)
  BY DomainAssumption, FS_Subset DEF DataOK
<1>2. \E x : callers = {x}
  BY <1>1, FS_Singleton DEF Sequential
<1> QED
  BY <1>2

LEMMA OwnedFinite ==
    ASSUME NEW w, NEW d
    PROVE  IsFiniteSet(OwnedIn(w, d)) /\ Cardinality(OwnedIn(w, d)) \in Nat
<1>1. OwnedIn(w, d) \in SUBSET Objects
  BY DEF OwnedIn
<1>2. IsFiniteSet(OwnedIn(w, d))
  BY <1>1, DomainAssumption, FS_Subset
<1> QED
  BY <1>2, FS_CardinalityType

\* Owners w become v as object o is given to d, and what that does to the sets
\* of objects of the two owners and of the others.
Gives(w, v, o, d) ==
    v[o] = d /\ w[o] # d /\ \A p \in Objects \ {o} : v[p] = w[p]

Moved(w, v, d, e) ==
    /\ Cardinality(OwnedIn(v, d)) = Cardinality(OwnedIn(w, d)) + 1
    /\ Cardinality(OwnedIn(w, e)) = Cardinality(OwnedIn(v, e)) + 1
    /\ \A x : x # d /\ x # e => OwnedIn(v, x) = OwnedIn(w, x)

\* Giving object o to d moves it from one owner's objects to the other's.
LEMMA Given ==
    ASSUME NEW w, NEW v, NEW o \in Objects, NEW d, Gives(w, v, o, d)
    PROVE  Moved(w, v, d, w[o])
<1>1. OwnedIn(v, d) = OwnedIn(w, d) \cup {o} /\ o \notin OwnedIn(w, d)
  BY DEF OwnedIn, Gives
<1>2. OwnedIn(w, w[o]) = OwnedIn(v, w[o]) \cup {o} /\ o \notin OwnedIn(v, w[o])
  BY DEF OwnedIn, Gives
<1>3. \A x : x # d /\ x # w[o] => OwnedIn(v, x) = OwnedIn(w, x)
  BY DEF OwnedIn, Gives
<1>4. Cardinality(OwnedIn(w, d) \cup {o}) = Cardinality(OwnedIn(w, d)) + 1
  BY <1>1, OwnedFinite, FS_AddElement
<1>5. Cardinality(OwnedIn(v, w[o]) \cup {o}) = Cardinality(OwnedIn(v, w[o])) + 1
  BY <1>2, OwnedFinite, FS_AddElement
<1> QED
  BY <1>1, <1>2, <1>3, <1>4, <1>5 DEF Moved

\* A step that adds no dependency keeps DependencyInv, ...
LEMMA DependencyFrame ==
    ASSUME DependencyInv, NEW t \in Threads, OthersWait(t),
           UNCHANGED <<dependencies, dependents>>,
           pc[t] # "dependent", pc'[t] # "dependent"
    PROVE  DependencyInv'
<1>1. \A u \in Threads : pc'[u] = "dependent" =>
         pc[u] = "dependent" /\ dom'[u] = dom[u] /\ other'[u] = other[u]
  BY DEF OthersWait
<1>2. \A u \in Threads : pc[u] = "dependent" =>
         pc'[u] = "dependent" /\ dom'[u] = dom[u] /\ other'[u] = other[u]
  BY DEF OthersWait
<1>3. \A d, e \in Domains : e \in dependencies'[d] =>
         \/ d \in dependents'[e]
         \/ \E u \in Threads : pc'[u] = "dependent" /\ dom'[u] = d /\ other'[u] = e
  <2> SUFFICES ASSUME NEW d \in Domains, NEW e \in Domains, e \in dependencies[d],
                      d \notin dependents[e]
               PROVE  \E u \in Threads : pc'[u] = "dependent" /\ dom'[u] = d /\ other'[u] = e
    OBVIOUS
  <2>1. PICK u \in Threads : pc[u] = "dependent" /\ dom[u] = d /\ other[u] = e
    BY DEF DependencyInv
  <2> QED
    BY <2>1, <1>2
<1> QED
  BY <1>1, <1>3 DEF DependencyInv

\* ... one that touches neither owners nor counts keeps CountInv, ...
LEMMA CountFrame ==
    ASSUME DataOK, CountInv, NEW t \in callers, UNCHANGED <<callers, count, owner>>,
           pc[t] \notin {"zero", "gain", "lose", "move"},
           pc'[t] \notin {"zero", "gain", "lose", "move"}
    PROVE  CountInv'
<1> SUFFICES ASSUME Sequential
             PROVE  \A d \in Domains : count'[d] + Coming(t, d)' = Cardinality(Owned(d)') + Leaving(t, d)'
  BY Alone DEF CountInv, Sequential
<1>1. \A d \in Domains : /\ Coming(t, d) = 0 /\ Leaving(t, d) = 0
                         /\ Coming(t, d)' = 0 /\ Leaving(t, d)' = 0
  BY DEF Coming, Leaving
<1>2. \A d \in Domains : count[d] + Coming(t, d) = Cardinality(Owned(d)) + Leaving(t, d)
  BY DEF CountInv
<1> QED
  BY <1>1, <1>2 DEF Owned

\* ... and one that moves no object keeps TerminatedInv if it terminates a
\* domain only on the way to reclaim it.
LEMMA TerminatedFrame ==
    ASSUME DataOK, LocalsOK, TerminatedInv, NEW t \in callers,
           UNCHANGED <<lifecycle, callers, owner>>, pc[t] # "reclaim",
           pc'[t] \in {"register", "transfer"} => state'[dom'[t]] # "Terminated",
           \A d \in Domains : state'[d] = "Terminated" =>
              state[d] = "Terminated" \/ lifecycle \/ (pc'[t] = "reclaim" /\ dom'[t] = d)
    PROVE  TerminatedInv'
<1> SUFFICES ASSUME Sequential, ~lifecycle,
                    NEW d \in Domains, state'[d] = "Terminated",
                    ~(pc'[t] = "reclaim" /\ d = dom'[t])
             PROVE  Owned(d)' = {}
  BY Alone DEF TerminatedInv, Sequential
<1>1. Owned(d) = {}
  BY DEF TerminatedInv
<1> QED
  BY <1>1 DEF Owned

\* The steps that move no object and change no count.
LEMMA QuietStep ==
    ASSUME DomainInv, NEW t \in callers, DataOK', LocalsOK', OthersWait(t),
           UNCHANGED <<lifecycle, callers, count, owner>>,
           pc[t] \notin {"zero", "gain", "lose", "move", "reclaim"},
           pc'[t] \notin {"zero", "gain", "lose", "move"},
           pc'[t] \in {"register", "transfer"} => state'[dom'[t]] # "Terminated",
           \A d \in Domains : state'[d] = "Terminated" =>
              state[d] = "Terminated" \/ lifecycle \/ (pc'[t] = "reclaim" /\ dom'[t] = d),
           DependencyInv'
    PROVE  DomainInv'
BY CountFrame, TerminatedFrame DEF DomainInv

\* What every step starts from.
LEMMA Caller ==
    ASSUME DomainInv, NEW t \in Threads, MayCall(t) \/ pc[t] # "idle"
    PROVE  t \in callers
BY DEF DomainInv, LocalsOK, MayCall

\* create_domain, spawn_domain_task, start, stop and restart.
LEMMA LifeCycleSteps ==
    ASSUME DomainInv, NEW t \in Threads,
           \/ SpawnRun(t) \/ RestartInit(t)
           \/ \E d \in Domains :
                 \/ \E s \in BOOLEAN : Create(t, d, s)
                 \/ StartDomain(t, d) \/ StopDomain(t, d) \/ RestartCheck(t, d)
    PROVE  DomainInv'
<1> USE DEF DomainInv
<1>1. CASE SpawnRun(t)
  <2>1. t \in callers /\ UNCHANGED usageVars /\ dom[t] \in Domains
    BY <1>1, Caller DEF SpawnRun, LocalsOK
  <2>2. LocalsOK' /\ OthersWait(t) /\ pc'[t] = "idle"
    BY <1>1, <2>1, ReturnOK DEF SpawnRun, usageVars
  <2>3. DataOK' /\ \A d \in Domains : state'[d] = "Terminated" => state[d] = "Terminated"
    BY <1>1, <2>1 DEF SpawnRun, DataOK, SetState, usageVars
  <2>4. DependencyInv'
    BY <1>1, <2>2, DependencyFrame DEF SpawnRun
  <2> QED
    BY <1>1, <2>1, <2>2, <2>3, <2>4, QuietStep DEF SpawnRun, usageVars
<1>2. CASE RestartInit(t)
  <2>1. t \in callers /\ UNCHANGED usageVars /\ dom[t] \in Domains
    BY <1>2, Caller DEF RestartInit, LocalsOK
  <2>2. LocalsOK' /\ OthersWait(t) /\ pc'[t] = "spawned"
    BY <1>2, <2>1, GotoOK DEF RestartInit, usageVars, Steps
  <2>3. DataOK' /\ \A d \in Domains : state'[d] = "Terminated" => state[d] = "Terminated"
    BY <1>2, <2>1 DEF RestartInit, DataOK, SetState, usageVars
  <2>4. DependencyInv'
    BY <1>2, <2>2, DependencyFrame DEF RestartInit
  <2> QED
    BY <1>2, <2>1, <2>2, <2>3, <2>4, QuietStep DEF RestartInit, usageVars
<1>3. ASSUME NEW d \in Domains, NEW s \in BOOLEAN, Create(t, d, s)
      PROVE  DomainInv'
  <2>1. t \in callers /\ UNCHANGED usageVars /\ pc[t] = "idle"
    BY <1>3, Caller DEF Create, MayCall
  <2>2. LocalsOK' /\ OthersWait(t) /\ pc'[t] \in {"idle", "spawned"}
    <3>1. CASE s
      BY <1>3, <2>1, <3>1, CallOK DEF Create, usageVars, Steps
    <3>2. CASE ~s
      BY <1>3, <2>1, <3>2, StayOK DEF Create, usageVars
    <3> QED
      BY <3>1, <3>2
  <2>3. DataOK' /\ \A e \in Domains : state'[e] = "Terminated" => state[e] = "Terminated"
    BY <1>3, <2>1 DEF Create, DataOK, SetState, usageVars
  <2>4. DependencyInv'
    BY <1>3, <2>1, <2>2, DependencyFrame DEF Create
  <2> QED
    BY <1>3, <2>1, <2>2, <2>3, <2>4, QuietStep DEF Create, usageVars
<1>4. ASSUME NEW d \in Domains, StartDomain(t, d) \/ StopDomain(t, d)
      PROVE  DomainInv'
  <2>1. t \in callers /\ UNCHANGED <<usageVars, pc, localVars>> /\ pc[t] = "idle"
    BY <1>4, Caller DEF StartDomain, StopDomain, MayCall
  <2>2. LocalsOK' /\ OthersWait(t) /\ pc'[t] = "idle"
    BY <2>1, StayOK DEF usageVars
  <2>3. DataOK' /\ \A e \in Domains : state'[e] = "Terminated" => state[e] = "Terminated"
    BY <1>4, <2>1 DEF StartDomain, StopDomain, DataOK, SetState, usageVars
  <2>4. DependencyInv'
    BY <1>4, <2>1, <2>2, DependencyFrame DEF StartDomain, StopDomain
  <2> QED
    BY <1>4, <2>1, <2>2, <2>3, <2>4, QuietStep DEF StartDomain, StopDomain, usageVars
<1>5. ASSUME NEW d \in Domains, RestartCheck(t, d)
      PROVE  DomainInv'
  <2>1. t \in callers /\ UNCHANGED <<usageVars, domainVars, owner>> /\ pc[t] = "idle"
    BY <1>5, Caller DEF RestartCheck, MayCall
  <2>2. LocalsOK' /\ OthersWait(t) /\ pc'[t] = "restart"
    BY <1>5, <2>1, CallOK DEF RestartCheck, usageVars, Steps
  <2>3. DataOK'
    BY <2>1 DEF DataOK, usageVars, domainVars
  <2>4. DependencyInv'
    BY <2>1, <2>2, DependencyFrame DEF domainVars
  <2> QED
    BY <2>1, <2>2, <2>3, <2>4, QuietStep DEF usageVars, domainVars
<1> QED
  BY <1>1, <1>2, <1>3, <1>4, <1>5

\* The two halves of add_domain_dependency.
LEMMA DependencySteps ==
    ASSUME DomainInv, NEW t \in Threads,
           \/ AddDependent(t)
           \/ \E d \in Domains : \E e \in Domains \ {d} : AddDependency(t, d, e)
    PROVE  DomainInv'
<1> USE DEF DomainInv
<1>1. CASE AddDependent(t)
  <2>1. /\ t \in callers /\ UNCHANGED usageVars
        /\ dom[t] \in Domains /\ other[t] \in Domains
        /\ other[t] \in dependencies[dom[t]]
    BY <1>1, Caller DEF AddDependent, LocalsOK, DependencyInv
  <2>2. LocalsOK' /\ OthersWait(t) /\ pc'[t] = "idle"
    BY <1>1, <2>1, ReturnOK DEF AddDependent, usageVars
  <2>3. DataOK'
    BY <1>1, <2>1 DEF AddDependent, DataOK, usageVars
  <2>4. \A d, e \in Domains : d \in dependents'[e] <=>
           d \in dependents[e] \/ (d = dom[t] /\ e = other[t])
    BY <1>1, <2>1 DEF AddDependent, DataOK
  <2>5. DependencyInv'
    <3>1. dependencies' = dependencies
      BY <1>1 DEF AddDependent
    <3>2. \A u \in Threads : pc'[u] = "dependent" =>
             pc[u] = "dependent" /\ dom'[u] = dom[u] /\ other'[u] = other[u]
      BY <2>2 DEF OthersWait
    <3>3. ASSUME NEW d \in Domains, NEW e \in Domains, e \in dependencies[d],
                 d \notin dependents'[e]
          PROVE  \E u \in Threads : pc'[u] = "dependent" /\ dom'[u] = d /\ other'[u] = e
      <4>1. PICK u \in Threads : pc[u] = "dependent" /\ dom[u] = d /\ other[u] = e
        BY <2>4, <3>3 DEF DependencyInv
      <4>2. u # t
        BY <2>4, <3>3, <4>1
      <4> QED
        BY <2>2, <4>1, <4>2 DEF OthersWait
    <3>4. \A d, e \in Domains : d \in dependents'[e] => e \in dependencies'[d]
      BY <2>1, <2>4, <3>1 DEF DependencyInv
    <3>5. \A u \in Threads : pc'[u] = "dependent" => other'[u] \in dependencies'[dom'[u]]
      BY <3>1, <3>2 DEF DependencyInv
    <3> QED
      BY <3>1, <3>3, <3>4, <3>5 DEF DependencyInv
  <2> QED
    BY <1>1, <2>1, <2>2, <2>3, <2>5, QuietStep DEF AddDependent, usageVars
<1>2. ASSUME NEW d \in Domains, NEW e \in Domains \ {d}, AddDependency(t, d, e)
      PROVE  DomainInv'
  <2>1. t \in callers /\ UNCHANGED usageVars /\ pc[t] = "idle"
    BY <1>2, Caller DEF AddDependency, MayCall
  <2>2. /\ LocalsOK' /\ OthersWait(t)
        /\ pc'[t] = "dependent" /\ dom'[t] = d /\ other'[t] = e
    BY <1>2, <2>1, CallOK DEF AddDependency, usageVars, Steps
  <2>3. DataOK'
    BY <1>2, <2>1 DEF AddDependency, DataOK, usageVars
  <2>4. \A b, c \in Domains : c \in dependencies'[b] <=>
           c \in dependencies[b] \/ (b = d /\ c = e)
    BY <1>2, <2>1 DEF AddDependency, DataOK
  <2>5. DependencyInv'
    <3>1. dependents' = dependents
      BY <1>2 DEF AddDependency
    <3>2. ASSUME NEW b \in Domains, NEW c \in Domains, c \in dependencies'[b],
                 b \notin dependents[c]
          PROVE  \E u \in Threads : pc'[u] = "dependent" /\ dom'[u] = b /\ other'[u] = c
      <4>1. CASE b = d /\ c = e
        BY <2>2, <4>1
      <4>2. CASE c \in dependencies[b]
        <5>1. PICK u \in Threads : pc[u] = "dependent" /\ dom[u] = b /\ other[u] = c
          BY <3>2, <4>2 DEF DependencyInv
        <5>2. u # t
          BY <2>1, <5>1
        <5> QED
          BY <2>2, <5>1, <5>2 DEF OthersWait
      <4> QED
        BY <2>4, <3>2, <4>1, <4>2
    <3>3. \A b, c \in Domains : b \in dependents'[c] => c \in dependencies'[b]
      BY <2>4, <3>1 DEF DependencyInv
    <3>4. ASSUME NEW u \in Threads, pc'[u] = "dependent"
          PROVE  other'[u] \in dependencies'[dom'[u]]
      <4>1. CASE u = t
        BY <2>2, <2>4, <4>1
      <4>2. CASE u # t
        <5>1. /\ pc[u] = "dependent" /\ dom'[u] = dom[u] /\ other'[u] = other[u]
              /\ dom[u] \in Domains /\ other[u] \in Domains
          BY <2>2, <3>4, <4>2 DEF OthersWait, LocalsOK
        <5> QED
          BY <2>4, <5>1 DEF DependencyInv
      <4> QED
        BY <4>1, <4>2
    <3> QED
      BY <3>1, <3>2, <3>3, <3>4 DEF DependencyInv
  <2> QED
    BY <1>2, <2>1, <2>2, <2>3, <2>5, QuietStep DEF AddDependency, usageVars
<1> QED
  BY <1>1, <1>2

\* Ending a domain: terminate_domain, handle_domain_panic and the reclaim.
LEMMA EndSteps ==
    ASSUME DomainInv, NEW t \in Threads,
           \/ ReclaimObjects(t) \/ ReclaimZero(t) \/ Notify(t)
           \/ \E d \in Domains :
                 \/ Terminate(t, d) \/ Panic(t, d)
                 \/ \E s \in {"Terminated", "Stopped"} : LifecycleEnd(t, d, s)
    PROVE  DomainInv'
<1> USE DEF DomainInv
<1>1. ASSUME NEW d \in Domains, Terminate(t, d) \/ Panic(t, d)
      PROVE  DomainInv'
  <2>1. t \in callers /\ UNCHANGED usageVars /\ pc[t] = "idle"
    BY <1>1, Caller DEF Terminate, Panic, MayCall
  <2>2. LocalsOK' /\ OthersWait(t) /\ pc'[t] = "reclaim" /\ dom'[t] = d
    <3>1. PICK f : Call(t, "reclaim", d, Nobody, f)
      BY <1>1 DEF Terminate, Panic
    <3> QED
      BY <2>1, <3>1, CallOK DEF usageVars, Steps
  <2>3. DataOK' /\ \A e \in Domains : state'[e] = "Terminated" => state[e] = "Terminated" \/ e = d
    BY <1>1, <2>1 DEF Terminate, Panic, DataOK, SetState, usageVars
  <2>4. DependencyInv'
    BY <1>1, <2>1, <2>2, DependencyFrame DEF Terminate, Panic
  <2> QED
    BY <1>1, <2>1, <2>2, <2>3, <2>4, QuietStep DEF Terminate, Panic, usageVars
<1>2. ASSUME NEW d \in Domains, NEW s \in {"Terminated", "Stopped"}, LifecycleEnd(t, d, s)
      PROVE  DomainInv'
  <2>1. /\ t \in callers /\ UNCHANGED <<usageVars, pc, localVars>>
        /\ pc[t] = "idle" /\ lifecycle
    BY <1>2, Caller DEF LifecycleEnd, MayCall
  <2>2. LocalsOK' /\ OthersWait(t) /\ pc'[t] = "idle"
    BY <2>1, StayOK DEF usageVars
  <2>3. DataOK'
    BY <1>2, <2>1 DEF LifecycleEnd, DataOK, SetState, usageVars
  <2>4. DependencyInv'
    BY <1>2, <2>1, <2>2, DependencyFrame DEF LifecycleEnd
  <2> QED
    BY <1>2, <2>1, <2>2, <2>3, <2>4, QuietStep DEF LifecycleEnd, usageVars
<1>3. CASE ReclaimObjects(t)
  <2>1. /\ t \in callers /\ UNCHANGED <<usageVars, domainVars>>
        /\ dom[t] \in Domains /\ pc[t] = "reclaim"
    BY <1>3, Caller DEF ReclaimObjects, LocalsOK
  <2>2. LocalsOK' /\ OthersWait(t) /\ pc'[t] = "zero" /\ dom'[t] = dom[t]
    BY <1>3, <2>1, GotoOK DEF ReclaimObjects, usageVars, Steps
  <2>3. DataOK'
    BY <1>3, <2>1 DEF ReclaimObjects, DataOK, usageVars, domainVars
  <2>4. DependencyInv'
    BY <2>1, <2>2, DependencyFrame DEF domainVars
  <2>5. /\ OwnedIn(owner', dom[t]) = {}
        /\ \A d \in Domains : d # dom[t] => OwnedIn(owner', d) = OwnedIn(owner, d)
    BY <1>3, <2>1, DomainAssumption DEF ReclaimObjects, OwnedIn, DataOK
  <2>6. CountInv'
    <3> SUFFICES ASSUME Sequential
                 PROVE  \A d \in Domains : d # dom[t] =>
                           count'[d] + Coming(t, d)' = Cardinality(Owned(d)') + Leaving(t, d)'
      BY <2>1, <2>2, <2>5, Alone DEF CountInv, Sequential, usageVars, Owned
    <3>1. \A d \in Domains : /\ Coming(t, d) = 0 /\ Leaving(t, d) = 0
                             /\ Coming(t, d)' = 0 /\ Leaving(t, d)' = 0
      BY <2>1, <2>2 DEF Coming, Leaving
    <3>2. \A d \in Domains : count[d] + Coming(t, d) = Cardinality(Owned(d)) + Leaving(t, d)
      BY <2>1 DEF CountInv
    <3> QED
      BY <2>1, <2>5, <3>1, <3>2 DEF Owned, domainVars
  <2>7. TerminatedInv'
    <3> SUFFICES ASSUME Sequential, ~lifecycle, NEW d \in Domains, state[d] = "Terminated"
                 PROVE  OwnedIn(owner', d) = {}
      BY <2>1, <2>2, Alone DEF TerminatedInv, Sequential, usageVars, domainVars, Owned
    <3> QED
      BY <2>1, <2>5 DEF TerminatedInv, Owned
  <2> QED
    BY <2>2, <2>3, <2>4, <2>6, <2>7
<1>4. CASE ReclaimZero(t)
  <2>1. /\ t \in callers /\ UNCHANGED <<usageVars, state, dependencies, dependents, owner>>
        /\ dom[t] \in Domains /\ pc[t] = "zero"
    BY <1>4, Caller DEF ReclaimZero, LocalsOK
  <2>2. LocalsOK' /\ OthersWait(t) /\ pc'[t] = "notify" /\ dom'[t] = dom[t]
    BY <1>4, <2>1, GotoOK DEF ReclaimZero, usageVars, Steps
  <2>3. DataOK' /\ count'[dom[t]] = 0 /\ \A d \in Domains : d # dom[t] => count'[d] = count[d]
    BY <1>4, <2>1 DEF ReclaimZero, DataOK, usageVars
  <2>4. DependencyInv'
    BY <2>1, <2>2, DependencyFrame
  <2>5. CountInv'
    <3> SUFFICES ASSUME Sequential, NEW d \in Domains
                 PROVE  count'[d] + Coming(t, d)' = Cardinality(Owned(d)') + Leaving(t, d)'
      BY <2>1, <2>2, Alone DEF CountInv, Sequential, usageVars
    <3>1. /\ Coming(t, d) = 0 /\ Leaving(t, d) = 0 /\ Coming(t, d)' = 0 /\ Leaving(t, d)' = 0
      BY <2>1, <2>2 DEF Coming, Leaving
    <3>2. CASE d = dom[t]
      <4>1. Owned(d) = {} /\ Cardinality({}) = 0
        BY <2>1, <3>2, FS_EmptySet DEF CountInv
      <4> QED
        BY <2>1, <2>3, <3>1, <3>2, <4>1 DEF Owned
    <3>3. CASE d # dom[t]
      <4>1. count[d] + Coming(t, d) = Cardinality(Owned(d)) + Leaving(t, d)
        BY <2>1, <3>3 DEF CountInv
      <4> QED
        BY <2>1, <2>3, <3>1, <3>3, <4>1 DEF Owned
    <3> QED
      BY <3>2, <3>3
  <2>6. TerminatedInv'
    BY <2>1, <2>2, TerminatedFrame DEF usageVars
  <2> QED
    BY <2>2, <2>3, <2>4, <2>5, <2>6
<1>5. CASE Notify(t)
  <2>1. /\ t \in callers /\ pc[t] = "notify"
        /\ UNCHANGED <<usageVars, state, count, dependencies, dependents, owner>>
    BY <1>5, Caller DEF Notify
  <2>2. LocalsOK' /\ OthersWait(t) /\ pc'[t] = "idle"
    BY <1>5, <2>1, ReturnOK DEF Notify, usageVars
  <2>3. DataOK'
    BY <2>1 DEF DataOK, usageVars
  <2>4. DependencyInv'
    BY <2>1, <2>2, DependencyFrame
  <2> QED
    BY <2>1, <2>2, <2>3, <2>4, QuietStep DEF usageVars
<1> QED
  BY <1>1, <1>2, <1>3, <1>4, <1>5

\* The first halves of register, unregister and transfer, under the lock of
\* the heap registry: nothing to register, ...
LEMMA OutOfMemoryStep ==
    ASSUME DomainInv, NEW t \in Threads, OutOfMemory(t)
    PROVE  DomainInv'
<1> USE DEF DomainInv
<1>1. /\ t \in callers /\ pc[t] = "register" /\ UNCHANGED <<usageVars, domainVars, owner>>
  BY Caller DEF OutOfMemory
<1>2. LocalsOK' /\ OthersWait(t) /\ pc'[t] = "idle"
  BY <1>1, ReturnOK DEF OutOfMemory, usageVars
<1>3. DataOK'
  BY <1>1 DEF DataOK, usageVars, domainVars
<1>4. DependencyInv'
  BY <1>1, <1>2, DependencyFrame DEF domainVars
<1> QED
  BY <1>1, <1>2, <1>3, <1>4, QuietStep DEF usageVars, domainVars

\* ... the decision to register an object or to give one away, ...
LEMMA DecideStep ==
    ASSUME DomainInv, NEW t \in Threads, NEW d \in Domains, NEW l \in {"register", "transfer"}, Decide(t, l, d)
    PROVE  DomainInv'
<1> USE DEF DomainInv
<1>1. /\ t \in callers /\ pc[t] = "idle" /\ UNCHANGED <<usageVars, domainVars, owner>>
      /\ state[d] # "Terminated"
  BY Caller DEF Decide, MayCall, Active
<1>2. LocalsOK' /\ OthersWait(t) /\ pc'[t] = l /\ dom'[t] = d
  BY <1>1, CallOK DEF Decide, usageVars, Steps
<1>3. DataOK'
  BY <1>1 DEF DataOK, usageVars, domainVars
<1>4. DependencyInv'
  BY <1>1, <1>2, DependencyFrame DEF domainVars
<1> QED
  BY <1>1, <1>2, <1>3, <1>4, QuietStep DEF usageVars, domainVars

\* ... an object that gets its first owner, ...
LEMMA RegisterStep ==
    ASSUME DomainInv, NEW t \in Threads, NEW o \in Objects, Register(t, o)
    PROVE  DomainInv'
<1> USE DEF DomainInv
<1>1. /\ t \in callers /\ pc[t] = "register" /\ UNCHANGED <<usageVars, domainVars>>
      /\ dom[t] \in Domains /\ owner[o] = Nobody /\ owner' = [owner EXCEPT ![o] = dom[t]]
  BY Caller DEF Register, LocalsOK
<1>2. /\ LocalsOK' /\ OthersWait(t) /\ pc'[t] = "gain"
      /\ dom'[t] = dom[t] /\ other'[t] = other[t]
  BY <1>1, GotoOK DEF Register, usageVars, Steps
<1>3. DataOK'
  BY <1>1 DEF DataOK, usageVars, domainVars
<1>4. DependencyInv'
  BY <1>1, <1>2, DependencyFrame DEF domainVars
<1>5. /\ Cardinality(OwnedIn(owner', dom[t])) = Cardinality(OwnedIn(owner, dom[t])) + 1
      /\ \A d \in Domains : d # dom[t] => OwnedIn(owner', d) = OwnedIn(owner, d)
  <2>1. owner \in [Objects -> Domains \cup {Nobody}] /\ owner[o] # dom[t]
    BY <1>1, DomainAssumption DEF DataOK
  <2>2. \A d \in Domains : d # owner[o]
    BY <1>1, DomainAssumption
  <2>3. /\ Cardinality(OwnedIn(owner', dom[t])) = Cardinality(OwnedIn(owner, dom[t])) + 1
        /\ \A x : x # dom[t] /\ x # owner[o] => OwnedIn(owner', x) = OwnedIn(owner, x)
    <3>1. Gives(owner, owner', o, dom[t])
      BY <1>1, <2>1 DEF Gives
    <3>2. Moved(owner, owner', dom[t], owner[o])
      BY <3>1, Given
    <3> QED
      BY <3>2 DEF Moved
  <2> QED
    BY <2>2, <2>3
<1>6. CountInv'
  <2> SUFFICES ASSUME Sequential, NEW d \in Domains
               PROVE  count'[d] + Coming(t, d)' = Cardinality(OwnedIn(owner', d)) + Leaving(t, d)'
    BY <1>1, <1>2, Alone DEF CountInv, Sequential, usageVars, Owned
  <2>1. /\ Coming(t, d) = 0 /\ Leaving(t, d) = 0 /\ Leaving(t, d)' = 0
        /\ Coming(t, d)' = IF d = dom[t] THEN 1 ELSE 0
    BY <1>1, <1>2 DEF Coming, Leaving
  <2>2. count[d] + Coming(t, d) = Cardinality(OwnedIn(owner, d)) + Leaving(t, d)
    BY <1>1 DEF CountInv, Owned
  <2>3. count'[d] = count[d] /\ count[d] \in Nat /\ Cardinality(OwnedIn(owner, d)) \in Nat
    BY <1>1, OwnedFinite DEF DataOK, domainVars
  <2> QED
    BY <1>5, <2>1, <2>2, <2>3
<1>7. TerminatedInv'
  <2> SUFFICES ASSUME Sequential, ~lifecycle, NEW d \in Domains, state[d] = "Terminated"
               PROVE  OwnedIn(owner', d) = {}
    BY <1>1, <1>2, Alone DEF TerminatedInv, Sequential, usageVars, domainVars, Owned
  <2>1. d # dom[t] /\ OwnedIn(owner, d) = {}
    BY <1>1 DEF TerminatedInv, Owned
  <2> QED
    BY <1>5, <2>1
<1> QED
  BY <1>2, <1>3, <1>4, <1>6, <1>7

\* ... one that loses its owner, ...
LEMMA UnregisterStep ==
    ASSUME DomainInv, NEW t \in Threads, NEW o \in Objects, Unregister(t, o)
    PROVE  DomainInv'
<1> USE DEF DomainInv
<1>1. /\ t \in callers /\ pc[t] = "idle" /\ UNCHANGED <<usageVars, domainVars>>
      /\ owner[o] \in Domains /\ owner' = [owner EXCEPT ![o] = Nobody]
  BY Caller DEF Unregister, MayCall, DataOK
<1>2. LocalsOK' /\ OthersWait(t) /\ pc'[t] = "lose" /\ dom'[t] = owner[o]
  BY <1>1, CallOK DEF Unregister, usageVars, Steps
<1>3. DataOK'
  BY <1>1 DEF DataOK, usageVars, domainVars
<1>4. DependencyInv'
  BY <1>1, <1>2, DependencyFrame DEF domainVars
<1>5. /\ Cardinality(OwnedIn(owner, owner[o])) = Cardinality(OwnedIn(owner', owner[o])) + 1
      /\ \A d \in Domains : d # owner[o] => OwnedIn(owner', d) = OwnedIn(owner, d)
  <2>1. owner \in [Objects -> Domains \cup {Nobody}] /\ owner[o] # Nobody
    BY <1>1, DomainAssumption DEF DataOK
  <2>2. \A d \in Domains : d # Nobody
    BY DomainAssumption
  <2>3. /\ Cardinality(OwnedIn(owner, owner[o])) = Cardinality(OwnedIn(owner', owner[o])) + 1
        /\ \A x : x # Nobody /\ x # owner[o] => OwnedIn(owner', x) = OwnedIn(owner, x)
    <3>1. Gives(owner, owner', o, Nobody)
      BY <1>1, <2>1 DEF Gives
    <3>2. Moved(owner, owner', Nobody, owner[o])
      BY <3>1, Given
    <3> QED
      BY <3>2 DEF Moved
  <2> QED
    BY <2>2, <2>3
<1>6. CountInv'
  <2> SUFFICES ASSUME Sequential, NEW d \in Domains
               PROVE  count'[d] + Coming(t, d)' = Cardinality(OwnedIn(owner', d)) + Leaving(t, d)'
    BY <1>1, <1>2, Alone DEF CountInv, Sequential, usageVars, Owned
  <2>1. /\ Coming(t, d) = 0 /\ Leaving(t, d) = 0 /\ Coming(t, d)' = 0
        /\ Leaving(t, d)' = IF d = owner[o] THEN 1 ELSE 0
    BY <1>1, <1>2 DEF Coming, Leaving
  <2>2. count[d] + Coming(t, d) = Cardinality(OwnedIn(owner, d)) + Leaving(t, d)
    BY <1>1 DEF CountInv, Owned
  <2>3. /\ count'[d] = count[d] /\ count[d] \in Nat
        /\ Cardinality(OwnedIn(owner, d)) \in Nat /\ Cardinality(OwnedIn(owner', d)) \in Nat
    BY <1>1, OwnedFinite DEF DataOK, domainVars
  <2> QED
    BY <1>5, <2>1, <2>2, <2>3
<1>7. TerminatedInv'
  <2> SUFFICES ASSUME Sequential, ~lifecycle, NEW d \in Domains, state[d] = "Terminated"
               PROVE  OwnedIn(owner', d) = {}
    BY <1>1, <1>2, Alone DEF TerminatedInv, Sequential, usageVars, domainVars, Owned
  <2>1. OwnedIn(owner, d) = {}
    BY <1>1 DEF TerminatedInv, Owned
  <2>2. d # owner[o]
    BY <2>1 DEF OwnedIn
  <2> QED
    BY <1>5, <2>1, <2>2
<1> QED
  BY <1>2, <1>3, <1>4, <1>6, <1>7

\* ... and one that goes from one owner to another, or to the same.
LEMMA TransferStep ==
    ASSUME DomainInv, NEW t \in Threads, NEW o \in Objects, Transfer(t, o)
    PROVE  DomainInv'
<1> USE DEF DomainInv
<1>1. /\ t \in callers /\ pc[t] = "transfer" /\ dom[t] \in Domains
      /\ UNCHANGED <<usageVars, domainVars>>
  BY Caller DEF Transfer, LocalsOK
<1>2. CASE owner[o] = Nobody
  <2>1. LocalsOK' /\ OthersWait(t) /\ pc'[t] = "idle" /\ UNCHANGED owner
    BY <1>1, <1>2, ReturnOK DEF Transfer, usageVars
  <2>2. DataOK'
    BY <1>1, <2>1 DEF DataOK, usageVars, domainVars
  <2>3. DependencyInv'
    BY <1>1, <2>1, DependencyFrame DEF domainVars
  <2> QED
    BY <1>1, <2>1, <2>2, <2>3, QuietStep DEF usageVars, domainVars
<1>3. CASE owner[o] # Nobody
  <2>1. owner[o] \in Domains /\ owner' = [owner EXCEPT ![o] = dom[t]]
    BY <1>3 DEF Transfer, DataOK
  <2>2. /\ LocalsOK' /\ OthersWait(t) /\ pc'[t] = "move"
        /\ dom'[t] = owner[o] /\ other'[t] = dom[t]
    BY <1>1, <1>3, <2>1, CallOK DEF Transfer, usageVars, Steps
  <2>3. DataOK'
    BY <1>1, <2>1 DEF DataOK, usageVars, domainVars
  <2>4. DependencyInv'
    BY <1>1, <2>2, DependencyFrame DEF domainVars
  <2>5. OwnedIn(owner', dom[t]) # {}
    BY <2>1 DEF OwnedIn, DataOK
  <2>6. \A d \in Domains :
           /\ Cardinality(OwnedIn(owner, d)) \in Nat /\ Cardinality(OwnedIn(owner', d)) \in Nat
           /\ Cardinality(OwnedIn(owner', d)) + (IF d = owner[o] THEN 1 ELSE 0)
                = Cardinality(OwnedIn(owner, d)) + (IF d = dom[t] THEN 1 ELSE 0)
           /\ d # dom[t] /\ OwnedIn(owner, d) = {} => OwnedIn(owner', d) = {}
    <3> SUFFICES ASSUME NEW d \in Domains
                 PROVE  /\ Cardinality(OwnedIn(owner', d)) + (IF d = owner[o] THEN 1 ELSE 0)
                             = Cardinality(OwnedIn(owner, d)) + (IF d = dom[t] THEN 1 ELSE 0)
                        /\ d # dom[t] /\ OwnedIn(owner, d) = {} => OwnedIn(owner', d) = {}
      BY OwnedFinite
    <3>1. CASE owner[o] = dom[t]
      <4>1. owner' = owner
        BY <2>1, <3>1 DEF DataOK
      <4> QED
        BY <3>1, <4>1
    <3>2. CASE owner[o] # dom[t]
      <4>1. /\ Cardinality(OwnedIn(owner', dom[t])) = Cardinality(OwnedIn(owner, dom[t])) + 1
            /\ Cardinality(OwnedIn(owner, owner[o])) = Cardinality(OwnedIn(owner', owner[o])) + 1
            /\ d # dom[t] /\ d # owner[o] => OwnedIn(owner', d) = OwnedIn(owner, d)
        <5>1. owner \in [Objects -> Domains \cup {Nobody}]
          BY DEF DataOK
        <5>2. Gives(owner, owner', o, dom[t])
          BY <2>1, <3>2, <5>1 DEF Gives
        <5>3. Moved(owner, owner', dom[t], owner[o])
          BY <5>2, Given
        <5> QED
          BY <5>3 DEF Moved
      <4>2. Cardinality(OwnedIn(owner, d)) \in Nat /\ Cardinality(OwnedIn(owner', d)) \in Nat
        BY OwnedFinite
      <4>3. OwnedIn(owner, owner[o]) # {}
        BY DEF OwnedIn
      <4> QED
        BY <3>2, <4>1, <4>2, <4>3
    <3> QED
      BY <3>1, <3>2
  <2>7. CountInv'
    <3> SUFFICES ASSUME Sequential, NEW d \in Domains
                 PROVE  count'[d] + Coming(t, d)' = Cardinality(OwnedIn(owner', d)) + Leaving(t, d)'
      BY <1>1, <2>2, <2>5, Alone DEF CountInv, Sequential, usageVars, Owned
    <3>1. /\ Coming(t, d) = 0 /\ Leaving(t, d) = 0
          /\ Coming(t, d)' = IF d = dom[t] THEN 1 ELSE 0
          /\ Leaving(t, d)' = IF d = owner[o] THEN 1 ELSE 0
      BY <1>1, <2>2 DEF Coming, Leaving
    <3>2. count[d] + Coming(t, d) = Cardinality(OwnedIn(owner, d)) + Leaving(t, d)
      BY <1>1 DEF CountInv, Owned
    <3>3. count'[d] = count[d] /\ count[d] \in Nat
      BY <1>1 DEF DataOK, domainVars
    <3> QED
      BY <2>6, <3>1, <3>2, <3>3
  <2>8. TerminatedInv'
    <3> SUFFICES ASSUME Sequential, ~lifecycle, NEW d \in Domains, state[d] = "Terminated"
                 PROVE  OwnedIn(owner', d) = {}
      BY <1>1, <2>2, Alone DEF TerminatedInv, Sequential, usageVars, domainVars, Owned
    <3>1. d # dom[t] /\ OwnedIn(owner, d) = {}
      BY <1>1 DEF TerminatedInv, Owned
    <3> QED
      BY <2>6, <3>1
  <2> QED
    BY <2>2, <2>3, <2>4, <2>7, <2>8
<1> QED
  BY <1>2, <1>3

\* The second halves, under the lock of the registry: the count catches up, and
\* its saturating decrement never meets a zero.
LEMMA CountSteps ==
    ASSUME DomainInv, NEW t \in Threads,
           RegisterCount(t) \/ UnregisterCount(t) \/ TransferCount(t)
    PROVE  DomainInv'
<1> USE DEF DomainInv
<1>1. /\ t \in callers /\ dom[t] \in Domains /\ pc[t] \in {"gain", "lose", "move"}
      /\ pc[t] = "move" => other[t] \in Domains
      /\ UNCHANGED <<lifecycle, callers, state, dependencies, dependents, owner>> /\ Return(t)
  <2>1. /\ pc[t] \in {"gain", "lose", "move"} /\ Return(t)
        /\ UNCHANGED <<lifecycle, callers, state, dependencies, dependents, owner>>
    BY DEF RegisterCount, UnregisterCount, TransferCount, usageVars
  <2> QED
    BY <2>1, Caller DEF LocalsOK
<1>2. LocalsOK' /\ OthersWait(t) /\ pc'[t] = "idle"
  BY <1>1, ReturnOK
<1>3. count \in [Domains -> Nat]
  BY DEF DataOK
<1>4. \A c \in [Domains -> Nat], d \in Domains :
         Gain(c, d) \in [Domains -> Nat] /\ Lose(c, d) \in [Domains -> Nat]
  BY DEF Gain, Lose
<1>5. count' \in [Domains -> Nat]
  BY <1>1, <1>3, <1>4 DEF RegisterCount, UnregisterCount, TransferCount
<1>6. DataOK'
  BY <1>1, <1>5 DEF DataOK
<1>7. DependencyInv'
  BY <1>1, <1>2, DependencyFrame
<1>8. TerminatedInv'
  BY <1>1, <1>2, TerminatedFrame
<1>9. CountInv'
  <2> SUFFICES ASSUME Sequential, NEW d \in Domains
               PROVE  count'[d] = Cardinality(OwnedIn(owner, d))
    <3>1. \A d \in Domains : /\ Coming(t, d)' = 0 /\ Leaving(t, d)' = 0
                             /\ count'[d] \in Nat /\ Cardinality(OwnedIn(owner, d)) \in Nat
      BY <1>2, <1>5, OwnedFinite DEF Coming, Leaving
    <3>2. Sequential' => Sequential /\ callers' = {t}
      BY <1>1, Alone DEF Sequential
    <3>3. \A d \in Domains : Owned(d)' = OwnedIn(owner, d)
      BY <1>1 DEF Owned
    <3> QED
      BY <1>2, <3>1, <3>2, <3>3 DEF CountInv
  <2>1. \A x \in Domains : count[x] + Coming(t, x) = Cardinality(OwnedIn(owner, x)) + Leaving(t, x)
    BY <1>1 DEF CountInv, Owned
  <2>2. \A x \in Domains : count[x] \in Nat /\ Cardinality(OwnedIn(owner, x)) \in Nat
    BY <1>3, OwnedFinite
  <2>3. CASE RegisterCount(t)
    <3>1. Leaving(t, d) = 0 /\ Coming(t, d) = IF d = dom[t] THEN 1 ELSE 0
      BY <2>3 DEF RegisterCount, Coming, Leaving
    <3>2. count'[d] = IF d = dom[t] THEN count[d] + 1 ELSE count[d]
      BY <1>1, <1>3, <2>3 DEF RegisterCount, Gain
    <3> QED
      BY <2>1, <2>2, <3>1, <3>2
  <2>4. CASE UnregisterCount(t)
    <3>1. \A x \in Domains : Coming(t, x) = 0 /\ Leaving(t, x) = IF x = dom[t] THEN 1 ELSE 0
      BY <2>4 DEF UnregisterCount, Coming, Leaving
    <3>2. count[dom[t]] > 0
      BY <1>1, <2>1, <2>2, <3>1
    <3>3. count'[d] = IF d = dom[t] THEN count[d] - 1 ELSE count[d]
      BY <1>1, <1>3, <2>4, <3>2 DEF UnregisterCount, Lose
    <3> QED
      BY <2>1, <2>2, <3>1, <3>3
  <2>5. CASE TransferCount(t)
    <3>1. /\ pc[t] = "move" /\ other[t] \in Domains
          /\ \A x \in Domains : /\ Coming(t, x) = IF x = other[t] THEN 1 ELSE 0
                                /\ Leaving(t, x) = IF x = dom[t] THEN 1 ELSE 0
      BY <1>1, <2>5 DEF TransferCount, Coming, Leaving
    <3>2. Cardinality(OwnedIn(owner, other[t])) # 0
      <4>1. OwnedIn(owner, other[t]) # {}
        BY <1>1, <3>1 DEF CountInv, Owned
      <4> QED
        BY <4>1, OwnedFinite, FS_EmptySet
    <3>3. count[dom[t]] > 0
      BY <1>1, <2>1, <2>2, <3>1, <3>2
    <3>4. Lose(count, dom[t]) = [count EXCEPT ![dom[t]] = @ - 1]
      BY <3>3 DEF Lose
    <3>5. Lose(count, dom[t])[d] = IF d = dom[t] THEN count[d] - 1 ELSE count[d]
      BY <1>1, <1>3, <3>4
    <3>6. count'[d] = IF d = other[t] THEN Lose(count, dom[t])[d] + 1 ELSE Lose(count, dom[t])[d]
      BY <1>1, <1>3, <1>4, <2>5, <3>1 DEF TransferCount, Gain
    <3>7. /\ count[d] + (IF d = other[t] THEN 1 ELSE 0)
               = Cardinality(OwnedIn(owner, d)) + (IF d = dom[t] THEN 1 ELSE 0)
          /\ count[d] \in Nat /\ Cardinality(OwnedIn(owner, d)) \in Nat
      BY <2>1, <2>2, <3>1
    <3>8. CASE d = other[t] /\ d = dom[t]
      BY <3>5, <3>6, <3>7, <3>8
    <3>9. CASE d = other[t] /\ d # dom[t]
      BY <3>5, <3>6, <3>7, <3>9
    <3>10. CASE d # other[t] /\ d = dom[t]
      BY <3>5, <3>6, <3>7, <3>10
    <3>11. CASE d # other[t] /\ d # dom[t]
      BY <3>5, <3>6, <3>7, <3>11
    <3> QED
      BY <3>8, <3>9, <3>10, <3>11
  <2> QED
    BY <2>3, <2>4, <2>5
<1> QED
  BY <1>2, <1>6, <1>7, <1>8, <1>9

\* Right after init nothing is registered and nobody depends on anybody.
LEMMA InitHolds == Init => DomainInv
<1> SUFFICES ASSUME Init
             PROVE  DomainInv
  OBVIOUS
<1>1. DataOK
  <2>1. state \in [Domains -> {"none", "Initializing", "Running", "Stopped", "Terminated"}]
    BY DEF Init
  <2>2. /\ callers \subseteq Threads /\ count \in [Domains -> Nat]
        /\ dependencies \in [Domains -> SUBSET Domains]
        /\ dependents \in [Domains -> SUBSET Domains]
        /\ owner \in [Objects -> Domains \cup {Nobody}]
    BY DEF Init
  <2> QED
    BY <2>1, <2>2 DEF DataOK
<1>2. LocalsOK
  BY DEF Init, LocalsOK, Steps
<1>3. DependencyInv
  BY DEF Init, DependencyInv
<1>4. \A d \in Domains : OwnedIn(owner, d) = {}
  BY DomainAssumption DEF Init, OwnedIn
<1>5. CountInv
  <2>1. \A t \in callers : t \in Threads /\ pc[t] = "idle"
    BY DEF Init
  <2>2. \A t \in callers, d \in Domains : Coming(t, d) = 0 /\ Leaving(t, d) = 0
    BY <2>1 DEF Coming, Leaving
  <2>3. \A d \in Domains : count[d] = 0 /\ Cardinality(Owned(d)) = 0
    BY <1>4, FS_EmptySet DEF Init, Owned
  <2> QED
    BY <2>1, <2>2, <2>3 DEF CountInv
<1>6. TerminatedInv
  <2>1. \A t \in callers : pc[t] = "idle"
    BY DEF Init
  <2> QED
    BY <2>1, <1>4 DEF TerminatedInv, Owned
<1> QED
  BY <1>1, <1>2, <1>3, <1>5, <1>6 DEF DomainInv

\* Every step of every operation keeps the invariant.
LEMMA StepHolds == DomainInv /\ [Next]_vars => DomainInv'
<1> SUFFICES ASSUME DomainInv, [Next]_vars
             PROVE  DomainInv'
  OBVIOUS
<1>1. CASE UNCHANGED vars
  <2>1. UNCHANGED <<lifecycle, callers, state, count, dependencies, dependents, owner, pc, dom, other>>
    BY <1>1 DEF vars, usageVars, domainVars, localVars
  <2>2. DataOK' /\ LocalsOK' /\ DependencyInv'
    BY <2>1 DEF DomainInv, DataOK, LocalsOK, DependencyInv
  <2>3. CountInv' /\ TerminatedInv'
    BY <2>1 DEF DomainInv, CountInv, TerminatedInv, Sequential, Owned, Coming, Leaving
  <2> QED
    BY <2>2, <2>3 DEF DomainInv
<1>2. CASE Next
  <2>1. PICK t \in Threads : Next!(t)
    BY <1>2 DEF Next
  <2> QED
    BY <2>1, LifeCycleSteps, DependencySteps, EndSteps, CountSteps, OutOfMemoryStep, DecideStep,
       RegisterStep, UnregisterStep, TransferStep
<1> QED
  BY <1>1, <1>2

\* For any domains, objects and threads, whatever calls overlap: between
\* operations dependencies and dependents are each other's converse, and with
\* one caller at a time rref_count is the number of objects a domain owns.
THEOREM BookkeepingCorrect == Spec => []BookkeepingExact
<1>1. DomainInv => BookkeepingExact
  <2> SUFFICES ASSUME DomainInv, AtRest
               PROVE  BookkeepingExact
    BY DEF BookkeepingExact, CountIsExact, DependenciesSymmetric
  <2>1. DependenciesSymmetric
    BY DEF DomainInv, DependencyInv, DependenciesSymmetric, AtRest
  <2>2. ASSUME Sequential, NEW d \in Domains
        PROVE  count[d] = Cardinality({o \in Objects : owner[o] = d})
    <3>1. PICK t \in callers : t \in Threads
      <4>1. callers \subseteq Threads /\ IsFiniteSet(callers)
        BY DomainAssumption, FS_Subset DEF DomainInv, DataOK
      <4>2. callers # {}
        BY <2>2, <4>1, FS_EmptySet DEF Sequential
      <4> QED
        BY <4>1, <4>2
    <3>2. Coming(t, d) = 0 /\ Leaving(t, d) = 0 /\ pc[t] = "idle"
      BY <3>1 DEF AtRest, Coming, Leaving
    <3>3. count[d] + Coming(t, d) = Cardinality(Owned(d)) + Leaving(t, d)
      BY <2>2, <3>1, <3>2 DEF DomainInv, CountInv
    <3>4. count[d] \in Nat /\ Cardinality(OwnedIn(owner, d)) \in Nat
      BY OwnedFinite DEF DomainInv, DataOK
    <3>5. count[d] = Cardinality(OwnedIn(owner, d))
      BY <3>2, <3>3, <3>4 DEF Owned
    <3> QED
      BY <3>5 DEF OwnedIn
  <2>3. CountIsExact
    BY <2>2 DEF CountIsExact
  <2> QED
    BY <2>1, <2>3 DEF BookkeepingExact
<1> QED
  BY <1>1, InitHolds, StepHolds, PTL DEF Spec

\* For any domains and objects: with one caller at a time that ends domains only
\* through domain_system, a terminated domain owns nothing between operations.
THEOREM TerminationReclaims == Spec => []TerminatedOwnsNothing
<1>1. DomainInv => TerminatedOwnsNothing
  <2> SUFFICES ASSUME DomainInv, AtRest, Sequential, ~lifecycle,
                      NEW d \in Domains, state[d] = "Terminated"
               PROVE  \A o \in Objects : owner[o] # d
    BY DEF TerminatedOwnsNothing
  <2>1. PICK t \in callers : t \in Threads
    <3>1. callers \subseteq Threads /\ IsFiniteSet(callers)
      BY DomainAssumption, FS_Subset DEF DomainInv, DataOK
    <3>2. callers # {}
      BY <3>1, FS_EmptySet DEF Sequential
    <3> QED
      BY <3>1, <3>2
  <2>2. pc[t] = "idle"
    BY <2>1 DEF AtRest
  <2>3. OwnedIn(owner, d) = {}
    BY <2>1, <2>2 DEF DomainInv, TerminatedInv, Owned
  <2> QED
    BY <2>3 DEF OwnedIn
<1> QED
  BY <1>1, InitHolds, StepHolds, PTL DEF Spec
=============================================================================
