---------------------------- MODULE SharedMemory ----------------------------
(***************************************************************************)
(* SharedMemoryManager and ShmHandle of src/ipc/shared_mem.rs.  The        *)
(* manager keeps three maps, each behind a lock of its own, and an         *)
(* operation takes them one after the other: those are its steps.  A label *)
(* is a key (create) or a name (create_named); the two maps from labels to *)
(* regions work alike and are one map here.  A region outlives its entry   *)
(* in the tables while a handle or a caller holds its Arc.                 *)
(*                                                                         *)
(* `callers' are the threads that call.  They name regions by ids the      *)
(* manager has returned to someone: `known'.  The bytes of a region, its   *)
(* permissions and the lifetime totals are left out.                       *)
(***************************************************************************)
EXTENDS Integers, FiniteSets

CONSTANTS Threads, Labels, Handles,
          Private,   \* IPC_PRIVATE: a region without a label
          MaxId      \* bound: regions created

ShmAssumption == Private \notin Labels /\ MaxId \in Nat

NoId == 0
Ids == 1..MaxId

VARIABLES callers, known,
          nextId,
          regions,              \* regions_by_id: the ids it holds
          labelled,             \* regions_by_key and regions_by_name
          label, attachCount, marked,   \* of each region
          live,                 \* total_created - total_destroyed
          handleRegion, attached,       \* of each ShmHandle
          shmPc, shmId, shmLabel        \* a thread's position and locals

regionVars == <<nextId, regions, labelled, label, marked, live>>
handleVars == <<attachCount, handleRegion, attached>>
localVars == <<shmPc, shmId, shmLabel>>
vars == <<callers, known, regionVars, handleVars, localVars>>

Init ==
    /\ callers \in SUBSET Threads \ {{}} /\ known = {}
    /\ nextId = 1 /\ regions = {} /\ live = 0 /\ marked = {}
    /\ labelled = [l \in Labels |-> NoId]
    /\ label = [i \in Ids |-> Private]
    /\ attachCount = [i \in Ids |-> 0]
    /\ handleRegion = [h \in Handles |-> NoId] /\ attached = {}
    /\ shmPc = [t \in Threads |-> "idle"]
    /\ shmId = [t \in Threads |-> NoId] /\ shmLabel = [t \in Threads |-> Private]

MayCall(t) == t \in callers /\ shmPc[t] = "idle"

\* Continue at step p with the locals i and l; a finished call has none.
Goto(t, p, i, l) ==
    /\ shmPc' = [shmPc EXCEPT ![t] = p]
    /\ shmId' = [shmId EXCEPT ![t] = i]
    /\ shmLabel' = [shmLabel EXCEPT ![t] = l]
Return(t) == Goto(t, "idle", NoId, Private)

------------------------------------------------------------------------------
(* create, create_named *)

\* The label is looked up under the read lock, which is then released.  A label
\* that exists gives its region, or AlreadyExists to an exclusive caller.
CreateCheck(t, l, exclusive) ==
    /\ MayCall(t)
    /\ IF l # Private /\ labelled[l] # NoId
       THEN known' = (IF exclusive THEN known ELSE known \cup {labelled[l]}) /\ UNCHANGED localVars
       ELSE Goto(t, "create", NoId, l) /\ UNCHANGED known
    /\ UNCHANGED <<callers, regionVars, handleVars>>

\* A fresh id, and the region enters the table; or its memory cannot be had,
\* and the id is spent.
CreateInsert(t, outOfMemory) ==
    /\ shmPc[t] = "create" /\ nextId <= MaxId
    /\ nextId' = nextId + 1
    /\ IF outOfMemory
       THEN Return(t) /\ UNCHANGED <<regions, label>>
       ELSE /\ regions' = regions \cup {nextId}
            /\ label' = [label EXCEPT ![nextId] = shmLabel[t]]
            /\ Goto(t, "label", nextId, shmLabel[t])
    /\ UNCHANGED <<callers, known, labelled, marked, live, handleVars>>

\* The label is filed, whatever it was filed for by now; the id is returned.
CreateLabel(t) ==
    /\ shmPc[t] = "label"
    /\ labelled' = [l \in Labels |-> IF l = shmLabel[t] THEN shmId[t] ELSE labelled[l]]
    /\ known' = known \cup {shmId[t]}
    /\ live' = live + 1
    /\ Return(t)
    /\ UNCHANGED <<callers, nextId, regions, label, marked, handleVars>>

\* get_by_key, get_by_name.
GetByLabel(t, l) ==
    /\ MayCall(t) /\ labelled[l] # NoId
    /\ known' = known \cup {labelled[l]}
    /\ UNCHANGED <<callers, regionVars, handleVars, localVars>>

------------------------------------------------------------------------------
(* attach, detach *)

\* attach: the count rises while the table's lock is held.
Attach(t, i, h) ==
    /\ MayCall(t) /\ i \in known \cap regions /\ handleRegion[h] = NoId
    /\ attachCount' = [attachCount EXCEPT ![i] = @ + 1]
    /\ handleRegion' = [handleRegion EXCEPT ![h] = i]
    /\ attached' = attached \cup {h}
    /\ UNCHANGED <<callers, known, regionVars, localVars>>

\* Faulty variant: detach does not look whether the handle is attached.
DetachSwapBlind(t, h) ==
    /\ MayCall(t) /\ handleRegion[h] # NoId
    /\ attached' = attached \ {h}
    /\ Goto(t, "detach", handleRegion[h], Private)
    /\ UNCHANGED <<callers, known, regionVars, attachCount, handleRegion>>

\* ShmHandle::detach, also called by drop: the flag is swapped first, and only
\* the caller that cleared it goes on.
DetachSwap(t, h) ==
    /\ MayCall(t) /\ h \in attached
    /\ attached' = attached \ {h}
    /\ Goto(t, "detach", handleRegion[h], Private)
    /\ UNCHANGED <<callers, known, regionVars, attachCount, handleRegion>>

\* The region's count falls.  That the last detach of a marked region may
\* remove it is reported to ShmHandle::detach, which ignores it.
DetachCount(t) ==
    /\ shmPc[t] = "detach"
    /\ attachCount' = [attachCount EXCEPT ![shmId[t]] = @ - 1]
    /\ Return(t)
    /\ UNCHANGED <<callers, known, regionVars, handleRegion, attached>>

\* A detached handle is dropped.
DropHandle(t, h) ==
    /\ MayCall(t) /\ handleRegion[h] # NoId /\ h \notin attached
    /\ handleRegion' = [handleRegion EXCEPT ![h] = NoId]
    /\ UNCHANGED <<callers, known, regionVars, attachCount, attached, localVars>>

------------------------------------------------------------------------------
(* remove, do_remove, shm_unlink *)

\* The region is fetched by id, or first by name (shm_unlink).
RemoveGet(t, i) ==
    /\ MayCall(t) /\ i \in known \cap regions
    /\ Goto(t, "mark", i, Private)
    /\ UNCHANGED <<callers, known, regionVars, handleVars>>

Unlink(t, l) ==
    /\ MayCall(t) /\ labelled[l] # NoId
    /\ Goto(t, "unlink", labelled[l], Private)
    /\ UNCHANGED <<callers, known, regionVars, handleVars>>

UnlinkGet(t) ==
    /\ shmPc[t] = "unlink"
    /\ IF shmId[t] \in regions THEN Goto(t, "mark", shmId[t], Private) ELSE Return(t)
    /\ UNCHANGED <<callers, known, regionVars, handleVars>>

\* The mark is set, and removal is left for later while handles are attached.
RemoveMark(t) ==
    /\ shmPc[t] = "mark"
    /\ marked' = marked \cup {shmId[t]}
    /\ IF attachCount[shmId[t]] > 0 THEN Return(t) ELSE Goto(t, "remove", shmId[t], Private)
    /\ UNCHANGED <<callers, known, nextId, regions, labelled, label, live, handleVars>>

RemoveId(t) ==
    /\ shmPc[t] = "remove"
    /\ regions' = regions \ {shmId[t]}
    /\ Goto(t, "unlabel", shmId[t], Private)
    /\ UNCHANGED <<callers, known, nextId, labelled, label, marked, live, handleVars>>

\* Faulty variant: the label stays filed.
RemoveLabelKept(t) ==
    /\ shmPc[t] = "unlabel"
    /\ live' = live - 1
    /\ Return(t)
    /\ UNCHANGED <<callers, known, nextId, regions, labelled, label, marked, handleVars>>

\* The region's label is unfiled, whatever it is filed for.
RemoveLabel(t) ==
    /\ shmPc[t] = "unlabel"
    /\ labelled' = [l \in Labels |-> IF l = label[shmId[t]] THEN NoId ELSE labelled[l]]
    /\ live' = live - 1
    /\ Return(t)
    /\ UNCHANGED <<callers, known, nextId, regions, label, marked, handleVars>>

Next == \E t \in Threads :
    \/ \E l \in Labels \cup {Private}, x \in BOOLEAN : CreateCheck(t, l, x)
    \/ \E oom \in BOOLEAN : CreateInsert(t, oom)
    \/ CreateLabel(t)
    \/ \E l \in Labels : GetByLabel(t, l) \/ Unlink(t, l)
    \/ \E i \in Ids : RemoveGet(t, i) \/ \E h \in Handles : Attach(t, i, h)
    \/ \E h \in Handles : DetachSwap(t, h) \/ DropHandle(t, h)
    \/ DetachCount(t) \/ UnlinkGet(t) \/ RemoveMark(t) \/ RemoveId(t) \/ RemoveLabel(t)

Spec == Init /\ [][Next]_vars

------------------------------------------------------------------------------
(* Properties *)

\* The attach count of a region is exactly the number of handles attached to it
\* and of detaches that have cleared the flag and not yet counted: handles
\* detached and dropped by several threads are counted once each.
AttachCountExact ==
    \A i \in Ids :
        attachCount[i] = Cardinality({h \in attached : handleRegion[h] = i})
                         + Cardinality({t \in Threads : shmPc[t] = "detach" /\ shmId[t] = i})

\* A label never leads to a region that is gone, except while its removal is
\* between the two tables: whoever resolves a key later finds a live region.
NoDanglingLabel ==
    \A l \in Labels : labelled[l] # NoId =>
        \/ labelled[l] \in regions
        \/ \E t \in Threads : shmPc[t] = "unlabel" /\ label[shmId[t]] = l

\* For one caller a region with handles is in the table, each labelled region
\* is the one its label finds, and the totals count the regions there are.
\* (Two callers can attach between the check of remove and the removal, create
\* two regions for one key, and remove one region twice.)
ExactForOneCaller ==
    Cardinality(callers) = 1 /\ (\A t \in Threads : shmPc[t] = "idle") =>
        /\ \A h \in attached : handleRegion[h] \in regions
        /\ \A i \in regions : label[i] # Private => labelled[label[i]] = i
        /\ live = Cardinality(regions)
=============================================================================
