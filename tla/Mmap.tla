-------------------------------- MODULE Mmap --------------------------------
(***************************************************************************)
(* MmapManager of src/mm/mmap.rs with the page table and the frames it     *)
(* works on.  Addresses are page numbers from base_addr and sizes numbers  *)
(* of pages.  A mapping is `anon' (mmap_anonymous and mmap_file, which     *)
(* differ in contents only) or `phys' (mmap_with_physical_alloc).  The     *)
(* table of mappings, the page table and the frame allocator have a lock   *)
(* each, and an operation takes them one after the other.                  *)
(*                                                                         *)
(* `usage' says how the manager is used.  Tame: one caller at a time,      *)
(* fixed addresses that nothing uses, a physical mapping released by its   *)
(* own munmap with its own size, and memory that does not run out.         *)
(* Parallel: the same by several callers at a time, with no fixed address. *)
(* Careless: one caller at a time, without the rest.                       *)
(* Protection, contents and dirty bits are left out.                       *)
(***************************************************************************)
EXTENDS Integers, FiniteSets, FiniteSetsExt

CONSTANTS Threads,
          MaxAddr,      \* pages between base_addr and max_addr
          Sizes,        \* sizes asked for, in pages
          Frames        \* frames of the buddy allocator, numbered

MmapAssumption == MaxAddr \in Nat /\ Sizes \subseteq Nat \ {0}

Pages == 0..(MaxAddr - 1)
None == -1

VARIABLES usage,
          mappings,      \* page -> [size, kind] or NoMapping
          nextAddr, pageTable, freeFrames,
          mmapPc, req,   \* of a thread: where it is, and its request
          page,          \* the page of its mapping it has come to
          frames,        \* allocated_frames
          frame          \* the frame in hand

tableVars == <<mappings, nextAddr>>
physVars == <<pageTable, freeFrames>>
callVars == <<mmapPc, req, page, frames, frame>>
vars == <<usage, tableVars, physVars, callVars>>

NoMapping == [size |-> 0, kind |-> "none"]
NoRequest == [at |-> None, size |-> 0, kind |-> "none"]
Span(at, size) == at..(at + size - 1)

Init ==
    /\ usage \in {"tame", "parallel", "careless"}
    /\ mappings = [a \in Pages |-> NoMapping] /\ nextAddr = 0
    /\ pageTable = [a \in Pages |-> None] /\ freeFrames = Frames
    /\ mmapPc = [t \in Threads |-> "idle"] /\ req = [t \in Threads |-> NoRequest]
    /\ page = [t \in Threads |-> 0] /\ frames = [t \in Threads |-> {}]
    /\ frame = [t \in Threads |-> None]

\* find_free_address holds the table for reading: nobody changes it meanwhile.
Writable == \A t \in Threads : mmapPc[t] # "found"

Free(at, size) ==
    \A a \in Pages : Span(a, mappings[a].size) \cap Span(at, size) = {}

\* The thread leaves the operation.
Return(t) ==
    /\ mmapPc' = [mmapPc EXCEPT ![t] = "idle"] /\ req' = [req EXCEPT ![t] = NoRequest]
    /\ page' = [page EXCEPT ![t] = 0] /\ frames' = [frames EXCEPT ![t] = {}]
    /\ frame' = [frame EXCEPT ![t] = None]

\* The thread has its address: pages first, for a physical mapping.
GoOn(t, r) ==
    /\ req' = [req EXCEPT ![t] = r]
    /\ mmapPc' = [mmapPc EXCEPT ![t] = IF r.kind = "phys" THEN "page" ELSE "insert"]
    /\ UNCHANGED <<page, frames, frame>>

Careful == usage # "careless"

MayBegin(t) == mmapPc[t] = "idle" /\ (usage # "parallel" => \A u \in Threads : mmapPc[u] = "idle")

Affordable(size, kind) == Careful => (kind = "phys" => size <= Cardinality(freeFrames))

------------------------------------------------------------------------------
(* mmap *)

\* A fixed address is taken as it is.
BeginFixed(t, at, size, kind) ==
    /\ MayBegin(t) /\ Affordable(size, kind) /\ at + size <= MaxAddr /\ usage # "parallel"
    /\ Careful => Free(at, size) /\ \A a \in Span(at, size) : pageTable[a] = None
    /\ GoOn(t, [at |-> at, size |-> size, kind |-> kind])
    /\ UNCHANGED <<usage, tableVars, physVars>>

\* Faulty variant: the candidate's last page is not compared.
CandidatesShort(size) ==
    {c \in nextAddr..(MaxAddr - size) : Free(c, size - 1)}

\* Addresses from next_addr on that overlap no mapping and leave room.
Candidates(size) ==
    {c \in nextAddr..(MaxAddr - size) : Free(c, size)}

\* find_free_address: the first candidate, or OutOfMemory.
Find(t, size, kind) ==
    /\ MayBegin(t) /\ Affordable(size, kind)
    /\ Candidates(size) # {}
    /\ req' = [req EXCEPT ![t] = [at |-> Min(Candidates(size)), size |-> size, kind |-> kind]]
    /\ mmapPc' = [mmapPc EXCEPT ![t] = "found"]
    /\ UNCHANGED <<usage, tableVars, physVars, page, frames, frame>>

\* next_addr moves behind it; another reader may have moved it too.
FindStore(t) ==
    /\ mmapPc[t] = "found"
    /\ nextAddr' = req[t].at + req[t].size
    /\ GoOn(t, req[t])
    /\ UNCHANGED <<usage, mappings, physVars>>

\* buddy_alloc_frame; without a frame the call ends, and the frames and page
\* table entries of the earlier pages stay.
PageAlloc(t) ==
    /\ mmapPc[t] = "page"
    /\ IF freeFrames = {}
       THEN Return(t) /\ UNCHANGED freeFrames
       ELSE /\ frame' = [frame EXCEPT ![t] = Min(freeFrames)]
            /\ freeFrames' = freeFrames \ {Min(freeFrames)}
            /\ mmapPc' = [mmapPc EXCEPT ![t] = "map"]
            /\ UNCHANGED <<req, page, frames>>
    /\ UNCHANGED <<usage, tableVars, pageTable>>

\* global_map_page: a page that is mapped, or a page table that cannot be
\* allocated, ends the call; the frames of the earlier pages are freed.
PageMapFails(t) ==
    /\ mmapPc[t] = "map"
    /\ Careful => pageTable[req[t].at + page[t]] # None
    /\ freeFrames' = freeFrames \cup frames[t]
    /\ Return(t)
    /\ UNCHANGED <<usage, tableVars, pageTable>>

PageMap(t) ==
    /\ mmapPc[t] = "map" /\ pageTable[req[t].at + page[t]] = None
    /\ pageTable' = [pageTable EXCEPT ![req[t].at + page[t]] = frame[t]]
    /\ frames' = [frames EXCEPT ![t] = @ \cup {frame[t]}]
    /\ frame' = [frame EXCEPT ![t] = None]
    /\ page' = [page EXCEPT ![t] = @ + 1]
    /\ mmapPc' = [mmapPc EXCEPT ![t] = IF page[t] + 1 = req[t].size THEN "insert" ELSE "page"]
    /\ UNCHANGED <<usage, tableVars, freeFrames, req>>

\* The mapping's own memory is allocated, which may fail, and the mapping is
\* inserted, in place of one with the same start.
Insert(t, oom) ==
    /\ mmapPc[t] = "insert" /\ Writable /\ (Careful => ~oom)
    /\ mappings' = (IF oom THEN mappings
                    ELSE [mappings EXCEPT ![req[t].at] =
                            [size |-> req[t].size, kind |-> req[t].kind]])
    /\ Return(t)
    /\ UNCHANGED <<usage, nextAddr, physVars>>

------------------------------------------------------------------------------
(* munmap *)

\* munmap: the mapping with that start goes; pages stay mapped.
Munmap(t, at) ==
    /\ MayBegin(t) /\ Writable /\ mappings[at] # NoMapping
    /\ Careful => mappings[at].kind = "anon"
    /\ mappings' = [mappings EXCEPT ![at] = NoMapping]
    /\ UNCHANGED <<usage, nextAddr, physVars, callVars>>

\* munmap_with_physical_dealloc: the mapping goes first, and as many pages as
\* the caller says follow.
MunmapPhys(t, at, size) ==
    /\ MayBegin(t) /\ Writable /\ mappings[at] # NoMapping /\ at + size <= MaxAddr
    /\ Careful => mappings[at] = [size |-> size, kind |-> "phys"]
    /\ mappings' = [mappings EXCEPT ![at] = NoMapping]
    /\ req' = [req EXCEPT ![t] = [at |-> at, size |-> size, kind |-> "phys"]]
    /\ mmapPc' = [mmapPc EXCEPT ![t] = "translate"]
    /\ UNCHANGED <<usage, nextAddr, physVars, page, frames, frame>>

\* The next page, or the end of the operation.
NextPage(t) ==
    IF page[t] + 1 = req[t].size
    THEN Return(t)
    ELSE /\ page' = [page EXCEPT ![t] = @ + 1] /\ frame' = [frame EXCEPT ![t] = None]
         /\ mmapPc' = [mmapPc EXCEPT ![t] = "translate"]
         /\ UNCHANGED <<req, frames>>

\* global_translate; pages that are not mapped are passed over.
Translate(t) ==
    /\ mmapPc[t] = "translate"
    /\ LET f == pageTable[req[t].at + page[t]]
       IN IF f = None
          THEN NextPage(t)
          ELSE /\ frame' = [frame EXCEPT ![t] = f]
               /\ mmapPc' = [mmapPc EXCEPT ![t] = "unmap"]
               /\ UNCHANGED <<req, page, frames>>
    /\ UNCHANGED <<usage, tableVars, physVars>>

\* Faulty variant: the page stays mapped to the frame that is freed next.
UnmapPageKept(t) ==
    /\ mmapPc[t] = "unmap"
    /\ mmapPc' = [mmapPc EXCEPT ![t] = "free"]
    /\ UNCHANGED <<usage, tableVars, physVars, req, page, frames, frame>>

\* global_unmap_page, whose result is ignored.
UnmapPage(t) ==
    /\ mmapPc[t] = "unmap"
    /\ pageTable' = [pageTable EXCEPT ![req[t].at + page[t]] = None]
    /\ mmapPc' = [mmapPc EXCEPT ![t] = "free"]
    /\ UNCHANGED <<usage, tableVars, freeFrames, req, page, frames, frame>>

\* buddy_dealloc_frame of what was translated.
FreeFrame(t) ==
    /\ mmapPc[t] = "free"
    /\ freeFrames' = freeFrames \cup {frame[t]}
    /\ NextPage(t)
    /\ UNCHANGED <<usage, tableVars, pageTable>>

Next ==
    \E t \in Threads :
      \/ \E size \in Sizes, kind \in {"anon", "phys"} :
           Find(t, size, kind) \/ \E at \in Pages : BeginFixed(t, at, size, kind)
      \/ FindStore(t) \/ PageAlloc(t) \/ PageMap(t) \/ PageMapFails(t)
      \/ \E oom \in BOOLEAN : Insert(t, oom)
      \/ \E at \in Pages : Munmap(t, at) \/ \E size \in Sizes : MunmapPhys(t, at, size)
      \/ Translate(t) \/ UnmapPage(t) \/ FreeFrame(t)

Spec == Init /\ [][Next]_vars

------------------------------------------------------------------------------
(* Properties *)

\* Mappings do not overlap, whatever mix of found and fixed addresses they were
\* made with.  Two callers at once may find the same address.
MappingsApart ==
    usage = "tame" => \A a, b \in Pages :
        a # b => Span(a, mappings[a].size) \cap Span(b, mappings[b].size) = {}

\* The pages of a physical mapping are mapped, to frames of their own, and no
\* such frame is free.  The free list never holds a frame some page still maps.
FramesBacked ==
    usage = "tame" => LET Mapped == {a \in Pages : pageTable[a] # None}
            IN /\ \A a \in Pages : mappings[a].kind = "phys" =>
                     Span(a, mappings[a].size) \subseteq Mapped
               /\ \A a \in Mapped : pageTable[a] \notin freeFrames
               /\ \A a, b \in Mapped : pageTable[a] = pageTable[b] => a = b
=============================================================================
