----------------------------- MODULE PageCache ------------------------------
(***************************************************************************)
(* PageCache of src/fs/cache.rs.  Sizes count pages.  A page of the cache  *)
(* is immutable: a client writes by inserting a page with the new contents *)
(* and marking it dirty, and fills the cache by inserting what it read     *)
(* from the disk after a miss.  Contents are version numbers.  The table   *)
(* of files is behind a reader-writer lock that insert takes up to three   *)
(* times and sync_file and sync_all hold while they write back.            *)
(*                                                                         *)
(* `usage' says how clients use it.  Serial: one at a time, a write with   *)
(* its mark_dirty as one.  Fresh: also no page is written over a cached    *)
(* one.  Parallel: as they like.                                           *)
(* tick and touch are one step; pins are left out, since the cache hands   *)
(* no page out; statistics too.                                            *)
(***************************************************************************)
EXTENDS Integers, Sequences, FiniteSets, SequencesExt

CONSTANTS Clients, Files, Pages,    \* of each file
          Limit,                    \* limit, in pages
          MaxVersion,               \* bound: versions written
          MaxSize                   \* bound: what the size may drift to

PageCacheAssumption == Limit \in Nat \ {0} /\ MaxVersion \in Nat

Keys == Files \X Pages
FileOf(k) == k[1]

VARIABLES usage,
          files,            \* inodes with a FileCache
          lru,              \* cached pages, least recently used first
          cached, dirty,    \* version and dirty flag of a cached page
          currentSize,
          disk, newest,     \* versions written back, and made so far
          acked,            \* version whose mark_dirty returned true
          cachePc, key, data,
          syncing, syncPage \* pages the write-back has left, and the one in hand

cacheVars == <<files, lru, cached, dirty, currentSize>>
clientVars == <<cachePc, key, data>>
syncVars == <<syncing, syncPage>>
vars == <<usage, cacheVars, disk, newest, acked, clientVars, syncVars>>

NoKey == <<>>

Init ==
    /\ usage \in {"serial", "fresh", "parallel"}
    /\ files = {} /\ lru = <<>> /\ currentSize = 0
    /\ cached = [k \in Keys |-> 0] /\ dirty = {}
    /\ disk = [k \in Keys |-> 0] /\ newest = 0 /\ acked = [k \in Keys |-> 0]
    /\ cachePc = [c \in Clients |-> "idle"] /\ key = [c \in Clients |-> NoKey]
    /\ data = [c \in Clients |-> 0]
    /\ syncing = {} /\ syncPage = NoKey

\* The write-back holds the table for reading.
Writable == syncing = {} /\ syncPage = NoKey

IsCached(k) == k \in ToSet(lru)
Touch(k) == Append(SelectSeq(lru, LAMBDA x : x # k), k)
MayBegin(c) ==
    /\ cachePc[c] = "idle"
    /\ usage # "parallel" => \A d \in Clients : cachePc[d] = "idle"

GoTo(c, at) == cachePc' = [cachePc EXCEPT ![c] = at] /\ UNCHANGED <<key, data>>
Done(c) ==
    /\ cachePc' = [cachePc EXCEPT ![c] = "idle"]
    /\ key' = [key EXCEPT ![c] = NoKey] /\ data' = [data EXCEPT ![c] = 0]
Drop(K) == cached' = [k \in Keys |-> IF k \in K THEN 0 ELSE cached[k]]

------------------------------------------------------------------------------
(* read *)

\* read: a hit is touched.
Read(c, k) ==
    /\ MayBegin(c) /\ Writable /\ IsCached(k)
    /\ lru' = Touch(k)
    /\ UNCHANGED <<usage, files, cached, dirty, currentSize, disk, newest, acked,
                   clientVars, syncVars>>

\* A miss: the client has read the disk and will insert the page.
ReadMiss(c, k) ==
    /\ MayBegin(c) /\ Writable /\ ~IsCached(k)
    /\ files' = files \cup {FileOf(k)}
    /\ key' = [key EXCEPT ![c] = k] /\ data' = [data EXCEPT ![c] = disk[k]]
    /\ cachePc' = [cachePc EXCEPT ![c] = "fill"]
    /\ UNCHANGED <<usage, lru, cached, dirty, currentSize, disk, newest, acked, syncVars>>

------------------------------------------------------------------------------
(* insert *)

\* A client has new contents for a page.
WriteBegin(c, k) ==
    /\ MayBegin(c) /\ newest < MaxVersion /\ (usage = "fresh" => ~IsCached(k))
    /\ newest' = newest + 1
    /\ key' = [key EXCEPT ![c] = k] /\ data' = [data EXCEPT ![c] = newest + 1]
    /\ cachePc' = [cachePc EXCEPT ![c] = "write"]
    /\ UNCHANGED <<usage, cacheVars, disk, acked, syncVars>>

\* The file cache is made if need be, and the size looked at; fills and writes
\* differ in what the client does afterwards.
InsertCheck(c) ==
    /\ cachePc[c] \in {"fill", "write"} /\ Writable
    /\ files' = files \cup {FileOf(key[c])}
    /\ GoTo(c, IF currentSize + 1 > Limit
               THEN (IF cachePc[c] = "fill" THEN "evict_fill" ELSE "evict_write")
               ELSE (IF cachePc[c] = "fill" THEN "put_fill" ELSE "put_write"))
    /\ UNCHANGED <<usage, lru, cached, dirty, currentSize, disk, newest, acked, syncVars>>

\* Faulty variant: dirty pages are evicted too.
EvictableAll == {i \in 1..Len(lru) : TRUE}

\* find_lru_page over the files: the pages that are not dirty.
Evictable == {i \in 1..Len(lru) : lru[i] \notin dirty}

\* Faulty variant: the size is not reduced.
EvictUncounted(c) ==
    /\ cachePc[c] \in {"evict_fill", "evict_write"} /\ Writable
    /\ IF Evictable = {}
       THEN UNCHANGED <<lru, cached, dirty>>
       ELSE LET i == CHOOSE i \in Evictable : \A j \in Evictable : i <= j
            IN lru' = RemoveAt(lru, i) /\ dirty' = dirty \ {lru[i]} /\ Drop({lru[i]})
    /\ GoTo(c, IF cachePc[c] = "evict_fill" THEN "put_fill" ELSE "put_write")
    /\ UNCHANGED <<usage, files, currentSize, disk, newest, acked, syncVars>>

\* evict_pages, for one page: the least recently used, if there is any.
Evict(c) ==
    /\ cachePc[c] \in {"evict_fill", "evict_write"} /\ Writable
    /\ IF Evictable = {}
       THEN UNCHANGED <<lru, cached, dirty, currentSize>>
       ELSE LET i == CHOOSE i \in Evictable : \A j \in Evictable : i <= j
            IN /\ lru' = RemoveAt(lru, i) /\ currentSize' = currentSize - 1
               /\ dirty' = dirty \ {lru[i]} /\ Drop({lru[i]})
    /\ GoTo(c, IF cachePc[c] = "evict_fill" THEN "put_fill" ELSE "put_write")
    /\ UNCHANGED <<usage, files, disk, newest, acked, syncVars>>

\* insert_page: a clean page in place of what was cached; the size grows all the
\* same.  A file invalidated meanwhile takes no page.
Put(c) ==
    /\ cachePc[c] \in {"put_fill", "put_write"} /\ Writable /\ currentSize < MaxSize
    /\ IF FileOf(key[c]) \in files
       THEN /\ lru' = Touch(key[c]) /\ cached' = [cached EXCEPT ![key[c]] = data[c]]
            /\ dirty' = dirty \ {key[c]} /\ currentSize' = currentSize + 1
       ELSE UNCHANGED <<lru, cached, dirty, currentSize>>
    /\ IF cachePc[c] = "put_fill" THEN Done(c) ELSE GoTo(c, "mark")
    /\ UNCHANGED <<usage, files, disk, newest, acked, syncVars>>

\* mark_dirty, which needs the table for reading only; false when the page has
\* gone.
MarkDirty(c) ==
    /\ cachePc[c] = "mark"
    /\ IF IsCached(key[c])
       THEN /\ dirty' = dirty \cup {key[c]}
            /\ acked' = [acked EXCEPT ![key[c]] = cached[key[c]]]
       ELSE UNCHANGED <<dirty, acked>>
    /\ Done(c)
    /\ UNCHANGED <<usage, files, lru, cached, currentSize, disk, newest, syncVars>>

------------------------------------------------------------------------------
(* sync_file, sync_all, invalidate *)

\* sync_file of one file or sync_all: the dirty pages of now.
SyncBegin(S) ==
    /\ Writable
    /\ syncing' = {k \in dirty : FileOf(k) \in S} /\ syncing' # {}
    /\ UNCHANGED <<usage, cacheVars, disk, newest, acked, clientVars, syncPage>>

\* Faulty variant: a failed write leaves the page in hand, to be marked clean.
SyncWriteLenient(k, ok) ==
    /\ syncPage = NoKey /\ k \in syncing
    /\ disk' = (IF ok THEN [disk EXCEPT ![k] = cached[k]] ELSE disk)
    /\ syncing' = syncing \ {k} /\ syncPage' = k
    /\ UNCHANGED <<usage, cacheVars, newest, acked, clientVars>>

\* The writer is called for a page; its error ends the call, and the pages that
\* are left stay dirty.
SyncWrite(k, ok) ==
    /\ syncPage = NoKey /\ k \in syncing
    /\ IF ok
       THEN /\ disk' = [disk EXCEPT ![k] = cached[k]]
            /\ syncing' = syncing \ {k} /\ syncPage' = k
       ELSE syncing' = {} /\ UNCHANGED <<disk, syncPage>>
    /\ UNCHANGED <<usage, cacheVars, newest, acked, clientVars>>

\* mark_clean.
SyncClean ==
    /\ syncPage # NoKey
    /\ dirty' = dirty \ {syncPage} /\ syncPage' = NoKey
    /\ UNCHANGED <<usage, files, lru, cached, currentSize, disk, newest, acked, clientVars,
                   syncing>>

\* invalidate drops the file's pages, dirty ones too: nothing of them is kept.
Invalidate(f) ==
    /\ Writable /\ f \in files
    /\ files' = files \ {f}
    /\ lru' = SelectSeq(lru, LAMBDA k : FileOf(k) # f)
    /\ dirty' = {k \in dirty : FileOf(k) # f} /\ Drop({k \in Keys : FileOf(k) = f})
    /\ currentSize' = currentSize - Cardinality({k \in ToSet(lru) : FileOf(k) = f})
    /\ acked' = [k \in Keys |-> IF FileOf(k) = f THEN disk[k] ELSE acked[k]]
    /\ UNCHANGED <<usage, disk, newest, clientVars, syncVars>>

Next ==
    \/ \E c \in Clients :
         \/ \E k \in Keys : Read(c, k) \/ ReadMiss(c, k) \/ WriteBegin(c, k)
         \/ InsertCheck(c) \/ Evict(c) \/ Put(c) \/ MarkDirty(c)
    \/ \E S \in {{f} : f \in Files} \cup {Files} : SyncBegin(S)
    \/ \E k \in Keys, ok \in BOOLEAN : SyncWrite(k, ok)
    \/ SyncClean
    \/ \E f \in Files : Invalidate(f)

Spec == Init /\ [][Next]_vars

------------------------------------------------------------------------------
(* Properties *)

\* What mark_dirty confirmed is not lost, through evictions, write-backs that
\* fail midway and rewrites: it is on the disk, or cached, and dirty unless the
\* client that replaces it is still at it.  Clients one at a time: otherwise the
\* insert of one that missed may replace another's dirty page by what the disk
\* held.
AckedIsKept ==
    usage # "parallel" => \A k \in Keys :
        \/ disk[k] >= acked[k]
        \/ /\ IsCached(k) /\ cached[k] >= acked[k]
           /\ k \in dirty \/ \E c \in Clients : cachePc[c] = "mark" /\ key[c] = k

\* The size is never below what is cached, and is exact as long as no page is
\* inserted over another.
SizeCovers ==
    /\ currentSize >= Len(lru)
    /\ usage = "fresh" => currentSize = Len(lru)
=============================================================================
