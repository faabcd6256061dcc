----------------------------- MODULE MCServices -----------------------------
(*****************************************************************************)
(* The services above the allocators and the locks, for TLC: the page        *)
(* cache, mmap, shared memory, the I/O scheduler, the NVMe and virtio-blk    *)
(* queues and the TCP endpoint.  They share nothing, so a behaviour          *)
(* exercises one of them: `subject', chosen at the start.  The others stay   *)
(* in their initial states.                                                  *)
(*****************************************************************************)
EXTENDS NvmeQueue

CONSTANTS t1, t2, h1, h2, k1, private

VARIABLES subject,
          freeBitmap, descNext, avail, used, lastUsed, wakers, futPc, descId, blkWoken,
          served,
          parallel, nextRequest, ioState, queues, depth, counting, listing, scan,
          ioTaken, issued, finished, waker, registered, ioWoken, future,
          pendingRequests, globalMode, active,
          cacheUsage, files, lru, cached, dirty, currentSize, disk, newest, acked,
          cachePc, key, data, syncing, syncPage,
          mmUsage, mappings, nextAddr, pageTable, freeFrames, mmapPc, req, page, frames,
          frame,
          callers, known, nextId, regions, labelled, label, attachCount, marked, live,
          handleRegion, attached, shmPc, shmId, shmLabel,
          tcpUsage, roles, counted, nextFd, fdCounter, sockTable, portFd, sock,
          acceptQueue, acceptWaker, tcbs, events, netTask, netWaker, rx, reader,
          acceptor, got, cut

Threads == {t1, t2}
Handles == {h1, h2}

Blk == INSTANCE BlkQueue WITH
    Size <- 8, Futures <- {1, 2, 3}, woken <- blkWoken

Io == INSTANCE IoScheduler WITH
    MaxRequest <- 2, Priorities <- 1, taken <- ioTaken, woken <- ioWoken

Cache == INSTANCE PageCache WITH
    Files <- {1, 2}, Pages <- {1}, Limit <- 1, MaxVersion <- 2, MaxSize <- 3,
    Clients <- Threads, usage <- cacheUsage

Mm == INSTANCE Mmap WITH
    MaxAddr <- 3, Sizes <- {1, 2}, Frames <- {1, 2}, usage <- mmUsage

Shm == INSTANCE SharedMemory WITH
    Labels <- {k1}, Private <- private, MaxId <- 2

Tcp == INSTANCE TcpEndpoint WITH
    Contexts <- {1}, Stream <- 3, BufLimit <- 2, EventCap <- 2, MaxAccepts <- 2,
    Openings <- {{"lis"}, {"cli"}}, usage <- tcpUsage

ASSUME ComponentAssumptions ==
    /\ Io!IoAssumption
    /\ Cache!PageCacheAssumption
    /\ Mm!MmapAssumption
    /\ Shm!ShmAssumption
    /\ Tcp!EndpointAssumption

blkVars == <<freeBitmap, descNext, avail, used, lastUsed, wakers, futPc, descId,
             blkWoken, served>>
ioVars == <<parallel, nextRequest, ioState, queues, depth, counting, listing, scan,
            ioTaken, issued, finished, waker, registered, ioWoken, future,
            pendingRequests, globalMode, active>>
cacheVars == <<cacheUsage, files, lru, cached, dirty, currentSize, disk, newest, acked,
               cachePc, key, data, syncing, syncPage>>
mmVars == <<mmUsage, mappings, nextAddr, pageTable, freeFrames, mmapPc, req, page,
            frames, frame>>
shmVars == <<callers, known, nextId, regions, labelled, label, attachCount, marked,
             live, handleRegion, attached, shmPc, shmId, shmLabel>>
tcpVars == <<tcpUsage, roles, counted, nextFd, fdCounter, sockTable, portFd, sock,
             acceptQueue, acceptWaker, tcbs, events, netTask, netWaker, rx, reader,
             acceptor, got, cut>>
allVars == <<subject, nvmeVars, blkVars, ioVars, cacheVars, mmVars, shmVars, tcpVars>>

ServicesInit ==
    /\ subject \in {"nvme", "blk", "io", "cache", "mmap", "shm", "tcp"}
    /\ NvmeInit /\ Blk!Init /\ Io!Init /\ Cache!Init
    /\ Mm!Init /\ Shm!Init /\ Tcp!Init
    /\ subject # "nvme" => usage = "window"
    /\ subject # "io" => ~parallel
    /\ subject # "cache" => cacheUsage = "serial"
    /\ subject # "mmap" => mmUsage = "tame"
    /\ subject # "shm" => callers = {t1}
    /\ subject # "tcp" => tcpUsage = "serial" /\ roles = {"lis"} /\ ~counted

OnlyNvme == UNCHANGED <<subject, blkVars, ioVars, cacheVars, mmVars, shmVars, tcpVars>>
OnlyBlk == UNCHANGED <<subject, nvmeVars, ioVars, cacheVars, mmVars, shmVars, tcpVars>>
OnlyIo == UNCHANGED <<subject, nvmeVars, blkVars, cacheVars, mmVars, shmVars, tcpVars>>
OnlyCache == UNCHANGED <<subject, nvmeVars, blkVars, ioVars, mmVars, shmVars, tcpVars>>
OnlyMm == UNCHANGED <<subject, nvmeVars, blkVars, ioVars, cacheVars, shmVars, tcpVars>>
OnlyShm == UNCHANGED <<subject, nvmeVars, blkVars, ioVars, cacheVars, mmVars, tcpVars>>
OnlyTcp == UNCHANGED <<subject, nvmeVars, blkVars, ioVars, cacheVars, mmVars, shmVars>>

ServicesNext ==
    \/ subject = "nvme" /\ Batched /\ OnlyNvme
    \/ subject = "nvme" /\ Immediate /\ OnlyNvme
    \/ subject = "nvme" /\ Flush /\ OnlyNvme
    \/ subject = "nvme" /\ Fetch /\ OnlyNvme
    \/ subject = "nvme" /\ (\E c \in inFlight : Post(c)) /\ OnlyNvme
    \/ subject = "nvme" /\ Poll /\ OnlyNvme
    \/ subject = "nvme" /\ (\E f \in waiting : FuturePoll(f)) /\ OnlyNvme
    \/ subject = "nvme" /\ UpdateDoorbell /\ OnlyNvme
    \/ subject = "blk" /\ (\E f \in {1, 2, 3} : Blk!Submit(f)) /\ OnlyBlk
    \/ subject = "blk" /\ (\E f \in {1, 2, 3} : Blk!Register(f)) /\ OnlyBlk
    \/ subject = "blk" /\ (\E f \in {1, 2, 3} : Blk!Repoll(f)) /\ OnlyBlk
    \/ subject = "blk" /\ (\E f \in {1, 2, 3} : Blk!Check(f)) /\ OnlyBlk
    \/ subject = "blk" /\ Blk!Interrupt /\ OnlyBlk
    \/ subject = "blk" /\ (\E h \in Blk!Descs : Blk!DeviceCompletes(h)) /\ OnlyBlk
    \/ subject = "io" /\ (\E q \in Io!Queues : Io!Submit(q)) /\ OnlyIo
    \/ subject = "io" /\ Io!ScanBegin /\ OnlyIo
    \/ subject = "io" /\ Io!Scan /\ OnlyIo
    \/ subject = "io" /\ Io!Start /\ OnlyIo
    \/ subject = "io" /\ (\E r \in {1, 2} : Io!SubmitCount(r)) /\ OnlyIo
    \/ subject = "io" /\ (\E r \in {1, 2} : Io!DeviceFinishes(r)) /\ OnlyIo
    \/ subject = "io" /\ (\E r \in {1, 2} : Io!Cancel(r)) /\ OnlyIo
    \/ /\ subject = "io"
       /\ \E r \in {1, 2}, s \in {"Completed", "Failed"} : Io!HandleInterrupt(r, s)
       /\ OnlyIo
    \/ /\ subject = "io"
       /\ \E r \in {1, 2}, s \in {"Completed", "Failed"} : Io!Tick(r, s)
       /\ OnlyIo
    \/ subject = "io" /\ (\E r \in {1, 2} : Io!PollState(r)) /\ OnlyIo
    \/ subject = "io" /\ (\E r \in {1, 2} : Io!PollSetWaker(r)) /\ OnlyIo
    \/ subject = "io" /\ (\E r \in {1, 2}, x \in BOOLEAN : Io!PollAgain(r, x)) /\ OnlyIo
    \/ subject = "io" /\ (\E m \in Io!Modes : Io!SetGlobalMode(m)) /\ OnlyIo
    \/ subject = "io" /\ (\E r \in {1, 2}, m \in Io!Modes : Io!SubmitList(r, m)) /\ OnlyIo
    \/ /\ subject = "cache"
       /\ \E c \in Threads, k \in Cache!Keys : Cache!Read(c, k)
       /\ OnlyCache
    \/ /\ subject = "cache"
       /\ \E c \in Threads, k \in Cache!Keys : Cache!ReadMiss(c, k)
       /\ OnlyCache
    \/ /\ subject = "cache"
       /\ \E c \in Threads, k \in Cache!Keys : Cache!WriteBegin(c, k)
       /\ OnlyCache
    \/ subject = "cache" /\ (\E c \in Threads : Cache!InsertCheck(c)) /\ OnlyCache
    \/ subject = "cache" /\ (\E c \in Threads : Cache!Evict(c)) /\ OnlyCache
    \/ subject = "cache" /\ (\E c \in Threads : Cache!Put(c)) /\ OnlyCache
    \/ subject = "cache" /\ (\E c \in Threads : Cache!MarkDirty(c)) /\ OnlyCache
    \/ subject = "cache" /\ (\E S \in {{1}, {2}, {1, 2}} : Cache!SyncBegin(S)) /\ OnlyCache
    \/ /\ subject = "cache"
       /\ \E k \in Cache!Keys, ok \in BOOLEAN : Cache!SyncWrite(k, ok)
       /\ OnlyCache
    \/ subject = "cache" /\ Cache!SyncClean /\ OnlyCache
    \/ subject = "cache" /\ (\E f \in {1, 2} : Cache!Invalidate(f)) /\ OnlyCache
    \/ /\ subject = "mmap"
       /\ \E t \in Threads, n \in {1, 2}, kind \in {"anon", "phys"} : Mm!Find(t, n, kind)
       /\ OnlyMm
    \/ /\ subject = "mmap"
       /\ \E t \in Threads, at \in Mm!Pages, n \in {1, 2}, kind \in {"anon", "phys"} : Mm!BeginFixed(t, at, n, kind)
       /\ OnlyMm
    \/ subject = "mmap" /\ (\E t \in Threads : Mm!FindStore(t)) /\ OnlyMm
    \/ subject = "mmap" /\ (\E t \in Threads : Mm!PageAlloc(t)) /\ OnlyMm
    \/ subject = "mmap" /\ (\E t \in Threads : Mm!PageMap(t)) /\ OnlyMm
    \/ subject = "mmap" /\ (\E t \in Threads : Mm!PageMapFails(t)) /\ OnlyMm
    \/ subject = "mmap" /\ (\E t \in Threads, oom \in BOOLEAN : Mm!Insert(t, oom)) /\ OnlyMm
    \/ subject = "mmap" /\ (\E t \in Threads, at \in Mm!Pages : Mm!Munmap(t, at)) /\ OnlyMm
    \/ /\ subject = "mmap"
       /\ \E t \in Threads, at \in Mm!Pages, n \in {1, 2} : Mm!MunmapPhys(t, at, n)
       /\ OnlyMm
    \/ subject = "mmap" /\ (\E t \in Threads : Mm!Translate(t)) /\ OnlyMm
    \/ subject = "mmap" /\ (\E t \in Threads : Mm!UnmapPage(t)) /\ OnlyMm
    \/ subject = "mmap" /\ (\E t \in Threads : Mm!FreeFrame(t)) /\ OnlyMm
    \/ /\ subject = "shm"
       /\ \E t \in Threads, l \in {k1, private}, x \in BOOLEAN : Shm!CreateCheck(t, l, x)
       /\ OnlyShm
    \/ /\ subject = "shm"
       /\ \E t \in Threads, oom \in BOOLEAN : Shm!CreateInsert(t, oom)
       /\ OnlyShm
    \/ subject = "shm" /\ (\E t \in Threads : Shm!CreateLabel(t)) /\ OnlyShm
    \/ subject = "shm" /\ (\E t \in Threads : Shm!GetByLabel(t, k1)) /\ OnlyShm
    \/ subject = "shm" /\ (\E t \in Threads : Shm!Unlink(t, k1)) /\ OnlyShm
    \/ subject = "shm" /\ (\E t \in Threads, i \in Shm!Ids : Shm!RemoveGet(t, i)) /\ OnlyShm
    \/ /\ subject = "shm"
       /\ \E t \in Threads, i \in Shm!Ids, h \in Handles : Shm!Attach(t, i, h)
       /\ OnlyShm
    \/ /\ subject = "shm"
       /\ \E t \in Threads, h \in Handles : Shm!DetachSwap(t, h)
       /\ OnlyShm
    \/ /\ subject = "shm"
       /\ \E t \in Threads, h \in Handles : Shm!DropHandle(t, h)
       /\ OnlyShm
    \/ subject = "shm" /\ (\E t \in Threads : Shm!DetachCount(t)) /\ OnlyShm
    \/ subject = "shm" /\ (\E t \in Threads : Shm!UnlinkGet(t)) /\ OnlyShm
    \/ subject = "shm" /\ (\E t \in Threads : Shm!RemoveMark(t)) /\ OnlyShm
    \/ subject = "shm" /\ (\E t \in Threads : Shm!RemoveId(t)) /\ OnlyShm
    \/ subject = "shm" /\ (\E t \in Threads : Shm!RemoveLabel(t)) /\ OnlyShm
    \/ subject = "tcp" /\ (\E s \in Tcp!Socks : Tcp!Create(s)) /\ OnlyTcp
    \/ subject = "tcp" /\ (\E s \in Tcp!Socks : Tcp!Close(s)) /\ OnlyTcp
    \/ subject = "tcp" /\ (\E s \in Tcp!Socks : Tcp!Unregister(s)) /\ OnlyTcp
    \/ subject = "tcp" /\ Tcp!Bind /\ OnlyTcp
    \/ subject = "tcp" /\ Tcp!Listen /\ OnlyTcp
    \/ subject = "tcp" /\ Tcp!Connect /\ OnlyTcp
    \/ subject = "tcp" /\ Tcp!ReadBegin /\ OnlyTcp
    \/ subject = "tcp" /\ Tcp!RecvPoll /\ OnlyTcp
    \/ subject = "tcp" /\ Tcp!AcceptBegin /\ OnlyTcp
    \/ subject = "tcp" /\ Tcp!AcceptPoll /\ OnlyTcp
    \/ subject = "tcp" /\ Tcp!AcceptRegister /\ OnlyTcp
    \/ subject = "tcp" /\ Tcp!NetRecv /\ OnlyTcp
    \/ subject = "tcp" /\ Tcp!NetFile /\ OnlyTcp
    \/ subject = "tcp" /\ Tcp!NetWait /\ OnlyTcp
    \/ subject = "tcp" /\ (\E s \in Tcp!Wire : Tcp!RxGet(1, s)) /\ OnlyTcp
    \/ subject = "tcp" /\ Tcp!RxHandle(1) /\ OnlyTcp
    \/ subject = "tcp" /\ Tcp!RxDeliver(1) /\ OnlyTcp
    \/ subject = "tcp" /\ Tcp!RxConnected(1) /\ OnlyTcp
    \/ subject = "tcp" /\ Tcp!RxAccepted(1) /\ OnlyTcp

ServicesSpec == ServicesInit /\ [][ServicesNext]_allVars

------------------------------------------------------------------------------
(* The properties of the components that are not in NvmeQueue *)

\* NVMe: a batch that is not pending is announced, none reaches the threshold
\* unannounced, and for a caller that keeps to the window the controller fetches
\* every command once and in order, and a future's answer is its own command's.
\* virtio-blk: the device's chains are apart from each other and from the free
\* descriptors, and a future is ready only after its own request was served.
QueuesSound ==
    /\ SubmissionsSound
    /\ subject = "blk" => Blk!TypeOK /\ Blk!ChainsApart /\ Blk!ReadyMeansServed

\* I/O scheduler: the queue depth is exact, each request is in one place, and a
\* future that waits will be woken.
IoSound == subject = "io" => Io!DepthExact /\ Io!FutureNotForgotten /\ Io!OnePlace

\* I/O scheduler: a final request stays as it is.
FinalIsFinal == Io!FinalIsFinal

\* Page cache: a write that was confirmed is on the disk or in a dirty page,
\* through evictions and failing write-backs, and the cache never holds more
\* than its size says.
CacheSound == subject = "cache" => Cache!AckedIsKept /\ Cache!SizeCovers

\* mmap: mappings do not overlap, and the pages of a physical mapping are mapped
\* to frames of their own that are not free, as long as calls do not overlap in
\* time and what was mapped is what is unmapped.
MmapSound == subject = "mmap" => Mm!MappingsApart /\ Mm!FramesBacked

\* Shared memory: attach counts are exact, no label leads to a region that is
\* gone, and for one caller the tables, labels and totals agree.
ShmSound ==
    subject = "shm" => Shm!AttachCountExact /\ Shm!NoDanglingLabel /\ Shm!ExactForOneCaller

\* TCP endpoint: a connection's reader gets the peer's stream, and nobody sleeps
\* on something that is there.
EndpointSound == subject = "tcp" => Tcp!EndpointTypeOK /\ Tcp!StreamIntact /\ Tcp!NobodyForgotten
=============================================================================
