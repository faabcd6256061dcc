------------------------------ MODULE MCRings ------------------------------
(*****************************************************************************)
(* The ring buffers, and the protocols that retry or wait for an answer,     *)
(* for TLC: the rings of src/sync/lockfree.rs and of shared memory, TCP      *)
(* retransmission and the DHCP client.  They share nothing, so a behaviour   *)
(* exercises one of them: `subject', chosen at the start.  The others stay   *)
(* in their initial states.                                                  *)
(*****************************************************************************)
EXTENDS SpscRing

CONSTANTS p1, p2, c1, c2, v1, v2

VARIABLES subject,
          mpscHead, mpscTail, committed, mpscBuffer, mpscPc, old, mpscVal, mpscConsPc,
          mpscConsVal, mpscAlive, mpscPushed, mpscPopped, loaded, lapped,
          mpmcHead, mpmcTail, sequence, data, mpmcPc, once, pos, mpmcVal, step,
          mpmcAlive, mpmcEnq, mpmcRes,
          ordered, creator, writePos, readPos, headerCapacity, slots, ownCapacity,
          pusher, pushVal, popper, popVal, shrEnq, deq, shrRes,
          queueThere, unacked, srtt, rttvar, rto, phase, rtPushed, copies, peerHas,
          clock, state, xid, lease, offered, elapsed, age, retry, due, discovered, asked

Producers == {p1, p2}
Poppers == {c1, c2}

\* Each producer of the MpscRing pushes a value of its own.
ValueOf(p) == IF p = p1 THEN v1 ELSE v2

Mpsc == INSTANCE MpscRing WITH
    N <- 3, MaxPushes <- 4, head <- mpscHead, tail <- mpscTail, buffer <- mpscBuffer,
    pc <- mpscPc, val <- mpscVal, consPc <- mpscConsPc, consVal <- mpscConsVal,
    alive <- mpscAlive, pushed <- mpscPushed, popped <- mpscPopped

Mpmc == INSTANCE MpmcRing WITH
    N <- 2, MaxPushes <- 2, SpinLimit <- 0, YieldLimit <- 1, Val <- {v1},
    Pushers <- {p1}, head <- mpmcHead, tail <- mpmcTail, pc <- mpmcPc, val <- mpmcVal,
    alive <- mpmcAlive, enq <- mpmcEnq, res <- mpmcRes

Shared == INSTANCE SharedRing WITH
    Capacity <- 3, Val <- {1, 2}, MaxPushes <- 5, enq <- shrEnq, res <- shrRes

Resend == INSTANCE Retransmit WITH
    Modulus <- 16, FirstSeq <- 14, Lengths <- <<2, 1, 3>>, RtoInit <- 2, RtoMin <- 1,
    RtoMax <- 4, MaxRetries <- 2, CheckEvery <- 2, MaxAge <- 5, pushed <- rtPushed

Client == INSTANCE Dhcp WITH
    XidMod <- 2, Addrs <- {1}, Timeout <- 1, RenewAfter <- 1, MaxRetries <- 2

ASSUME ComponentAssumptions ==
    /\ Mpsc!NAssumption
    /\ Mpsc!UninitAssumption
    /\ Mpmc!NAssumption
    /\ Mpmc!UninitAssumption
    /\ Mpmc!ThreadsAssumption
    /\ Mpmc!LimitAssumption
    /\ Shared!SharedRingAssumption
    /\ Resend!RetransmitAssumption

mpscVars == <<mpscHead, mpscTail, committed, mpscBuffer, mpscPc, old, mpscVal,
              mpscConsPc, mpscConsVal, mpscAlive, mpscPushed, mpscPopped, loaded, lapped>>
mpmcVars == <<mpmcHead, mpmcTail, sequence, data, mpmcPc, once, pos, mpmcVal, step,
              mpmcAlive, mpmcEnq, mpmcRes>>
shrVars == <<ordered, creator, writePos, readPos, headerCapacity, slots, ownCapacity,
             pusher, pushVal, popper, popVal, shrEnq, deq, shrRes>>
rtVars == <<queueThere, unacked, srtt, rttvar, rto, phase, rtPushed, copies, peerHas>>
dhcpVars == <<clock, state, xid, lease, offered, elapsed, age, retry, due, discovered,
              asked>>
allVars == <<subject, vars, mpscVars, mpmcVars, shrVars, rtVars, dhcpVars>>

RingsInit ==
    /\ subject \in {"spsc", "mpsc", "mpmc", "shared", "retransmit", "dhcp"}
    /\ Init /\ Mpsc!Init /\ Mpmc!Init /\ Shared!Init
    /\ Resend!Init /\ Client!Init
    /\ subject # "shared" => ordered

OnlySpsc == UNCHANGED <<subject, mpscVars, mpmcVars, shrVars, rtVars, dhcpVars>>
OnlyMpsc == UNCHANGED <<subject, vars, mpmcVars, shrVars, rtVars, dhcpVars>>
OnlyMpmc == UNCHANGED <<subject, vars, mpscVars, shrVars, rtVars, dhcpVars>>
OnlyShared == UNCHANGED <<subject, vars, mpscVars, mpmcVars, rtVars, dhcpVars>>
OnlyResend == UNCHANGED <<subject, vars, mpscVars, mpmcVars, shrVars, dhcpVars>>
OnlyClient == UNCHANGED <<subject, vars, mpscVars, mpmcVars, shrVars, rtVars>>

RingsNext ==
    \/ subject = "spsc" /\ (\E v \in Val : PushCheck(v)) /\ OnlySpsc
    \/ subject = "spsc" /\ PushWrite /\ OnlySpsc
    \/ subject = "spsc" /\ PushPublish /\ OnlySpsc
    \/ subject = "spsc" /\ PopCheck /\ OnlySpsc
    \/ subject = "spsc" /\ PopRead /\ OnlySpsc
    \/ subject = "spsc" /\ PopRelease /\ OnlySpsc
    \/ subject = "spsc" /\ PeekBegin /\ OnlySpsc
    \/ subject = "spsc" /\ PeekEnd /\ OnlySpsc
    \/ subject = "spsc" /\ Drop /\ OnlySpsc
    \/ /\ subject = "mpsc"
       /\ \E p \in Producers : Mpsc!PushLoadHead(p, ValueOf(p))
       /\ OnlyMpsc
    \/ subject = "mpsc" /\ (\E p \in Producers : Mpsc!PushCheckFull(p)) /\ OnlyMpsc
    \/ subject = "mpsc" /\ (\E p \in Producers : Mpsc!PushReserve(p)) /\ OnlyMpsc
    \/ subject = "mpsc" /\ (\E p \in Producers : Mpsc!PushWrite(p)) /\ OnlyMpsc
    \/ subject = "mpsc" /\ (\E p \in Producers : Mpsc!PushCommit(p)) /\ OnlyMpsc
    \/ subject = "mpsc" /\ Mpsc!PopCheck /\ OnlyMpsc
    \/ subject = "mpsc" /\ Mpsc!PopRead /\ OnlyMpsc
    \/ subject = "mpsc" /\ Mpsc!PopRelease /\ OnlyMpsc
    \/ subject = "mpsc" /\ Mpsc!Drop /\ OnlyMpsc
    \/ subject = "mpmc" /\ (\E try \in BOOLEAN : Mpmc!Push(p1, v1, try)) /\ OnlyMpmc
    \/ subject = "mpmc" /\ Mpmc!PushLoadHead(p1) /\ OnlyMpmc
    \/ subject = "mpmc" /\ Mpmc!PushCheckFull(p1) /\ OnlyMpmc
    \/ subject = "mpmc" /\ Mpmc!PushCheckSlot(p1) /\ OnlyMpmc
    \/ subject = "mpmc" /\ Mpmc!PushReserve(p1) /\ OnlyMpmc
    \/ subject = "mpmc" /\ Mpmc!PushWrite(p1) /\ OnlyMpmc
    \/ subject = "mpmc" /\ Mpmc!PushPublish(p1) /\ OnlyMpmc
    \/ /\ subject = "mpmc"
       /\ \E c \in Poppers, try \in BOOLEAN : Mpmc!Pop(c, try)
       /\ OnlyMpmc
    \/ subject = "mpmc" /\ (\E c \in Poppers : Mpmc!PopLoadTail(c)) /\ OnlyMpmc
    \/ subject = "mpmc" /\ (\E c \in Poppers : Mpmc!PopCheckEmpty(c)) /\ OnlyMpmc
    \/ subject = "mpmc" /\ (\E c \in Poppers : Mpmc!PopCheckReady(c)) /\ OnlyMpmc
    \/ subject = "mpmc" /\ (\E c \in Poppers : Mpmc!PopRecheckTail(c)) /\ OnlyMpmc
    \/ subject = "mpmc" /\ (\E c \in Poppers : Mpmc!PopReserve(c)) /\ OnlyMpmc
    \/ subject = "mpmc" /\ (\E c \in Poppers : Mpmc!PopRead(c)) /\ OnlyMpmc
    \/ subject = "mpmc" /\ (\E c \in Poppers : Mpmc!PopRelease(c)) /\ OnlyMpmc
    \/ subject = "mpmc" /\ Mpmc!Drop /\ OnlyMpmc
    \/ subject = "shared" /\ Shared!CreateRegion /\ OnlyShared
    \/ subject = "shared" /\ Shared!CreateHeader /\ OnlyShared
    \/ subject = "shared" /\ Shared!Open /\ OnlyShared
    \/ subject = "shared" /\ (\E v \in {1, 2} : Shared!PushCheck(v)) /\ OnlyShared
    \/ subject = "shared" /\ Shared!PushWrite /\ OnlyShared
    \/ subject = "shared" /\ Shared!PushStore /\ OnlyShared
    \/ subject = "shared" /\ Shared!PopCheck /\ OnlyShared
    \/ subject = "shared" /\ Shared!PopRead /\ OnlyShared
    \/ subject = "shared" /\ Shared!PopStore /\ OnlyShared
    \/ subject = "retransmit" /\ Resend!Push /\ OnlyResend
    \/ subject = "retransmit" /\ (\E k \in 1 .. 4 : Resend!Ack(k)) /\ OnlyResend
    \/ subject = "retransmit" /\ Resend!PeerTakes /\ OnlyResend
    \/ subject = "retransmit" /\ Resend!Tick /\ OnlyResend
    \/ subject = "dhcp" /\ Client!Time /\ OnlyClient
    \/ subject = "dhcp" /\ Client!BuildDiscover /\ OnlyClient
    \/ subject = "dhcp" /\ Client!BuildRequest /\ OnlyClient
    \/ subject = "dhcp" /\ Client!Release /\ OnlyClient
    \/ subject = "dhcp" /\ Client!CheckTimeout /\ OnlyClient
    \/ /\ subject = "dhcp"
       /\ \E x \in discovered, a \in {1} : Client!ReceiveOffer(x, a)
       /\ OnlyClient
    \/ subject = "dhcp" /\ (\E l \in asked : Client!ReceiveAck(l)) /\ OnlyClient
    \/ subject = "dhcp" /\ (\E l \in asked : Client!ReceiveNak(l)) /\ OnlyClient

RingsSpec ==
    /\ RingsInit /\ [][RingsNext]_allVars
    /\ \A p \in Producers : WF_allVars(subject = "mpsc" /\ Mpsc!Pushing(p) /\ OnlyMpsc)
    /\ WF_allVars(subject = "mpsc" /\ Mpsc!Popping /\ OnlyMpsc)
    /\ WF_allVars(subject = "mpmc" /\ Mpmc!PushStep(p1) /\ OnlyMpmc)
    /\ \A c \in Poppers : WF_allVars(subject = "mpmc" /\ Mpmc!PopStep(c) /\ OnlyMpmc)
    /\ \A c \in Poppers : WF_allVars(subject = "mpmc" /\ Mpmc!Pop(c, FALSE) /\ OnlyMpmc)
    /\ WF_allVars(subject = "retransmit" /\ Resend!Tick /\ OnlyResend)
    /\ WF_allVars(subject = "dhcp" /\ Client!Time /\ OnlyClient)
    /\ WF_allVars(subject = "dhcp" /\ Client!CheckTimeout /\ OnlyClient)

------------------------------------------------------------------------------
(* The properties of the components that are not in SpscRing *)

\* SpscRingBuffer: len is the number of elements for an observer that sees both
\* indices at one moment, also where the indices wrap.
\* MpscRingBuffer: as long as no producer was lapped, a reservation gives
\* exclusive access to its slot, values come out in the order of the
\* reservations, none invented and none read unwritten, and a buffer that looks
\* empty when nobody is inside an operation has delivered all it accepted.
\* SharedRingBuffer: if it is opened after create has returned, both sides have
\* the same capacity, pop never divides by zero, and the slots between the
\* positions hold what was pushed and not yet popped.
RingsSound ==
    /\ LenIsCount
    /\ Mpsc!SlotExclusive /\ Mpsc!DeliversInOrder /\ Mpsc!NothingLost
    /\ subject = "shared" => Shared!OpenSound /\ Shared!SlotsInOrder

\* SharedRingBuffer: push and pop are those of a FIFO queue of Capacity - 1
\* elements, whatever the interleaving with create and open.
\* MpscRingBuffer: unless a producer is lapped, the wait for earlier producers
\* to commit comes to an end.
\* MpmcRingBuffer: as long as two consumers keep calling pop, everything that
\* is pushed is consumed; waiting consumers neither block each other nor miss
\* an element that was published.
RingsServe ==
    /\ Shared!RingImplementsFifo
    /\ Mpsc!CommitsEventually /\ Mpmc!EverythingIsPopped

\* TCP: whatever acknowledgements arrive, also across the wrap of the sequence
\* numbers, a segment the peer does not have stays in the retransmit queue, and
\* an acknowledgement covers exactly the segments before it.
\* DHCP: a late or duplicated reply never binds the client to a lease of another
\* exchange. The state of both stays well formed.
LateRepliesHarmless ==
    /\ subject = "retransmit" =>
          Resend!RetransmitTypeOK /\ Resend!NothingForgotten /\ Resend!AcksCover
    /\ subject = "dhcp" => Client!TypeOK /\ Client!LeaseWasAsked

\* TCP: what is pushed is acknowledged, or the connection is given up, and that
\* only after max_retries copies of its oldest segment.
\* DHCP: an exchange is bound, refused, released or given up, whatever the
\* network does.
RetriesEnd ==
    /\ Resend!GivesUpAfterRetries /\ Resend!Settles
    /\ Client!ExchangeEnds
=============================================================================
