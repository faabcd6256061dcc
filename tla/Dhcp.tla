-------------------------------- MODULE Dhcp --------------------------------
(***************************************************************************)
(* The DHCP client of src/net/dhcp.rs.  Its operations run under the       *)
(* global Mutex and are atomic.  The caller and the servers are external.  *)
(* The caller discovers from Init, requests what it was offered, calls     *)
(* check_timeout again and again, rebuilds the message of its state when   *)
(* that reports a timeout, and may release at any time.  The network may   *)
(* lose, delay and duplicate: an OFFER for any DISCOVER ever sent and an   *)
(* ACK or NAK for any REQUEST ever sent may arrive at any time and any     *)
(* number of times, so the messages in flight are a function of what was   *)
(* sent.  The transaction id is the tick (xor a constant) and keeps its    *)
(* wrap (XidMod).  One step of time is one second.  A lease is its address *)
(* and the exchange it came from; wire formats are left out.               *)
(***************************************************************************)
EXTENDS Integers

CONSTANTS XidMod,       \* width of the transaction id
          Addrs,        \* the addresses the servers offer
          Timeout,      \* 4 seconds
          RenewAfter,   \* lease_time / 2
          MaxRetries    \* MAX_RETRIES

NoLease == [xid |-> -1, addr |-> 0]
Leases == [xid : 0 .. XidMod - 1, addr : Addrs]
States == {"Init", "Selecting", "Requesting", "Bound", "Renewing"}

VARIABLES clock,        \* current_tick, modulo the width of the id
          state, xid, lease, offered,
          elapsed,      \* seconds since state_time, up to Timeout + 1
          age,          \* seconds since lease.obtained_at, up to RenewAfter + 1
          retry,        \* retry_count
          due,          \* caller: check_timeout has just returned true
          discovered,   \* ids of the DISCOVERs sent
          asked         \* leases asked for in the REQUESTs sent

vars == <<clock, state, xid, lease, offered, elapsed, age, retry, due, discovered, asked>>

Init ==
    /\ clock = 0 /\ state = "Init" /\ xid = 0
    /\ lease = NoLease /\ offered = NoLease
    /\ elapsed = 0 /\ age = 0 /\ retry = 0 /\ due = FALSE
    /\ discovered = {} /\ asked = {}

Later(seconds, limit) == IF seconds < limit + 1 THEN seconds + 1 ELSE seconds

Time ==
    /\ clock' = (clock + 1) % XidMod
    /\ elapsed' = Later(elapsed, Timeout)
    /\ age' = Later(age, RenewAfter)
    /\ UNCHANGED <<state, xid, lease, offered, retry, due, discovered, asked>>

\* When the caller builds a DISCOVER: first, or again after a timeout.
WantsDiscover == state = "Init" \/ (state = "Selecting" /\ due)

\* Faulty variant: a new DISCOVER starts the retries afresh.
BuildDiscoverAfresh ==
    /\ WantsDiscover
    /\ xid' = clock /\ state' = "Selecting" /\ elapsed' = 0 /\ due' = FALSE
    /\ discovered' = discovered \cup {clock}
    /\ retry' = 0
    /\ UNCHANGED <<clock, lease, offered, age, asked>>

BuildDiscover ==
    /\ WantsDiscover
    /\ xid' = clock /\ state' = "Selecting" /\ elapsed' = 0 /\ due' = FALSE
    /\ discovered' = discovered \cup {clock}
    /\ UNCHANGED <<clock, lease, offered, age, retry, asked>>

\* REQUEST for the offered address, under the present id
BuildRequest ==
    /\ offered # NoLease
    /\ state = "Selecting" \/ (state \in {"Requesting", "Renewing"} /\ due)
    /\ state' = "Requesting" /\ elapsed' = 0 /\ due' = FALSE
    /\ asked' = asked \cup {[xid |-> xid, addr |-> offered.addr]}
    /\ UNCHANGED <<clock, xid, lease, offered, age, retry, discovered>>

\* Faulty variant: replies of other exchanges are taken.
MineAny(x) == TRUE

\* process_response goes on only for the present transaction id.
Mine(x) == x = xid

ReceiveOffer(x, a) ==
    /\ x \in discovered /\ Mine(x)
    /\ offered' = [xid |-> x, addr |-> a]
    /\ UNCHANGED <<clock, state, xid, lease, elapsed, age, retry, due, discovered, asked>>

ReceiveAck(l) ==
    /\ l \in asked /\ Mine(l.xid)
    /\ lease' = l /\ state' = "Bound" /\ elapsed' = 0 /\ age' = 0 /\ retry' = 0 /\ due' = FALSE
    /\ UNCHANGED <<clock, xid, offered, discovered, asked>>

ReceiveNak(l) ==
    /\ l \in asked /\ Mine(l.xid)
    /\ state' = "Init" /\ offered' = NoLease /\ due' = FALSE
    /\ UNCHANGED <<clock, xid, lease, elapsed, age, retry, discovered, asked>>

Release ==
    /\ state' = "Init" /\ lease' = NoLease /\ offered' = NoLease /\ due' = FALSE
    /\ UNCHANGED <<clock, xid, elapsed, age, retry, discovered, asked>>

TimesOut ==
    /\ state \in {"Selecting", "Requesting"} /\ elapsed > Timeout
    /\ due' = TRUE
    /\ IF retry >= MaxRetries THEN state' = "Init" /\ retry' = 0
                              ELSE retry' = retry + 1 /\ UNCHANGED state

NeedsRenewal ==
    /\ state = "Bound" /\ lease # NoLease /\ age > RenewAfter
    /\ state' = "Renewing" /\ due' = TRUE /\ UNCHANGED retry

CheckTimeout ==
    /\ TimesOut \/ NeedsRenewal
    /\ UNCHANGED <<clock, xid, lease, offered, elapsed, age, discovered, asked>>

Next ==
    \/ Time
    \/ BuildDiscover \/ BuildRequest \/ Release \/ CheckTimeout
    \/ \E x \in discovered, a \in Addrs : ReceiveOffer(x, a)
    \/ \E l \in asked : ReceiveAck(l) \/ ReceiveNak(l)

Spec == Init /\ [][Next]_vars

\* Time passes and the caller keeps calling check_timeout; nothing is assumed
\* of the network, nor that the caller ever sends anything again.
FairSpec == Spec /\ WF_vars(Time) /\ WF_vars(CheckTimeout)

------------------------------------------------------------------------------
TypeOK ==
    /\ clock \in 0 .. XidMod - 1 /\ xid \in 0 .. XidMod - 1
    /\ state \in States
    /\ lease \in Leases \cup {NoLease} /\ offered \in Leases \cup {NoLease}
    /\ elapsed \in 0 .. Timeout + 1 /\ age \in 0 .. RenewAfter + 1
    /\ retry \in 0 .. MaxRetries /\ due \in BOOLEAN

\* A late or duplicated reply never binds the client to a lease of another
\* exchange: a bound (or renewing) client has a lease that it asked for with
\* the transaction id it has now (process_response's check of the id against
\* build_discover's and build_request's use of it).
LeaseWasAsked ==
    state \in {"Bound", "Renewing"} => lease \in asked /\ lease.xid = xid

\* An exchange ends, whatever the network does: it is bound, refused, released
\* or given up after MAX_RETRIES timeouts (the retries outlive the DISCOVER
\* that each timeout makes the caller send).
ExchangeEnds == state \in {"Selecting", "Requesting"} ~> state \in {"Init", "Bound"}
=============================================================================
