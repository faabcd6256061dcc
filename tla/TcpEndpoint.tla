----------------------------- MODULE TcpEndpoint -----------------------------
(***************************************************************************)
(* The socket layer over its TCP receive path (net/endpoint): a listener   *)
(* "lis", a client "cli" and the socket "acc" of an accepted connection;   *)
(* the socket manager's descriptor and port tables; the TCBs of the        *)
(* incoming and of the outgoing connection; the event queue and the task   *)
(* that empties it; the receive contexts that run process_tcp_segment, each *)
(* working on a clone of the TCB; and the futures that wait.               *)
(*                                                                         *)
(* Sequence numbers count from the initial ones: the peer's SYN is 0 and   *)
(* its i-th data segment is i.  Nothing in the code ever advances snd_nxt,  *)
(* so an acknowledgement is 0 (the value of snd_nxt) or 1 (what a peer that *)
(* counts the SYN sends).  The peer and the wire are external: any segment  *)
(* the peer can send arrives at any time, any number of times.  The backlog *)
(* of the listener is at least MaxAccepts, so its queue is never full.      *)
(***************************************************************************)
EXTENDS Integers, Sequences, FiniteSets

CONSTANTS
  Contexts,    \* receive contexts
  Stream,      \* bound: data segments the peer of the outgoing connection sends
  BufLimit,    \* segments a receive buffer holds
  EventCap,    \* NetworkEventQueue::CAPACITY
  MaxAccepts,  \* bound: accepted descriptors
  Openings     \* bound: sets of sockets the application opens, each once

EndpointAssumption ==
  /\ {Stream, BufLimit, EventCap, MaxAccepts} \subseteq Nat \ {0}
  /\ Openings \subseteq SUBSET {"lis", "cli"}

None == "none"
Socks == {"lis", "cli", "acc"}
Conns == {"in", "out"}
Fds == 0 .. MaxAccepts + 1

\* Serial use: one segment is processed at a time, and no receive context
\* runs inside a poll of the accepting task.
Usages == {"serial", "parallel"}

VARIABLES
  usage,
  roles,        \* the sockets the application has yet to open
  counted,      \* the peer counts the SYN in its acknowledgements
  nextFd,       \* NEXT_FD
  fdCounter,    \* FD_COUNTER of generate_fd
  sockTable,    \* SocketManager.sockets
  portFd,       \* tcp_ports at the listener's port
  sock,         \* SocketInner of each socket
  acceptQueue,  \* the listener's accept_queue: descriptors
  acceptWaker,  \* the listener's accept_waker is filed
  tcbs,         \* the TCB of each connection
  events,       \* NetworkEventQueue
  netTask,      \* the network task in its wait
  netWaker,
  rx,           \* what each receive context is doing
  reader,       \* the task that awaits RecvFuture on "cli"
  acceptor,     \* the task that awaits AcceptFuture on "lis"
  got,          \* history: what the reader was given
  cut           \* history: a full receive buffer dropped data

epVars == <<usage, roles, counted, nextFd, fdCounter, sockTable, portFd, sock, acceptQueue,
            acceptWaker, tcbs, events, netTask, netWaker, rx, reader,
            acceptor, got, cut>>

tables == <<nextFd, fdCounter, sockTable, portFd>>
queueVars == <<events, netTask, netWaker>>
tasks == <<reader, acceptor>>
history == <<got, cut>>

States == {None, "Created", "Bound", "Listening", "Connecting", "Connected", "Closed"}
Events == {"Connect", "Listen", "Close"} \X Fds

Segment(c, k, n) == [conn |-> c, kind |-> k, seq |-> n]

\* What the peers may send (the incoming one a single data segment): ACK,
\* DATA, FIN and SYN-ACK carry an acknowledgement.
Wire == {Segment("in", "SYN", 0), Segment("out", "SYNACK", 0)}
        \cup {Segment(c, k, 0) : c \in Conns, k \in {"ACK", "RST"}}
        \cup {Segment("out", "DATA", n) : n \in 1 .. Stream}
        \cup {Segment("out", "FIN", Stream + 1)}
        \cup {Segment("in", "DATA", 1), Segment("in", "FIN", 2)}

Tcb(st, fd, nxt) == [state |-> st, fd |-> fd, rcvNxt |-> nxt]
NoTcb == Tcb(None, 0, 0)
TcbSet == [state : {None, "SynSent", "SynReceived", "Established", "CloseWait"},
           fd : Fds, rcvNxt : 0 .. Stream + Cardinality(Contexts) + 2]

Idle == [pc |-> "idle", seg |-> Segment("in", "ACK", 0), tcb |-> NoTcb]

EndpointTypeOK ==
  /\ usage \in Usages /\ roles \subseteq {"lis", "cli"} /\ counted \in BOOLEAN
  /\ nextFd \in 0 .. 2 /\ fdCounter \in 1 .. MaxAccepts + 1
  /\ sockTable \in [Fds -> Socks \cup {None}]
  /\ portFd \in Fds \cup {-1}
  /\ sock \in [Socks -> [fd : Fds, state : States, recv : Seq(1 .. Stream), waker : BOOLEAN]]
  /\ acceptQueue \in Seq(Fds) /\ acceptWaker \in BOOLEAN
  /\ tcbs \in [Conns -> TcbSet]
  /\ events \in Seq(Events) /\ Len(events) <= EventCap
  /\ netTask \in {"run", "filed", "wait"} /\ netWaker \in BOOLEAN
  /\ rx \in [Contexts -> [pc : {"idle", "handle", "deliver", "connected", "accepted"},
                          seg : Wire \cup {Idle.seg}, tcb : TcbSet]]
  /\ reader \in {"off", "poll", "wait"} /\ acceptor \in {"off", "poll", "register", "wait"}
  /\ got \in Seq(1 .. Stream) /\ cut \in BOOLEAN

NewInner == [fd |-> 0, state |-> None, recv |-> <<>>, waker |-> FALSE]

\* SocketManager::new, NetworkEventQueue::new, TcbTable::new.
Init ==
  /\ usage \in Usages /\ roles \in Openings /\ counted \in BOOLEAN
  /\ nextFd = 0 /\ fdCounter = 1
  /\ sockTable = [f \in Fds |-> None] /\ portFd = -1
  /\ sock = [s \in Socks |-> NewInner]
  /\ acceptQueue = <<>> /\ acceptWaker = FALSE
  /\ tcbs = [c \in Conns |-> NoTcb]
  /\ events = <<>> /\ netTask = "run" /\ netWaker = FALSE
  /\ rx = [t \in Contexts |-> Idle]
  /\ reader = "off" /\ acceptor = "off"
  /\ got = <<>> /\ cut = FALSE

\* transition_to: the pairs it allows (a transition to the same state too).
CanGo(from, to) ==
  \/ from = to
  \/ <<from, to>> \in {<<"Created", "Bound">>, <<"Created", "Connecting">>,
       <<"Bound", "Listening">>, <<"Bound", "Connecting">>, <<"Bound", "Connected">>,
       <<"Connecting", "Connected">>}
  \/ to = "Closed" /\ from # None

Goto(s, to) == [sock EXCEPT ![s].state = IF CanGo(@, to) THEN to ELSE @]

\* NetworkEventQueue::send: refused when full, else filed, and the network
\* task is woken.
Post(e) ==
  IF Len(events) >= EventCap THEN UNCHANGED queueVars
  ELSE /\ events' = Append(events, e)
       /\ netTask' = IF netWaker /\ netTask = "wait" THEN "run" ELSE netTask
       /\ netWaker' = FALSE

-----------------------------------------------------------------------------
\* The application.

\* OwnedSocket::new: a descriptor from NEXT_FD, registered.
Create(s) ==
  /\ s \in roles
  /\ roles' = roles \ {s}
  /\ sock' = [sock EXCEPT ![s] = [NewInner EXCEPT !.fd = nextFd, !.state = "Created"]]
  /\ sockTable' = [sockTable EXCEPT ![nextFd] = s]
  /\ nextFd' = nextFd + 1
  /\ UNCHANGED <<usage, counted, fdCounter, portFd, acceptQueue, acceptWaker, tcbs,
                 queueVars, rx, tasks, history>>

\* bind and bind_port.
Bind ==
  /\ sock["lis"].state = "Created" /\ portFd = -1
  /\ sock' = Goto("lis", "Bound") /\ portFd' = sock["lis"].fd
  /\ UNCHANGED <<usage, roles, counted, nextFd, fdCounter, sockTable, acceptQueue, acceptWaker,
                 tcbs, queueVars, rx, tasks, history>>

\* listen and connect: the state changes under the lock, then the event is
\* sent; a full event queue refuses it and leaves the state changed.
Start(s, to, e) ==
  /\ sock' = Goto(s, to)
  /\ Post(<<e, sock[s].fd>>)
  /\ UNCHANGED <<usage, roles, counted, tables, acceptQueue, acceptWaker, tcbs, rx, tasks,
                 history>>

Listen == sock["lis"].state = "Bound" /\ Start("lis", "Listening", "Listen")
Connect == sock["cli"].state = "Created" /\ Start("cli", "Connecting", "Connect")

\* close: the buffer is emptied and the reader woken (not the acceptor), then
\* the Close event is sent, its refusal ignored.
Close(s) ==
  /\ sock[s].state \notin {None, "Closed"}
  /\ sock' = [Goto(s, "Closed") EXCEPT ![s].recv = <<>>, ![s].waker = FALSE]
  /\ reader' = IF s = "cli" /\ sock[s].waker /\ reader = "wait" THEN "poll" ELSE reader
  /\ Post(<<"Close", sock[s].fd>>)
  /\ got' = IF s = "cli" THEN <<>> ELSE got
  /\ UNCHANGED <<usage, roles, counted, tables, acceptQueue, acceptWaker, tcbs, rx,
                 acceptor, cut>>

\* The end of OwnedSocket::drop: unregister takes what is filed under the
\* descriptor and frees the port of that socket's local address, which for
\* an accepted socket is the listener's.
Unregister(s) ==
  LET victim == sockTable[sock[s].fd] IN
  /\ sock[s].state = "Closed"
  /\ sockTable' = [sockTable EXCEPT ![sock[s].fd] = None]
  /\ portFd' = IF victim = "acc" \/ (victim = "lis" /\ portFd = sock["lis"].fd)
               THEN -1 ELSE portFd
  /\ sock' = [sock EXCEPT ![s] = NewInner]
  /\ UNCHANGED <<usage, roles, counted, nextFd, fdCounter, acceptQueue, acceptWaker, tcbs,
                 queueVars, rx, tasks, history>>

CanReceive(s) == sock[s].state \in {"Connected", "Bound", "Listening"}

ReadBegin ==
  /\ reader = "off" /\ CanReceive("cli")
  /\ reader' = "poll"
  /\ UNCHANGED <<usage, roles, counted, tables, sock, acceptQueue, acceptWaker, tcbs, queueVars,
                  rx, acceptor, history>>

\* A faulty poll: the waker is not filed.
RecvPollUnfiled ==
  /\ reader = "poll"
  /\ IF ~CanReceive("cli") \/ sock["cli"].recv # <<>>
     THEN reader' = "off" ELSE reader' = "wait"
  /\ UNCHANGED <<usage, roles, counted, tables, sock, acceptQueue, acceptWaker, tcbs, queueVars,
                  rx, acceptor, got, cut>>

\* RecvFuture::poll, under the socket's lock throughout.
RecvPoll ==
  /\ reader = "poll"
  /\ IF ~CanReceive("cli") THEN reader' = "off" /\ UNCHANGED <<sock, got>>
     ELSE IF sock["cli"].recv # <<>>
     THEN /\ reader' = "off"
          /\ got' = Append(got, Head(sock["cli"].recv))
          /\ sock' = [sock EXCEPT !["cli"].recv = Tail(@)]
     ELSE /\ reader' = "wait" /\ sock' = [sock EXCEPT !["cli"].waker = TRUE]
          /\ UNCHANGED got
  /\ UNCHANGED <<usage, roles, counted, tables, acceptQueue, acceptWaker, tcbs, queueVars,
                  rx, acceptor, cut>>

AcceptBegin ==
  /\ acceptor = "off" /\ sock["lis"].state = "Listening"
  /\ acceptor' = "poll"
  /\ UNCHANGED <<usage, roles, counted, tables, sock, acceptQueue, acceptWaker, tcbs, queueVars,
                  rx, reader, history>>

\* AcceptFuture::poll, first half: accept.  The new socket starts Created,
\* and its transition to Connected goes through transition_to like any other.
AcceptPoll ==
  /\ acceptor = "poll"
  /\ usage = "serial" => \A u \in Contexts : rx[u].pc = "idle"
  /\ IF sock["lis"].state # "Listening"
     THEN acceptor' = "off" /\ UNCHANGED <<sock, sockTable, acceptQueue>>
     ELSE IF acceptQueue = <<>>
     THEN acceptor' = "register" /\ UNCHANGED <<sock, sockTable, acceptQueue>>
     ELSE LET fd == Head(acceptQueue) IN
          /\ sock["acc"].state = None
          /\ acceptor' = "off"
          /\ acceptQueue' = Tail(acceptQueue)
          /\ sock' = [sock EXCEPT !["acc"] = [NewInner EXCEPT !.fd = fd,
                        !.state = IF CanGo("Created", "Connected") THEN "Connected"
                                  ELSE "Created"]]
          /\ sockTable' = [sockTable EXCEPT ![fd] = "acc"]
  /\ UNCHANGED <<usage, roles, counted, nextFd, fdCounter, portFd, acceptWaker, tcbs, queueVars,
                  rx, reader, history>>

\* Second half, under a lock of its own: register_accept_waker.
AcceptRegister ==
  /\ acceptor = "register"
  /\ acceptor' = "wait" /\ acceptWaker' = TRUE
  /\ UNCHANGED <<usage, roles, counted, tables, sock, acceptQueue, tcbs, queueVars, rx,
                 reader, history>>

-----------------------------------------------------------------------------
\* The network task: EventWaitFuture looks, files its waker and looks again.

\* handle_event: handle_connect makes the TCB; handle_listen and
\* handle_close change nothing.
HandleEvent(e) ==
  tcbs' = IF e[1] = "Connect" /\ sockTable[e[2]] # None
          THEN [tcbs EXCEPT !["out"] = Tcb("SynSent", e[2], 0)] ELSE tcbs

NetRecv ==
  /\ netTask \in {"run", "filed"} /\ events # <<>>
  /\ HandleEvent(Head(events))
  /\ events' = Tail(events) /\ netTask' = "run"
  /\ UNCHANGED <<usage, roles, counted, tables, sock, acceptQueue, acceptWaker, netWaker, 
                 rx, tasks, history>>

\* A faulty wait: no second look.
NetFileOnce ==
  /\ netTask = "run" /\ events = <<>>
  /\ netTask' = "wait" /\ netWaker' = FALSE
  /\ UNCHANGED <<usage, roles, counted, tables, sock, acceptQueue, acceptWaker, tcbs, events,
                  rx, tasks, history>>

NetFile ==
  /\ netTask = "run" /\ events = <<>>
  /\ netTask' = "filed" /\ netWaker' = TRUE
  /\ UNCHANGED <<usage, roles, counted, tables, sock, acceptQueue, acceptWaker, tcbs, events,
                  rx, tasks, history>>

NetWait ==
  /\ netTask = "filed" /\ events = <<>>
  /\ netTask' = "wait"
  /\ UNCHANGED <<usage, roles, counted, tables, sock, acceptQueue, acceptWaker, tcbs, events,
                 netWaker, rx, tasks, history>>

-----------------------------------------------------------------------------
\* The receive path.

IsAck(s) == s.kind \in {"ACK", "SYNACK", "DATA", "FIN"}

\* The peer's acknowledgement is compared with snd_nxt for equality.
AckMatches(s) == IsAck(s) /\ ~counted

\* A faulty check: old data is taken again.
InOrderOrOld(s, c) == s.seq <= c.rcvNxt

\* handle_data_received takes only the next segment.
InOrder(s, c) == s.seq = c.rcvNxt

\* The segments that the code does anything with, by the state of the TCB.
Concerns(s, c) ==
  \/ c.state = None /\ s.kind = "SYN"
  \/ c.state = "SynSent" /\ s.kind = "SYNACK" /\ AckMatches(s)
  \/ c.state \in {"SynSent", "Established"} /\ s.kind = "RST"
  \/ c.state \in {"SynReceived", "CloseWait"} /\ AckMatches(s)
  \/ c.state = "Established" /\ s.kind = "FIN"
  \/ c.state = "Established" /\ s.kind = "DATA" /\ InOrder(s, c)

\* process_tcp_segment: clone the TCB of the segment's connection.  (A segment
\* the clone's state has no use for is dropped without effect.)
RxGet(t, s) ==
  /\ rx[t].pc = "idle"
  /\ Concerns(s, tcbs[s.conn])
  /\ usage = "serial" =>
       /\ t = CHOOSE u \in Contexts : TRUE
       /\ \A u \in Contexts : rx[u].pc = "idle"
       /\ acceptor # "register"
  /\ rx' = [rx EXCEPT ![t] = [pc |-> "handle", seg |-> s, tcb |-> tcbs[s.conn]]]
  /\ UNCHANGED <<usage, roles, counted, tables, sock, acceptQueue, acceptWaker, tcbs, queueVars,
                  tasks, history>>

\* find_by_port: the listening socket of the port.
PortSocket == IF portFd = -1 THEN None ELSE sockTable[portFd]
Listens == PortSocket # None /\ sock[PortSocket].state = "Listening"

\* process_tcp_with_tcb by the clone c's state, and process_tcp_new_connection
\* when there is none: the new TCB (an update finds the current one, cur, or
\* does nothing) and what is left to do.
Handled(s, c, cur) ==
  LET there == cur.state # None
      Out(tcb, pc) == [tcb |-> tcb, pc |-> pc]
  IN CASE c.state = None ->
            Out(IF Listens THEN Tcb("SynReceived", portFd, 1) ELSE cur, "idle")
       [] c.state = "SynSent" /\ s.kind = "SYNACK" ->
            IF there THEN Out(Tcb("Established", cur.fd, 1), "connected") ELSE Out(cur, "idle")
       [] s.kind = "RST" \/ c.state = "CloseWait" -> Out(NoTcb, "idle")
       [] c.state = "SynReceived" ->
            Out(IF there THEN [cur EXCEPT !.state = "Established"] ELSE cur, "accepted")
       [] c.state = "Established" /\ s.kind = "FIN" ->
            Out(IF there THEN Tcb(IF cur.state = "Established" THEN "CloseWait" ELSE cur.state,
                                  cur.fd, s.seq + 1) ELSE cur, "idle")
       [] c.state = "Established" /\ s.kind = "DATA" ->
            Out(IF there THEN [cur EXCEPT !.rcvNxt = @ + 1] ELSE cur, "deliver")

RxHandle(t) ==
  LET s == rx[t].seg
      h == Handled(s, rx[t].tcb, tcbs[s.conn])
  IN /\ rx[t].pc = "handle"
     /\ tcbs' = [tcbs EXCEPT ![s.conn] = h.tcb]
     /\ rx' = [rx EXCEPT ![t] = IF h.pc = "idle" THEN Idle ELSE [@ EXCEPT !.pc = h.pc, !.tcb = Tcb(None, @.fd, 0)]]
     /\ UNCHANGED <<usage, roles, counted, tables, sock, acceptQueue, acceptWaker, queueVars,
                     tasks, history>>

\* push_data on the socket filed under the clone's descriptor, if any: a full
\* buffer drops the data; the waiting reader is woken.
RxDeliver(t) ==
  LET s == sockTable[rx[t].tcb.fd]
      full == s # None /\ Len(sock[s].recv) >= BufLimit
  IN /\ rx[t].pc = "deliver"
     /\ sock' = IF s = None THEN sock
                ELSE [sock EXCEPT ![s].recv = IF full THEN @ ELSE Append(@, rx[t].seg.seq),
                                  ![s].waker = FALSE]
     /\ reader' = IF s = "cli" /\ sock[s].waker /\ reader = "wait" THEN "poll" ELSE reader
     /\ cut' = (cut \/ full)
     /\ rx' = [rx EXCEPT ![t] = Idle]
     /\ UNCHANGED <<usage, roles, counted, tables, acceptQueue, acceptWaker, tcbs, queueVars,
                     acceptor, got>>

\* notify_socket_connected.
RxConnected(t) ==
  LET s == sockTable[rx[t].tcb.fd] IN
  /\ rx[t].pc = "connected"
  /\ sock' = IF s = None THEN sock ELSE Goto(s, "Connected")
  /\ rx' = [rx EXCEPT ![t] = Idle]
  /\ UNCHANGED <<usage, roles, counted, tables, acceptQueue, acceptWaker, tcbs, queueVars, 
                 tasks, history>>

\* create_accepted_socket and push_to_accept_queue: a descriptor from
\* generate_fd, and the acceptor is woken.
RxAccepted(t) ==
  LET c == rx[t].seg.conn
      push == tcbs[c].state # None /\ Listens
  IN /\ rx[t].pc = "accepted" /\ fdCounter <= MaxAccepts
     /\ fdCounter' = fdCounter + 1
     /\ tcbs' = IF tcbs[c].state = None THEN tcbs ELSE [tcbs EXCEPT ![c].fd = fdCounter]
     /\ acceptQueue' = IF push THEN Append(acceptQueue, fdCounter) ELSE acceptQueue
     /\ acceptor' = IF push /\ acceptWaker /\ acceptor = "wait" THEN "poll" ELSE acceptor
     /\ acceptWaker' = (acceptWaker /\ ~push)
     /\ rx' = [rx EXCEPT ![t] = Idle]
     /\ UNCHANGED <<usage, roles, counted, nextFd, sockTable, portFd, sock, queueVars, 
                    reader, history>>

Next ==
  \/ \E s \in Socks : Create(s) \/ Close(s) \/ Unregister(s)
  \/ Bind \/ Listen \/ Connect
  \/ ReadBegin \/ RecvPoll \/ AcceptBegin \/ AcceptPoll \/ AcceptRegister
  \/ NetRecv \/ NetFile \/ NetWait
  \/ \E t \in Contexts :
       \/ \E s \in Wire : RxGet(t, s)
       \/ RxHandle(t) \/ RxDeliver(t) \/ RxConnected(t) \/ RxAccepted(t)

Spec == Init /\ [][Next]_epVars

-----------------------------------------------------------------------------
\* What the reader of a connection was given and what waits in its buffer
\* is the peer's stream from its start, in order, nothing twice and nothing
\* left out, whatever the wire repeats or reorders; and between segments it
\* is all that rcv_nxt says was received.  (One receive context at a time, no
\* full buffer, and a descriptor that generate_fd has not given out again:
\* handle_data_received works on a clone of the TCB, advances rcv_nxt past
\* data the buffer drops and finds the socket by descriptor,
\* tcp_rx.rs:369-383.)
StreamIntact ==
  /\ usage = "serial" /\ ~cut /\ sock["cli"].state = "Connected"
  /\ sock["cli"].fd \notin 1 .. fdCounter - 1
  =>
    LET stream == got \o sock["cli"].recv IN
    /\ \A i \in 1 .. Len(stream) : stream[i] = i
    /\ /\ tcbs["out"].state = "Established" /\ sockTable[sock["cli"].fd] = "cli"
       /\ \A t \in Contexts : rx[t].pc = "idle"
       => Len(stream) = tcbs["out"].rcvNxt - 1

\* Nobody sleeps on something that is there: a waiting reader has its waker
\* filed on an open socket without data, the waiting network task on an empty
\* event queue, and (when no segment is processed inside its poll, which
\* takes two locks, futures.rs:141-145) the waiting acceptor on an empty
\* accept queue.
NobodyForgotten ==
  /\ reader = "wait" => sock["cli"].waker /\ sock["cli"].recv = <<>> /\ CanReceive("cli")
  /\ netTask = "wait" => netWaker /\ events = <<>>
  /\ usage = "serial" /\ acceptor = "wait" => acceptWaker /\ acceptQueue = <<>>

\* A descriptor names one open socket (generate_fd, manager.rs:139).
DescriptorsApart == \A s, u \in Socks :
  s # u /\ None \notin {sock[s].state, sock[u].state} => sock[s].fd # sock[u].fd
=============================================================================
