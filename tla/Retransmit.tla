------------------------------ MODULE Retransmit ------------------------------
(***************************************************************************)
(* The retransmission queue of one TCP connection                          *)
(* (net/endpoint/retransmit.rs): unacknowledged segments in sequence       *)
(* order, a timer that resends the oldest one, exponential back-off and a  *)
(* reset after max_retries.  The peer and the wire are external: a copy    *)
(* that was sent may be lost, delayed, duplicated or reordered, so the     *)
(* peer may take any segment it has a copy of, and any cumulative          *)
(* acknowledgement it could ever have sent may arrive, at any time.  It    *)
(* takes and acknowledges whole segments: ack_received removes a segment   *)
(* that is acknowledged in part.                                           *)
(*                                                                         *)
(* Segment number i is the i-th one pushed.  Time is kept as the age of    *)
(* each segment (current_tick - send_tick), capped at MaxAge.              *)
(***************************************************************************)
EXTENDS Integers, Sequences, FiniteSets

CONSTANTS
  Modulus,      \* 2^32 in the code
  FirstSeq,     \* the sequence number of the first segment
  Lengths,      \* bytes of segment i: Lengths[i]
  RtoInit, RtoMin, RtoMax,
  MaxRetries,
  CheckEvery,   \* tick() looks at the queues once in so many ticks
  MaxAge

RetransmitAssumption ==
  /\ Modulus \in Nat \ {0} /\ Modulus % 2 = 0 /\ FirstSeq \in 0 .. Modulus - 1
  /\ Lengths \in Seq(Nat \ {0})
  /\ {RtoInit, RtoMin, RtoMax, MaxRetries, CheckEvery, MaxAge} \subseteq Nat \ {0}
  /\ RtoMin <= RtoInit /\ RtoInit <= RtoMax

VARIABLES
  queueThere,   \* the connection has its queue and its TCB
  unacked,      \* the VecDeque of unacknowledged segments
  srtt, rttvar, rto,
  phase,        \* current_tick modulo CheckEvery
  pushed,       \* how many segments were pushed
  copies,       \* copies[i]: how often segment i was put on the wire
  peerHas       \* the peer has the segments 1 .. peerHas, in order

rtVars == <<queueThere, unacked, srtt, rttvar, rto, phase, pushed, copies, peerHas>>

NoSample == -1

Segments == 1 .. Len(Lengths)

\* Bytes before segment i.
Offset[i \in 1 .. Len(Lengths) + 1] ==
  IF i = 1 THEN 0 ELSE Offset[i - 1] + Lengths[i - 1]

SeqOf(i) == (FirstSeq + Offset[i]) % Modulus

Least(a, b) == IF a < b THEN a ELSE b
Greatest(a, b) == IF a > b THEN a ELSE b

Entry(i) == [seg |-> i, seq |-> SeqOf(i), age |-> 0, tries |-> 0, again |-> FALSE]

RetransmitTypeOK ==
  /\ queueThere \in BOOLEAN
  /\ unacked \in Seq([seg : Segments, seq : 0 .. Modulus - 1, age : 0 .. MaxAge,
                      tries : 0 .. MaxRetries, again : BOOLEAN])
  /\ {srtt, rttvar} \subseteq Nat \cup {NoSample}
  /\ rto \in RtoMin .. RtoMax
  /\ phase \in 0 .. CheckEvery - 1
  /\ pushed \in 0 .. Len(Lengths) /\ peerHas \in 0 .. pushed
  /\ copies \in [Segments -> 0 .. MaxRetries + 1]

\* RetransmitQueue::new, made by get_or_create_retransmit_queue.
Init ==
  /\ queueThere = TRUE /\ unacked = <<>>
  /\ srtt = NoSample /\ rttvar = NoSample /\ rto = RtoInit
  /\ phase = 0 /\ pushed = 0 /\ copies = [i \in Segments |-> 0] /\ peerHas = 0

\* Push: the sender transmits the next segment and files it.
Push ==
  /\ queueThere /\ pushed < Len(Lengths)
  /\ pushed' = pushed + 1
  /\ copies' = [copies EXCEPT ![pushed + 1] = 1]
  /\ unacked' = Append(unacked, Entry(pushed + 1))
  /\ UNCHANGED <<queueThere, srtt, rttvar, rto, phase, peerHas>>

\* A faulty comparison: without the wrap-around.
SeqBeforePlain(a, b) == a < b

\* A faulty comparison: that of seq_leq.
SeqLeq(a, b) == (b - a) % Modulus < Modulus \div 2

\* seq_before: a is before b, within half the sequence space.
SeqBefore(a, b) ==
  LET diff == (b - a) % Modulus IN diff > 0 /\ diff < Modulus \div 2

\* RtoCalculator::update on c = [srtt, rttvar, rto].
RtoUpdate(c, rtt) ==
  LET var  == IF c.srtt = NoSample THEN rtt \div 2
              ELSE (3 * c.rttvar + Greatest(rtt - c.srtt, c.srtt - rtt)) \div 4
      mean == IF c.srtt = NoSample THEN rtt ELSE (7 * c.srtt + rtt) \div 8
  IN [srtt |-> mean, rttvar |-> var,
      rto |-> Greatest(RtoMin, Least(RtoMax, mean + Greatest(1, 4 * var)))]

\* How many segments at the front an acknowledgement covers.
Covered(ack) ==
  CHOOSE n \in 0 .. Len(unacked) :
    /\ \A i \in 1 .. n : SeqBefore(unacked[i].seq, ack)
    /\ n < Len(unacked) => ~SeqBefore(unacked[n + 1].seq, ack)

\* ack_received: drop the covered segments from the front; a segment that
\* was never resent gives a sample of the round-trip time (Karn).
AckReceived(ack) ==
  LET gone == Covered(ack)
      calc[i \in 0 .. gone] ==
        IF i = 0 THEN [srtt |-> srtt, rttvar |-> rttvar, rto |-> rto]
        ELSE IF unacked[i].again \/ unacked[i].age = 0 THEN calc[i - 1]
        ELSE RtoUpdate(calc[i - 1], unacked[i].age)
  IN /\ unacked' = SubSeq(unacked, gone + 1, Len(unacked))
     /\ srtt' = calc[gone].srtt /\ rttvar' = calc[gone].rttvar /\ rto' = calc[gone].rto

\* An acknowledgement arrives: of everything before segment k, where the
\* peer had the segments before k at some time up to now.
Ack(k) ==
  /\ queueThere /\ k \in 1 .. peerHas + 1
  /\ AckReceived(SeqOf(k))
  /\ UNCHANGED <<queueThere, phase, pushed, copies, peerHas>>

\* The peer takes the next segment of the stream from the wire.
PeerTakes ==
  /\ peerHas < pushed
  /\ peerHas' = peerHas + 1
  /\ UNCHANGED <<queueThere, unacked, srtt, rttvar, rto, phase, pushed, copies>>

Older(q) == [i \in 1 .. Len(q) |-> [q[i] EXCEPT !.age = Least(MaxAge, q[i].age + 1)]]

\* A faulty resend: the retry is not counted.
ResendUncounted(q) ==
  unacked' = [q EXCEPT ![1] = [@ EXCEPT !.age = 0, !.again = TRUE]]

\* retransmit: count, stamp and mark the oldest segment.
Resend(q) ==
  unacked' = [q EXCEPT ![1] = [@ EXCEPT !.tries = @ + 1, !.age = 0, !.again = TRUE]]

\* check_retransmit_timeouts on the queue q: resend the oldest segment when
\* it is overdue, or give up and remove the queue and the TCB.
CheckTimeouts(q) ==
  IF q = <<>> \/ q[1].age < rto
  THEN unacked' = q /\ UNCHANGED <<queueThere, rto, copies>>
  ELSE IF q[1].tries >= MaxRetries
  THEN /\ queueThere' = FALSE /\ unacked' = <<>>
       /\ UNCHANGED <<rto, copies>>
  ELSE /\ Resend(q)
       /\ rto' = Least(rto * 2, RtoMax)
       /\ copies' = [copies EXCEPT ![q[1].seg] = Least(@ + 1, MaxRetries + 1)]
       /\ UNCHANGED queueThere

\* TcbTable::tick: the old tick value decides whether to check, and the
\* check reads the new one.
Tick ==
  /\ queueThere
  /\ phase' = (phase + 1) % CheckEvery
  /\ IF phase = 0 THEN CheckTimeouts(Older(unacked))
     ELSE unacked' = Older(unacked) /\ UNCHANGED <<queueThere, rto, copies>>
  /\ UNCHANGED <<srtt, rttvar, pushed, peerHas>>

Next == Push \/ (\E k \in Segments \cup {Len(Lengths) + 1} : Ack(k)) \/ PeerTakes \/ Tick

\* The timer interrupt keeps ticking; nothing is assumed of the wire.
Spec == Init /\ [][Next]_rtVars /\ WF_rtVars(Tick)

-----------------------------------------------------------------------------
\* Whatever acknowledgements arrive (old, duplicated, reordered, across the
\* wrap of the sequence numbers), a segment the peer does not have stays in
\* the queue of a live connection, and the queue is the tail of what was
\* pushed, in order (ack_received, retransmit.rs:133).
NothingForgotten ==
  queueThere =>
    /\ Len(unacked) >= pushed - peerHas
    /\ \A i \in 1 .. Len(unacked) : unacked[i].seg = pushed - Len(unacked) + i

\* An acknowledgement covers exactly the segments before it that are still
\* queued, also across the wrap (seq_before, retransmit.rs:191).
AcksCover ==
  queueThere => \A k \in 1 .. peerHas + 1 :
    \A i \in DOMAIN unacked : i <= Covered(SeqOf(k)) <=> unacked[i].seg < k

\* The connection is given up only after its oldest segment was sent
\* 1 + max_retries times and the last copy is overdue in its turn
\* (retransmit.rs:163-178, 250-284).
GivesUpAfterRetries ==
  [][~queueThere' /\ queueThere =>
       /\ copies[unacked[1].seg] = MaxRetries + 1
       /\ unacked[1].age + 1 >= rto]_rtVars

\* However bad the wire, a connection does not resend for ever: what is
\* pushed is acknowledged or the connection is given up
\* (max_retries, retransmit.rs:163-178).
Settles == unacked # <<>> ~> (~queueThere \/ unacked = <<>>)
=============================================================================
