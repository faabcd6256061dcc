------------------------------ MODULE NvmeQueue ------------------------------
(***************************************************************************)
(* One NVMe queue pair of src/io/nvme: the submission and completion       *)
(* queues (queue.rs), the doorbell batching of the core that owns them     *)
(* (per_core.rs) and the futures on it (async_io.rs).  The owner is one    *)
(* thread, as the code's safety comments demand; the controller, external, *)
(* fetches up to the doorbell, completes in any order, and posts while the *)
(* completion queue is not full.  Commands are numbered.                   *)
(*                                                                         *)
(* The submission queue is not checked for room, and a command's id is its *)
(* slot.  In "window" use the caller keeps fewer than Depth commands from  *)
(* the oldest not completed to the newest; in "free" use it does not.      *)
(* The counters of QueuePair (outstanding) and NvmeQueueStats, which no    *)
(* code reads to decide anything, are left out.                            *)
(***************************************************************************)
EXTENDS Integers, FiniteSets, ModArith

CONSTANTS Depth,        \* entries of each queue
          Threshold,    \* DOORBELL_BATCH_THRESHOLD
          MaxCommands   \* bound on the commands submitted

ASSUME NvmeAssumption == Depth \in Nat /\ Depth >= 2

Slots == 0 .. Depth - 1
Step(i) == (i + 1) % Depth

VARIABLES usage,
          sqTail, sqDoorbell, sqBuf, sqPending, submitted, \* owner: submission
          sqHead, inFlight, fetched,                       \* controller
          cqTail, cqTailPhase, posted,                     \* controller
          cqBuf,                                           \* shared memory
          cqHead, cqPhase, cqDoorbell, taken,              \* owner: completion
          waiting,     \* futures: the id waited for and the command meant
          answers,     \* <<command meant, command completed>> of ready futures
          dropped      \* the completion of a waiting future went to someone else

sqVars == <<usage, sqTail, sqDoorbell, sqBuf, sqPending, submitted>>
cqVars == <<cqTail, cqTailPhase, posted, cqBuf, cqHead, cqPhase, cqDoorbell, taken>>
futureVars == <<waiting, answers, dropped>>
fetchVars == <<sqHead, inFlight, fetched>>
nvmeVars == <<sqVars, fetchVars, cqVars, futureVars>>

NvmeInit ==
    /\ usage \in {"window", "free"}
    /\ sqTail = 0 /\ sqDoorbell = 0 /\ sqPending = 0 /\ submitted = 0
    /\ sqBuf = [s \in Slots |-> [cid |-> 0, cmd |-> 0]]
    /\ sqHead = 0 /\ inFlight = {} /\ fetched = 0
    /\ cqTail = 0 /\ cqTailPhase = 1 /\ posted = 0
    /\ cqBuf = [s \in Slots |-> [cid |-> 0, cmd |-> 0, num |-> 0, phase |-> 0]]
    /\ cqHead = 0 /\ cqPhase = 1 /\ cqDoorbell = 0 /\ taken = 0
    /\ waiting = {} /\ answers = {} /\ dropped = FALSE

\* The owner is between two calls: no completion doorbell is owed.
OwnerIdle == cqDoorbell = cqHead

\* Commands submitted whose completion the owner has not taken
Open == {sqBuf[s].cmd : s \in {s \in Slots : sqHead # sqTail /\
                                  (IF sqHead < sqTail THEN sqHead <= s /\ s < sqTail
                                                      ELSE s >= sqHead \/ s < sqTail)}}
        \cup {c.cmd : c \in inFlight}
        \cup {cqBuf[s].cmd : s \in {s \in Slots : cqBuf[s].num > taken}}

\* The caller's care in "window" use
MaySubmit ==
    /\ OwnerIdle /\ submitted < MaxCommands
    /\ usage = "window" => \A c \in Open : submitted + 1 - c < Depth - 1

\* submit_no_doorbell: the entry, then the tail
Enqueue ==
    /\ sqBuf' = [sqBuf EXCEPT ![sqTail] = [cid |-> sqTail, cmd |-> submitted + 1]]
    /\ sqTail' = Step(sqTail)
    /\ submitted' = submitted + 1

\* Faulty variant: the batch is flushed before the command is counted.
BatchedEarly ==
    /\ MaySubmit /\ Enqueue
    /\ IF sqPending >= Threshold
       THEN sqPending' = 0 /\ sqDoorbell' = sqTail
       ELSE sqPending' = sqPending + 1 /\ UNCHANGED sqDoorbell
    /\ waiting' = waiting \cup {[cid |-> sqTail, cmd |-> submitted + 1]}
    /\ UNCHANGED <<usage, fetchVars, cqVars, answers, dropped>>

\* async_read, async_write: read, write of per_core.rs, then the future
Batched ==
    /\ MaySubmit /\ Enqueue
    /\ IF sqPending + 1 >= Threshold
       THEN sqPending' = 0 /\ sqDoorbell' = Step(sqTail)
       ELSE sqPending' = sqPending + 1 /\ UNCHANGED sqDoorbell
    /\ waiting' = waiting \cup {[cid |-> sqTail, cmd |-> submitted + 1]}
    /\ UNCHANGED <<usage, fetchVars, cqVars, answers, dropped>>

\* read_immediate, write_immediate: the doorbell at once, for the batch too
Immediate ==
    /\ MaySubmit /\ Enqueue
    /\ sqDoorbell' = Step(sqTail)
    /\ UNCHANGED <<usage, sqPending, fetchVars, cqVars, futureVars>>

\* flush_doorbell
Flush ==
    /\ OwnerIdle /\ sqPending > 0
    /\ sqPending' = 0 /\ sqDoorbell' = sqTail
    /\ UNCHANGED <<usage, sqTail, sqBuf, submitted, fetchVars, cqVars, futureVars>>

\* The controller fetches the next command.
Fetch ==
    /\ sqHead # sqDoorbell
    /\ inFlight' = inFlight \cup {sqBuf[sqHead]}
    /\ sqHead' = Step(sqHead) /\ fetched' = fetched + 1
    /\ UNCHANGED <<sqVars, cqVars, futureVars>>

\* The controller posts a completion, when one more would not fill the queue.
Post(c) ==
    /\ c \in inFlight
    /\ Step(cqTail) # cqDoorbell
    /\ inFlight' = inFlight \ {c}
    /\ posted' = posted + 1
    /\ cqBuf' = [cqBuf EXCEPT ![cqTail] =
                    [cid |-> c.cid, cmd |-> c.cmd, num |-> posted + 1, phase |-> cqTailPhase]]
    /\ cqTail' = Step(cqTail)
    /\ cqTailPhase' = IF Step(cqTail) = 0 THEN 1 - cqTailPhase ELSE cqTailPhase
    /\ UNCHANGED <<sqVars, sqHead, fetched, cqHead, cqPhase, cqDoorbell, taken, futureVars>>

\* The entry at the head is new.
Matches == cqBuf[cqHead].phase = cqPhase

\* Faulty variant: the phase flips one entry late.
TakeLate ==
    /\ OwnerIdle /\ Matches
    /\ cqHead' = Step(cqHead)
    /\ cqPhase' = IF cqHead = 0 THEN 1 - cqPhase ELSE cqPhase
    /\ taken' = taken + 1
    /\ UNCHANGED <<cqTail, cqTailPhase, posted, cqBuf, cqDoorbell>>

\* CompletionQueue::poll of an entry that is new
Take ==
    /\ OwnerIdle /\ Matches
    /\ cqHead' = Step(cqHead)
    /\ cqPhase' = IF Step(cqHead) = 0 THEN 1 - cqPhase ELSE cqPhase
    /\ taken' = taken + 1
    /\ UNCHANGED <<cqTail, cqTailPhase, posted, cqBuf, cqDoorbell>>

\* The entry at the head is the completion one of these futures waits for.
Belongs(futures) == \E g \in futures : g.cmd = cqBuf[cqHead].cmd

\* poll_completion by poll or poll_batch: the caller gets the entry.
Poll ==
    /\ Take
    /\ dropped' = (dropped \/ Belongs(waiting))
    /\ UNCHANGED <<sqVars, fetchVars, waiting, answers>>

\* poll_completion in the loop of a future's poll: it returns when the id is
\* its own and goes on otherwise.
FuturePoll(f) ==
    LET entry == cqBuf[cqHead] IN
    /\ f \in waiting /\ Take
    /\ dropped' = (dropped \/ Belongs(waiting \ {f}))
    /\ IF entry.cid = f.cid
       THEN /\ waiting' = waiting \ {f}
            /\ answers' = answers \cup {<<f.cmd, entry.cmd>>}
       ELSE UNCHANGED <<waiting, answers>>
    /\ UNCHANGED <<sqVars, fetchVars>>

\* update_doorbell, the second half of poll_completion
UpdateDoorbell ==
    /\ ~OwnerIdle
    /\ cqDoorbell' = cqHead
    /\ UNCHANGED <<sqVars, fetchVars, cqTail, cqTailPhase, posted, cqBuf, cqHead,
                   cqPhase, taken, futureVars>>

NvmeNext ==
    \/ Batched \/ Immediate \/ Flush
    \/ Fetch \/ \E c \in inFlight : Post(c)
    \/ Poll \/ \E f \in waiting : FuturePoll(f)
    \/ UpdateDoorbell

NvmeSpec == NvmeInit /\ [][NvmeNext]_nvmeVars

------------------------------------------------------------------------------
NvmeTypeOK ==
    /\ sqTail \in Slots /\ sqHead \in Slots /\ submitted \in Nat
    /\ sqBuf \in [Slots -> [cid : Slots, cmd : Nat]]
    /\ inFlight \subseteq [cid : Slots, cmd : Nat]
    /\ cqBuf \in [Slots -> [cid : Slots, cmd : Nat, num : Nat, phase : {0, 1}]]
    /\ cqTail \in Slots /\ cqHead \in Slots /\ cqDoorbell \in Slots
    /\ cqTailPhase \in {0, 1} /\ cqPhase \in {0, 1}
    /\ posted \in Nat /\ taken \in Nat

\* The phase bit tells exactly: poll finds an entry new just when a completion
\* was posted that it has not returned, that entry is the oldest such, and the
\* controller never overruns the owner, around the wrap of either end and with
\* the doorbell lagging (CompletionQueue::poll, update_doorbell).
CompletionsExact ==
    /\ Matches <=> taken < posted
    /\ taken < posted => cqBuf[cqHead].num = taken + 1
    /\ taken <= posted /\ posted - taken < Depth

\* A batch that is not pending is announced, and no batch reaches the threshold
\* unannounced (read, write, flush_doorbell); when the caller keeps to the
\* window, the controller fetches every command once and in order, and a
\* future's answer is its own command's, unless another poller took that.
SubmissionsSound ==
    /\ sqPending < Threshold
    /\ sqPending = 0 => sqDoorbell = sqTail
    /\ usage = "window" =>
          /\ sqHead # sqDoorbell => sqBuf[sqHead].cmd = fetched + 1
          /\ dropped \/ \A a \in answers : a[1] = a[2]

------------------------------------------------------------------------------
\* Proof that the phase bit is exact, for every depth and any number of commands.
\*
\* CompletionsExact speaks of the head entry only.  The invariant says where the
\* phase of every slot comes from: the controller has written the slots below
\* its tail in its present round and the others in the round before.  Owner and
\* controller are in the same round with the head not above the tail, or the
\* controller is one round ahead with its tail below the head; the doorbell is
\* the head or the slot before it.

SameRound == cqPhase = cqTailPhase

CqRounds ==
    \/ SameRound /\ cqHead <= cqTail /\ posted = taken + cqTail - cqHead
    \/ ~SameRound /\ cqTail < cqHead /\ posted = taken + Depth + cqTail - cqHead

CqPhases ==
    \A s \in Slots : cqBuf[s].phase = IF s < cqTail THEN cqTailPhase ELSE 1 - cqTailPhase

CqNumbers ==
    \A s \in Slots :
        /\ (s >= cqHead /\ (~SameRound \/ s < cqTail)) =>
              cqBuf[s].num = taken + 1 + s - cqHead
        /\ (s < cqTail /\ ~SameRound) => cqBuf[s].num = taken + 1 + Depth + s - cqHead

CqDoorbell == OwnerIdle \/ (Step(cqDoorbell) = cqHead /\ cqTail # cqDoorbell)

CqInv == NvmeTypeOK /\ CqRounds /\ CqPhases /\ CqNumbers /\ CqDoorbell

\* The successor of a slot, without the remainder.
LEMMA StepIs ==
    ASSUME NEW i \in Slots
    PROVE  /\ Step(i) \in Slots
           /\ Step(i) = IF i = Depth - 1 THEN 0 ELSE i + 1
<1>1. CASE i = Depth - 1
  <2>1. (i + 1) % Depth = 0
    BY <1>1, NvmeAssumption, ModOf, i + 1 = Depth * 1 + 0 DEF Slots
  <2> QED
    BY <1>1, <2>1, NvmeAssumption DEF Step, Slots
<1>2. CASE i # Depth - 1
  <2>1. (i + 1) % Depth = i + 1
    BY <1>2, NvmeAssumption, ModOf, i + 1 = Depth * 0 + (i + 1) DEF Slots
  <2> QED
    BY <1>2, <2>1, NvmeAssumption DEF Step, Slots
<1> QED
  BY <1>1, <1>2

\* The invariant gives the property.
LEMMA CqInvGives == CqInv => CompletionsExact
<1> SUFFICES ASSUME CqInv PROVE CompletionsExact
  OBVIOUS
<1>1. /\ cqTail \in Slots /\ cqHead \in Slots
      /\ cqTailPhase \in {0, 1} /\ cqPhase \in {0, 1} /\ posted \in Nat /\ taken \in Nat
  BY DEF CqInv, NvmeTypeOK
<1>2. cqBuf[cqHead].phase = IF cqHead < cqTail THEN cqTailPhase ELSE 1 - cqTailPhase
  BY <1>1 DEF CqInv, CqPhases
<1>3. (~SameRound \/ cqHead < cqTail) => cqBuf[cqHead].num = taken + 1
  <2>1. (~SameRound \/ cqHead < cqTail) => cqBuf[cqHead].num = taken + 1 + cqHead - cqHead
    BY <1>1 DEF CqInv, CqNumbers, Slots
  <2> QED
    BY <1>1, <2>1 DEF Slots
<1>4. CASE SameRound
  BY <1>1, <1>2, <1>3, <1>4, NvmeAssumption
  DEF CqInv, CqRounds, SameRound, Slots, Matches, CompletionsExact
<1>5. CASE ~SameRound
  BY <1>1, <1>2, <1>3, <1>5, NvmeAssumption
  DEF CqInv, CqRounds, SameRound, Slots, Matches, CompletionsExact
<1> QED
  BY <1>4, <1>5

\* It holds at first: nothing is posted and every slot is of the round before.
LEMMA CqInvInit == NvmeInit => CqInv
BY NvmeAssumption
DEF NvmeInit, CqInv, CqRounds, CqPhases, CqNumbers, CqDoorbell, SameRound, NvmeTypeOK,
    Slots, OwnerIdle

\* The owner's submissions and the controller's fetches keep it.
LEMMA SubmitKeeps ==
    ASSUME CqInv, Batched \/ Immediate \/ Flush \/ Fetch
    PROVE  CqInv'
<1>1. UNCHANGED cqVars
  BY DEF Batched, Immediate, Flush, Fetch
<1>2. NvmeTypeOK'
  <2>1. CASE Batched \/ Immediate
    <3>1. Enqueue /\ UNCHANGED fetchVars
      BY <2>1 DEF Batched, Immediate
    <3> QED
      BY <1>1, <3>1, StepIs DEF CqInv, NvmeTypeOK, Enqueue, cqVars, fetchVars
  <2>2. CASE Flush
    BY <1>1, <2>2 DEF CqInv, NvmeTypeOK, Flush, cqVars, fetchVars
  <2>3. CASE Fetch
    BY <1>1, <2>3, StepIs DEF CqInv, NvmeTypeOK, Fetch, cqVars, sqVars
  <2> QED
    BY <2>1, <2>2, <2>3
<1>3. (CqRounds /\ CqPhases /\ CqNumbers /\ CqDoorbell)'
  BY <1>1
  DEF CqInv, CqRounds, CqPhases, CqNumbers, CqDoorbell, SameRound, OwnerIdle, cqVars
<1> QED
  BY <1>2, <1>3 DEF CqInv

\* Posting keeps it: with the doorbell at most one behind, the queue cannot
\* become full, and the entry joins the round of the tail.
LEMMA PostKeeps ==
    ASSUME CqInv, NEW c \in inFlight, Post(c)
    PROVE  CqInv'
<1>1. /\ cqTail \in Slots /\ cqHead \in Slots /\ cqDoorbell \in Slots
      /\ cqTailPhase \in {0, 1} /\ cqPhase \in {0, 1} /\ posted \in Nat /\ taken \in Nat
      /\ c \in [cid : Slots, cmd : Nat]
  BY DEF CqInv, NvmeTypeOK
<1>2. Step(cqTail) # cqHead
  BY <1>1, StepIs, NvmeAssumption DEF CqInv, CqDoorbell, OwnerIdle, Post, Slots
<1>3. /\ cqTail' = IF cqTail = Depth - 1 THEN 0 ELSE cqTail + 1
      /\ cqTailPhase' = IF cqTail = Depth - 1 THEN 1 - cqTailPhase ELSE cqTailPhase
      /\ cqTail' # cqHead /\ cqTail' \in Slots
  BY <1>1, <1>2, StepIs, NvmeAssumption DEF Post, Slots
<1>4. /\ posted' = posted + 1 /\ cqHead' = cqHead /\ cqPhase' = cqPhase
      /\ taken' = taken /\ cqDoorbell' = cqDoorbell
  BY DEF Post
<1>5. \A s \in Slots :
         /\ cqBuf'[s].phase = IF s = cqTail THEN cqTailPhase ELSE cqBuf[s].phase
         /\ cqBuf'[s].num = IF s = cqTail THEN posted + 1 ELSE cqBuf[s].num
  BY <1>1 DEF Post, CqInv, NvmeTypeOK
<1>6. NvmeTypeOK'
  BY <1>1, <1>3, <1>4 DEF CqInv, NvmeTypeOK, Post, sqVars
<1>7. CqRounds'
  BY <1>1, <1>3, <1>4, NvmeAssumption DEF CqInv, CqRounds, SameRound, Slots
<1>8. CqPhases'
  BY <1>1, <1>3, <1>5, NvmeAssumption DEF CqInv, CqPhases, Slots
<1>9. CqNumbers'
  BY <1>1, <1>3, <1>4, <1>5, NvmeAssumption
  DEF CqInv, CqRounds, CqNumbers, SameRound, Slots
<1>10. CqDoorbell'
  BY <1>1, <1>3, <1>4, StepIs DEF CqInv, CqDoorbell, OwnerIdle, Post, Step
<1> QED
  BY <1>6, <1>7, <1>8, <1>9, <1>10 DEF CqInv

\* Taking an entry keeps it: the phase matched, so there was one to take.
LEMMA TakeKeeps ==
    ASSUME CqInv, Take, UNCHANGED <<sqVars, fetchVars>>
    PROVE  CqInv'
<1>1. /\ cqTail \in Slots /\ cqHead \in Slots
      /\ cqTailPhase \in {0, 1} /\ cqPhase \in {0, 1} /\ posted \in Nat /\ taken \in Nat
  BY DEF CqInv, NvmeTypeOK
<1>2. taken < posted
  BY CqInvGives DEF CompletionsExact, Take
<1>3. /\ cqHead' = IF cqHead = Depth - 1 THEN 0 ELSE cqHead + 1
      /\ cqPhase' = IF cqHead = Depth - 1 THEN 1 - cqPhase ELSE cqPhase
      /\ cqHead' \in Slots
  BY <1>1, StepIs, NvmeAssumption DEF Take, Slots
<1>4. /\ taken' = taken + 1 /\ cqTail' = cqTail /\ cqTailPhase' = cqTailPhase
      /\ posted' = posted /\ cqBuf' = cqBuf /\ cqDoorbell' = cqHead
      /\ cqHead' = Step(cqHead)
  BY DEF Take, OwnerIdle
<1>5. NvmeTypeOK'
  BY <1>1, <1>3, <1>4 DEF CqInv, NvmeTypeOK, Take, sqVars, fetchVars
<1>6. CqRounds'
  BY <1>1, <1>2, <1>3, <1>4, NvmeAssumption DEF CqInv, CqRounds, SameRound, Slots
<1>7. CqPhases'
  BY <1>4 DEF CqInv, CqPhases
<1>8. CqNumbers'
  <2> SUFFICES ASSUME NEW s \in Slots
               PROVE  /\ (s >= cqHead' /\ (~SameRound' \/ s < cqTail)) =>
                            cqBuf[s].num = taken' + 1 + s - cqHead'
                      /\ (s < cqTail /\ ~SameRound') =>
                            cqBuf[s].num = taken' + 1 + Depth + s - cqHead'
    BY <1>4 DEF CqNumbers
  <2>1. /\ (s >= cqHead /\ (~SameRound \/ s < cqTail)) =>
              cqBuf[s].num = taken + 1 + s - cqHead
        /\ (s < cqTail /\ ~SameRound) => cqBuf[s].num = taken + 1 + Depth + s - cqHead
    BY DEF CqInv, CqNumbers
  <2>2. s \in Int /\ 0 <= s /\ s < Depth /\ Depth \in Nat
    BY NvmeAssumption DEF Slots
  <2>3. CASE cqHead = Depth - 1
    BY <1>1, <1>2, <1>3, <1>4, <2>1, <2>2, <2>3 DEF CqInv, CqRounds, SameRound, Slots
  <2>4. CASE cqHead # Depth - 1
    BY <1>1, <1>2, <1>3, <1>4, <2>1, <2>2, <2>4 DEF CqInv, CqRounds, SameRound, Slots
  <2> QED
    BY <2>3, <2>4
<1>9. CqDoorbell'
  <2>1. cqTail # cqHead
    BY <1>1, <1>2, NvmeAssumption DEF CqInv, CqRounds, Slots
  <2> QED
    BY <1>4, <2>1 DEF CqDoorbell, Step
<1> QED
  BY <1>5, <1>6, <1>7, <1>8, <1>9 DEF CqInv

\* Ringing the completion doorbell keeps it.
LEMMA DoorbellKeeps ==
    ASSUME CqInv, UpdateDoorbell
    PROVE  CqInv'
BY DEF CqInv, NvmeTypeOK, CqRounds, CqPhases, CqNumbers, CqDoorbell, SameRound, OwnerIdle,
       UpdateDoorbell, sqVars, fetchVars

\* For every depth of at least 2 and any number of commands: the phase bit of
\* queue.rs's completion queue tells new entries from old ones exactly, each
\* posted completion is returned once and in order, and none is overwritten.
THEOREM CompletionsCorrect == NvmeSpec => []CompletionsExact
<1>1. CqInv /\ [NvmeNext]_nvmeVars => CqInv'
  <2> SUFFICES ASSUME CqInv, [NvmeNext]_nvmeVars PROVE CqInv'
    OBVIOUS
  <2>1. CASE Batched \/ Immediate \/ Flush \/ Fetch
    BY <2>1, SubmitKeeps
  <2>2. CASE \E c \in inFlight : Post(c)
    BY <2>2, PostKeeps
  <2>3. CASE Poll \/ \E f \in waiting : FuturePoll(f)
    BY <2>3, TakeKeeps DEF Poll, FuturePoll
  <2>4. CASE UpdateDoorbell
    BY <2>4, DoorbellKeeps
  <2>5. CASE UNCHANGED nvmeVars
    BY <2>5
    DEF CqInv, NvmeTypeOK, CqRounds, CqPhases, CqNumbers, CqDoorbell, SameRound, OwnerIdle,
        nvmeVars, sqVars, fetchVars, cqVars
  <2> QED
    BY <2>1, <2>2, <2>3, <2>4, <2>5 DEF NvmeNext
<1> QED
  BY CqInvInit, CqInvGives, <1>1, PTL DEF NvmeSpec
=============================================================================
