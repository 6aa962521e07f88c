---------------------------- MODULE QosScheduler ----------------------------
(***************************************************************************)
(* The transmission side of one node that runs the QoS strategy:           *)
(*   fw/ndn-qos-queue          a bounded FIFO with a virtual finish time   *)
(*   fw/ndn-priority-tx-queue  three of them per face, and the choice      *)
(*   fw/ndn-token-bucket       one bucket per class, a count per face      *)
(*   fw/qos-strategy           the enqueues of afterReceiveInterest and    *)
(*                             afterReceiveData, and prioritySend          *)
(*   apps/tokenBucketDriver    UpdateBucket, the periodic refill           *)
(* ns-3 runs one event at a time: a handler runs to its end before another *)
(* event starts.  prioritySend is a nest of two loops, so it is spread     *)
(* over the steps SendOne, TokenWait, NextFace and EndPass while pc is     *)
(* "pass", and no other event happens meanwhile.                           *)
(***************************************************************************)
EXTENDS Integers, Sequences, FiniteSets

CONSTANTS
  Faces,        \* faces a packet can be queued for
  QueueSize,    \* QUEUE_SIZE, ndn-qos-queue.hpp
  Capacity,     \* [Classes -> Nat], the driver's Capacity1..3 attributes
  Sizes,        \* wire sizes of packets, in bytes
  MaxArrivals,  \* bound: packets that ever arrive
  MaxNow        \* bound: milliseconds that ever pass

Classes == 0 .. 2                   \* high, medium, low: the "choice" values

ASSUME ParamAssumption ==
  /\ IsFiniteSet(Faces)
  /\ QueueSize \in Nat
  /\ Capacity \in [Classes -> Nat]
  /\ Sizes \subseteq Nat
  /\ MaxArrivals \in Nat
  /\ MaxNow \in Nat

VARIABLES
  now,        \* Simulator::Now() in milliseconds
  queues,     \* queues[f][b]: class-b QosQueue of m_tx_queue[f]; a packet is
              \* told apart by the finish time it was enqueued with
  lvft,       \* lvft[f][b]: m_lastVirtualFinishTime of that queue
  order,      \* the iteration order of m_tx_queue, an unordered_map
  tokens,     \* tokens[b]: m_tokens of the bucket of class b, a partial map
  need,       \* need[b]: m_need of that bucket, a partial map
  capacity,   \* capacity[b]: m_capacity of that bucket
  pc,         \* "idle" between events, "pass" inside prioritySend
  rest,       \* faces the outer loop of prioritySend has still to visit
  tokenwait,  \* the local tokenwait of prioritySend
  arrivals,   \* packets handled so far
  sent,       \* history: sent[f][b], packets of class b sent on face f
  credits     \* history: credits[f][b], tokens really added for f in b

queueVars == <<now, queues, lvft, order, arrivals>>
bucketVars == <<tokens, need, capacity, credits>>
vars == <<now, queues, lvft, order, tokens, need, capacity, pc, rest,
          tokenwait, arrivals, sent, credits>>

-----------------------------------------------------------------------------
(* The priority queue of one face. *)

\* pr_level of a packet: typeI is 1, every other name is 21.
PrLevels == {1, 21}

\* DoEnqueue's ranges of levels.
ClassOf(level) == CHOOSE b \in Classes :
  \/ b = 0 /\ level \in 1 .. 20
  \/ b = 1 /\ level \in 21 .. 40
  \/ b = 2 /\ level \in 41 .. 64

Weight(b) == 3 - b

Later(s, t) == IF s > t THEN s ELSE t

\* UpdateTime: size * (1 - weight / 6), cut to an integer.
VirtualFinish(f, b, size) ==
  Later(now, lvft[f][b]) + (size * (6 - Weight(b))) \div 6

IsEmpty(f) == \A b \in Classes : queues[f][b] = <<>>

\* An entry missing from m_tokens counts as a full bucket.
TokensOf(b, f) == IF f \in DOMAIN tokens[b] THEN tokens[b][f] ELSE capacity[b]

\* Mutant: one token is enough.
EligibleLastToken(f) ==
  {b \in Classes : queues[f][b] # <<>> /\ TokensOf(b, f) >= 1}

Eligible(f) == {b \in Classes : queues[f][b] # <<>> /\ TokensOf(b, f) > 1}

\* SelectQueueToSend returns b: the least finish time, high first on a tie.
Selected(f, b) ==
  /\ b \in Eligible(f)
  /\ \A c \in Eligible(f) :
        \/ lvft[f][b] < lvft[f][c]
        \/ lvft[f][b] = lvft[f][c] /\ b <= c

TokenReq(f, b) == IF queues[f][b] # <<>> THEN 1 ELSE 0

-----------------------------------------------------------------------------
(* Events. *)

Init ==
  /\ now = 0
  /\ queues = [f \in Faces |-> [b \in Classes |-> <<>>]]
  /\ lvft = [f \in Faces |-> [b \in Classes |-> 0]]
  /\ order = <<>>
  /\ tokens = [b \in Classes |-> [f \in {} |-> 0]]
  /\ need = [b \in Classes |-> [f \in {} |-> 0]]
  /\ capacity = [b \in Classes |-> 0]
  /\ pc = "idle"
  /\ rest = <<>>
  /\ tokenwait = FALSE
  /\ arrivals = 0
  /\ sent = [f \in Faces |-> [b \in Classes |-> 0]]
  /\ credits = [f \in Faces |-> [b \in Classes |-> 0]]

\* The orders in which an unordered_map with keys S may be walked.
Orders(S) ==
  {s \in [1 .. Cardinality(S) -> S] : \A f \in S : \E i \in DOMAIN s : s[i] = f}

Keys == {order[i] : i \in DOMAIN order}

\* Mutant: the size test lets one packet too many in.
HasRoomOffByOne(f, b) == Len(queues[f][b]) <= QueueSize

\* Enqueue accepts a packet while the queue holds less than its maximum.
HasRoom(f, b) == Len(queues[f][b]) < QueueSize

\* m_tx_queue[f].DoEnqueue(item, level) for every f in F; the code keeps the
\* finish time of the queue's last packet only.
EnqueueAt(F, level, size) ==
  LET b == ClassOf(level)
      Joined == {f \in F : HasRoom(f, b)}
  IN  /\ queues' = [f \in Faces |-> IF f \in Joined
             THEN [queues[f] EXCEPT ![b] = Append(@, VirtualFinish(f, b, size))]
             ELSE queues[f]]
      /\ lvft' = [f \in Faces |-> IF f \in Joined
             THEN [lvft[f] EXCEPT ![b] = VirtualFinish(f, b, size)]
             ELSE lvft[f]]
      /\ IF F \subseteq Keys THEN UNCHANGED order
                             ELSE order' \in Orders(Keys \cup F)
      /\ arrivals' = arrivals + 1

\* Entering prioritySend, whose outer loop walks m_tx_queue.
StartPass(walk) ==
  /\ pc' = "pass"
  /\ rest' = walk
  /\ tokenwait' = FALSE

\* F are the next hops that are neither suppressed nor out of bounds for the
\* Interest; decidePerPitEntry may suppress it, and then no pass follows.
ReceiveInterest(F, level, size, suppressed) ==
  /\ pc = "idle"
  /\ arrivals < MaxArrivals
  /\ EnqueueAt(F, level, size)
  /\ IF suppressed THEN UNCHANGED <<pc, rest, tokenwait>> ELSE StartPass(order')
  /\ UNCHANGED <<now, sent>>
  /\ UNCHANGED bucketVars

\* F are the pending downstreams of the PIT entry.
ReceiveData(F, level, size) ==
  /\ pc = "idle"
  /\ arrivals < MaxArrivals
  /\ EnqueueAt(F, level, size)
  /\ StartPass(order')
  /\ UNCHANGED <<now, sent>>
  /\ UNCHANGED bucketVars

\* Mutant: the test against m_capacity is missing.
GainsUncapped(b, f) == f \in DOMAIN tokens[b]

\* addToken leaves an entry that is at or above the capacity alone.
Gains(b, f) == f \in DOMAIN tokens[b] /\ tokens[b][f] < Capacity[b]

\* addToken: one token for every face the bucket knows.
AddToken(b) ==
  /\ tokens' = [tokens EXCEPT ![b] = [f \in DOMAIN tokens[b] |->
        IF Gains(b, f) THEN tokens[b][f] + 1 ELSE tokens[b][f]]]
  /\ credits' = [f \in Faces |-> [credits[f] EXCEPT ![b] =
        IF Gains(b, f) THEN @ + 1 ELSE @]]
  \* operator[] reads m_need[f], and makes a missing entry 0
  /\ need' = [need EXCEPT ![b] = [f \in DOMAIN need[b] \cup DOMAIN tokens[b] |->
        IF f \in DOMAIN need[b] THEN need[b][f] ELSE 0]]

\* Mutant: send() is called only when callsend is true.
UpdateBucketIfNeeded(b) ==
  /\ pc = "idle"
  /\ capacity' = [capacity EXCEPT ![b] = Capacity[b]]
  /\ AddToken(b)
  /\ IF \E f \in DOMAIN tokens[b] : need'[b][f] # 0 /\ tokens'[b][f] >= need'[b][f]
     THEN StartPass(order)
     ELSE UNCHANGED <<pc, rest, tokenwait>>
  /\ UNCHANGED <<queueVars, sent>>

\* The driver's event for bucket b: it sets the capacity, adds the tokens, and
\* send() runs prioritySend whatever callsend says.
UpdateBucket(b) ==
  /\ pc = "idle"
  /\ capacity' = [capacity EXCEPT ![b] = Capacity[b]]
  /\ AddToken(b)
  /\ StartPass(order)
  /\ UNCHANGED <<queueVars, sent>>

\* Time passes between two events.
AdvanceClock ==
  /\ pc = "idle"
  /\ now < MaxNow
  /\ now' = now + 1
  /\ UNCHANGED <<queues, lvft, order, tokens, need, capacity, pc, rest,
                 tokenwait, arrivals, sent, credits>>

-----------------------------------------------------------------------------
(* prioritySend. *)

With(m, f, v) == [g \in DOMAIN m \cup {f} |-> IF g = f THEN v ELSE m[g]]

InFaceLoop == pc = "pass" /\ rest # <<>>

\* consumeToken, which creates the bucket's entry for f on first use.
ConsumeToken(b, f) ==
  tokens' = [tokens EXCEPT ![b] = With(@, f, TokensOf(b, f) - 1)]

\* Mutant: the need of the class that was just served stays set.
KeepNeed(b, f) == UNCHANGED need

\* m_need of the chosen bucket is cleared.
ClearNeed(b, f) == need' = [need EXCEPT ![b] = With(@, f, 0)]

\* Mutant: the packet is taken from the back.
DequeueBack(f, b) ==
  queues' = [queues EXCEPT ![f][b] = SubSeq(@, 1, Len(@) - 1)]

DoDequeue(f, b) == queues' = [queues EXCEPT ![f][b] = Tail(@)]

\* The inner loop sends one packet of the selected class.
SendOne(b) ==
  /\ InFaceLoop
  /\ ~tokenwait
  /\ LET f == Head(rest) IN
       /\ Selected(f, b)
       /\ ConsumeToken(b, f)
       /\ ClearNeed(b, f)
       /\ DoDequeue(f, b)
       /\ sent' = [sent EXCEPT ![f][b] = @ + 1]
  /\ UNCHANGED <<now, lvft, order, capacity, pc, rest, tokenwait, arrivals,
                 credits>>

\* The inner loop finds packets but no queue with tokens for them.
TokenWait ==
  /\ InFaceLoop
  /\ ~tokenwait
  /\ ~IsEmpty(Head(rest))
  /\ Eligible(Head(rest)) = {}
  /\ need' = [b \in Classes |->
        With(need[b], Head(rest), TokenReq(Head(rest), b))]
  /\ tokenwait' = TRUE
  /\ UNCHANGED <<queueVars, tokens, capacity, pc, rest, sent, credits>>

\* Mutant: a face without tokens is skipped without a note of it.
NextFaceSkips ==
  /\ InFaceLoop
  /\ tokenwait \/ Eligible(Head(rest)) = {}
  /\ rest' = Tail(rest)
  /\ UNCHANGED <<queueVars, bucketVars, pc, tokenwait, sent>>

\* The outer loop moves on.
NextFace ==
  /\ InFaceLoop
  /\ tokenwait \/ IsEmpty(Head(rest))
  /\ rest' = Tail(rest)
  /\ UNCHANGED <<queueVars, bucketVars, pc, tokenwait, sent>>

EndPass ==
  /\ pc = "pass"
  /\ rest = <<>>
  /\ pc' = "idle"
  /\ tokenwait' = FALSE
  /\ UNCHANGED <<queueVars, bucketVars, rest, sent>>

PassStep == (\E b \in Classes : SendOne(b)) \/ TokenWait \/ NextFace \/ EndPass

Next ==
  \/ \E F \in SUBSET Faces, level \in PrLevels, size \in Sizes :
       \/ \E suppressed \in BOOLEAN : ReceiveInterest(F, level, size, suppressed)
       \/ ReceiveData(F, level, size)
  \/ \E b \in Classes : UpdateBucket(b)
  \/ AdvanceClock
  \/ PassStep

Spec == Init /\ [][Next]_vars

\* A handler that was entered returns, and the simulator runs every event of
\* its queue: each bucket's driver event always schedules the next one.
FairSpec == Spec /\ WF_vars(PassStep) /\ \A b \in Classes : SF_vars(UpdateBucket(b))

-----------------------------------------------------------------------------
(* Properties. *)

\* m maps some of the faces to values of T.
IsPartialMap(m, T) == DOMAIN m \subseteq Faces /\ m \in [DOMAIN m -> T]

\* Types of the variables: queues never outgrow QUEUE_SIZE, time and finish
\* times are naturals, bucket maps are keyed by faces.
TypeOK ==
  /\ now \in 0 .. MaxNow
  /\ queues \in [Faces -> [Classes -> Seq(Nat)]]
  /\ \A f \in Faces, b \in Classes : Len(queues[f][b]) <= QueueSize
  /\ lvft \in [Faces -> [Classes -> Nat]]
  /\ order \in Seq(Faces)
  /\ DOMAIN tokens = Classes /\ \A b \in Classes : IsPartialMap(tokens[b], Nat)
  /\ DOMAIN need = Classes /\ \A b \in Classes : IsPartialMap(need[b], {0, 1})
  /\ capacity \in [Classes -> Nat]
  /\ pc \in {"idle", "pass"}
  /\ rest \in Seq(Faces)
  /\ tokenwait \in BOOLEAN
  /\ arrivals \in 0 .. MaxArrivals
  /\ sent \in [Faces -> [Classes -> Nat]]
  /\ credits \in [Faces -> [Classes -> Nat]]

\* Rate limit: what a class has sent on a face never exceeds its burst less
\* one packet plus the tokens the driver added, although a face's entry in the
\* bucket is only created by its first packet and by then refills may have
\* passed it by (consumeToken, addToken, SelectQueueToSend's test for > 1).
Conforms ==
  \A f \in Faces, b \in Classes :
    sent[f][b] > 0 => sent[f][b] <= Capacity[b] - 1 + credits[f][b]

\* A bucket's entry for a face stays between one token and the capacity, and
\* accounts for every token spent and gained since the face was first seen.
TokensAccounted ==
  \A b \in Classes : \A f \in DOMAIN tokens[b] :
    /\ tokens[b][f] \in 1 .. Capacity[b]
    /\ tokens[b][f] = Capacity[b] + credits[f][b] - sent[f][b]

\* m_need is a flag some later event reads: when it is set for a face, the
\* queue it speaks for still holds a packet (prioritySend clears it with the
\* packet it sends, tokenReq* recompute all three when it stops).
NeedIsCurrent ==
  \A b \in Classes : \A f \in DOMAIN need[b] :
    need[b][f] = 1 => queues[f][b] # <<>>

\* How far a pass gets: at its end either every face is drained, or the faces
\* before some face in the walk are drained and that face holds packets none
\* of whose classes has a token to spend.
PassFrontier ==
  (pc = "pass" /\ rest = <<>>) =>
    IF tokenwait
    THEN \E i \in DOMAIN order :
           /\ \A j \in 1 .. i - 1 : IsEmpty(order[j])
           /\ ~IsEmpty(order[i]) /\ Eligible(order[i]) = {}
    ELSE \A f \in Faces : IsEmpty(f)

\* When packets stop coming the node empties: none that it accepted stays
\* forever behind a missed refill, a face that blocks the walk, or the token
\* that is never spent.
Drains == []<>(\A f \in Faces : IsEmpty(f))

\* QosScheduler implements ShapedLinks; a bucket without an entry for a face
\* stands for a full one, even before the driver first ran.
Links == INSTANCE ShapedLinks WITH
  waiting <- queues,
  level <- [f \in Faces |-> [b \in Classes |->
              IF f \in DOMAIN tokens[b] THEN tokens[b][f] ELSE Capacity[b]]]

\* Every step of the scheduler is a step of the shaped links or none.
ImplementsLinks == Links!Spec
=============================================================================
