----------------------- MODULE QosApplications_proofs -----------------------
(***************************************************************************)
(* For any number of consumers and whatever the network does:              *)
(*   OneEvent    a running consumer has exactly one send event to come     *)
(*   TracedOnce  the delay of a number is traced at most once              *)
(*   TypeCorrect the types; only numbers are published, never the prefix   *)
(* Both follow from IInv, which holds of one consumer at a time: a number  *)
(* whose delay was traced is below the next one to be used, and what is    *)
(* below it is never recorded again; and because m_seqTimeouts stays empty *)
(* no timeout ever schedules a second send event.                          *)
(***************************************************************************)
EXTENDS QosApplications, TLAPS

EventsOK(C) ==
  /\ C.timeouts = {}
  /\ C.events = IF C.state = "running" THEN 1 ELSE 0

TraceOK(C, trace) ==
  \A s \in Seqs :
    /\ trace[s] \in 0 .. 1
    /\ trace[s] = 1 => s < C.seq /\ s \notin C.delays
    /\ s \in C.delays => s < C.seq \/ s = MaxSeq

IInv ==
  /\ consumer \in [Consumers -> ConsumerStates]
  /\ traced \in [Consumers -> [Seqs -> 0 .. 2]]
  /\ \A c \in Consumers : EventsOK(consumer[c]) /\ TraceOK(consumer[c], traced[c])

-----------------------------------------------------------------------------
(* What the operators on the members of one consumer do. *)

\* A consumer without a send event gets one.
LEMMA ScheduledOne ==
  ASSUME NEW C \in ConsumerStates, C.events = 0
  PROVE  /\ Scheduled(C) \in ConsumerStates
         /\ Scheduled(C).events = 1 /\ Scheduled(C).state = C.state
         /\ Scheduled(C).seq = C.seq /\ Scheduled(C).delays = C.delays
         /\ Scheduled(C).timeouts = C.timeouts
<1>1. C.events + 1 = 1 /\ 1 \in 0 .. 1
  OBVIOUS
<1>2. Scheduled(C) = [C EXCEPT !.events = C.events + 1, !.firstTime = FALSE]
  BY Zenon DEF Scheduled
<1>3. Scheduled(C) = [C EXCEPT !.events = 1, !.firstTime = FALSE]
  BY <1>1, <1>2, Zenon
<1> QED BY <1>1, <1>3, Zenon DEF ConsumerStates

LEMMA StateSet ==
  ASSUME NEW C \in ConsumerStates, NEW st \in {"new", "running", "stopped"}
  PROVE  LET X == [C EXCEPT !.state = st]
         IN  /\ X \in ConsumerStates /\ X.state = st /\ X.events = C.events
             /\ X.seq = C.seq /\ X.delays = C.delays /\ X.timeouts = C.timeouts
BY Zenon DEF ConsumerStates

LEMMA EventsSet ==
  ASSUME NEW C \in ConsumerStates, NEW e \in 0 .. 1
  PROVE  LET X == [C EXCEPT !.events = e]
         IN  /\ X \in ConsumerStates /\ X.state = C.state /\ X.events = e
             /\ X.seq = C.seq /\ X.delays = C.delays /\ X.timeouts = C.timeouts
BY Zenon DEF ConsumerStates

\* SendPacket takes the next number and the least one to retransmit.
LEMMA NumberTaken ==
  ASSUME NEW C \in ConsumerStates
  PROVE  LET X == Recorded([C EXCEPT !.retxSeqs = AfterRetx(@), !.seq = NextSeq(@)], C.seq)
         IN  /\ X \in ConsumerStates /\ X.state = C.state /\ X.events = C.events
             /\ X.seq = NextSeq(C.seq) /\ X.delays = C.delays \cup {C.seq}
             /\ X.timeouts = C.timeouts
<1> DEFINE R == AfterRetx(C.retxSeqs)
           q == NextSeq(C.seq)
           D == C.delays \cup {C.seq}
<1>1. C.seq \in Seqs /\ C.retxSeqs \in SUBSET Seqs /\ C.delays \in SUBSET Seqs
  BY DEF ConsumerStates
<1>2. R \in SUBSET Seqs
  BY <1>1 DEF AfterRetx
<1>3. q \in Seqs
  BY <1>1, ApplicationsAssumption DEF NextSeq, Seqs
<1>4. D \in SUBSET Seqs
  BY <1>1
<1>5. Recorded([C EXCEPT !.retxSeqs = AfterRetx(@), !.seq = NextSeq(@)], C.seq)
        = [C EXCEPT !.retxSeqs = R, !.seq = q, !.delays = D]
  BY Zenon DEF Recorded, ConsumerStates
<1> HIDE DEF R, q, D
<1>6. LET X == [C EXCEPT !.retxSeqs = R, !.seq = q, !.delays = D]
      IN  /\ X \in ConsumerStates /\ X.state = C.state /\ X.events = C.events
          /\ X.seq = q /\ X.delays = D /\ X.timeouts = C.timeouts
  BY <1>2, <1>3, <1>4, Zenon DEF ConsumerStates
<1> QED BY <1>5, <1>6, Zenon DEF q, D

LEMMA ForgottenNumber ==
  ASSUME NEW C \in ConsumerStates, NEW s \in Seqs
  PROVE  /\ Forgotten(C, s) \in ConsumerStates
         /\ Forgotten(C, s).state = C.state /\ Forgotten(C, s).events = C.events
         /\ Forgotten(C, s).seq = C.seq /\ Forgotten(C, s).delays = C.delays \ {s}
         /\ Forgotten(C, s).timeouts = C.timeouts \ {s}
<1> DEFINE R == C.retxSeqs \ {s}
           T == C.timeouts \ {s}
           D == C.delays \ {s}
<1>1. R \in SUBSET Seqs /\ T \in SUBSET Seqs /\ D \in SUBSET Seqs
  BY DEF ConsumerStates
<1>2. Forgotten(C, s) = [C EXCEPT !.delays = D, !.timeouts = T, !.retxSeqs = R]
  BY Zenon DEF Forgotten
<1> HIDE DEF R, T, D
<1>3. LET X == [C EXCEPT !.delays = D, !.timeouts = T, !.retxSeqs = R]
      IN  /\ X \in ConsumerStates /\ X.state = C.state /\ X.events = C.events
          /\ X.seq = C.seq /\ X.delays = D /\ X.timeouts = T
  BY <1>1, Zenon DEF ConsumerStates
<1> QED BY <1>2, <1>3, Zenon DEF T, D

-----------------------------------------------------------------------------
(* The steps. *)

\* It is enough to look at the consumer that takes the step.
LEMMA OneConsumer ==
  ASSUME IInv, NEW c \in Consumers, NEW X \in ConsumerStates, EventsOK(X),
         consumer' = [consumer EXCEPT ![c] = X], UNCHANGED traced, TraceOK(X, traced[c])
  PROVE  IInv'
<1>1. consumer' \in [Consumers -> ConsumerStates]
  BY DEF IInv
<1>2. ASSUME NEW d \in Consumers
      PROVE  EventsOK(consumer'[d]) /\ TraceOK(consumer'[d], traced'[d])
  BY DEF IInv
<1> QED BY <1>1, <1>2 DEF IInv

LEMMA StartStep == ASSUME IInv, NEW c \in Consumers, StartApplication(c) PROVE IInv'
<1> DEFINE S == Scheduled(consumer[c])
           X == [S EXCEPT !.state = "running"]
<1>1. consumer[c] \in ConsumerStates /\ EventsOK(consumer[c]) /\ TraceOK(consumer[c], traced[c])
  BY DEF IInv
<1>2. consumer[c].state = "new" /\ UNCHANGED traced
  BY DEF StartApplication
<1>3. consumer[c].events = 0
  BY <1>1, <1>2 DEF EventsOK
<1>4. /\ X \in ConsumerStates /\ X.state = "running" /\ X.events = 1
      /\ X.seq = consumer[c].seq /\ X.delays = consumer[c].delays
      /\ X.timeouts = consumer[c].timeouts
  <2>1. /\ S \in ConsumerStates /\ S.events = 1
        /\ S.seq = consumer[c].seq /\ S.delays = consumer[c].delays
        /\ S.timeouts = consumer[c].timeouts
    BY <1>1, <1>3, ScheduledOne
  <2> HIDE DEF S
  <2> QED BY <2>1, StateSet, Zenon
<1>5. consumer' = [consumer EXCEPT ![c] = X]
  BY Zenon DEF StartApplication
<1> HIDE DEF X
<1> QED BY <1>1, <1>2, <1>4, <1>5, OneConsumer DEF EventsOK, TraceOK

LEMMA StopStep == ASSUME IInv, NEW c \in Consumers, StopApplication(c) PROVE IInv'
<1> DEFINE e == IF consumer[c].events = 0 THEN 0 ELSE consumer[c].events - 1
           Y == [consumer[c] EXCEPT !.state = "stopped"]
           X == [Y EXCEPT !.events = e]
<1>1. consumer[c] \in ConsumerStates /\ EventsOK(consumer[c]) /\ TraceOK(consumer[c], traced[c])
  BY DEF IInv
<1>2. consumer[c].state = "running" /\ UNCHANGED traced
  BY DEF StopApplication
<1>3. e = 0 /\ e \in 0 .. 1
  BY <1>1, <1>2 DEF EventsOK
<1>5. consumer' = [consumer EXCEPT ![c] = X]
  BY Zenon, <1>1 DEF StopApplication, IInv, ConsumerStates
<1> HIDE DEF e
<1>4. /\ X \in ConsumerStates /\ X.state = "stopped" /\ X.events = e
      /\ X.seq = consumer[c].seq /\ X.delays = consumer[c].delays
      /\ X.timeouts = consumer[c].timeouts
  <2>1. /\ Y \in ConsumerStates /\ Y.state = "stopped"
        /\ Y.seq = consumer[c].seq /\ Y.delays = consumer[c].delays
        /\ Y.timeouts = consumer[c].timeouts
    BY <1>1, StateSet, Zenon
  <2> HIDE DEF Y
  <2> QED BY <1>3, <2>1, EventsSet, Zenon
<1> HIDE DEF X
<1> QED BY <1>1, <1>2, <1>3, <1>4, <1>5, OneConsumer DEF EventsOK, TraceOK

LEMMA SendStep == ASSUME IInv, NEW c \in Consumers, SendPacket(c) PROVE IInv'
<1> DEFINE e == consumer[c].events - 1
           C == [consumer[c] EXCEPT !.events = e]
           D == Recorded([C EXCEPT !.retxSeqs = AfterRetx(@), !.seq = NextSeq(@)], C.seq)
           X == Scheduled(D)
<1>1. consumer[c] \in ConsumerStates /\ EventsOK(consumer[c]) /\ TraceOK(consumer[c], traced[c])
  BY DEF IInv
<1>2. consumer[c].events > 0 /\ UNCHANGED traced
  BY DEF SendPacket
<1>3. consumer[c].state = "running" /\ e = 0 /\ e \in 0 .. 1
  BY <1>1, <1>2 DEF EventsOK
<1>4. /\ C \in ConsumerStates /\ C.state = "running" /\ C.events = 0
      /\ C.seq = consumer[c].seq /\ C.delays = consumer[c].delays
      /\ C.timeouts = consumer[c].timeouts
  <2> HIDE DEF e
  <2> QED BY <1>1, <1>3, EventsSet, Zenon
<1>5. consumer' = [consumer EXCEPT ![c] = X]
  BY <1>4, Zenon DEF SendPacket
<1> HIDE DEF C
<1>6. /\ D \in ConsumerStates /\ D.state = "running" /\ D.events = 0
      /\ D.seq = NextSeq(C.seq) /\ D.delays = C.delays \cup {C.seq}
      /\ D.timeouts = C.timeouts
  BY <1>4, NumberTaken, Zenon
<1> HIDE DEF D
<1>7. /\ X \in ConsumerStates /\ X.state = "running" /\ X.events = 1
      /\ X.seq = NextSeq(C.seq) /\ X.delays = C.delays \cup {C.seq}
      /\ X.timeouts = C.timeouts
  BY <1>6, ScheduledOne, Zenon
<1> HIDE DEF X
<1>8. EventsOK(X)
  BY <1>1, <1>4, <1>7 DEF EventsOK
<1>9. TraceOK(X, traced[c])
  <2>1. C.seq \in 0 .. MaxSeq
    BY <1>4 DEF ConsumerStates, Seqs
  <2>2. NextSeq(C.seq) = IF C.seq < MaxSeq THEN C.seq + 1 ELSE C.seq
    BY DEF NextSeq
  <2> QED BY <1>1, <1>4, <1>7, <2>1, <2>2, ApplicationsAssumption DEF TraceOK, Seqs
<1> QED BY <1>2, <1>5, <1>7, <1>8, <1>9, OneConsumer

LEMMA CheckStep == ASSUME IInv, NEW c \in Consumers, CheckRetxTimeout(c) PROVE IInv'
<1>1. consumer[c] \in ConsumerStates /\ EventsOK(consumer[c]) /\ TraceOK(consumer[c], traced[c])
  BY DEF IInv
<1>2. PICK expired \in SUBSET consumer[c].timeouts :
        LET C == [consumer[c] EXCEPT !.timeouts = @ \ expired,
                                     !.retxSeqs = @ \cup expired]
        IN  consumer' = [consumer EXCEPT ![c] =
                           IF expired = {} THEN C ELSE Scheduled(C)]
  BY Zenon DEF CheckRetxTimeout
<1>3. expired = {} /\ UNCHANGED traced
  BY <1>1 DEF EventsOK, CheckRetxTimeout
<1> DEFINE T == consumer[c].timeouts \ expired
           R == consumer[c].retxSeqs \cup expired
           X == [consumer[c] EXCEPT !.timeouts = T, !.retxSeqs = R]
<1>4. consumer' = [consumer EXCEPT ![c] = X]
  BY <1>2, <1>3, Zenon
<1>5. T = {} /\ T \in SUBSET Seqs /\ R \in SUBSET Seqs
  BY <1>1, <1>3 DEF EventsOK, ConsumerStates
<1> HIDE DEF T, R
<1>6. /\ X \in ConsumerStates /\ X.state = consumer[c].state
      /\ X.events = consumer[c].events /\ X.seq = consumer[c].seq
      /\ X.delays = consumer[c].delays /\ X.timeouts = T
  BY <1>1, <1>5, Zenon DEF ConsumerStates
<1> HIDE DEF X
<1> QED BY <1>1, <1>3, <1>4, <1>5, <1>6, OneConsumer DEF EventsOK, TraceOK

LEMMA DataStep == ASSUME IInv, NEW c \in Consumers, NEW s \in Seqs, OnData(c, s) PROVE IInv'
<1> DEFINE X == Forgotten(consumer[c], s)
<1>1. consumer[c] \in ConsumerStates /\ EventsOK(consumer[c]) /\ TraceOK(consumer[c], traced[c])
  BY DEF IInv
<1>2. /\ consumer' = [consumer EXCEPT ![c] = X]
      /\ traced' = IF s \in consumer[c].delays
                   THEN [traced EXCEPT ![c][s] = UpTo2(@)] ELSE traced
      /\ s < MaxSeq
  BY Zenon DEF OnData
<1>3. /\ X \in ConsumerStates /\ X.state = consumer[c].state
      /\ X.events = consumer[c].events /\ X.seq = consumer[c].seq
      /\ X.delays = consumer[c].delays \ {s} /\ X.timeouts = consumer[c].timeouts \ {s}
  BY <1>1, ForgottenNumber, Zenon
<1> HIDE DEF X
<1>4. EventsOK(X)
  BY <1>1, <1>3 DEF EventsOK
<1>5. CASE s \notin consumer[c].delays
  <2>1. TraceOK(X, traced[c])
    BY <1>1, <1>3 DEF TraceOK
  <2> QED BY <1>2, <1>3, <1>4, <1>5, <2>1, OneConsumer
<1>6. CASE s \in consumer[c].delays
  <2>1. traced[c][s] = 0 /\ s < consumer[c].seq
    BY <1>1, <1>2, <1>6, ApplicationsAssumption DEF TraceOK, Seqs
  <2>2. traced' = [traced EXCEPT ![c][s] = 1]
    BY <1>2, <1>6, <2>1 DEF UpTo2
  <2>3. traced' \in [Consumers -> [Seqs -> 0 .. 2]]
    BY <2>2 DEF IInv
  <2>4. traced'[c] = [traced[c] EXCEPT ![s] = 1] /\ traced[c] \in [Seqs -> 0 .. 2]
    BY <2>2 DEF IInv
  <2>5. TraceOK(X, traced'[c])
    BY <1>1, <1>3, <2>1, <2>4 DEF TraceOK
  <2>6. consumer' \in [Consumers -> ConsumerStates]
    BY <1>2, <1>3 DEF IInv
  <2>7. ASSUME NEW d \in Consumers
        PROVE  EventsOK(consumer'[d]) /\ TraceOK(consumer'[d], traced'[d])
    <3>1. CASE d = c
      BY <1>2, <1>4, <2>5, <3>1 DEF IInv
    <3>2. CASE d # c
      <4>1. consumer'[d] = consumer[d] /\ traced'[d] = traced[d]
        BY <1>2, <2>2, <3>2 DEF IInv
      <4> QED BY <4>1 DEF IInv
    <3> QED BY <3>1, <3>2
  <2> QED BY <2>3, <2>6, <2>7 DEF IInv
<1> QED BY <1>5, <1>6

LEMMA InitOK == Init => IInv
<1> SUFFICES ASSUME Init PROVE IInv
  OBVIOUS
<1>1. 0 \in Seqs /\ 0 \in 0 .. 1
  BY ApplicationsAssumption DEF Seqs
<1> DEFINE N == [state |-> "new", events |-> 0, firstTime |-> TRUE, seq |-> 0,
                 retxSeqs |-> {}, timeouts |-> {}, delays |-> {}]
<1>2. N \in ConsumerStates
  BY <1>1 DEF ConsumerStates
<1>3. EventsOK(N)
  BY DEF EventsOK
<1>4. consumer = [c \in Consumers |-> N] /\ traced = [c \in Consumers |-> [s \in Seqs |-> 0]]
  BY DEF Init
<1>5. N.delays = {}
  OBVIOUS
<1> HIDE DEF N
<1>6. \A c \in Consumers : consumer[c] = N /\ traced[c] = [s \in Seqs |-> 0]
  BY <1>4
<1>7. TraceOK(N, [s \in Seqs |-> 0])
  BY <1>5 DEF TraceOK
<1> QED BY <1>2, <1>3, <1>4, <1>6, <1>7 DEF IInv

LEMMA NextOK == IInv /\ [Next]_vars => IInv'
<1> SUFFICES ASSUME IInv, [Next]_vars PROVE IInv'
  OBVIOUS
<1>1. CASE \E c \in Consumers : StartApplication(c) \/ StopApplication(c)
                                  \/ SendPacket(c) \/ CheckRetxTimeout(c)
  BY <1>1, StartStep, StopStep, SendStep, CheckStep
<1>2. CASE \E c \in Consumers, s \in Seqs : OnData(c, s)
  BY <1>2, DataStep
<1>3. CASE UNCHANGED <<consumer, traced>>
  BY <1>3 DEF IInv
<1>4. CASE \E c \in Consumers, s \in Seqs : OnInterest(c, s) \/ LoseInterest(c, s)
  BY <1>3, <1>4, Zenon DEF OnInterest, LoseInterest
<1>5. CASE SendTimeout \/ SendChunk \/ StopProducer
  BY <1>3, <1>5, Zenon DEF SendTimeout, SendChunk, StopProducer
<1>6. CASE UNCHANGED vars
  BY <1>3, <1>6 DEF vars
<1> QED BY <1>1, <1>2, <1>4, <1>5, <1>6, Zenon DEF Next

-----------------------------------------------------------------------------

\* A running consumer has exactly one send event, a stopped one has none
\* (ScheduleNextPacket, StopApplication).
THEOREM OneEvent == Spec => []OneSendEvent
<1>1. IInv => OneSendEvent
  BY DEF IInv, OneSendEvent, EventsOK
<1> QED BY <1>1, InitOK, NextOK, PTL DEF Spec

\* The delay of a number is traced at most once (OnData).
THEOREM TracedOnce == Spec => []DelayTracedOnce
<1>1. IInv => DelayTracedOnce
  BY DEF IInv, DelayTracedOnce, TraceOK
<1> QED BY <1>1, InitOK, NextOK, PTL DEF Spec

-----------------------------------------------------------------------------
(* Types of the producer and of the network: nothing is published under the *)
(* prefix alone, because a producer that has a subscription has a number.   *)

ProducerStates ==
  [active : BOOLEAN, subscription : 0 .. 3, payload : BOOLEAN,
   prefix : Seqs \cup {NoName}, size : Sizes]

ProducerOK ==
  /\ producer \in ProducerStates
  /\ Subscribed => producer.prefix \in Seqs
  /\ chunks \in [name : Seqs \cup {NoName}, left : 0 .. SubDataSize]
  /\ chunks.left > 0 => chunks.name \in Seqs
  /\ published \subseteq Seqs \X Sizes

NetworkOK ==
  /\ asked \subseteq Consumers \X Seqs
  /\ sends \in [Consumers -> [Seqs -> 0 .. 2]]

\* A producer that answers keeps what OnInterest has set.
LEMMA SizedProducer ==
  ASSUME NEW P \in ProducerStates
  PROVE  /\ Sized(P) \in ProducerStates
         /\ Sized(P).subscription = P.subscription /\ Sized(P).prefix = P.prefix
<1> DEFINE z == IF P.subscription = 0 /\ P.payload THEN "ack" ELSE P.size
<1>1. z \in Sizes
  BY DEF ProducerStates, Sizes
<1>2. Sized(P) = [P EXCEPT !.size = z]
  BY Zenon DEF Sized
<1> HIDE DEF z
<1> QED BY <1>1, <1>2, Zenon DEF ProducerStates

LEMMA DataIsTyped ==
  ASSUME NEW P \in ProducerStates, NEW name \in Seqs, SendData(P, name),
         published \subseteq Seqs \X Sizes
  PROVE  /\ producer' \in ProducerStates /\ published' \subseteq Seqs \X Sizes
         /\ producer'.subscription = P.subscription /\ producer'.prefix = P.prefix
<1>1. producer' = Sized(P) /\ published' = published \cup {<<name, Sized(P).size>>}
  BY DEF SendData
<1>2. Sized(P) \in ProducerStates /\ Sized(P).size \in Sizes
  BY SizedProducer DEF ProducerStates
<1> QED BY <1>1, <1>2, SizedProducer

LEMMA InterestTypes ==
  ASSUME ProducerOK, NEW c \in Consumers, NEW s \in Seqs, OnInterest(c, s)
  PROVE  ProducerOK'
<1> DEFINE P == [producer EXCEPT !.subscription = Subscription[c],
                               !.payload = (Subscription[c] = 0), !.prefix = s]
<1>1. Subscription[c] \in 0 .. 3 /\ producer \in ProducerStates
  BY ApplicationsAssumption DEF ProducerOK
<1>2. P \in ProducerStates /\ P.prefix = s
  <2>1. s \in Seqs \cup {NoName} /\ (Subscription[c] = 0) \in BOOLEAN
    OBVIOUS
  <2> QED BY <1>1, <2>1, Zenon DEF ProducerStates
<1>3. UNCHANGED chunks
  BY DEF OnInterest
<1>4. CASE ~producer.active
  BY <1>4, Zenon DEF OnInterest, ProducerOK, Subscribed
<1>5. CASE producer.active /\ Subscription[c] = 0
  <2>1. SendData(P, s)
    BY <1>5, Zenon DEF OnInterest
  <2> HIDE DEF P
  <2> QED BY <1>2, <1>3, <2>1, DataIsTyped DEF ProducerOK
<1>6. CASE producer.active /\ Subscription[c] # 0
  <2>1. producer' = P /\ UNCHANGED published
    BY <1>6, Zenon DEF OnInterest
  <2> HIDE DEF P
  <2> QED BY <1>2, <1>3, <2>1 DEF ProducerOK
<1> QED BY <1>4, <1>5, <1>6

LEMMA ChunkTypes == ASSUME ProducerOK, SendChunk PROVE ProducerOK'
<1> DEFINE e == chunks.left - 1
<1>1. chunks.left > 0 /\ chunks' = [chunks EXCEPT !.left = e]
  BY DEF SendChunk
<1>2. chunks \in [name : Seqs \cup {NoName}, left : 0 .. SubDataSize] /\ chunks.name \in Seqs
  BY <1>1 DEF ProducerOK
<1>3. e \in 0 .. SubDataSize
  BY <1>1, <1>2, ApplicationsAssumption
<1> HIDE DEF e
<1>4. /\ chunks' \in [name : Seqs \cup {NoName}, left : 0 .. SubDataSize]
      /\ chunks'.name \in Seqs
  BY <1>1, <1>2, <1>3
<1>5. CASE producer.active
  <2>1. SendData(producer, chunks.name)
    BY <1>5 DEF SendChunk
  <2>2. /\ producer' \in ProducerStates /\ published' \subseteq Seqs \X Sizes
        /\ producer'.subscription = producer.subscription
        /\ producer'.prefix = producer.prefix
    BY <1>2, <2>1, DataIsTyped DEF ProducerOK
  <2> QED BY <1>4, <2>2 DEF ProducerOK, Subscribed
<1>6. CASE ~producer.active
  <2>1. UNCHANGED <<producer, published>>
    BY <1>6 DEF SendChunk
  <2> QED BY <1>4, <2>1 DEF ProducerOK, Subscribed
<1> QED BY <1>5, <1>6

LEMMA NextProducer == ProducerOK /\ [Next]_vars => ProducerOK'
<1> SUFFICES ASSUME ProducerOK, [Next]_vars PROVE ProducerOK'
  OBVIOUS
<1>1. CASE UNCHANGED <<producer, chunks, published>>
  BY <1>1 DEF ProducerOK, Subscribed
<1>2. CASE \E c \in Consumers : StartApplication(c) \/ StopApplication(c)
                                  \/ SendPacket(c) \/ CheckRetxTimeout(c)
  BY <1>1, <1>2, Zenon DEF StartApplication, StopApplication, SendPacket, CheckRetxTimeout
<1>3. CASE \E c \in Consumers, s \in Seqs : OnInterest(c, s)
  BY <1>3, InterestTypes
<1>4. CASE \E c \in Consumers, s \in Seqs : OnData(c, s) \/ LoseInterest(c, s)
  BY <1>1, <1>4, Zenon DEF OnData, LoseInterest
<1>5. CASE SendTimeout
  <2>1. /\ chunks' = [name |-> producer.prefix, left |-> SubDataSize]
        /\ Subscribed /\ UNCHANGED <<producer, published>>
    BY <1>5 DEF SendTimeout, Chunks
  <2> QED BY <2>1, ApplicationsAssumption DEF ProducerOK, Subscribed
<1>6. CASE SendChunk
  BY <1>6, ChunkTypes
<1>7. CASE StopProducer
  <2>1. /\ producer' = [producer EXCEPT !.active = FALSE]
        /\ producer \in ProducerStates /\ UNCHANGED <<chunks, published>>
    BY <1>7 DEF StopProducer, ProducerOK
  <2>2. /\ producer' \in ProducerStates /\ producer'.prefix = producer.prefix
        /\ producer'.subscription = producer.subscription
    BY <2>1 DEF ProducerStates
  <2> QED BY <2>1, <2>2 DEF ProducerOK, Subscribed
<1>8. CASE UNCHANGED vars
  BY <1>1, <1>8 DEF vars
<1> QED BY <1>2, <1>3, <1>4, <1>5, <1>6, <1>7, <1>8, Zenon DEF Next

LEMMA NextNetwork == IInv /\ NetworkOK /\ [Next]_vars => NetworkOK'
<1> SUFFICES ASSUME IInv, NetworkOK, [Next]_vars PROVE NetworkOK'
  OBVIOUS
<1>1. ASSUME NEW c \in Consumers, SendPacket(c)
      PROVE  NetworkOK'
  <2>1. CASE UNCHANGED <<asked, sends>>
    BY <2>1 DEF NetworkOK
  <2>2. ASSUME NEW q \in Seqs, asked' = asked \cup {<<c, q>>},
               sends' = [sends EXCEPT ![c][q] = IF q < MaxSeq THEN UpTo2(@) ELSE @]
        PROVE  NetworkOK'
    <3>1. sends[c] \in [Seqs -> 0 .. 2] /\ sends[c][q] \in 0 .. 2
      BY DEF NetworkOK
    <3> DEFINE k == IF q < MaxSeq THEN UpTo2(sends[c][q]) ELSE sends[c][q]
    <3>2. k \in 0 .. 2
      BY <3>1 DEF UpTo2
    <3>3. sends' = [sends EXCEPT ![c][q] = k]
      BY <2>2, Zenon DEF NetworkOK
    <3> HIDE DEF k
    <3>4. sends' \in [Consumers -> [Seqs -> 0 .. 2]]
      BY <3>3, <3>2 DEF NetworkOK
    <3> QED BY <2>2, <3>4 DEF NetworkOK
  <2> DEFINE C == [consumer[c] EXCEPT !.events = @ - 1]
  <2>3. C.seq = consumer[c].seq /\ C.seq \in Seqs
    <3>1. consumer[c] \in ConsumerStates
      BY DEF IInv
    <3> QED BY <3>1 DEF ConsumerStates
  <2>4. \/ UNCHANGED <<asked, sends>>
        \/ /\ asked' = asked \cup {<<c, C.seq>>}
           /\ sends' = [sends EXCEPT ![c][C.seq] = IF C.seq < MaxSeq THEN UpTo2(@) ELSE @]
    BY <1>1, Zenon DEF SendPacket
  <2> HIDE DEF C
  <2> QED BY <2>1, <2>2, <2>3, <2>4
<1>2. CASE asked' \subseteq asked /\ UNCHANGED sends
  BY <1>2 DEF NetworkOK
<1>3. CASE \E c \in Consumers : StartApplication(c) \/ StopApplication(c) \/ CheckRetxTimeout(c)
  BY <1>2, <1>3, Zenon DEF StartApplication, StopApplication, CheckRetxTimeout
<1>4. CASE \E c \in Consumers, s \in Seqs : OnData(c, s) \/ OnInterest(c, s) \/ LoseInterest(c, s)
  <2>1. asked' \subseteq asked /\ UNCHANGED sends
    BY <1>4 DEF OnData, OnInterest, LoseInterest
  <2> QED BY <1>2, <2>1
<1>5. CASE SendTimeout \/ SendChunk \/ StopProducer
  BY <1>2, <1>5, Zenon DEF SendTimeout, SendChunk, StopProducer
<1>6. CASE UNCHANGED vars
  BY <1>2, <1>6 DEF vars
<1> QED BY <1>1, <1>3, <1>4, <1>5, <1>6, Zenon DEF Next

\* The variables have their types, in particular no Data is published under
\* the prefix without a number, although that is all the producer has until
\* a first Interest (OnInterest, SendTimeout).
THEOREM TypeCorrect == Spec => []TypeOK
<1>1. Init => ProducerOK /\ NetworkOK
  BY ApplicationsAssumption DEF Init, ProducerOK, NetworkOK, ProducerStates, Sizes, Subscribed
<1>2. IInv /\ ProducerOK /\ NetworkOK => TypeOK
  BY DEF IInv, ProducerOK, NetworkOK, ProducerStates, TypeOK
<1> QED BY <1>1, <1>2, InitOK, NextOK, NextProducer, NextNetwork, PTL DEF Spec
=============================================================================
