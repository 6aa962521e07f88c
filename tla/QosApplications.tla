--------------------------- MODULE QosApplications ---------------------------
(***************************************************************************)
(* The traffic of one prefix:                                              *)
(*   apps/ndn-QoS-consumer   consumers that send numbered Interests, either *)
(*                           with a payload or to subscribe                 *)
(*   apps/ndn-QoS-producer   a producer that acknowledges payloads and      *)
(*                           publishes to subscribers                       *)
(* Between them is a network that loses and reorders Interests and that     *)
(* loses, reorders and repeats Data.  There is no clock: an event that was  *)
(* scheduled runs at any later time, and a timeout expires at any time.     *)
(***************************************************************************)
EXTENDS Integers, FiniteSets

CONSTANTS
  Consumers,        \* QoSConsumer applications with this prefix
  Subscription,     \* Subscription[c]: 0 none, 1 soft, 2 hard, 3 unsubscribe
  RetransmitPackets,
  Publishes,        \* the producer's Frequency is not zero
  SubDataSize,      \* m_subDataSize, Data that SendTimeout sends
  MaxSeq            \* bound: this number stands for all numbers from here on

ASSUME ApplicationsAssumption ==
  /\ Subscription \in [Consumers -> 0 .. 3]
  /\ RetransmitPackets \in BOOLEAN
  /\ Publishes \in BOOLEAN
  /\ SubDataSize \in Nat \ {0}
  /\ MaxSeq \in Nat

Seqs == 0 .. MaxSeq
Sizes == {"full", "ack"}   \* the PayloadSize attribute, or one octet
NoName == -1        \* the prefix itself, without a number

VARIABLES
  consumer,   \* consumer[c]: the members of QoSConsumer
  producer,   \* the members of QoSProducer
  chunks,     \* SendData events scheduled by SendTimeout: a name, and how many
  asked,      \* <<c, s>>: Interest s of c is on its way to the producer
  published,  \* <<name, size>> of Data the producer sent
  sends,      \* history: how often c has sent the Interest s < MaxSeq, up to 2
  traced      \* history: how often c has traced the delay of s, up to 2

vars == <<consumer, producer, chunks, asked, published, sends, traced>>

Init ==
  /\ consumer = [c \in Consumers |->
       [state |-> "new", events |-> 0, firstTime |-> TRUE, seq |-> 0,
        retxSeqs |-> {}, timeouts |-> {}, delays |-> {}]]
  /\ producer = [active |-> TRUE, subscription |-> 0, payload |-> FALSE,
                 prefix |-> NoName, size |-> "full"]
  /\ chunks = [name |-> NoName, left |-> 0]
  /\ asked = {}
  /\ published = {}
  /\ sends = [c \in Consumers |-> [s \in Seqs |-> 0]]
  /\ traced = [c \in Consumers |-> [s \in Seqs |-> 0]]

UpTo2(n) == IF n < 2 THEN n + 1 ELSE 2

-----------------------------------------------------------------------------
(* The consumer. *)

\* Mutant: the next packet is only ever scheduled by StartApplication.
ScheduledOnce(C) ==
  IF C.firstTime THEN [C EXCEPT !.events = @ + 1, !.firstTime = FALSE] ELSE C

\* ScheduleNextPacket.
Scheduled(C) ==
  IF C.firstTime \/ C.events = 0
  THEN [C EXCEPT !.events = @ + 1, !.firstTime = FALSE] ELSE C

StartApplication(c) ==
  /\ consumer[c].state = "new"
  /\ consumer' = [consumer EXCEPT ![c] = [Scheduled(@) EXCEPT !.state = "running"]]
  /\ UNCHANGED <<producer, chunks, asked, published, sends, traced>>

\* The send event is cancelled; the check of the timeouts goes on.
StopApplication(c) ==
  /\ consumer[c].state = "running"
  /\ consumer' = [consumer EXCEPT ![c].state = "stopped",
                                  ![c].events = IF @ = 0 THEN 0 ELSE @ - 1]
  /\ UNCHANGED <<producer, chunks, asked, published, sends, traced>>

NextSeq(s) == IF s < MaxSeq THEN s + 1 ELSE s

\* What is left of the numbers to retransmit: the least is taken out.
AfterRetx(S) == S \ {s \in S : \A t \in S : s <= t}

\* WillSendOutInterest; its insertion into m_seqTimeouts is commented out.
Recorded(C, s) == [C EXCEPT !.delays = @ \cup {s}]

\* SendPacket.  The number taken from m_retxSeqs gives way to a new one, and
\* m_seqMax, which nothing sets, stops no one.
SendPacket(c) ==
  /\ consumer[c].events > 0
  /\ LET C == [consumer[c] EXCEPT !.events = @ - 1]
         D == [C EXCEPT !.retxSeqs = AfterRetx(@), !.seq = NextSeq(@)]
     IN  IF C.state # "running"
         THEN /\ consumer' = [consumer EXCEPT ![c] = C]
              /\ UNCHANGED <<asked, sends>>
         ELSE /\ consumer' = [consumer EXCEPT ![c] = Scheduled(Recorded(D, C.seq))]
              /\ asked' = asked \cup {<<c, C.seq>>}
              /\ sends' = [sends EXCEPT ![c][C.seq] =
                             IF C.seq < MaxSeq THEN UpTo2(@) ELSE @]
  /\ UNCHANGED <<producer, chunks, published, traced>>

\* CheckRetxTimeout and OnTimeout for the numbers that have expired.
CheckRetxTimeout(c) ==
  /\ RetransmitPackets
  /\ \E expired \in SUBSET consumer[c].timeouts :
       LET C == [consumer[c] EXCEPT !.timeouts = @ \ expired,
                                    !.retxSeqs = @ \cup expired]
       IN  consumer' = [consumer EXCEPT ![c] =
                          IF expired = {} THEN C ELSE Scheduled(C)]
  /\ UNCHANGED <<producer, chunks, asked, published, sends, traced>>

\* Mutant: what is known of the number is kept.
ForgottenNever(C, s) == C

\* OnData of a consumer without subscription forgets the number.
Forgotten(C, s) ==
  [C EXCEPT !.delays = @ \ {s}, !.timeouts = @ \ {s}, !.retxSeqs = @ \ {s}]

OnData(c, s) ==
  /\ consumer[c].state = "running"
  /\ Subscription[c] = 0
  /\ s < MaxSeq /\ sends[c][s] > 0
  /\ \E size \in Sizes : <<s, size>> \in published
  /\ consumer' = [consumer EXCEPT ![c] = Forgotten(@, s)]
  /\ traced' = IF s \in consumer[c].delays
               THEN [traced EXCEPT ![c][s] = UpTo2(@)] ELSE traced
  /\ UNCHANGED <<producer, chunks, asked, published, sends>>

-----------------------------------------------------------------------------
(* The producer. *)

\* m_virtualPayloadSize, as SendData leaves it.
Sized(P) ==
  [P EXCEPT !.size = IF P.subscription = 0 /\ P.payload THEN "ack" ELSE @]

SendData(P, name) ==
  /\ producer' = Sized(P)
  /\ published' = published \cup {<<name, Sized(P).size>>}

\* OnInterest.  Every Interest without subscription has a payload.
OnInterest(c, s) ==
  /\ <<c, s>> \in asked
  /\ asked' = asked \ {<<c, s>>}
  /\ LET P == [producer EXCEPT !.subscription = Subscription[c],
                               !.payload = (Subscription[c] = 0), !.prefix = s]
     IN  IF ~producer.active THEN UNCHANGED <<producer, published>>
         ELSE IF Subscription[c] = 0 THEN SendData(P, s)
         ELSE producer' = P /\ UNCHANGED published
  /\ UNCHANGED <<consumer, chunks, sends, traced>>

\* Mutant: a soft subscription does not count.
SubscribedHard == producer.subscription = 2

Subscribed == producer.subscription \in {1, 2}

\* Mutant: one Data too many.
ChunksOffByOne == SubDataSize + 1

Chunks == SubDataSize

\* SendTimeout, again and again every Frequency.  Its chunks leave within
\* 0.03 s each, before it runs again.
SendTimeout ==
  /\ Publishes
  /\ chunks.left = 0
  /\ Subscribed
  /\ chunks' = [name |-> producer.prefix, left |-> Chunks]
  /\ UNCHANGED <<consumer, producer, asked, published, sends, traced>>

\* A SendData event of SendTimeout.
SendChunk ==
  /\ chunks.left > 0
  /\ chunks' = [chunks EXCEPT !.left = @ - 1]
  /\ IF producer.active THEN SendData(producer, chunks.name)
     ELSE UNCHANGED <<producer, published>>
  /\ UNCHANGED <<consumer, asked, sends, traced>>

StopProducer ==
  /\ producer.active
  /\ producer' = [producer EXCEPT !.active = FALSE]
  /\ UNCHANGED <<consumer, chunks, asked, published, sends, traced>>

-----------------------------------------------------------------------------
(* The network, and all together. *)

LoseInterest(c, s) ==
  /\ <<c, s>> \in asked
  /\ asked' = asked \ {<<c, s>>}
  /\ UNCHANGED <<consumer, producer, chunks, published, sends, traced>>

Next ==
  \/ \E c \in Consumers : \/ StartApplication(c) \/ StopApplication(c)
                          \/ SendPacket(c) \/ CheckRetxTimeout(c)
  \/ \E c \in Consumers, s \in Seqs : OnData(c, s) \/ OnInterest(c, s) \/ LoseInterest(c, s)
  \/ SendTimeout \/ SendChunk \/ StopProducer

Spec == Init /\ [][Next]_vars

\* Scheduled events run, at times of their own; a network that is asked again
\* and again delivers.
Fairness ==
  /\ \A c \in Consumers :
       /\ WF_vars(SendPacket(c))
       /\ WF_vars(CheckRetxTimeout(c))
       /\ SF_vars(\E s \in Seqs : OnInterest(c, s))
  /\ WF_vars(SendTimeout)
  /\ WF_vars(SendChunk)

FairSpec == Spec /\ Fairness

-----------------------------------------------------------------------------
(* Properties. *)

ConsumerStates ==
  [state : {"new", "running", "stopped"}, events : 0 .. 1, firstTime : BOOLEAN,
   seq : Seqs, retxSeqs : SUBSET Seqs, timeouts : SUBSET Seqs,
   delays : SUBSET Seqs]

\* Types of the variables.
TypeOK ==
  /\ consumer \in [Consumers -> ConsumerStates]
  /\ producer \in [active : BOOLEAN, subscription : 0 .. 3, payload : BOOLEAN,
                   prefix : Seqs \cup {NoName}, size : Sizes]
  /\ chunks \in [name : Seqs \cup {NoName}, left : 0 .. SubDataSize]
  /\ asked \subseteq Consumers \X Seqs
  /\ published \subseteq Seqs \X Sizes
  /\ sends \in [Consumers -> [Seqs -> 0 .. 2]]
  /\ traced \in [Consumers -> [Seqs -> 0 .. 2]]

\* However often the Data of a number arrives, its delay is traced once: what
\* the statistics scripts read has one line per Interest (OnData).
DelayTracedOnce ==
  \A c \in Consumers, s \in Seqs : traced[c][s] <= 1

\* A running consumer always has one send event to come, neither none, when it
\* would fall silent, nor a second that StopApplication would miss.
OneSendEvent ==
  \A c \in Consumers : consumer[c].events = IF consumer[c].state = "running" THEN 1 ELSE 0

\* "Doing this will enable the [consumer] to recieve updates in the form of
\* data packets": a subscriber that goes on running makes the producer publish
\* for ever, although single Interests are once the consumers without a
\* subscription are silent, whose Interests end the one the producer has.
UpdatesGoOn ==
  \A c \in Consumers :
    (/\ Subscription[c] \in {1, 2}
     /\ <>[](consumer[c].state = "running" /\ producer.active)
     /\ <>[](\A d \in Consumers :
              consumer[d].state = "running" => Subscription[d] \in {1, 2}))
    => []<><<SendChunk>>_vars
=============================================================================
