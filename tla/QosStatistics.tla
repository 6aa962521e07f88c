--------------------------- MODULE QosStatistics ---------------------------
(***************************************************************************)
(* The counters the QoS strategy keeps of its traffic and the reward it    *)
(* computes from them once per second (QosStrategy::everyNSeconds).        *)
(*                                                                         *)
(* The module adds the counters to the steps of QosScheduler: every event  *)
(* of the scheduler is conjoined with what it counts.  The exchange with   *)
(* the learning agent that everyNSeconds also makes is RlExchange; here    *)
(* the event is the moment the reward is computed and the counters reset.  *)
(***************************************************************************)
EXTENDS QosScheduler

CONSTANT MaxDrops   \* bound: packets the device queues drop in one second

ASSUME DropsAssumption == MaxDrops \in Nat

VARIABLES
  packets,        \* packets[b]: high_priority_packets, med_priority_packets
  loss,           \* loss[b]: high_priority_loss, med_priority_loss
  base_ns3_loss   \* packets the queues of the node's devices dropped

counterVars == <<packets, loss, base_ns3_loss>>
allVars == <<vars, counterVars>>

\* The classes that are counted; everything that is not typeI is medium.
Counted == {0, 1}

NoCount == [b \in Counted |-> 0]

InitCounted ==
  /\ Init
  /\ packets = NoCount
  /\ loss = NoCount
  /\ base_ns3_loss = 0

\* Every packet counts once, and is lost once per face whose queue is full.
Count(F, b) ==
  /\ packets' = [packets EXCEPT ![b] = @ + 1]
  /\ loss' = [loss EXCEPT ![b] = @ + Cardinality({f \in F : ~HasRoom(f, b)})]
  /\ UNCHANGED base_ns3_loss

ReceiveInterestCounted(F, level, size, suppressed) ==
  ReceiveInterest(F, level, size, suppressed) /\ Count(F, ClassOf(level))

ReceiveDataCounted(F, level, size) ==
  ReceiveData(F, level, size) /\ Count(F, ClassOf(level))

\* The device a packet is sent on may drop it, and calls the strategy back.
SendOneCounted(b) ==
  /\ SendOne(b)
  /\ \/ base_ns3_loss' = base_ns3_loss
     \/ base_ns3_loss < MaxDrops /\ base_ns3_loss' = base_ns3_loss + 1
  /\ UNCHANGED <<packets, loss>>

\* Mutant: the losses are carried over into the next second.
ResetPackets ==
  /\ packets' = NoCount
  /\ base_ns3_loss' = 0
  /\ UNCHANGED loss

ResetCounters ==
  /\ packets' = NoCount
  /\ loss' = NoCount
  /\ base_ns3_loss' = 0

\* One second is over: the reward is computed and sent, the counters reset.
EveryNSeconds ==
  /\ pc = "idle"
  /\ ResetCounters
  /\ UNCHANGED vars

NextCounted ==
  \/ \E F \in SUBSET Faces, level \in PrLevels, size \in Sizes :
       \/ \E suppressed \in BOOLEAN :
            ReceiveInterestCounted(F, level, size, suppressed)
       \/ ReceiveDataCounted(F, level, size)
  \/ \E b \in Classes : SendOneCounted(b)
  \/ /\ (\E b \in Classes : UpdateBucket(b)) \/ AdvanceClock
          \/ TokenWait \/ NextFace \/ EndPass
     /\ UNCHANGED counterVars
  \/ EveryNSeconds

SpecCounted == InitCounted /\ [][NextCounted]_allVars

-----------------------------------------------------------------------------
(* The reward 0.4 high + 0.2 low + 0.4 base, each one less a loss ratio    *)
(* averaged over the faces of m_tx_queue; all of it times five.            *)

Total == packets[0] + packets[1]

\* No quotient divides by zero; 0/0 is not a number, n/0 is infinite.
RewardDefined == Len(order) > 0 /\ packets[0] > 0 /\ packets[1] > 0

\* The sign of the reward, over the common denominator of its terms.
RewardNumerator ==
  LET faces == Len(order)
  IN  2 * (faces * packets[0] - loss[0]) * packets[1] * Total
      + (faces * packets[1] - loss[1]) * packets[0] * Total
      + 2 * (faces * Total - base_ns3_loss) * packets[0] * packets[1]

\* A class never counts more losses in one second than it counted packets on
\* every face m_tx_queue has, so that the loss ratio of its queues, the
\* average over the faces, is never more than one: packets, losses and faces
\* are counted at different places and reset at different times.
LossIsRatio == \A b \in Counted : loss[b] <= packets[b] * Len(order)

\* The agent's comment on its output layer, "Activation to move the output
\* into [0, 1], because the reward is always in that range".
RewardInRange ==
  [][EveryNSeconds => RewardDefined /\ RewardNumerator >= 0]_allVars
=============================================================================
