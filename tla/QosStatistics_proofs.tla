------------------------ MODULE QosStatistics_proofs ------------------------
(***************************************************************************)
(* For every set of faces and every queue size, the loss that is divided   *)
(* by the number of packets and averaged over the faces is a ratio:        *)
(* LossIsRatio.  The invariant behind it is that m_tx_queue is walked once *)
(* per key, so that a packet for F leaves it with at least as many faces   *)
(* as F has, and with no fewer than it had.                                *)
(***************************************************************************)
EXTENDS QosStatistics, QosScheduler_proofs

WalkExact == Len(order) = Cardinality(Keys)

CountersOK ==
  /\ packets \in [Counted -> Nat]
  /\ loss \in [Counted -> Nat]

StatInv == TypeOK /\ WalkExact /\ CountersOK /\ LossIsRatio

-----------------------------------------------------------------------------
(* Lemmas. *)

\* Every step of the counting node is a step of the scheduler.
LEMMA CountedIsNext == [NextCounted]_allVars => [Next]_vars
BY DEF NextCounted, allVars, ReceiveInterestCounted, ReceiveDataCounted,
       SendOneCounted, EveryNSeconds, Next, PassStep

\* A packet is counted as high or medium.
LEMMA CountedClass ==
  ASSUME NEW level \in PrLevels
  PROVE  ClassOf(level) \in Counted
<1>1. ClassOf(level) \in Classes /\ level \in {1, 21}
  BY ClassOfType DEF PrLevels
<1>2. \E b \in Classes : \/ b = 0 /\ level \in 1 .. 20
                         \/ b = 1 /\ level \in 21 .. 40
                         \/ b = 2 /\ level \in 41 .. 64
  BY <1>1 DEF Classes
<1>3. \/ ClassOf(level) = 0 /\ level \in 1 .. 20
      \/ ClassOf(level) = 1 /\ level \in 21 .. 40
      \/ ClassOf(level) = 2 /\ level \in 41 .. 64
  BY <1>2 DEF ClassOf
<1> QED BY <1>1, <1>3 DEF Counted

\* An enqueue leaves a walk that has as many faces as the packet is for, and
\* that is no shorter than it was.
LEMMA EnqueueWalk ==
  ASSUME TypeOK, WalkExact, NEW F \in SUBSET Faces, NEW level, NEW size,
         EnqueueAt(F, level, size)
  PROVE  /\ WalkExact'
         /\ Len(order') \in Nat
         /\ Len(order) <= Len(order')
         /\ Cardinality(F) <= Len(order')
<1>1. Keys \subseteq Faces /\ Len(order) \in Nat
  BY DEF Keys, TypeOK
<1>2. IsFiniteSet(Keys) /\ IsFiniteSet(F) /\ IsFiniteSet(Keys \cup F)
  BY <1>1, ParamAssumption, FS_Subset, FS_Union
<1>3. CASE F \subseteq Keys
  <2>1. order' = order
    BY <1>3 DEF EnqueueAt
  <2>2. Cardinality(F) <= Cardinality(Keys)
    BY <1>2, <1>3, FS_Subset
  <2> QED BY <1>1, <2>1, <2>2 DEF WalkExact, Keys
<1>4. CASE ~(F \subseteq Keys)
  <2> DEFINE S == Keys \cup F
  <2>1. order' \in Orders(S)
    BY <1>4 DEF EnqueueAt
  <2>2. Cardinality(S) \in Nat
    BY <1>2, FS_CardinalityType
  <2>3. Cardinality(Keys) <= Cardinality(S) /\ Cardinality(F) <= Cardinality(S)
    BY <1>2, FS_Subset
  <2> HIDE DEF S
  <2>4. order' \in [1 .. Cardinality(S) -> S] /\ \A f \in S : \E i \in DOMAIN order' : order'[i] = f
    BY <2>1 DEF Orders
  <2>5. Len(order') = Cardinality(S) /\ DOMAIN order' = 1 .. Cardinality(S)
    BY <2>2, <2>4
  <2>6. Keys' = S
    BY <2>4, <2>5 DEF Keys
  <2> QED BY <2>2, <2>3, <2>5, <2>6 DEF WalkExact
<1> QED BY <1>3, <1>4

\* One more packet pays for a loss on every face of a walk that only grows.
LEMMA OneMorePacket ==
  ASSUME NEW l \in Nat, NEW p \in Nat, NEW n \in Nat, NEW m \in Nat, NEW k \in Nat,
         l <= p * n, n <= m, k <= m
  PROVE  l + k <= (p + 1) * m
<1>1. p * n <= p * m
  <2>1. m = n + (m - n) /\ m - n \in Nat
    OBVIOUS
  <2>2. p * (m - n) \in Nat
    BY <2>1
  <2>3. p * m = p * n + p * (m - n)
    BY <2>1
  <2> QED BY <2>2, <2>3
<1>2. (p + 1) * m = p * m + m
  OBVIOUS
<1>3. p * n \in Nat /\ p * m \in Nat
  OBVIOUS
<1> QED BY <1>1, <1>2, <1>3

-----------------------------------------------------------------------------
(* The steps. *)

\* A packet is counted.
LEMMA CountKeepsRatio ==
  ASSUME StatInv, NEW F \in SUBSET Faces, NEW level \in PrLevels, NEW size,
         EnqueueAt(F, level, size), Count(F, ClassOf(level))
  PROVE  WalkExact' /\ CountersOK' /\ LossIsRatio'
<1> DEFINE b == ClassOf(level)
           Full == {f \in F : ~HasRoom(f, b)}
           k == Cardinality(Full)
<1>1. b \in Counted
  BY CountedClass
<1>2. /\ packets' = [packets EXCEPT ![b] = @ + 1]
      /\ loss' = [loss EXCEPT ![b] = @ + k]
  BY DEF Count
<1>3. k \in Nat /\ k <= Cardinality(F) /\ Cardinality(F) \in Nat
  BY ParamAssumption, FS_Subset, FS_CardinalityType
<1> HIDE DEF b, k
<1>4. /\ WalkExact' /\ Len(order') \in Nat /\ Len(order) \in Nat
      /\ Len(order) <= Len(order') /\ Cardinality(F) <= Len(order')
  <2>1. TypeOK /\ WalkExact /\ Len(order) \in Nat
    BY DEF StatInv, TypeOK
  <2> QED BY <2>1, EnqueueWalk
<1>5. CountersOK'
  <2>1. packets \in [Counted -> Nat] /\ loss \in [Counted -> Nat]
    BY DEF StatInv, CountersOK
  <2>2. \A c \in Counted : packets[c] + 1 \in Nat /\ loss[c] + k \in Nat
    BY <1>3, <2>1
  <2> QED BY <1>1, <1>2, <2>1, <2>2 DEF CountersOK
<1>6. ASSUME NEW c \in Counted
      PROVE  loss'[c] <= packets'[c] * Len(order')
  <2>1. loss[c] \in Nat /\ packets[c] \in Nat /\ loss[c] <= packets[c] * Len(order)
    BY DEF StatInv, CountersOK, LossIsRatio
  <2>2. k <= Len(order')
    BY <1>3, <1>4
  <2>3. CASE c = b
    <3>1. loss'[c] = loss[c] + k /\ packets'[c] = packets[c] + 1
      BY <1>2, <2>3 DEF StatInv, CountersOK
    <3> QED BY <1>3, <1>4, <2>1, <2>2, <3>1, OneMorePacket
  <2>4. CASE c # b
    <3>1. loss'[c] = loss[c] /\ packets'[c] = packets[c]
      BY <1>2, <2>4 DEF StatInv, CountersOK
    <3>2. packets[c] * Len(order) <= packets[c] * Len(order')
      <4>1. Len(order') - Len(order) \in Nat
        BY <1>4
      <4>2. packets[c] * (Len(order') - Len(order)) \in Nat
        BY <2>1, <4>1
      <4>3. packets[c] * Len(order') = packets[c] * Len(order) + packets[c] * (Len(order') - Len(order))
        BY <1>4, <2>1
      <4> QED BY <1>4, <2>1, <4>2, <4>3
    <3>3. packets[c] * Len(order) \in Nat /\ packets[c] * Len(order') \in Nat
      BY <1>4, <2>1
    <3> QED BY <2>1, <3>1, <3>2, <3>3
  <2> QED BY <2>3, <2>4
<1> QED BY <1>4, <1>5, <1>6 DEF LossIsRatio

LEMMA NextRatio == StatInv /\ [NextCounted]_allVars => StatInv'
<1> SUFFICES ASSUME StatInv, [NextCounted]_allVars PROVE StatInv'
  OBVIOUS
<1>1. TypeOK'
  BY CountedIsNext, NextType DEF StatInv
<1>2. CASE \E F \in SUBSET Faces, level \in PrLevels, size \in Sizes :
             \/ \E suppressed \in BOOLEAN :
                  ReceiveInterestCounted(F, level, size, suppressed)
             \/ ReceiveDataCounted(F, level, size)
  <2>1. PICK F \in SUBSET Faces, level \in PrLevels, size \in Sizes :
          EnqueueAt(F, level, size) /\ Count(F, ClassOf(level))
    BY <1>2 DEF ReceiveInterestCounted, ReceiveDataCounted, ReceiveInterest, ReceiveData
  <2> QED BY <1>1, <2>1, CountKeepsRatio DEF StatInv
<1>3. CASE UNCHANGED <<order, packets, loss>>
  BY <1>1, <1>3 DEF StatInv, WalkExact, Keys, CountersOK, LossIsRatio
<1>4. CASE \E b \in Classes : SendOneCounted(b)
  BY <1>3, <1>4 DEF SendOneCounted, SendOne
<1>5. CASE /\ (\E b \in Classes : UpdateBucket(b)) \/ AdvanceClock
                \/ TokenWait \/ NextFace \/ EndPass
           /\ UNCHANGED counterVars
  <2>1. UNCHANGED order
    BY <1>5 DEF UpdateBucket, AdvanceClock, TokenWait, NextFace, EndPass, queueVars
  <2> QED BY <1>3, <1>5, <2>1 DEF counterVars
<1>6. CASE EveryNSeconds
  <2>1. packets' = NoCount /\ loss' = NoCount /\ UNCHANGED order
    BY <1>6 DEF EveryNSeconds, ResetCounters, vars
  <2>2. CountersOK' /\ WalkExact'
    BY <2>1 DEF StatInv, CountersOK, NoCount, WalkExact, Keys
  <2>3. Len(order') \in Nat
    BY <1>1 DEF TypeOK
  <2>4. LossIsRatio'
    BY <2>1, <2>3 DEF LossIsRatio, NoCount
  <2> QED BY <1>1, <2>2, <2>4 DEF StatInv
<1>7. CASE UNCHANGED allVars
  BY <1>3, <1>7 DEF allVars, vars, counterVars
<1> QED BY <1>2, <1>4, <1>5, <1>6, <1>7 DEF NextCounted

\* The loss ratios of a reward are never more than one, whatever was queued,
\* dropped or reset, and however many faces the node gained in that second
\* (everyNSeconds divides by m_tx_queue.size() and by the packet counters).
THEOREM LossAtMostOne == SpecCounted => []LossIsRatio
<1>1. InitCounted => StatInv
  <2> SUFFICES ASSUME InitCounted PROVE StatInv
    OBVIOUS
  <2>1. TypeOK
    BY InitType DEF InitCounted
  <2>2. order = <<>> /\ Len(order) = 0 /\ Keys = {}
    BY DEF InitCounted, Init, Keys
  <2>3. WalkExact
    BY <2>2, FS_EmptySet DEF WalkExact
  <2> QED BY <2>1, <2>2, <2>3 DEF StatInv, InitCounted, CountersOK, NoCount, LossIsRatio
<1>2. StatInv => LossIsRatio
  BY DEF StatInv
<1> QED BY <1>1, <1>2, NextRatio, PTL DEF SpecCounted
=============================================================================
