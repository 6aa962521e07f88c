------------------------ MODULE QosScheduler_proofs ------------------------
(***************************************************************************)
(* Proofs about QosScheduler, for every set of faces, queue size, capacity *)
(* and bound: its types, the accounting of its tokens and the rate limit   *)
(* that follows, the freshness of m_need, and that it implements           *)
(* ShapedLinks; how far prioritySend gets, that it returns, and that a     *)
(* refill lets a class with packets send.                                  *)
(***************************************************************************)
EXTENDS QosScheduler, FiniteSetTheorems, TLAPS

-----------------------------------------------------------------------------
(* Lemmas about the operators. *)

\* A walk over some of the faces is a sequence of faces.
LEMMA OrdersAreWalks ==
  ASSUME NEW S \in SUBSET Faces, NEW s \in Orders(S)
  PROVE  s \in Seq(Faces)
<1>1. IsFiniteSet(S)
  BY ParamAssumption, FS_Subset
<1>2. Cardinality(S) \in Nat
  BY <1>1, FS_CardinalityType
<1>3. s \in [1 .. Cardinality(S) -> S]
  BY DEF Orders
<1>4. Len(s) = Cardinality(S) /\ s \in Seq(S)
  BY <1>2, <1>3
<1> QED BY <1>4

\* A virtual finish time is a natural number.
LEMMA VirtualFinishType ==
  ASSUME TypeOK, NEW f \in Faces, NEW b \in Classes, NEW size \in Sizes
  PROVE  VirtualFinish(f, b, size) \in Nat
<1>1. size \in Nat /\ lvft[f][b] \in Nat /\ now \in Nat
  BY ParamAssumption DEF TypeOK
<1>2. 6 - Weight(b) \in Nat
  BY DEF Weight, Classes
<1>3. size * (6 - Weight(b)) \in Nat
  BY <1>1, <1>2
<1>4. (size * (6 - Weight(b))) \div 6 \in Nat
  BY <1>3
<1>5. Later(now, lvft[f][b]) \in Nat
  BY <1>1 DEF Later
<1> QED BY <1>4, <1>5 DEF VirtualFinish

\* Both levels a packet can have name a class.
LEMMA ClassOfType ==
  ASSUME NEW level \in PrLevels
  PROVE  ClassOf(level) \in Classes
<1>1. CASE level = 1
  <2>1. 0 \in Classes /\ 1 \in 1 .. 20
    BY DEF Classes
  <2> QED BY <1>1, <2>1 DEF ClassOf
<1>2. CASE level = 21
  <2>1. 1 \in Classes /\ 21 \in 21 .. 40
    BY DEF Classes
  <2> QED BY <1>2, <2>1 DEF ClassOf
<1> QED BY <1>1, <1>2 DEF PrLevels

\* Putting a key into a partial map.
LEMMA WithIsPartialMap ==
  ASSUME NEW T, NEW m, IsPartialMap(m, T), NEW f \in Faces, NEW v \in T
  PROVE  IsPartialMap(With(m, f, v), T)
BY DEF IsPartialMap, With

-----------------------------------------------------------------------------
(* Types. *)

LEMMA EnqueueAtType ==
  ASSUME TypeOK, NEW F \in SUBSET Faces, NEW level \in PrLevels,
         NEW size \in Sizes, arrivals < MaxArrivals, EnqueueAt(F, level, size)
  PROVE  /\ queues' \in [Faces -> [Classes -> Seq(Nat)]]
         /\ \A f \in Faces, b \in Classes : Len(queues'[f][b]) <= QueueSize
         /\ lvft' \in [Faces -> [Classes -> Nat]]
         /\ order' \in Seq(Faces)
         /\ arrivals' \in 0 .. MaxArrivals
<1> DEFINE b == ClassOf(level)
           Joined == {f \in F : HasRoom(f, b)}
<1>1. b \in Classes
  BY ClassOfType
<1>2. \A f \in Faces : VirtualFinish(f, b, size) \in Nat
  BY <1>1, VirtualFinishType
<1> HIDE DEF b
<1>3. queues' = [f \in Faces |-> IF f \in Joined
             THEN [queues[f] EXCEPT ![b] = Append(@, VirtualFinish(f, b, size))]
             ELSE queues[f]]
  BY DEF EnqueueAt, b
<1>4. lvft' = [f \in Faces |-> IF f \in Joined
             THEN [lvft[f] EXCEPT ![b] = VirtualFinish(f, b, size)]
             ELSE lvft[f]]
  BY DEF EnqueueAt, b
<1>5. \A f \in Faces : queues[f] \in [Classes -> Seq(Nat)]
  BY DEF TypeOK
<1>6. queues' \in [Faces -> [Classes -> Seq(Nat)]]
  <2>1. ASSUME NEW f \in Faces
        PROVE  [queues[f] EXCEPT ![b] = Append(@, VirtualFinish(f, b, size))]
                 \in [Classes -> Seq(Nat)]
    BY <1>1, <1>2, <1>5
  <2> QED BY <1>3, <1>5, <2>1
<1>7. ASSUME NEW f \in Faces, NEW c \in Classes
      PROVE  Len(queues'[f][c]) <= QueueSize
  <2>1. Len(queues[f][c]) <= QueueSize /\ queues[f][c] \in Seq(Nat)
    BY DEF TypeOK
  <2>2. CASE f \in Joined /\ c = b
    <3>1. Len(queues[f][c]) < QueueSize
      BY <2>2 DEF HasRoom
    <3>2. queues'[f][c] = Append(queues[f][c], VirtualFinish(f, b, size))
      BY <1>3, <1>5, <2>2
    <3> QED BY <1>2, <2>1, <3>1, <3>2, ParamAssumption
  <2>3. CASE ~(f \in Joined /\ c = b)
    BY <1>3, <1>5, <2>1, <2>3
  <2> QED BY <2>2, <2>3
<1>8. lvft' \in [Faces -> [Classes -> Nat]]
  BY <1>1, <1>2, <1>4 DEF TypeOK
<1>9. order' \in Seq(Faces)
  <2>1. order \in Seq(Faces) /\ Keys \subseteq Faces
    BY DEF TypeOK, Keys
  <2>2. order' = order \/ order' \in Orders(Keys \cup F)
    BY DEF EnqueueAt
  <2>3. Keys \cup F \in SUBSET Faces
    BY <2>1
  <2> QED BY <2>1, <2>2, <2>3, OrdersAreWalks
<1>10. arrivals' \in 0 .. MaxArrivals
  BY ParamAssumption DEF EnqueueAt, TypeOK
<1> QED BY <1>6, <1>7, <1>8, <1>9, <1>10

LEMMA ReceiveInterestType ==
  ASSUME TypeOK, NEW F \in SUBSET Faces, NEW level \in PrLevels,
         NEW size \in Sizes, NEW suppressed \in BOOLEAN,
         ReceiveInterest(F, level, size, suppressed)
  PROVE  TypeOK'
<1>1. /\ queues' \in [Faces -> [Classes -> Seq(Nat)]]
      /\ \A f \in Faces, b \in Classes : Len(queues'[f][b]) <= QueueSize
      /\ lvft' \in [Faces -> [Classes -> Nat]]
      /\ order' \in Seq(Faces)
      /\ arrivals' \in 0 .. MaxArrivals
  BY EnqueueAtType DEF ReceiveInterest
<1>2. pc' \in {"idle", "pass"} /\ rest' \in Seq(Faces) /\ tokenwait' \in BOOLEAN
  BY <1>1 DEF ReceiveInterest, StartPass, TypeOK
<1>3. UNCHANGED <<now, tokens, need, capacity, sent, credits>>
  BY DEF ReceiveInterest, bucketVars
<1> QED BY <1>1, <1>2, <1>3 DEF TypeOK, IsPartialMap

LEMMA ReceiveDataType ==
  ASSUME TypeOK, NEW F \in SUBSET Faces, NEW level \in PrLevels,
         NEW size \in Sizes, ReceiveData(F, level, size)
  PROVE  TypeOK'
<1>1. /\ queues' \in [Faces -> [Classes -> Seq(Nat)]]
      /\ \A f \in Faces, b \in Classes : Len(queues'[f][b]) <= QueueSize
      /\ lvft' \in [Faces -> [Classes -> Nat]]
      /\ order' \in Seq(Faces)
      /\ arrivals' \in 0 .. MaxArrivals
  BY EnqueueAtType DEF ReceiveData
<1>2. pc' \in {"idle", "pass"} /\ rest' \in Seq(Faces) /\ tokenwait' \in BOOLEAN
  BY <1>1 DEF ReceiveData, StartPass
<1>3. UNCHANGED <<now, tokens, need, capacity, sent, credits>>
  BY DEF ReceiveData, bucketVars
<1> QED BY <1>1, <1>2, <1>3 DEF TypeOK, IsPartialMap

\* addToken keeps the keys of m_tokens, the other buckets and every count.
LEMMA AddTokenType ==
  ASSUME TypeOK, NEW b \in Classes, AddToken(b)
  PROVE  /\ DOMAIN tokens' = Classes
         /\ \A c \in Classes : IsPartialMap(tokens'[c], Nat)
         /\ DOMAIN need' = Classes
         /\ \A c \in Classes : IsPartialMap(need'[c], {0, 1})
         /\ credits' \in [Faces -> [Classes -> Nat]]
<1>1. DOMAIN tokens' = Classes /\ DOMAIN need' = Classes
  BY DEF AddToken, TypeOK
<1>2. ASSUME NEW c \in Classes
      PROVE  IsPartialMap(tokens'[c], Nat)
  BY DEF AddToken, TypeOK, IsPartialMap
<1>3. ASSUME NEW c \in Classes
      PROVE  IsPartialMap(need'[c], {0, 1})
  BY DEF AddToken, TypeOK, IsPartialMap
<1>4. credits' \in [Faces -> [Classes -> Nat]]
  BY DEF AddToken, TypeOK
<1> QED BY <1>1, <1>2, <1>3, <1>4

LEMMA UpdateBucketType ==
  ASSUME TypeOK, NEW b \in Classes, UpdateBucket(b)
  PROVE  TypeOK'
<1>1. capacity' \in [Classes -> Nat]
  BY ParamAssumption DEF UpdateBucket, TypeOK
<1>2. pc' \in {"idle", "pass"} /\ rest' \in Seq(Faces) /\ tokenwait' \in BOOLEAN
  BY DEF UpdateBucket, StartPass, TypeOK
<1>3. UNCHANGED <<now, queues, lvft, order, arrivals, sent>>
  BY DEF UpdateBucket, queueVars
<1>4. AddToken(b)
  BY DEF UpdateBucket
<1> QED BY <1>1, <1>2, <1>3, <1>4, AddTokenType DEF TypeOK

\* A packet that can be sent is there, and its bucket has two tokens for it.
LEMMA SelectedIsReady ==
  ASSUME NEW f \in Faces, NEW b \in Classes, Selected(f, b)
  PROVE  queues[f][b] # <<>> /\ TokensOf(b, f) > 1
BY DEF Selected, Eligible

LEMMA HeadOfRest ==
  ASSUME TypeOK, rest # <<>>
  PROVE  Head(rest) \in Faces /\ Tail(rest) \in Seq(Faces)
BY DEF TypeOK

LEMMA SendOneType ==
  ASSUME TypeOK, NEW b \in Classes, SendOne(b)
  PROVE  TypeOK'
<1> DEFINE f == Head(rest)
<1>1. f \in Faces
  BY HeadOfRest DEF SendOne, InFaceLoop
<1>2. queues[f][b] # <<>> /\ TokensOf(b, f) > 1
  BY <1>1, SelectedIsReady DEF SendOne
<1>3. tokens' = [tokens EXCEPT ![b] = With(@, f, TokensOf(b, f) - 1)]
  BY DEF SendOne, ConsumeToken
<1>4. need' = [need EXCEPT ![b] = With(@, f, 0)]
  BY DEF SendOne, ClearNeed
<1>5. queues' = [queues EXCEPT ![f][b] = Tail(@)]
  BY DEF SendOne, DoDequeue
<1>6. sent' = [sent EXCEPT ![f][b] = @ + 1]
  BY DEF SendOne
<1>7. UNCHANGED <<now, lvft, order, capacity, pc, rest, tokenwait, arrivals,
                  credits>>
  BY DEF SendOne
<1> HIDE DEF f
<1>8. TokensOf(b, f) \in Nat
  BY <1>1 DEF TokensOf, TypeOK, IsPartialMap
<1>9. TokensOf(b, f) - 1 \in Nat
  BY <1>2, <1>8
<1>10. /\ DOMAIN tokens' = Classes
       /\ \A c \in Classes : IsPartialMap(tokens'[c], Nat)
  BY <1>1, <1>3, <1>9, WithIsPartialMap DEF TypeOK
<1>11. /\ DOMAIN need' = Classes
       /\ \A c \in Classes : IsPartialMap(need'[c], {0, 1})
  BY <1>1, <1>4, WithIsPartialMap DEF TypeOK
<1>12. Tail(queues[f][b]) \in Seq(Nat) /\ Len(Tail(queues[f][b])) <= QueueSize
  <2>1. queues[f][b] \in Seq(Nat) /\ Len(queues[f][b]) <= QueueSize
    BY <1>1 DEF TypeOK
  <2> QED BY <1>2, <2>1, ParamAssumption
<1>13. queues' \in [Faces -> [Classes -> Seq(Nat)]]
  BY <1>1, <1>5, <1>12 DEF TypeOK
<1>14. \A g \in Faces, c \in Classes : Len(queues'[g][c]) <= QueueSize
  BY <1>1, <1>5, <1>12 DEF TypeOK
<1>15. sent' \in [Faces -> [Classes -> Nat]]
  BY <1>1, <1>6 DEF TypeOK
<1> QED BY <1>7, <1>10, <1>11, <1>13, <1>14, <1>15 DEF TypeOK

LEMMA TokenWaitType ==
  ASSUME TypeOK, TokenWait
  PROVE  TypeOK'
<1>1. Head(rest) \in Faces
  BY HeadOfRest DEF TokenWait, InFaceLoop
<1>2. need' = [b \in Classes |->
          With(need[b], Head(rest), TokenReq(Head(rest), b))]
  BY DEF TokenWait
<1>3. \A b \in Classes : IsPartialMap(need'[b], {0, 1})
  BY <1>1, <1>2, WithIsPartialMap DEF TypeOK, TokenReq
<1>4. DOMAIN need' = Classes
  BY <1>2
<1>5. tokenwait' \in BOOLEAN
  BY DEF TokenWait
<1>6. UNCHANGED <<now, queues, lvft, order, arrivals, tokens, capacity, pc,
                  rest, sent, credits>>
  BY DEF TokenWait, queueVars
<1> QED BY <1>3, <1>4, <1>5, <1>6 DEF TypeOK

\* The type invariant holds initially.
LEMMA InitType == Init => TypeOK
<1> SUFFICES ASSUME Init PROVE TypeOK
  OBVIOUS
<1>1. now \in 0 .. MaxNow /\ arrivals \in 0 .. MaxArrivals
  BY ParamAssumption DEF Init
<1>2. queues \in [Faces -> [Classes -> Seq(Nat)]]
  BY DEF Init
<1>3. \A f \in Faces, b \in Classes : Len(queues[f][b]) <= QueueSize
  BY ParamAssumption DEF Init
<1>4. /\ DOMAIN tokens = Classes /\ \A b \in Classes : IsPartialMap(tokens[b], Nat)
      /\ DOMAIN need = Classes /\ \A b \in Classes : IsPartialMap(need[b], {0, 1})
  BY DEF Init, IsPartialMap
<1>5. order \in Seq(Faces) /\ rest \in Seq(Faces)
  BY DEF Init
<1> QED BY <1>1, <1>2, <1>3, <1>4, <1>5 DEF Init, TypeOK

\* Every step keeps the types.
LEMMA NextType == TypeOK /\ [Next]_vars => TypeOK'
<1> SUFFICES ASSUME TypeOK, [Next]_vars PROVE TypeOK'
  OBVIOUS
<1>1. CASE \E F \in SUBSET Faces, level \in PrLevels, size \in Sizes :
             \E suppressed \in BOOLEAN :
               ReceiveInterest(F, level, size, suppressed)
  BY <1>1, ReceiveInterestType
<1>2. CASE \E F \in SUBSET Faces, level \in PrLevels, size \in Sizes :
             ReceiveData(F, level, size)
  BY <1>2, ReceiveDataType
<1>3. CASE \E b \in Classes : UpdateBucket(b)
  BY <1>3, UpdateBucketType
<1>4. CASE AdvanceClock
  <2>1. now' \in 0 .. MaxNow
    BY <1>4, ParamAssumption DEF AdvanceClock, TypeOK
  <2> QED BY <1>4, <2>1 DEF AdvanceClock, TypeOK, IsPartialMap
<1>5. CASE \E b \in Classes : SendOne(b)
  BY <1>5, SendOneType
<1>6. CASE TokenWait
  BY <1>6, TokenWaitType
<1>7. CASE NextFace
  <2>1. rest' \in Seq(Faces)
    BY <1>7, HeadOfRest DEF NextFace, InFaceLoop
  <2> QED BY <1>7, <2>1 DEF NextFace, queueVars, bucketVars, TypeOK, IsPartialMap
<1>8. CASE EndPass
  BY <1>8 DEF EndPass, queueVars, bucketVars, TypeOK, IsPartialMap
<1>9. CASE UNCHANGED vars
  BY <1>9 DEF vars, TypeOK, IsPartialMap
<1> QED BY <1>1, <1>2, <1>3, <1>4, <1>5, <1>6, <1>7, <1>8, <1>9 DEF Next, PassStep

\* Every reachable state is well typed; in particular no QosQueue ever holds
\* more than QUEUE_SIZE packets (QosQueue::Enqueue).
THEOREM TypeCorrect == Spec => []TypeOK
<1> QED BY InitType, NextType, PTL DEF Spec

-----------------------------------------------------------------------------
(* Tokens and the rate limit. *)

\* The strengthening: a bucket's capacity is 0 until its driver first runs and
\* the configured one after, and a face a bucket has no entry for has neither
\* sent nor gained anything there.
TokenInv ==
  /\ TypeOK
  /\ \A b \in Classes : capacity[b] \in {0, Capacity[b]}
  /\ TokensAccounted
  /\ \A b \in Classes, f \in Faces : f \notin DOMAIN tokens[b] =>
        sent[f][b] = 0 /\ credits[f][b] = 0

\* The tokens a sender finds for a face it may send on are those of the entry
\* that consumeToken leaves behind, plus one.
LEMMA SpendableTokens ==
  ASSUME TokenInv, NEW f \in Faces, NEW b \in Classes, TokensOf(b, f) > 1
  PROVE  /\ TokensOf(b, f) - 1 \in 1 .. Capacity[b]
         /\ TokensOf(b, f) = Capacity[b] + credits[f][b] - sent[f][b]
<1>1. /\ Capacity[b] \in Nat /\ credits[f][b] \in Nat /\ sent[f][b] \in Nat
      /\ capacity[b] \in {0, Capacity[b]}
  BY ParamAssumption DEF TokenInv, TypeOK
<1>2. CASE f \in DOMAIN tokens[b]
  <2>1. /\ tokens[b][f] \in 1 .. Capacity[b]
        /\ tokens[b][f] = Capacity[b] + credits[f][b] - sent[f][b]
    BY <1>2 DEF TokenInv, TokensAccounted
  <2> QED BY <1>1, <1>2, <2>1 DEF TokensOf
<1>3. CASE f \notin DOMAIN tokens[b]
  <2>1. sent[f][b] = 0 /\ credits[f][b] = 0
    BY <1>3 DEF TokenInv
  <2>2. TokensOf(b, f) = capacity[b]
    BY <1>3 DEF TokensOf
  <2> QED BY <1>1, <2>1, <2>2
<1> QED BY <1>2, <1>3

LEMMA InitTokens == Init => TokenInv
<1> SUFFICES ASSUME Init PROVE TokenInv
  OBVIOUS
<1>1. \A b \in Classes : DOMAIN tokens[b] = {}
  BY DEF Init
<1>2. TokensAccounted
  BY <1>1 DEF TokensAccounted
<1> QED BY <1>2, InitType DEF Init, TokenInv

LEMMA SendOneTokens ==
  ASSUME TokenInv, NEW b \in Classes, SendOne(b)
  PROVE  TokenInv'
<1> DEFINE f == Head(rest)
<1>1. f \in Faces
  BY HeadOfRest DEF SendOne, InFaceLoop, TokenInv
<1>2. TokensOf(b, f) > 1
  BY <1>1, SelectedIsReady DEF SendOne
<1>3. /\ tokens' = [tokens EXCEPT ![b] = With(@, f, TokensOf(b, f) - 1)]
      /\ sent' = [sent EXCEPT ![f][b] = @ + 1]
      /\ UNCHANGED <<capacity, credits>>
  BY DEF SendOne, ConsumeToken
<1> HIDE DEF f
<1>4. /\ TokensOf(b, f) - 1 \in 1 .. Capacity[b]
      /\ TokensOf(b, f) = Capacity[b] + credits[f][b] - sent[f][b]
  BY <1>1, <1>2, SpendableTokens
<1>5. TypeOK'
  BY SendOneType DEF TokenInv
<1>6. ASSUME NEW c \in Classes, NEW g \in DOMAIN tokens'[c]
      PROVE  /\ tokens'[c][g] \in 1 .. Capacity[c]
             /\ tokens'[c][g] = Capacity[c] + credits'[g][c] - sent'[g][c]
  <2>1. g \in Faces
    BY <1>5 DEF TypeOK, IsPartialMap
  <2>2. CASE c = b /\ g = f
    <3>1. tokens'[c][g] = TokensOf(b, f) - 1
      BY <1>3, <2>2 DEF With, TokenInv, TypeOK
    <3>2. sent'[g][c] = sent[f][b] + 1 /\ credits'[g][c] = credits[f][b]
      BY <1>1, <1>3, <2>2 DEF TokenInv, TypeOK
    <3>3. Capacity[b] \in Nat /\ credits[f][b] \in Nat /\ sent[f][b] \in Nat
      BY <1>1, ParamAssumption DEF TokenInv, TypeOK
    <3> QED BY <1>4, <2>2, <3>1, <3>2, <3>3
  <2>3. CASE ~(c = b /\ g = f)
    <3>1. g \in DOMAIN tokens[c] /\ tokens'[c][g] = tokens[c][g]
      BY <1>3, <2>3 DEF With, TokenInv, TypeOK
    <3>2. sent'[g][c] = sent[g][c] /\ credits'[g][c] = credits[g][c]
      BY <1>1, <1>3, <2>1, <2>3 DEF TokenInv, TypeOK
    <3> QED BY <3>1, <3>2 DEF TokenInv, TokensAccounted
  <2> QED BY <2>2, <2>3
<1>7. ASSUME NEW c \in Classes, NEW g \in Faces, g \notin DOMAIN tokens'[c]
      PROVE  sent'[g][c] = 0 /\ credits'[g][c] = 0
  <2>1. g \notin DOMAIN tokens[c] /\ ~(c = b /\ g = f)
    BY <1>3, <1>7 DEF With, TokenInv, TypeOK
  <2>2. sent'[g][c] = sent[g][c] /\ credits'[g][c] = credits[g][c]
    BY <1>1, <1>3, <2>1 DEF TokenInv, TypeOK
  <2> QED BY <2>1, <2>2 DEF TokenInv
<1>8. \A c \in Classes : capacity'[c] \in {0, Capacity[c]}
  BY <1>3 DEF TokenInv
<1> QED BY <1>5, <1>6, <1>7, <1>8 DEF TokenInv, TokensAccounted

LEMMA UpdateBucketTokens ==
  ASSUME TokenInv, NEW b \in Classes, UpdateBucket(b)
  PROVE  TokenInv'
<1>1. /\ tokens' = [tokens EXCEPT ![b] = [f \in DOMAIN tokens[b] |->
            IF Gains(b, f) THEN tokens[b][f] + 1 ELSE tokens[b][f]]]
      /\ credits' = [f \in Faces |-> [credits[f] EXCEPT ![b] =
            IF Gains(b, f) THEN @ + 1 ELSE @]]
      /\ capacity' = [capacity EXCEPT ![b] = Capacity[b]]
      /\ UNCHANGED sent
  BY DEF UpdateBucket, AddToken
<1>2. TypeOK'
  BY UpdateBucketType DEF TokenInv
<1>3. \A c \in Classes : DOMAIN tokens'[c] = DOMAIN tokens[c]
  BY <1>1 DEF TokenInv, TypeOK
<1>4. ASSUME NEW c \in Classes, NEW g \in DOMAIN tokens[c]
      PROVE  /\ tokens'[c][g] \in 1 .. Capacity[c]
             /\ tokens'[c][g] = Capacity[c] + credits'[g][c] - sent'[g][c]
  <2>1. g \in Faces
    BY DEF TokenInv, TypeOK, IsPartialMap
  <2>2. /\ tokens[c][g] \in 1 .. Capacity[c]
        /\ tokens[c][g] = Capacity[c] + credits[g][c] - sent[g][c]
    BY DEF TokenInv, TokensAccounted
  <2>3. Capacity[c] \in Nat /\ credits[g][c] \in Nat /\ sent[g][c] \in Nat
    BY <2>1, ParamAssumption DEF TokenInv, TypeOK
  <2>4. CASE c = b /\ Gains(b, g)
    <3>1. tokens[c][g] < Capacity[c]
      BY <2>4 DEF Gains
    <3>2. tokens'[c][g] = tokens[c][g] + 1
      BY <1>1, <2>4 DEF TokenInv, TypeOK
    <3>3. credits'[g][c] = credits[g][c] + 1 /\ sent'[g][c] = sent[g][c]
      BY <1>1, <2>1, <2>4 DEF TokenInv, TypeOK
    <3> QED BY <2>2, <2>3, <3>1, <3>2, <3>3
  <2>5. CASE ~(c = b /\ Gains(b, g))
    <3>1. tokens'[c][g] = tokens[c][g]
      BY <1>1, <2>5 DEF TokenInv, TypeOK
    <3>2. credits'[g][c] = credits[g][c] /\ sent'[g][c] = sent[g][c]
      BY <1>1, <2>1, <2>5 DEF TokenInv, TypeOK
    <3> QED BY <2>2, <3>1, <3>2
  <2> QED BY <2>4, <2>5
<1>5. ASSUME NEW c \in Classes, NEW g \in Faces, g \notin DOMAIN tokens[c]
      PROVE  sent'[g][c] = 0 /\ credits'[g][c] = 0
  <2>1. ~Gains(c, g)
    BY <1>5 DEF Gains
  <2>2. sent'[g][c] = sent[g][c] /\ credits'[g][c] = credits[g][c]
    BY <1>1, <2>1 DEF TokenInv, TypeOK
  <2> QED BY <1>5, <2>2 DEF TokenInv
<1>6. \A c \in Classes : capacity'[c] \in {0, Capacity[c]}
  BY <1>1 DEF TokenInv, TypeOK
<1> QED BY <1>2, <1>3, <1>4, <1>5, <1>6 DEF TokenInv, TokensAccounted

\* Only sending and refilling touch tokens.
LEMMA NextTokens == TokenInv /\ [Next]_vars => TokenInv'
<1> SUFFICES ASSUME TokenInv, [Next]_vars PROVE TokenInv'
  OBVIOUS
<1>1. TypeOK'
  BY NextType DEF TokenInv
<1>2. CASE UNCHANGED <<tokens, capacity, sent, credits>>
  BY <1>1, <1>2 DEF TokenInv, TokensAccounted
<1>3. CASE \E b \in Classes : UpdateBucket(b)
  BY <1>3, UpdateBucketTokens
<1>4. CASE \E b \in Classes : SendOne(b)
  BY <1>4, SendOneTokens
<1>5. CASE \E F \in SUBSET Faces, level \in PrLevels, size \in Sizes :
             \/ \E suppressed \in BOOLEAN :
                  ReceiveInterest(F, level, size, suppressed)
             \/ ReceiveData(F, level, size)
  BY <1>2, <1>5 DEF ReceiveInterest, ReceiveData, bucketVars
<1>6. CASE AdvanceClock \/ TokenWait \/ NextFace \/ EndPass \/ UNCHANGED vars
  BY <1>2, <1>6 DEF AdvanceClock, TokenWait, NextFace, EndPass, bucketVars, vars
<1> QED BY <1>3, <1>4, <1>5, <1>6 DEF Next, PassStep

LEMMA TokenInvariant == Spec => []TokenInv
<1> QED BY InitTokens, NextTokens, PTL DEF Spec

\* The entry of a face in a bucket stays between one token and the capacity
\* and accounts for everything spent and gained (consumeToken, addToken).
THEOREM TokensAreAccounted == Spec => []TokensAccounted
<1>1. TokenInv => TokensAccounted
  BY DEF TokenInv
<1> QED BY <1>1, TokenInvariant, PTL

\* A class never sends more on a face than its burst less one packet plus the
\* tokens the driver added for it.
THEOREM RateLimit == Spec => []Conforms
<1>1. ASSUME TokenInv
      PROVE  Conforms
  <2> SUFFICES ASSUME NEW f \in Faces, NEW b \in Classes, sent[f][b] > 0
               PROVE  sent[f][b] <= Capacity[b] - 1 + credits[f][b]
    BY DEF Conforms
  <2>1. Capacity[b] \in Nat /\ credits[f][b] \in Nat /\ sent[f][b] \in Nat
    BY <1>1, ParamAssumption DEF TokenInv, TypeOK
  <2>2. f \in DOMAIN tokens[b]
    BY <1>1, <2>1 DEF TokenInv
  <2>3. /\ tokens[b][f] \in 1 .. Capacity[b]
        /\ tokens[b][f] = Capacity[b] + credits[f][b] - sent[f][b]
    BY <1>1, <2>2 DEF TokenInv, TokensAccounted
  <2> QED BY <2>1, <2>3
<1> QED BY <1>1, TokenInvariant, PTL

-----------------------------------------------------------------------------
(* m_need. *)

\* Enqueueing only makes queues longer.
LEMMA EnqueueKeepsPackets ==
  ASSUME TypeOK, NEW F \in SUBSET Faces, NEW level \in PrLevels,
         NEW size \in Sizes, EnqueueAt(F, level, size),
         NEW f \in Faces, NEW b \in Classes, queues[f][b] # <<>>
  PROVE  queues'[f][b] # <<>>
<1>1. queues[f] \in [Classes -> Seq(Nat)] /\ ClassOf(level) \in Classes
  BY ClassOfType DEF TypeOK
<1>2. VirtualFinish(f, ClassOf(level), size) \in Nat
  BY <1>1, VirtualFinishType
<1>3. \/ queues'[f][b] = queues[f][b]
      \/ queues'[f][b] = Append(queues[f][b], VirtualFinish(f, b, size))
           /\ b = ClassOf(level)
  BY <1>1 DEF EnqueueAt
<1>4. queues[f][b] \in Seq(Nat)
  BY <1>1
<1> QED BY <1>2, <1>3, <1>4

LEMMA NextNeed == TypeOK /\ NeedIsCurrent /\ [Next]_vars => NeedIsCurrent'
<1> SUFFICES ASSUME TypeOK, NeedIsCurrent, [Next]_vars,
                    NEW b \in Classes, NEW f \in DOMAIN need'[b],
                    need'[b][f] = 1
             PROVE  queues'[f][b] # <<>>
  BY DEF NeedIsCurrent
<1>1. TypeOK'
  BY NextType
<1>2. f \in Faces
  BY <1>1 DEF TypeOK, IsPartialMap
<1>3. CASE \E F \in SUBSET Faces, level \in PrLevels, size \in Sizes :
             \/ \E suppressed \in BOOLEAN :
                  ReceiveInterest(F, level, size, suppressed)
             \/ ReceiveData(F, level, size)
  <2>1. PICK F \in SUBSET Faces, level \in PrLevels, size \in Sizes :
               EnqueueAt(F, level, size) /\ UNCHANGED need
    BY <1>3 DEF ReceiveInterest, ReceiveData, bucketVars
  <2>2. queues[f][b] # <<>>
    BY <2>1 DEF NeedIsCurrent
  <2> QED BY <1>2, <2>1, <2>2, EnqueueKeepsPackets
<1>4. CASE \E c \in Classes : UpdateBucket(c)
  <2>1. PICK c \in Classes : UpdateBucket(c)
    BY <1>4
  <2>2. UNCHANGED queues
    BY <2>1 DEF UpdateBucket, queueVars
  <2>3. f \in DOMAIN need[b] /\ need[b][f] = 1
    BY <2>1 DEF UpdateBucket, AddToken, TypeOK
  <2> QED BY <2>2, <2>3 DEF NeedIsCurrent
<1>5. CASE \E c \in Classes : SendOne(c)
  <2>1. PICK c \in Classes : SendOne(c)
    BY <1>5
  <2> DEFINE g == Head(rest)
  <2>2. g \in Faces
    BY <2>1, HeadOfRest DEF SendOne, InFaceLoop
  <2>3. /\ need' = [need EXCEPT ![c] = With(@, g, 0)]
        /\ queues' = [queues EXCEPT ![g][c] = Tail(@)]
    BY <2>1 DEF SendOne, ClearNeed, DoDequeue
  <2> HIDE DEF g
  <2>4. ~(b = c /\ f = g)
    BY <2>3 DEF With, TypeOK
  <2>5. f \in DOMAIN need[b] /\ need[b][f] = 1
    BY <2>3, <2>4 DEF With, TypeOK
  <2>6. queues'[f][b] = queues[f][b]
    BY <1>2, <2>2, <2>3, <2>4 DEF TypeOK
  <2> QED BY <2>5, <2>6 DEF NeedIsCurrent
<1>6. CASE TokenWait
  <2>1. need' = [c \in Classes |-> With(need[c], Head(rest), TokenReq(Head(rest), c))]
    BY <1>6 DEF TokenWait
  <2>2. UNCHANGED queues
    BY <1>6 DEF TokenWait, queueVars
  <2>3. CASE f = Head(rest)
    BY <2>1, <2>2, <2>3 DEF With, TokenReq
  <2>4. CASE f # Head(rest)
    <3>1. f \in DOMAIN need[b] /\ need[b][f] = 1
      BY <2>1, <2>4 DEF With
    <3> QED BY <2>2, <3>1 DEF NeedIsCurrent
  <2> QED BY <2>3, <2>4
<1>7. CASE AdvanceClock \/ NextFace \/ EndPass \/ UNCHANGED vars
  <2>1. UNCHANGED <<need, queues>>
    BY <1>7 DEF AdvanceClock, NextFace, EndPass, queueVars, bucketVars, vars
  <2> QED BY <2>1 DEF NeedIsCurrent
<1> QED BY <1>3, <1>4, <1>5, <1>6, <1>7 DEF Next, PassStep

\* A bucket that says a face needs its tokens speaks of packets still queued.
THEOREM NeedIsNeverStale == Spec => []NeedIsCurrent
<1>1. Init => NeedIsCurrent
  BY DEF Init, NeedIsCurrent
<1> QED BY <1>1, NextNeed, TypeCorrect, PTL DEF Spec

-----------------------------------------------------------------------------
(* Refinement. *)

LEMMA EnqueueIsAccept ==
  ASSUME TokenInv, NEW F \in SUBSET Faces, NEW level \in PrLevels,
         NEW size \in Sizes, EnqueueAt(F, level, size), UNCHANGED tokens
  PROVE  Links!Accept(F, ClassOf(level))
<1> DEFINE b == ClassOf(level)
<1>1. b \in Classes
  BY ClassOfType
<1>2. \A f \in Faces : VirtualFinish(f, b, size) \in Nat
  BY <1>1, VirtualFinishType DEF TokenInv
<1>3. queues' = [f \in Faces |-> IF f \in {g \in F : HasRoom(g, b)}
             THEN [queues[f] EXCEPT ![b] = Append(@, VirtualFinish(f, b, size))]
             ELSE queues[f]]
  BY DEF EnqueueAt
<1> HIDE DEF b
<1>4. \A f \in Faces : queues[f] \in [Classes -> Seq(Nat)]
  BY DEF TokenInv, TypeOK
<1>5. queues' = [f \in Faces |-> [c \in Classes |-> queues'[f][c]]]
  <2>1. \A f \in Faces : queues'[f] = [c \in Classes |-> queues'[f][c]]
    BY <1>3, <1>4
  <2> QED BY <1>3, <2>1
<1>6. ASSUME NEW f \in Faces, NEW c \in Classes
      PROVE  IF f \in F /\ c = b /\ Len(queues[f][c]) < QueueSize
             THEN Links!Joins(queues[f][c], queues'[f][c])
             ELSE queues'[f][c] = queues[f][c]
  <2>1. CASE f \in F /\ c = b /\ Len(queues[f][c]) < QueueSize
    <3>1. queues'[f][c] = Append(queues[f][c], VirtualFinish(f, b, size))
      BY <1>3, <1>4, <2>1 DEF HasRoom
    <3>2. queues[f][c] \in Seq(Nat)
      BY <1>4
    <3> QED BY <1>2, <2>1, <3>1, <3>2 DEF Links!Joins
  <2>2. CASE ~(f \in F /\ c = b /\ Len(queues[f][c]) < QueueSize)
    BY <1>3, <1>4, <2>2 DEF HasRoom
  <2> QED BY <2>1, <2>2
<1> QED BY <1>5, <1>6 DEF Links!Accept, b

LEMMA UpdateBucketIsRefill ==
  ASSUME TokenInv, NEW b \in Classes, UpdateBucket(b)
  PROVE  Links!Refill(b)
<1>1. /\ tokens' = [tokens EXCEPT ![b] = [f \in DOMAIN tokens[b] |->
            IF Gains(b, f) THEN tokens[b][f] + 1 ELSE tokens[b][f]]]
      /\ UNCHANGED queues
  BY DEF UpdateBucket, AddToken, queueVars
<1>2. DOMAIN tokens = Classes /\ Capacity[b] \in Nat
  BY ParamAssumption DEF TokenInv, TypeOK
<1>3. ASSUME NEW f \in Faces, NEW c \in Classes
      PROVE  (IF f \in DOMAIN tokens'[c] THEN tokens'[c][f] ELSE Capacity[c]) =
             IF c = b
             THEN IF (IF f \in DOMAIN tokens[c] THEN tokens[c][f] ELSE Capacity[c])
                       < Capacity[c]
                  THEN (IF f \in DOMAIN tokens[c] THEN tokens[c][f] ELSE Capacity[c]) + 1
                  ELSE (IF f \in DOMAIN tokens[c] THEN tokens[c][f] ELSE Capacity[c])
             ELSE (IF f \in DOMAIN tokens[c] THEN tokens[c][f] ELSE Capacity[c])
  <2>1. CASE c # b
    BY <1>1, <1>2, <2>1
  <2>2. CASE c = b /\ f \in DOMAIN tokens[b]
    BY <1>1, <1>2, <2>2 DEF Gains
  <2>3. CASE c = b /\ f \notin DOMAIN tokens[b]
    BY <1>1, <1>2, <2>3
  <2> QED BY <2>1, <2>2, <2>3
<1> QED BY <1>1, <1>3 DEF Links!Refill

LEMMA SendOneIsSend ==
  ASSUME TokenInv, NEW b \in Classes, SendOne(b), NEW f \in Faces, f = Head(rest)
  PROVE  Links!Send(f, b)
<1>1. queues[f][b] # <<>> /\ TokensOf(b, f) > 1
  BY SelectedIsReady DEF SendOne
<1>2. /\ tokens' = [tokens EXCEPT ![b] = With(@, f, TokensOf(b, f) - 1)]
      /\ queues' = [queues EXCEPT ![f][b] = Tail(@)]
  BY DEF SendOne, ConsumeToken, DoDequeue
<1>3. DOMAIN tokens = Classes /\ Capacity[b] \in Nat
      /\ capacity[b] \in {0, Capacity[b]}
  BY ParamAssumption DEF TokenInv, TypeOK
<1>4. TokensOf(b, f) = IF f \in DOMAIN tokens[b] THEN tokens[b][f] ELSE Capacity[b]
  BY <1>1, <1>3 DEF TokensOf
<1>5. ASSUME NEW g \in Faces, NEW c \in Classes
      PROVE  (IF g \in DOMAIN tokens'[c] THEN tokens'[c][g] ELSE Capacity[c]) =
             IF g = f /\ c = b
             THEN TokensOf(b, f) - 1
             ELSE (IF g \in DOMAIN tokens[c] THEN tokens[c][g] ELSE Capacity[c])
  BY <1>2, <1>3 DEF With
<1> DEFINE level == [g \in Faces |-> [c \in Classes |->
             IF g \in DOMAIN tokens[c] THEN tokens[c][g] ELSE Capacity[c]]]
<1>6. level[f][b] = TokensOf(b, f)
  BY <1>4
<1>7. level' = [level EXCEPT ![f][b] = @ - 1]
  <2>1. level = [g \in Faces |-> [c \in Classes |-> level[g][c]]]
    OBVIOUS
  <2>2. level' = [g \in Faces |-> [c \in Classes |->
                    IF g = f /\ c = b THEN level[f][b] - 1 ELSE level[g][c]]]
    BY <1>5, <1>6
  <2> HIDE DEF level
  <2>3. [level EXCEPT ![f][b] = @ - 1] = [g \in Faces |-> [c \in Classes |->
            IF g = f /\ c = b THEN level[f][b] - 1 ELSE level[g][c]]]
    BY <2>1
  <2> QED BY <2>2, <2>3
<1>8. level[f][b] > 1
  BY <1>1, <1>6
<1> QED BY <1>1, <1>2, <1>7, <1>8 DEF Links!Send

LEMMA StepIsLinksStep == TokenInv /\ [Next]_vars => [Links!Next]_(Links!vars)
<1> SUFFICES ASSUME TokenInv, [Next]_vars
             PROVE  Links!Next \/ UNCHANGED <<queues, tokens>>
  BY DEF Links!vars
<1>1. CASE \E F \in SUBSET Faces, level \in PrLevels, size \in Sizes :
             \/ \E suppressed \in BOOLEAN :
                  ReceiveInterest(F, level, size, suppressed)
             \/ ReceiveData(F, level, size)
  <2>1. PICK F \in SUBSET Faces, level \in PrLevels, size \in Sizes :
               EnqueueAt(F, level, size) /\ UNCHANGED tokens
    BY <1>1 DEF ReceiveInterest, ReceiveData, bucketVars
  <2>2. Links!Accept(F, ClassOf(level)) /\ ClassOf(level) \in Classes
    BY <2>1, EnqueueIsAccept, ClassOfType
  <2>3. \E G \in SUBSET Faces, b \in Classes : Links!Accept(G, b)
    BY <2>2
  <2> QED BY <2>3 DEF Links!Next
<1>2. CASE \E b \in Classes : UpdateBucket(b)
  BY <1>2, UpdateBucketIsRefill DEF Links!Next
<1>3. CASE \E b \in Classes : SendOne(b)
  <2>1. PICK b \in Classes : SendOne(b)
    BY <1>3
  <2>2. PICK f \in Faces : f = Head(rest)
    BY <2>1, HeadOfRest DEF SendOne, InFaceLoop, TokenInv
  <2>3. Links!Send(f, b)
    BY <2>1, <2>2, SendOneIsSend
  <2> QED BY <2>3 DEF Links!Next
<1>4. CASE AdvanceClock \/ TokenWait \/ NextFace \/ EndPass \/ UNCHANGED vars
  BY <1>4 DEF AdvanceClock, TokenWait, NextFace, EndPass, queueVars, bucketVars,
              vars
<1> QED BY <1>1, <1>2, <1>3, <1>4 DEF Next, PassStep

\* The scheduler implements the shaped links: every packet it accepts leaves
\* in FIFO order of its class and face, at the price of a token of that class.
THEOREM SchedulerImplementsLinks == Spec => ImplementsLinks
<1>1. Init => Links!Init
  BY DEF Init, Links!Init
<1> QED BY <1>1, StepIsLinksStep, TokenInvariant, PTL
        DEF Spec, ImplementsLinks, Links!Spec

-----------------------------------------------------------------------------
(* How far a pass gets. *)

\* The outer loop stopped being useful at some face of the walk.
Blocked ==
  \E i \in DOMAIN order :
    /\ \A j \in 1 .. i - 1 : IsEmpty(order[j])
    /\ ~IsEmpty(order[i]) /\ Eligible(order[i]) = {}

\* The strengthening: packets are only held for faces of the walk, what is
\* left of the walk is its end, and the faces already visited are drained
\* unless the pass is blocked.
PassInv ==
  /\ TypeOK
  /\ \A f \in Faces : f \in Keys \/ IsEmpty(f)
  /\ pc = "pass" =>
       /\ Len(rest) <= Len(order)
       /\ \A j \in 1 .. Len(rest) : rest[j] = order[Len(order) - Len(rest) + j]
       /\ IF tokenwait
          THEN Blocked
          ELSE \A j \in 1 .. Len(order) - Len(rest) : IsEmpty(order[j])

\* A face that packets are held for is a key of m_tx_queue.
LEMMA EnqueueCovers ==
  ASSUME PassInv, NEW F \in SUBSET Faces, NEW level \in PrLevels,
         NEW size \in Sizes, EnqueueAt(F, level, size),
         NEW f \in Faces, f \notin Keys'
  PROVE  IsEmpty(f)'
<1>1. Keys \cup F \subseteq Keys'
  <2>1. CASE F \subseteq Keys /\ order' = order
    BY <2>1 DEF Keys
  <2>2. CASE order' \in Orders(Keys \cup F)
    BY <2>2 DEF Keys, Orders
  <2> QED BY <2>1, <2>2 DEF EnqueueAt
<1>2. f \notin F /\ IsEmpty(f)
  BY <1>1 DEF PassInv
<1>3. queues'[f] = queues[f]
  BY <1>2 DEF EnqueueAt
<1> QED BY <1>2, <1>3 DEF IsEmpty

\* A pass starts with the whole walk before it.
LEMMA StartPassInv ==
  ASSUME TypeOK', \A f \in Faces : f \in Keys' \/ IsEmpty(f)', StartPass(order')
  PROVE  PassInv'
<1>1. rest' = order' /\ tokenwait' = FALSE /\ Len(order') \in Nat
  BY DEF StartPass, TypeOK
<1>2. 1 .. Len(order') - Len(rest') = {}
  BY <1>1
<1>3. \A j \in 1 .. Len(rest') : rest'[j] = order'[Len(order') - Len(rest') + j]
  BY <1>1
<1> QED BY <1>1, <1>2, <1>3 DEF PassInv

LEMMA SendOnePass ==
  ASSUME PassInv, NEW b \in Classes, SendOne(b)
  PROVE  PassInv'
<1>1. PICK f \in Faces : f = Head(rest)
  BY HeadOfRest DEF SendOne, InFaceLoop, PassInv
<1>2. /\ queues' = [queues EXCEPT ![f][b] = Tail(@)]
      /\ queues[f][b] # <<>>
      /\ UNCHANGED <<order, rest, pc, tokenwait>>
      /\ tokenwait = FALSE
  BY <1>1, SelectedIsReady DEF SendOne, DoDequeue, PassInv, TypeOK
<1>3. \A g \in Faces : IsEmpty(g) => IsEmpty(g)'
  BY <1>1, <1>2 DEF IsEmpty, PassInv, TypeOK
<1>4. TypeOK'
  BY SendOneType DEF PassInv
<1>5. Keys' = Keys
  BY <1>2 DEF Keys
<1>6. \A j \in 1 .. Len(order) - Len(rest) : order[j] \in Faces
  BY DEF PassInv, TypeOK
<1> QED BY <1>2, <1>3, <1>4, <1>5, <1>6 DEF PassInv, SendOne, InFaceLoop

LEMMA TokenWaitPass ==
  ASSUME PassInv, TokenWait
  PROVE  PassInv'
<1>1. UNCHANGED <<queues, order, tokens, capacity, pc, rest>> /\ tokenwait' = TRUE
  BY DEF TokenWait, queueVars
<1>2. TypeOK'
  BY TokenWaitType DEF PassInv
<1> DEFINE i == Len(order) - Len(rest) + 1
<1>3. i \in DOMAIN order /\ order[i] = Head(rest)
  <2>1. /\ order \in Seq(Faces) /\ rest \in Seq(Faces) /\ rest # <<>>
        /\ Len(rest) <= Len(order)
        /\ \A j \in 1 .. Len(rest) : rest[j] = order[Len(order) - Len(rest) + j]
    BY DEF TokenWait, InFaceLoop, PassInv, TypeOK
  <2>2. 1 \in 1 .. Len(rest) /\ Head(rest) = rest[1]
    BY <2>1
  <2> QED BY <2>1, <2>2
<1>4. \A j \in 1 .. i - 1 : IsEmpty(order[j])
  <2>1. \A j \in 1 .. Len(order) - Len(rest) : IsEmpty(order[j])
    BY DEF TokenWait, InFaceLoop, PassInv
  <2>2. i - 1 = Len(order) - Len(rest)
    BY DEF PassInv, TypeOK
  <2> QED BY <2>1, <2>2
<1>5. ~IsEmpty(order[i]) /\ Eligible(order[i]) = {}
  BY <1>3 DEF TokenWait
<1>6. Blocked
  BY <1>3, <1>4, <1>5 DEF Blocked
<1>7. Blocked' /\ (\A f \in Faces : f \in Keys' \/ IsEmpty(f)')
  BY <1>1, <1>6 DEF Blocked, IsEmpty, Eligible, TokensOf, Keys, PassInv
<1> QED BY <1>1, <1>2, <1>7 DEF PassInv, TokenWait, InFaceLoop

LEMMA NextFacePass ==
  ASSUME PassInv, NextFace
  PROVE  PassInv'
<1>1. /\ UNCHANGED <<queues, order, tokens, capacity, pc, tokenwait>>
      /\ rest' = Tail(rest) /\ rest # <<>> /\ pc = "pass"
  BY DEF NextFace, InFaceLoop, queueVars, bucketVars
<1>2. TypeOK'
  BY NextType DEF PassInv, Next, PassStep
<1>3. /\ order \in Seq(Faces) /\ rest \in Seq(Faces)
      /\ Len(rest) <= Len(order)
      /\ \A j \in 1 .. Len(rest) : rest[j] = order[Len(order) - Len(rest) + j]
  BY <1>1 DEF PassInv, TypeOK
<1>4. Len(rest') = Len(rest) - 1 /\ Len(rest) \in Nat /\ Len(order) \in Nat
      /\ \A j \in 1 .. Len(rest') : rest'[j] = rest[j + 1]
  BY <1>1, <1>3
<1>5. Len(rest') <= Len(order)
      /\ \A j \in 1 .. Len(rest') : rest'[j] = order[Len(order) - Len(rest') + j]
  <2>1. ASSUME NEW j \in 1 .. Len(rest')
        PROVE  rest'[j] = order[Len(order) - Len(rest') + j]
    <3>1. j + 1 \in 1 .. Len(rest)
      BY <1>4
    <3>2. Len(order) - Len(rest) + (j + 1) = Len(order) - Len(rest') + j
      BY <1>4
    <3> QED BY <1>3, <1>4, <3>1, <3>2
  <2> QED BY <1>3, <1>4, <2>1
<1>6. /\ \A f \in Faces : f \in Keys' \/ IsEmpty(f)'
      /\ Blocked => Blocked'
      /\ \A f : IsEmpty(f) => IsEmpty(f)'
  BY <1>1 DEF Blocked, IsEmpty, Eligible, TokensOf, Keys, PassInv
<1>7. CASE tokenwait
  BY <1>1, <1>2, <1>5, <1>6, <1>7 DEF PassInv
<1>8. CASE ~tokenwait
  <2>1. IsEmpty(Head(rest)) /\ Head(rest) = rest[1]
    BY <1>1, <1>3, <1>8 DEF NextFace
  <2>2. rest[1] = order[Len(order) - Len(rest) + 1]
    <3>1. 1 \in 1 .. Len(rest)
      BY <1>1, <1>3
    <3> QED BY <1>3, <3>1
  <2>3. PICK n \in Nat : n = Len(order) - Len(rest)
    <3>1. Len(rest) \in Nat /\ Len(order) \in Nat /\ Len(rest) <= Len(order)
      BY <1>3
    <3>2. Len(order) - Len(rest) \in Nat
      BY <3>1
    <3> QED BY <3>2
  <2>4. \A j \in 1 .. n : IsEmpty(order[j])
    BY <1>1, <1>8, <2>3 DEF PassInv
  <2>5. IsEmpty(order[n + 1])
    BY <2>1, <2>2, <2>3
  <2>6. \A j \in 1 .. n + 1 : IsEmpty(order[j])
    BY <2>4, <2>5
  <2>7. Len(order') - Len(rest') = n + 1
    BY <1>1, <1>4, <2>3
  <2>8. \A j \in 1 .. Len(order') - Len(rest') : (IsEmpty(order[j]))'
    BY <1>1, <2>6, <2>7 DEF IsEmpty
  <2> QED BY <1>1, <1>2, <1>5, <1>6, <1>8, <2>8 DEF PassInv
<1> QED BY <1>7, <1>8

LEMMA NextPass == PassInv /\ [Next]_vars => PassInv'
<1> SUFFICES ASSUME PassInv, [Next]_vars PROVE PassInv'
  OBVIOUS
<1>1. TypeOK'
  BY NextType DEF PassInv
<1>2. CASE \E F \in SUBSET Faces, level \in PrLevels, size \in Sizes :
             \/ \E suppressed \in BOOLEAN :
                  ReceiveInterest(F, level, size, suppressed)
             \/ ReceiveData(F, level, size)
  <2>1. PICK F \in SUBSET Faces, level \in PrLevels, size \in Sizes :
               /\ EnqueueAt(F, level, size)
               /\ pc = "idle"
               /\ StartPass(order') \/ UNCHANGED pc
    BY <1>2 DEF ReceiveInterest, ReceiveData
  <2>2. \A f \in Faces : f \in Keys' \/ IsEmpty(f)'
    BY <2>1, EnqueueCovers
  <2>3. CASE StartPass(order')
    BY <1>1, <2>2, <2>3, StartPassInv
  <2>4. CASE UNCHANGED pc
    BY <1>1, <2>1, <2>2, <2>4 DEF PassInv
  <2> QED BY <2>1, <2>3, <2>4
<1>3. CASE \E b \in Classes : UpdateBucket(b)
  <2>1. UNCHANGED <<queues, order>> /\ StartPass(order')
    BY <1>3 DEF UpdateBucket, queueVars
  <2>2. \A f \in Faces : f \in Keys' \/ IsEmpty(f)'
    BY <2>1 DEF PassInv, Keys, IsEmpty
  <2> QED BY <1>1, <2>1, <2>2, StartPassInv
<1>4. CASE AdvanceClock \/ EndPass
  <2>1. UNCHANGED <<queues, order>> /\ pc' = "idle"
    BY <1>4 DEF AdvanceClock, EndPass, queueVars
  <2> QED BY <1>1, <2>1 DEF PassInv, Keys, IsEmpty
<1>5. CASE \E b \in Classes : SendOne(b)
  BY <1>5, SendOnePass
<1>6. CASE TokenWait
  BY <1>6, TokenWaitPass
<1>7. CASE NextFace
  BY <1>7, NextFacePass
<1>8. CASE UNCHANGED vars
  BY <1>1, <1>8 DEF vars, PassInv, Keys, IsEmpty, Blocked, Eligible, TokensOf
<1> QED BY <1>2, <1>3, <1>4, <1>5, <1>6, <1>7, <1>8 DEF Next, PassStep

\* A pass of prioritySend drains every face, or drains the walk up to a face
\* that holds packets and has no class with a token to spend.
THEOREM PassReachesFrontier == Spec => []PassFrontier
<1>1. Init => PassInv
  <2>1. ASSUME Init PROVE \A f \in Faces : IsEmpty(f)
    BY <2>1 DEF Init, IsEmpty
  <2> QED BY <2>1, InitType DEF Init, PassInv
<1>2. ASSUME PassInv
      PROVE  PassFrontier
  <2> SUFFICES ASSUME pc = "pass", rest = <<>>, ~tokenwait, NEW f \in Faces
               PROVE  IsEmpty(f)
    BY <1>2 DEF PassFrontier, PassInv, Blocked
  <2>1. Len(order) - Len(rest) = Len(order) /\ DOMAIN order = 1 .. Len(order)
    BY <1>2 DEF PassInv, TypeOK
  <2>2. \A j \in DOMAIN order : IsEmpty(order[j])
    BY <1>2, <2>1 DEF PassInv
  <2> QED BY <1>2, <2>2 DEF PassInv, Keys
<1> QED BY <1>1, <1>2, NextPass, PTL DEF Spec

-----------------------------------------------------------------------------
(* Why the queues drain: the safety half of Drains.                        *)

\* The places of packets in the queues.
ToSend ==
  {p \in (Faces \X Classes) \X (1 .. QueueSize) :
     p[2] <= Len(queues[p[1][1]][p[1][2]])}

\* What is left of a pass at most: the packets, the faces, the one turn that
\* finds no tokens, and the return.
PassWork ==
  IF pc = "idle" THEN 0
  ELSE 1 + Cardinality(ToSend) + Len(rest) + (IF tokenwait THEN 0 ELSE 1)

LEMMA ToSendIsFinite == IsFiniteSet(ToSend) /\ Cardinality(ToSend) \in Nat
<1>1. IsFiniteSet(Classes) /\ IsFiniteSet(1 .. QueueSize)
  <2>1. IsFiniteSet(0 .. 2)
    <3>1. \A i, k \in Int : IsFiniteSet(i .. k)
      BY FS_Interval
    <3>2. 0 \in Int /\ 2 \in Int
      OBVIOUS
    <3> QED BY <3>1, <3>2, Zenon
  <2>2. IsFiniteSet(1 .. QueueSize)
    BY ParamAssumption, FS_Interval
  <2> QED BY <2>1, <2>2 DEF Classes
<1>2. IsFiniteSet((Faces \X Classes) \X (1 .. QueueSize))
  BY <1>1, ParamAssumption, FS_Product
<1>3. ToSend \in SUBSET ((Faces \X Classes) \X (1 .. QueueSize))
  BY DEF ToSend
<1> QED BY <1>2, <1>3, FS_Subset, FS_CardinalityType

\* A packet that is sent leaves the last place of its queue empty.
LEMMA SendOneShrinks ==
  ASSUME TypeOK, NEW b \in Classes, SendOne(b)
  PROVE  Cardinality(ToSend') < Cardinality(ToSend) /\ Cardinality(ToSend') \in Nat
<1> DEFINE f == Head(rest)
<1>1. f \in Faces
  BY HeadOfRest DEF SendOne, InFaceLoop
<1>2. queues[f][b] # <<>> /\ queues[f][b] \in Seq(Nat)
  BY <1>1, SelectedIsReady DEF SendOne, TypeOK
<1>3. queues' = [queues EXCEPT ![f][b] = Tail(@)]
  BY DEF SendOne, DoDequeue
<1> HIDE DEF f
<1>4. Len(Tail(queues[f][b])) = Len(queues[f][b]) - 1 /\ Len(queues[f][b]) \in 1 .. QueueSize
  BY <1>1, <1>2, ParamAssumption DEF TypeOK
<1>5. \A g \in Faces, c \in Classes :
        /\ Len(queues[g][c]) \in Nat
        /\ Len(queues'[g][c]) =
             IF g = f /\ c = b THEN Len(queues[g][c]) - 1 ELSE Len(queues[g][c])
  <2>1. queues \in [Faces -> [Classes -> Seq(Nat)]]
    BY DEF TypeOK
  <2>2. \A g \in Faces, c \in Classes :
          queues'[g][c] = IF g = f /\ c = b THEN Tail(queues[f][b]) ELSE queues[g][c]
    BY <1>1, <1>3, <2>1
  <2>3. \A g \in Faces, c \in Classes : queues[g][c] \in Seq(Nat)
    BY <2>1
  <2>4. \A g \in Faces, c \in Classes : Len(queues[g][c]) \in Nat
    BY <2>3
  <2> QED BY <1>4, <2>2, <2>4
<1>6. ToSend' \in SUBSET ToSend
  <2> SUFFICES ASSUME NEW g \in Faces, NEW c \in Classes, NEW i \in 1 .. QueueSize,
                      i <= Len(queues'[g][c])
               PROVE  i <= Len(queues[g][c])
    BY DEF ToSend
  <2> QED BY <1>5, ParamAssumption
<1>7. <<<<f, b>>, Len(queues[f][b])>> \in ToSend \ ToSend'
  <2>1. ~(Len(queues[f][b]) <= Len(queues'[f][b]))
    BY <1>1, <1>5
  <2>2. Len(queues[f][b]) <= Len(queues[f][b])
    BY <1>4, ParamAssumption
  <2> QED BY <1>1, <1>4, <2>1, <2>2 DEF ToSend
<1>8. /\ IsFiniteSet(ToSend') /\ Cardinality(ToSend') <= Cardinality(ToSend)
      /\ Cardinality(ToSend) = Cardinality(ToSend') => ToSend = ToSend'
  BY <1>6, ToSendIsFinite, FS_Subset
<1>9. Cardinality(ToSend') # Cardinality(ToSend) /\ Cardinality(ToSend') \in Nat
  BY <1>7, <1>8, FS_CardinalityType
<1> QED BY <1>8, <1>9, ToSendIsFinite

\* prioritySend returns: each of its turns leaves less of it, the return
\* nothing, so a pass has at most as many turns as there are packets and
\* faces, and two more.
THEOREM PassesEnd == Spec => [][PassStep => PassWork' < PassWork]_vars
<1>1. ASSUME TypeOK, PassStep PROVE PassWork' < PassWork
  <2>1. Cardinality(ToSend) \in Nat /\ Len(rest) \in Nat /\ pc = "pass"
    <3>1. pc = "pass"
      BY <1>1 DEF PassStep, SendOne, TokenWait, NextFace, EndPass, InFaceLoop
    <3>2. Len(rest) \in Nat
      BY <1>1 DEF TypeOK
    <3> QED BY <3>1, <3>2, ToSendIsFinite
  <2>2. CASE \E b \in Classes : SendOne(b)
    <3>1. Cardinality(ToSend') < Cardinality(ToSend) /\ Cardinality(ToSend') \in Nat
      BY <1>1, <2>2, SendOneShrinks
    <3>2. UNCHANGED <<pc, rest, tokenwait>>
      BY <2>2 DEF SendOne
    <3> QED BY <2>1, <3>1, <3>2 DEF PassWork
  <2>3. CASE TokenWait
    <3>1. UNCHANGED <<queues, pc, rest>> /\ ~tokenwait /\ tokenwait'
      BY <2>3 DEF TokenWait, queueVars
    <3>2. ToSend' = ToSend
      BY <3>1 DEF ToSend
    <3> QED BY <2>1, <3>1, <3>2 DEF PassWork
  <2>4. CASE NextFace
    <3>1. UNCHANGED <<queues, pc, tokenwait>> /\ rest' = Tail(rest) /\ rest # <<>>
      BY <2>4 DEF NextFace, queueVars, InFaceLoop
    <3>2. ToSend' = ToSend
      BY <3>1 DEF ToSend
    <3>3. Len(rest') = Len(rest) - 1
      BY <1>1, <3>1 DEF TypeOK
    <3> QED BY <2>1, <3>1, <3>2, <3>3 DEF PassWork
  <2>5. CASE EndPass
    <3>1. pc' = "idle"
      BY <2>5 DEF EndPass
    <3> QED BY <2>1, <3>1 DEF PassWork
  <2> QED BY <1>1, <2>2, <2>3, <2>4, <2>5 DEF PassStep
<1>2. TypeOK /\ [Next]_vars => [PassStep => PassWork' < PassWork]_vars
  BY <1>1
<1> QED BY <1>2, InitType, NextType, PTL DEF Spec

\* SelectQueueToSend finds a class whenever one has a packet and tokens.
LEMMA SomeClassIsSelected ==
  ASSUME TypeOK, NEW f \in Faces, Eligible(f) # {}
  PROVE  \E b \in Classes : Selected(f, b)
<1>1. Eligible(f) \subseteq {0, 1, 2}
  BY DEF Eligible, Classes
<1>2. lvft[f][0] \in Nat /\ lvft[f][1] \in Nat /\ lvft[f][2] \in Nat
  BY DEF TypeOK, Classes
<1>3. \E b \in Eligible(f) : \A c \in Eligible(f) :
         \/ lvft[f][b] < lvft[f][c]
         \/ lvft[f][b] = lvft[f][c] /\ b <= c
  BY <1>1, <1>2
<1> QED BY <1>1, <1>3 DEF Selected, Eligible

\* And it is never stuck on the way: in every state of a pass one of its
\* turns can be taken.
THEOREM PassIsNeverStuck ==
  Spec => [](pc = "pass" =>
    \/ rest = <<>>
    \/ tokenwait
    \/ IsEmpty(Head(rest))
    \/ Eligible(Head(rest)) = {}
    \/ \E b \in Classes : Selected(Head(rest), b))
<1>1. ASSUME TypeOK, rest # <<>>, Eligible(Head(rest)) # {}
      PROVE  \E b \in Classes : Selected(Head(rest), b)
  BY <1>1, HeadOfRest, SomeClassIsSelected
<1>2. TypeOK => (pc = "pass" =>
        \/ rest = <<>>
        \/ tokenwait
        \/ IsEmpty(Head(rest))
        \/ Eligible(Head(rest)) = {}
        \/ \E b \in Classes : Selected(Head(rest), b))
  BY <1>1
<1> QED BY <1>2, InitType, NextType, PTL DEF Spec

\* A class whose capacity is more than one may send on every face it has
\* packets for when its refill has come, although SelectQueueToSend leaves the
\* last token: the pass that the refill ends with is not blocked at a face
\* that holds a packet of this class until it has sent one there.
THEOREM RefillUnblocks ==
  Spec => [][\A f \in Faces, b \in Classes :
               UpdateBucket(b) /\ queues[f][b] # <<>> /\ Capacity[b] > 1
                 => b \in Eligible(f)']_vars
<1>1. ASSUME TokenInv, NEW f \in Faces, NEW b \in Classes,
             UpdateBucket(b), queues[f][b] # <<>>, Capacity[b] > 1
      PROVE  b \in Eligible(f)'
  <2>1. queues' = queues /\ capacity' = [capacity EXCEPT ![b] = Capacity[b]]
    BY <1>1 DEF UpdateBucket, queueVars
  <2>2. tokens' = [tokens EXCEPT ![b] = [g \in DOMAIN tokens[b] |->
          IF Gains(b, g) THEN tokens[b][g] + 1 ELSE tokens[b][g]]]
    BY <1>1 DEF UpdateBucket, AddToken
  <2>3. b \in DOMAIN tokens /\ capacity'[b] = Capacity[b] /\ Capacity[b] \in Nat
    BY <1>1, <2>1, ParamAssumption DEF TokenInv, TypeOK
  <2>4. DOMAIN tokens'[b] = DOMAIN tokens[b]
    BY <2>2, <2>3
  <2>5. CASE f \in DOMAIN tokens[b]
    <3>1. tokens[b][f] \in 1 .. Capacity[b]
      BY <1>1, <2>5 DEF TokenInv, TokensAccounted
    <3>2. tokens'[b][f] = IF tokens[b][f] < Capacity[b] THEN tokens[b][f] + 1 ELSE tokens[b][f]
      BY <2>2, <2>3, <2>5 DEF Gains
    <3>3. tokens'[b][f] > 1
      BY <1>1, <2>3, <3>1, <3>2
    <3> QED BY <1>1, <2>1, <2>4, <2>5, <3>3 DEF Eligible, TokensOf
  <2>6. CASE f \notin DOMAIN tokens[b]
    BY <1>1, <2>1, <2>3, <2>4, <2>6 DEF Eligible, TokensOf
  <2> QED BY <2>5, <2>6
<1>2. TokenInv /\ [Next]_vars
        => [\A f \in Faces, b \in Classes :
              UpdateBucket(b) /\ queues[f][b] # <<>> /\ Capacity[b] > 1
                => b \in Eligible(f)']_vars
  BY <1>1
<1> QED BY <1>2, TokenInvariant, PTL DEF Spec
=============================================================================
