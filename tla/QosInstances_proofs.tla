------------------------ MODULE QosInstances_proofs ------------------------
(***************************************************************************)
(* For any number of instances, prefixes, faces and classes, at any time   *)
(* an instance is created or destroyed:                                    *)
(*   TypeCorrect    the variables keep their types                         *)
(*   RateIsShared   all instances together keep to the rate of the buckets *)
(* The second needs to know where every token went, which is Accounts: a   *)
(* face without an entry was not served since the owner was created; an    *)
(* entry is the burst, and the tokens added, less the packets sent.        *)
(***************************************************************************)
EXTENDS QosInstances, TLAPS

QueueTypes == [Faces -> [Classes -> 0 .. QueueSize]]
BucketTypes == [Classes -> [Faces -> Nat \cup {NoEntry}]]
Counts == [Faces -> [Classes -> Nat]]

\* The tokens t of the buckets, whose capacities are cap, s packets sent and
\* c tokens added agree with each other.
Accounts(t, cap, s, c) ==
  \A f \in Faces, b \in Classes :
    /\ cap[b] \in {0, Capacity[b]}
    /\ t[b][f] = NoEntry => s[f][b] = 0 /\ c[f][b] = 0
    /\ t[b][f] # NoEntry =>
         /\ cap[b] = Capacity[b]
         /\ t[b][f] \in 1 .. Capacity[b]
         /\ t[b][f] = Capacity[b] + c[f][b] - s[f][b]

IInv == TypeOK /\ Accounts(tokens, capacity, sent, credits)

-----------------------------------------------------------------------------
(* One prioritySend. *)

\* What is sent on a face is in its queue and leaves a token in the bucket.
LEMMA SendsBounds ==
  ASSUME NEW q, NEW t, NEW cap, NEW f, NEW b,
         q[f][b] \in Nat, Level(t, cap, f, b) \in Int
  PROVE  /\ Sends(q, t, cap, f, b) \in 0 .. q[f][b]
         /\ Sends(q, t, cap, f, b) > 0 =>
              Sends(q, t, cap, f, b) <= Level(t, cap, f, b) - 1
  BY DEF Sends

\* A pass keeps the types and the accounts, whichever faces it gets to.
LEMMA PassKeepsAccounts ==
  ASSUME InstancesAssumption, TypeOK,
         NEW i \in Instances, NEW q \in QueueTypes, NEW t \in BucketTypes,
         NEW cap \in [Classes -> Nat], NEW c \in Counts,
         Accounts(t, cap, sent, c), PrioritySend(i, q, t, cap)
  PROVE  /\ queues' \in [Instances -> QueueTypes]
         /\ tokens' \in BucketTypes
         /\ sent' \in Counts
         /\ Accounts(tokens', cap, sent', c)
<1> USE DEF QueueTypes, BucketTypes, Counts
<1>1. PICK F \in Walks(q, t, cap) :
        LET n(f, b) == IF f \in F THEN Sends(q, t, cap, f, b) ELSE 0
        IN  /\ queues' = [queues EXCEPT ![i] =
                 [f \in Faces |-> [b \in Classes |-> q[f][b] - n(f, b)]]]
            /\ tokens' = [b \in Classes |-> [f \in Faces |->
                 IF n(f, b) > 0 THEN Level(t, cap, f, b) - n(f, b) ELSE t[b][f]]]
            /\ sent' = [f \in Faces |-> [b \in Classes |-> sent[f][b] + n(f, b)]]
  BY DEF PrioritySend
<1> DEFINE n(f, b) == IF f \in F THEN Sends(q, t, cap, f, b) ELSE 0
<1>2. ASSUME NEW f \in Faces, NEW b \in Classes
      PROVE  /\ Level(t, cap, f, b) \in Int
             /\ n(f, b) \in 0 .. q[f][b]
             /\ n(f, b) > 0 => n(f, b) <= Level(t, cap, f, b) - 1
  <2>1. Level(t, cap, f, b) \in Int
    BY DEF Level, NoEntry
  <2>2. q[f][b] \in Nat
    BY DEF InstancesAssumption
  <2> QED BY <2>1, <2>2, SendsBounds
<1>3. sent \in Counts
  BY DEF TypeOK
<1>4. \A f \in Faces, b \in Classes : q[f][b] \in 0 .. QueueSize
  OBVIOUS
<1> HIDE DEF n
<1>5. [f \in Faces |-> [b \in Classes |-> q[f][b] - n(f, b)]] \in QueueTypes
  BY <1>2, <1>4 DEF InstancesAssumption
<1>6. queues' = [queues EXCEPT ![i] =
        [f \in Faces |-> [b \in Classes |-> q[f][b] - n(f, b)]]]
  BY <1>1 DEF n
<1>7. queues' \in [Instances -> QueueTypes]
  BY <1>5, <1>6 DEF TypeOK
<1>8. tokens' = [b \in Classes |-> [f \in Faces |->
        IF n(f, b) > 0 THEN Level(t, cap, f, b) - n(f, b) ELSE t[b][f]]]
  BY <1>1 DEF n
<1>9. sent' = [f \in Faces |-> [b \in Classes |-> sent[f][b] + n(f, b)]]
  BY <1>1 DEF n
<1>10. ASSUME NEW f \in Faces, NEW b \in Classes
       PROVE  /\ tokens'[b][f] = (IF n(f, b) > 0 THEN Level(t, cap, f, b) - n(f, b)
                                               ELSE t[b][f])
              /\ tokens'[b][f] \in Nat \cup {NoEntry}
              /\ sent'[f][b] = sent[f][b] + n(f, b)
              /\ sent'[f][b] \in Nat
  BY <1>2, <1>3, <1>8, <1>9
<1>11. tokens' \in BucketTypes
  BY <1>8, <1>10
<1>12. sent' \in Counts
  BY <1>9, <1>10
<1>13. Accounts(tokens', cap, sent', c)
  <2> SUFFICES ASSUME NEW f \in Faces, NEW b \in Classes
               PROVE  /\ cap[b] \in {0, Capacity[b]}
                      /\ tokens'[b][f] = NoEntry => sent'[f][b] = 0 /\ c[f][b] = 0
                      /\ tokens'[b][f] # NoEntry =>
                           /\ cap[b] = Capacity[b]
                           /\ tokens'[b][f] \in 1 .. Capacity[b]
                           /\ tokens'[b][f] = Capacity[b] + c[f][b] - sent'[f][b]
    BY DEF Accounts
  <2>1. /\ cap[b] \in {0, Capacity[b]}
        /\ t[b][f] = NoEntry => sent[f][b] = 0 /\ c[f][b] = 0
        /\ t[b][f] # NoEntry =>
             /\ cap[b] = Capacity[b]
             /\ t[b][f] \in 1 .. Capacity[b]
             /\ t[b][f] = Capacity[b] + c[f][b] - sent[f][b]
    BY DEF Accounts
  <2>2. Capacity[b] \in Nat /\ c[f][b] \in Nat /\ sent[f][b] \in Nat
    BY <1>3 DEF InstancesAssumption
  <2>3. n(f, b) \in Nat /\ (n(f, b) > 0 => n(f, b) <= Level(t, cap, f, b) - 1)
    BY <1>2, <1>4
  <2>4. Level(t, cap, f, b) = IF t[b][f] = NoEntry THEN cap[b] ELSE t[b][f]
    BY DEF Level
  <2> QED BY <1>10, <2>1, <2>2, <2>3, <2>4 DEF NoEntry
<1> QED BY <1>7, <1>11, <1>12, <1>13

-----------------------------------------------------------------------------
(* The actions. *)

LEMMA InitHolds == ASSUME InstancesAssumption, Init PROVE IInv
  BY DEF InstancesAssumption, Init, IInv, TypeOK, Accounts, NoPackets, NoEntry,
         NoInstance

LEMMA InsertKeeps ==
  ASSUME InstancesAssumption, IInv, NEW p \in Prefixes, Insert(p)
  PROVE  IInv'
<1>1. /\ owner < MaxInstances /\ owner' = owner + 1
      /\ tokens' = [b \in Classes |-> [f \in Faces |-> NoEntry]]
      /\ capacity' = [b \in Classes |-> 0]
      /\ sent' = NoPackets /\ credits' = NoPackets
      /\ periodic' \in [Classes -> BOOLEAN]
      /\ UNCHANGED <<queues, arrivals, rated, ticking>>
  BY DEF Insert, Construct, driverVars
<1>2. strategy' = [strategy EXCEPT ![p] = owner + 1] \/ UNCHANGED strategy
  BY DEF Insert
<1>3. owner' \in 0 .. MaxInstances
  BY <1>1 DEF InstancesAssumption, IInv, TypeOK
<1>4. strategy' \in [Prefixes -> 0 .. MaxInstances]
  BY <1>1, <1>2, <1>3 DEF IInv, TypeOK
<1>5. /\ tokens' \in [Classes -> [Faces -> Nat \cup {NoEntry}]]
      /\ capacity' \in [Classes -> Nat]
      /\ sent' \in Counts /\ credits' \in Counts
  BY <1>1 DEF NoPackets, Counts
<1>6. Accounts(tokens', capacity', sent', credits')
  BY <1>1 DEF Accounts, NoPackets
<1>7. rated' \in 0 .. owner'
  BY <1>1 DEF InstancesAssumption, IInv, TypeOK
<1> QED BY <1>1, <1>3, <1>4, <1>5, <1>6, <1>7 DEF IInv, TypeOK, Counts, Accounts

LEMMA EraseKeeps ==
  ASSUME InstancesAssumption, IInv, NEW p \in Prefixes, Erase(p)
  PROVE  IInv'
<1>1. strategy[p] \in Instances
  BY DEF Erase, IInv, TypeOK, Instances, NoInstance
<1>2. NoPackets \in [Faces -> [Classes -> 0 .. QueueSize]]
  BY DEF InstancesAssumption, NoPackets
<1> QED BY <1>1, <1>2 DEF InstancesAssumption, IInv, TypeOK, Accounts, Erase,
                          bucketVars, driverVars, NoInstance

LEMMA ReceiveKeeps ==
  ASSUME InstancesAssumption, IInv, NEW i \in Instances, NEW F \in SUBSET Faces,
         NEW b \in Classes, Receive(i, F, b)
  PROVE  IInv'
<1>1. Queued(i, F, b) \in QueueTypes
  BY DEF InstancesAssumption, IInv, TypeOK, Queued, HasRoom, QueueTypes
<1>2. /\ queues' \in [Instances -> QueueTypes]
      /\ tokens' \in BucketTypes
      /\ sent' \in Counts
      /\ Accounts(tokens', capacity, sent', credits)
  BY <1>1, PassKeepsAccounts DEF IInv, TypeOK, Receive, BucketTypes, Counts
<1>3. /\ UNCHANGED <<strategy, owner, capacity, credits, rated, periodic, ticking>>
      /\ arrivals' = arrivals + 1 /\ arrivals < MaxArrivals
  BY DEF Receive, driverVars
<1> QED BY <1>2, <1>3 DEF IInv, TypeOK, Accounts, QueueTypes, BucketTypes, Counts,
                          InstancesAssumption

LEMMA ReceiveSuppressedKeeps ==
  ASSUME InstancesAssumption, IInv, NEW i \in Instances, NEW F \in SUBSET Faces,
         NEW b \in Classes, ReceiveSuppressed(i, F, b)
  PROVE  IInv'
<1>1. Queued(i, F, b) \in QueueTypes
  BY DEF InstancesAssumption, IInv, TypeOK, Queued, HasRoom, QueueTypes
<1>2. queues' \in [Instances -> QueueTypes]
  BY <1>1 DEF ReceiveSuppressed, IInv, TypeOK, QueueTypes
<1>3. /\ UNCHANGED <<strategy, owner, tokens, capacity, sent, credits>>
      /\ UNCHANGED <<rated, periodic, ticking>>
      /\ arrivals' = arrivals + 1 /\ arrivals < MaxArrivals
  BY DEF ReceiveSuppressed, bucketVars, driverVars
<1> QED BY <1>2, <1>3 DEF IInv, TypeOK, Accounts, QueueTypes, InstancesAssumption

LEMMA StartApplicationKeeps ==
  ASSUME InstancesAssumption, IInv, StartApplication
  PROVE  IInv'
BY DEF InstancesAssumption, IInv, TypeOK, Accounts, StartApplication, bucketVars

LEMMA UpdateBucketKeeps ==
  ASSUME InstancesAssumption, IInv, NEW b \in Classes, UpdateBucket(b)
  PROVE  IInv'
<1> DEFINE gains(f) == tokens[b][f] # NoEntry /\ tokens[b][f] < Capacity[b]
           t == [tokens EXCEPT ![b] = [f \in Faces |->
                   IF gains(f) THEN tokens[b][f] + 1 ELSE tokens[b][f]]]
<1>1. /\ OwnerAlive
      /\ capacity' = [capacity EXCEPT ![b] = Capacity[b]]
      /\ credits' = [f \in Faces |-> [credits[f] EXCEPT ![b] =
                       IF gains(f) THEN @ + 1 ELSE @]]
      /\ PrioritySend(owner, queues[owner], t, capacity')
      /\ UNCHANGED <<strategy, owner, arrivals, rated, periodic>>
      /\ ticking' = [ticking EXCEPT ![b] = periodic[b]]
  BY DEF UpdateBucket, AddToken, ScheduleNextToken
<1>2. owner \in Instances
  BY <1>1 DEF OwnerAlive, Alive, IInv, TypeOK, Instances, NoInstance
<1>3. queues[owner] \in QueueTypes
  BY <1>2 DEF IInv, TypeOK, QueueTypes
<1>4. capacity' \in [Classes -> Nat]
  BY <1>1 DEF IInv, TypeOK, InstancesAssumption
<1>5. credits' \in Counts
  BY <1>1 DEF IInv, TypeOK, Counts
<1>6. t \in BucketTypes
  BY DEF IInv, TypeOK, BucketTypes, NoEntry
<1>7. Accounts(t, capacity', sent, credits')
  <2> SUFFICES ASSUME NEW f \in Faces, NEW c \in Classes
               PROVE  /\ capacity'[c] \in {0, Capacity[c]}
                      /\ t[c][f] = NoEntry => sent[f][c] = 0 /\ credits'[f][c] = 0
                      /\ t[c][f] # NoEntry =>
                           /\ capacity'[c] = Capacity[c]
                           /\ t[c][f] \in 1 .. Capacity[c]
                           /\ t[c][f] = Capacity[c] + credits'[f][c] - sent[f][c]
    BY DEF Accounts
  <2>1. /\ capacity[c] \in {0, Capacity[c]}
        /\ tokens[c][f] = NoEntry => sent[f][c] = 0 /\ credits[f][c] = 0
        /\ tokens[c][f] # NoEntry =>
             /\ capacity[c] = Capacity[c]
             /\ tokens[c][f] \in 1 .. Capacity[c]
             /\ tokens[c][f] = Capacity[c] + credits[f][c] - sent[f][c]
    BY DEF IInv, Accounts
  <2>2. /\ Capacity[c] \in Nat /\ credits[f][c] \in Nat /\ sent[f][c] \in Nat
        /\ tokens[c][f] \in Nat \cup {NoEntry}
    BY DEF InstancesAssumption, IInv, TypeOK
  <2>3. CASE c = b
    <3>1. t[c][f] = IF gains(f) THEN tokens[c][f] + 1 ELSE tokens[c][f]
      BY <2>3 DEF IInv, TypeOK
    <3>2. credits'[f][c] = IF gains(f) THEN credits[f][c] + 1 ELSE credits[f][c]
      BY <1>1, <2>3 DEF IInv, TypeOK
    <3>3. capacity'[c] = Capacity[c]
      BY <1>1, <2>3 DEF IInv, TypeOK
    <3>4. gains(f) <=> tokens[c][f] # NoEntry /\ tokens[c][f] < Capacity[c]
      BY <2>3
    <3> HIDE DEF t, gains
    <3> QED BY <2>1, <2>2, <3>1, <3>2, <3>3, <3>4 DEF NoEntry
  <2>4. CASE c # b
    <3>1. /\ t[c][f] = tokens[c][f] /\ credits'[f][c] = credits[f][c]
          /\ capacity'[c] = capacity[c]
      BY <1>1, <2>4 DEF IInv, TypeOK
    <3> HIDE DEF t
    <3> QED BY <2>1, <3>1
  <2> QED BY <2>3, <2>4
<1> HIDE DEF t
<1>8. /\ queues' \in [Instances -> QueueTypes]
      /\ tokens' \in BucketTypes
      /\ sent' \in Counts
      /\ Accounts(tokens', capacity', sent', credits')
  BY <1>1, <1>2, <1>3, <1>4, <1>5, <1>6, <1>7, PassKeepsAccounts DEF IInv
<1>9. ticking' \in [Classes -> BOOLEAN]
  BY <1>1 DEF IInv, TypeOK
<1> QED BY <1>1, <1>4, <1>5, <1>8, <1>9
        DEF IInv, TypeOK, QueueTypes, BucketTypes, Counts, Accounts

LEMMA NextKeeps == ASSUME InstancesAssumption, IInv, [Next]_vars PROVE IInv'
<1>1. CASE \E p \in Prefixes : Insert(p) \/ Erase(p)
  BY <1>1, InsertKeeps, EraseKeeps
<1>2. CASE \E i \in Instances, F \in SUBSET Faces, b \in Classes :
             Receive(i, F, b) \/ ReceiveSuppressed(i, F, b)
  BY <1>2, ReceiveKeeps, ReceiveSuppressedKeeps
<1>3. CASE \E b \in Classes : UpdateBucket(b)
  BY <1>3, UpdateBucketKeeps
<1>4. CASE StartApplication
  BY <1>4, StartApplicationKeeps
<1>5. CASE UNCHANGED vars
  BY <1>5 DEF vars, driverVars, IInv, TypeOK, Accounts
<1> QED BY <1>1, <1>2, <1>3, <1>4, <1>5 DEF Next

LEMMA Inductive == Spec => []IInv
<1>1. Init => IInv
  BY InstancesAssumption, InitHolds
<1>2. IInv /\ [Next]_vars => IInv'
  BY InstancesAssumption, NextKeeps
<1> QED BY <1>1, <1>2, PTL DEF Spec

-----------------------------------------------------------------------------
\* The variables keep their types: in particular no queue outgrows QUEUE_SIZE.
THEOREM TypeCorrect == Spec => []TypeOK
<1>1. IInv => TypeOK
  BY DEF IInv
<1> QED BY <1>1, Inductive, PTL

\* The instances of a node, however many, whenever they are created, send no
\* more on a face together than its bucket allows.
THEOREM RateIsShared == Spec => []SharedRate
<1>1. IInv => SharedRate
  <2> SUFFICES ASSUME IInv, NEW f \in Faces, NEW b \in Classes, sent[f][b] > 0
               PROVE  sent[f][b] <= Capacity[b] - 1 + credits[f][b]
    BY DEF SharedRate
  <2>1. /\ Capacity[b] \in Nat /\ sent[f][b] \in Nat /\ credits[f][b] \in Nat
        /\ tokens[b][f] \in Nat \cup {NoEntry}
    BY InstancesAssumption DEF InstancesAssumption, IInv, TypeOK
  <2>2. /\ tokens[b][f] = NoEntry => sent[f][b] = 0
        /\ tokens[b][f] # NoEntry =>
             /\ tokens[b][f] \in 1 .. Capacity[b]
             /\ tokens[b][f] = Capacity[b] + credits[f][b] - sent[f][b]
    BY DEF IInv, Accounts
  <2> QED BY <2>1, <2>2
<1> QED BY <1>1, Inductive, PTL
=============================================================================
