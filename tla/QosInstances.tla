---------------------------- MODULE QosInstances ----------------------------
(***************************************************************************)
(* Several instances of the QoS strategy on one node, one per prefix:      *)
(*   table/strategy-choice   insert and erase, which create and destroy them *)
(*   fw/qos-strategy         the constructor, and prioritySend             *)
(*   apps/TBucketRef         CT, which holds the buckets of one instance   *)
(*   apps/tokenBucketDriver  StartApplication and UpdateBucket             *)
(* Every instance has its own queues and its own buckets, but spends from  *)
(* the buckets CT points to: those of the instance created last, its owner. *)
(* QosScheduler has the details of one instance.  Here the queues only     *)
(* count packets, and prioritySend, which nothing interrupts, is one step: *)
(* what it sends on a face depends on that face's own queues and tokens.   *)
(* To follow a pointer in CT to an instance that was destroyed is undefined, *)
(* and no behaviour goes on from there.  The everyNSeconds event and the   *)
(* Drop callbacks of a destroyed instance are left behind too: after Erase, *)
(* or an Insert that destroys, a behaviour stands for the code only until  *)
(* the next of these is called, within a second.                           *)
(***************************************************************************)
EXTENDS Integers, FiniteSets

CONSTANTS
  Prefixes,      \* names in the strategy choice table
  Faces,
  Classes,       \* traffic classes
  Capacity,      \* [Classes -> Nat], the driver's Capacity attributes
  QueueSize,     \* QUEUE_SIZE
  Again,         \* a prefix that has the strategy may be given it again
  Erases,        \* the strategy may be taken from a prefix
  MaxInstances,  \* bound: instances ever created
  MaxArrivals    \* bound: packets that ever arrive

ASSUME InstancesAssumption ==
  /\ IsFiniteSet(Faces)
  /\ Capacity \in [Classes -> Nat]
  /\ QueueSize \in Nat /\ MaxInstances \in Nat /\ MaxArrivals \in Nat
  /\ Again \in BOOLEAN /\ Erases \in BOOLEAN

Instances == 1 .. MaxInstances
NoInstance == 0
NoEntry == -1     \* a face that m_tokens does not have

VARIABLES
  strategy,  \* strategy[p]: the instance of the entry of p
  owner,     \* the instance whose buckets CT holds; the last one created
  queues,    \* queues[i][f][b]: packets of class b in m_tx_queue[f] of i
  tokens,    \* tokens[b][f]: m_tokens of the owner's bucket of class b
  capacity,  \* capacity[b]: m_capacity of that bucket
  arrivals,  \* packets handled so far
  sent,      \* history: packets sent since the owner was created
  credits,   \* history: tokens added since then
  rated,     \* the owner StartApplication gave its fill rates, or NoInstance
  periodic,  \* periodic[b]: 1/m_fillRate of the owner's bucket is a time to come
  ticking    \* ticking[b]: the driver's event for bucket b is in the simulator

driverVars == <<rated, ticking>>
vars == <<strategy, owner, queues, tokens, capacity, arrivals, sent, credits,
          periodic, driverVars>>
bucketVars == <<tokens, capacity, sent, credits>>

NoPackets == [f \in Faces |-> [b \in Classes |-> 0]]

Init ==
  /\ strategy = [p \in Prefixes |-> NoInstance]
  /\ owner = NoInstance
  /\ queues = [i \in Instances |-> NoPackets]
  /\ tokens = [b \in Classes |-> [f \in Faces |-> NoEntry]]
  /\ capacity = [b \in Classes |-> 0]
  /\ arrivals = 0
  /\ sent = NoPackets
  /\ credits = NoPackets
  /\ rated = NoInstance
  /\ periodic = [b \in Classes |-> FALSE]
  /\ ticking = [b \in Classes |-> FALSE]

Alive == {strategy[p] : p \in Prefixes} \ {NoInstance}
OwnerAlive == owner \in Alive

-----------------------------------------------------------------------------
(* The strategy choice table. *)

\* The constructor of instance i: its buckets, which are new, go to CT.  The
\* constructor of TokenBucket does not set m_fillRate, so it may be anything.
Construct(i) ==
  /\ owner' = i
  /\ tokens' = [b \in Classes |-> [f \in Faces |-> NoEntry]]
  /\ capacity' = [b \in Classes |-> 0]
  /\ sent' = NoPackets
  /\ credits' = NoPackets
  /\ periodic' \in [Classes -> BOOLEAN]

\* insert(p, qos).  An instance is created before the table is looked at; when
\* the entry of p has this strategy already, it is destroyed again.
Insert(p) ==
  /\ owner < MaxInstances
  /\ Construct(owner + 1)
  /\ \/ strategy[p] = NoInstance /\ strategy' = [strategy EXCEPT ![p] = owner + 1]
     \/ Again /\ strategy[p] # NoInstance /\ UNCHANGED strategy
  /\ UNCHANGED <<queues, arrivals, driverVars>>

\* erase(p), or another strategy for p: the instance is destroyed, with its
\* queues.  CT is left as it is.
Erase(p) ==
  /\ Erases /\ strategy[p] # NoInstance
  /\ strategy' = [strategy EXCEPT ![p] = NoInstance]
  /\ queues' = [queues EXCEPT ![strategy[p]] = NoPackets]
  /\ UNCHANGED <<owner, bucketVars, arrivals, periodic, driverVars>>

-----------------------------------------------------------------------------
(* prioritySend of instance i with queues q, tokens t and capacities cap. *)

Level(t, cap, f, b) == IF t[b][f] = NoEntry THEN cap[b] ELSE t[b][f]

\* Mutant: the last token of a bucket is spent too.
SendsLastToken(q, t, cap, f, b) ==
  IF q[f][b] <= Level(t, cap, f, b) THEN q[f][b] ELSE Level(t, cap, f, b)

\* What leaves on a face: each class has its own queue and tokens, and its
\* last token is never spent.
Sends(q, t, cap, f, b) ==
  IF Level(t, cap, f, b) <= 1 THEN 0
  ELSE IF q[f][b] <= Level(t, cap, f, b) - 1 THEN q[f][b]
  ELSE Level(t, cap, f, b) - 1

\* The faces that keep some packet.
Stuck(q, t, cap) ==
  {f \in Faces : \E b \in Classes : Sends(q, t, cap, f, b) < q[f][b]}

\* The faces a pass gets to: all of them, or, since the walk ends with the
\* first face that keeps a packet, some in front of that one and itself.
Walks(q, t, cap) ==
  IF Stuck(q, t, cap) = {} THEN {Faces}
  ELSE {F \in SUBSET Faces : Cardinality(F \cap Stuck(q, t, cap)) = 1}

PrioritySend(i, q, t, cap) ==
  \E F \in Walks(q, t, cap) :
    LET n(f, b) == IF f \in F THEN Sends(q, t, cap, f, b) ELSE 0
    IN  /\ queues' = [queues EXCEPT ![i] =
             [f \in Faces |-> [b \in Classes |-> q[f][b] - n(f, b)]]]
        /\ tokens' = [b \in Classes |-> [f \in Faces |->
             IF n(f, b) > 0 THEN Level(t, cap, f, b) - n(f, b) ELSE t[b][f]]]
        /\ sent' = [f \in Faces |-> [b \in Classes |-> sent[f][b] + n(f, b)]]

\* Mutant: the size test lets one packet too many in.
HasRoomOffByOne(i, f, b) == queues[i][f][b] <= QueueSize

HasRoom(i, f, b) == queues[i][f][b] < QueueSize

\* A packet of class b is queued by instance i for the faces in F.
Queued(i, F, b) ==
  [f \in Faces |-> [c \in Classes |->
     IF f \in F /\ c = b /\ HasRoom(i, f, b) THEN queues[i][f][c] + 1
     ELSE queues[i][f][c]]]

\* afterReceiveInterest or afterReceiveData of the instance that has the
\* packet's name, for the faces it is sent to.
Receive(i, F, b) ==
  /\ OwnerAlive /\ i \in Alive /\ arrivals < MaxArrivals
  /\ PrioritySend(i, Queued(i, F, b), tokens, capacity)
  /\ arrivals' = arrivals + 1
  /\ UNCHANGED <<strategy, owner, capacity, credits, periodic, driverVars>>

\* afterReceiveInterest when decidePerPitEntry suppresses the Interest: what the
\* loop over the next hops has queued stays there, and CT is not looked at.
ReceiveSuppressed(i, F, b) ==
  /\ i \in Alive /\ arrivals < MaxArrivals
  /\ queues' = [queues EXCEPT ![i] = Queued(i, F, b)]
  /\ arrivals' = arrivals + 1
  /\ UNCHANGED <<strategy, owner, bucketVars, periodic, driverVars>>

-----------------------------------------------------------------------------
(* The driver of the node. *)

\* StartApplication: the buckets in CT get the fill rates of the driver, which
\* are positive, and each its first event.
StartApplication ==
  /\ OwnerAlive /\ rated = NoInstance
  /\ rated' = owner
  /\ periodic' = [b \in Classes |-> TRUE]
  /\ ticking' = [b \in Classes |-> TRUE]
  /\ UNCHANGED <<strategy, owner, queues, bucketVars, arrivals>>

\* The driver refills the buckets of CT; their send signal reaches the
\* instance that has them.
AddToken(b) ==
  LET gains(f) == tokens[b][f] # NoEntry /\ tokens[b][f] < Capacity[b]
  IN  /\ credits' = [f \in Faces |-> [credits[f] EXCEPT ![b] =
           IF gains(f) THEN @ + 1 ELSE @]]
      /\ PrioritySend(owner, queues[owner],
           [tokens EXCEPT ![b] = [f \in Faces |->
              IF gains(f) THEN tokens[b][f] + 1 ELSE tokens[b][f]]],
           capacity')

\* The next event is there only if the bucket that CT holds now has a rate.
ScheduleNextToken(b) == ticking' = [ticking EXCEPT ![b] = periodic[b]]

\* Mutant: a bucket that nobody has spent from wakes nobody.
UpdateBucketIfUsed(b) ==
  /\ ticking[b] /\ OwnerAlive
  /\ \E f \in Faces : tokens[b][f] # NoEntry
  /\ capacity' = [capacity EXCEPT ![b] = Capacity[b]]
  /\ AddToken(b)
  /\ ScheduleNextToken(b)
  /\ UNCHANGED <<strategy, owner, arrivals, rated, periodic>>

UpdateBucket(b) ==
  /\ ticking[b] /\ OwnerAlive
  /\ capacity' = [capacity EXCEPT ![b] = Capacity[b]]
  /\ AddToken(b)
  /\ ScheduleNextToken(b)
  /\ UNCHANGED <<strategy, owner, arrivals, rated, periodic>>

-----------------------------------------------------------------------------
Next ==
  \/ \E p \in Prefixes : Insert(p) \/ Erase(p)
  \/ \E i \in Instances, F \in SUBSET Faces, b \in Classes :
       Receive(i, F, b) \/ ReceiveSuppressed(i, F, b)
  \/ StartApplication
  \/ \E b \in Classes : UpdateBucket(b)

Spec == Init /\ [][Next]_vars

\* An event that is in the simulator's queue is called when its time comes.
FairSpec == Spec /\ \A b \in Classes : WF_vars(UpdateBucket(b))

-----------------------------------------------------------------------------
TypeOK ==
  /\ strategy \in [Prefixes -> 0 .. MaxInstances]
  /\ owner \in 0 .. MaxInstances
  /\ queues \in [Instances -> [Faces -> [Classes -> 0 .. QueueSize]]]
  /\ tokens \in [Classes -> [Faces -> Nat \cup {NoEntry}]]
  /\ capacity \in [Classes -> Nat]
  /\ arrivals \in 0 .. MaxArrivals
  /\ sent \in [Faces -> [Classes -> Nat]]
  /\ credits \in [Faces -> [Classes -> Nat]]
  /\ rated \in 0 .. owner
  /\ periodic \in [Classes -> BOOLEAN]
  /\ ticking \in [Classes -> BOOLEAN]

\* The rate of a link is shared: all instances of the node together send no
\* more on a face than its bucket's burst less one packet, and the tokens the
\* driver added since the bucket is in use.
SharedRate ==
  \A f \in Faces, b \in Classes :
    sent[f][b] > 0 => sent[f][b] <= Capacity[b] - 1 + credits[f][b]

\* No instance was destroyed, so nothing it left behind can be called.
Intact == Alive = 1 .. owner

\* While the buckets in CT are those that StartApplication gave their rates, and
\* no instance was destroyed, the queues of the instance that has them empty
\* once packets no longer come, although other instances spend its tokens and
\* a suppressed Interest is queued without a pass.  Nothing is promised of the
\* other instances, nor of an owner created while the driver runs: its buckets
\* may have no rate, and then the driver's events end.
OwnerDrains ==
  \A i \in Instances, f \in Faces, b \in Classes :
    []<>(owner = i /\ rated = i /\ Intact => queues[i][f][b] = 0)

\* CT "provides tokenBucketDriver class references to the tokenBucket objects
\* as defined by qos-strategy instances": to objects that exist.
ReferencesExist == owner # NoInstance => OwnerAlive
=============================================================================
