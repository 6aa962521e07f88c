------------------------ MODULE QosForwarding_proofs ------------------------
(***************************************************************************)
(* Proofs about QosForwarding, for any downstreams, next hops, suppression *)
(* intervals, lifetimes, scopes and bounds: its types, that the timer of   *)
(* an entry covers its downstreams to the millisecond, and that an entry   *)
(* never ends without a cause.                                             *)
(***************************************************************************)
EXTENDS QosForwarding, WellFoundedInduction, TLAPS

-----------------------------------------------------------------------------
(* Lemmas about the operators. *)

\* A non-empty set of bounded naturals has a greatest element.
LEMMA HasGreatest ==
  ASSUME NEW K \in Nat, NEW T \in SUBSET (0 .. K), T # {}
  PROVE  \E x \in T : \A y \in T : y <= x
<1> DEFINE Less == {ss \in Nat \X Nat : ss[1] < ss[2]}
           Below == {K - t : t \in T}
<1>1. Below \subseteq Nat /\ Below # {}
  <2>1. \A t \in T : t \in Nat /\ t <= K /\ K - t \in Nat
    OBVIOUS
  <2>2. PICK t \in T : TRUE
    OBVIOUS
  <2>3. K - t \in Below
    OBVIOUS
  <2> QED BY <2>1, <2>3
<1>2. IsWellFoundedOn(Less, Nat)
  BY NatLessThanWellFounded, Zenon DEF OpToRel
<1>3. \A a, b \in Nat : a < b => <<a, b>> \in Less
  OBVIOUS
<1> HIDE DEF Less
<1>4. PICK m \in Below : \A b \in Below : <<b, m>> \notin Less
  BY <1>1, <1>2, WFMin
<1> HIDE DEF Below
<1>5. \A b \in Below : m <= b
  <2>1. \A b \in Below : b \in Nat /\ m \in Nat /\ ~(b < m)
    BY <1>1, <1>3, <1>4
  <2> QED BY <2>1
<1> USE DEF Below
<1>6. PICK x \in T : m = K - x
  BY Zenon
<1>7. \A y \in T : K - y \in Below
  BY Zenon
<1> HIDE DEF Below
<1>8. \A y \in T : y <= x
  BY <1>5, <1>6, <1>7
<1> QED BY <1>8

PartialMaps(T) == UNION {[S -> T] : S \in SUBSET Faces}

\* The entries of TypeOK, as one set.
AllEntries ==
  [in : PartialMaps(InRecords), out : PartialMaps(OutRecords),
   interval : Initial .. MaxInterval, satisfied : BOOLEAN, timer : Nat,
   rejecter : Downs \cup {NoFace}]

EntriesOK == DOMAIN entry = Entries /\ \A e \in Entries : entry[e] \in AllEntries

\* The other conjuncts of TypeOK.
RestOK ==
  /\ now \in 0 .. MaxNow
  /\ created \in 0 .. arrived
  /\ pit \in 0 .. created
  /\ queues \in [Faces -> Seq(Packets)]
  /\ pc \in {"idle", "pass"}
  /\ dataFace \in Ups \cup {NoFace}
  /\ cached \in BOOLEAN
  /\ dnl \subseteq Nonces
  /\ arrived \in 0 .. MaxInterests
  /\ unanswered \in [Ups -> SUBSET Nonces]

LEMMA AllEntriesAreEntries ==
  ASSUME NEW E
  PROVE  E \in AllEntries <=> \E I, O \in SUBSET Faces : E \in PitEntries(I, O)
<1>1. ASSUME E \in AllEntries
      PROVE  \E I, O \in SUBSET Faces : E \in PitEntries(I, O)
  <2>1. PICK I \in SUBSET Faces : E.in \in [I -> InRecords]
    BY <1>1 DEF AllEntries, PartialMaps
  <2>2. PICK O \in SUBSET Faces : E.out \in [O -> OutRecords]
    BY <1>1 DEF AllEntries, PartialMaps
  <2>3. E \in PitEntries(I, O)
    BY <1>1, <2>1, <2>2 DEF AllEntries, PitEntries
  <2> QED BY <2>3
<1>2. ASSUME NEW I \in SUBSET Faces, NEW O \in SUBSET Faces, E \in PitEntries(I, O)
      PROVE  E \in AllEntries
  BY <1>2 DEF AllEntries, PitEntries, PartialMaps
<1> QED BY <1>1, <1>2

LEMMA TypeParts == TypeOK <=> EntriesOK /\ RestOK
BY AllEntriesAreEntries DEF TypeOK, EntriesOK, RestOK

\* Putting a key into a partial map, and taking one out.
LEMMA WithType ==
  ASSUME NEW T, NEW m \in PartialMaps(T), NEW f \in Faces, NEW v \in T
  PROVE  With(m, f, v) \in PartialMaps(T)
<1> DEFINE S == DOMAIN m \cup {f}
<1>1. S \in SUBSET Faces /\ \A g \in DOMAIN m : m[g] \in T
  BY DEF PartialMaps
<1>2. With(m, f, v) \in [S -> T]
  BY <1>1 DEF With
<1> QED BY <1>1, <1>2 DEF PartialMaps

LEMMA WithoutType ==
  ASSUME NEW T, NEW m \in PartialMaps(T), NEW f
  PROVE  Without(m, f) \in PartialMaps(T)
<1> DEFINE S == DOMAIN m \ {f}
<1>1. S \in SUBSET Faces /\ \A g \in DOMAIN m : m[g] \in T
  BY DEF PartialMaps
<1>2. Without(m, f) \in [S -> T]
  BY <1>1 DEF Without
<1> QED BY <1>1, <1>2 DEF PartialMaps

\* The last expiry is that of an in-record, and no other in-record's is later.
LEMMA LastExpiryIsLast ==
  ASSUME NEW in \in PartialMaps(InRecords), NEW f \in DOMAIN in
  PROVE  /\ LastExpiry(in, f) \in Nat
         /\ \E g \in DOMAIN in : LastExpiry(in, f) = in[g].expiry
         /\ \A g \in DOMAIN in : in[g].expiry <= LastExpiry(in, f)
<1> DEFINE T == {in[g].expiry : g \in DOMAIN in}
           K == MaxNow + MaxLifetime
           IsLast(t) == \A g \in DOMAIN in : in[g].expiry <= t
<1>1. K \in Nat
  BY ForwardingAssumption
<1>2. T \in SUBSET (0 .. K) /\ T # {}
  BY DEF PartialMaps, InRecords
<1>3. PICK t \in T : \A y \in T : y <= t
  BY <1>1, <1>2, HasGreatest
<1>4. IsLast(t)
  BY <1>3
<1>5. LastExpiry(in, f) = CHOOSE x \in T : IsLast(x)
  BY DEF LastExpiry
<1>6. LastExpiry(in, f) \in T /\ IsLast(LastExpiry(in, f))
  BY <1>4, <1>5
<1> QED BY <1>1, <1>2, <1>6

\* What duration_cast cuts off is less than a millisecond.
LEMMA TruncationIsSmall ==
  ASSUME NEW d \in Nat
  PROVE  /\ WholeMilliseconds(d) \in Nat
         /\ WholeMilliseconds(d) <= d
         /\ d < WholeMilliseconds(d) + Millisecond
<1>1. Millisecond \in Nat /\ Millisecond > 0
  BY ForwardingAssumption
<1>2. d \div Millisecond \in Nat
  BY <1>1
<1>3. /\ d = Millisecond * (d \div Millisecond) + (d % Millisecond)
      /\ d % Millisecond \in 0 .. Millisecond - 1
  BY <1>1
<1> DEFINE q == d \div Millisecond
<1>4. q * Millisecond = Millisecond * q /\ q * Millisecond \in Nat
  BY <1>1, <1>2
<1> QED BY <1>1, <1>2, <1>3, <1>4 DEF WholeMilliseconds

\* The timer covers every in-record, less than a millisecond short.
LEMMA TimerOfCovers ==
  ASSUME now \in Nat, NEW in \in PartialMaps(InRecords), NEW f \in DOMAIN in,
         in[f].expiry >= now
  PROVE  /\ TimerOf(in, f) \in Nat
         /\ TimerOf(in, f) >= now
         /\ \A g \in DOMAIN in : in[g].expiry < TimerOf(in, f) + Millisecond
<1>1. /\ LastExpiry(in, f) \in Nat
      /\ \A g \in DOMAIN in : in[g].expiry <= LastExpiry(in, f)
  BY LastExpiryIsLast
<1>2. \A g \in DOMAIN in : in[g].expiry \in Nat
  BY ForwardingAssumption DEF PartialMaps, InRecords
<1>3. LastExpiry(in, f) - now \in Nat
  BY <1>1, <1>2
<1> DEFINE d == LastExpiry(in, f) - now
<1>4. /\ WholeMilliseconds(d) \in Nat
      /\ d < WholeMilliseconds(d) + Millisecond
  BY <1>3, TruncationIsSmall
<1>5. TimerOf(in, f) = now + WholeMilliseconds(d)
  BY DEF TimerOf
<1>6. Millisecond \in Nat
  BY ForwardingAssumption
<1>7. LastExpiry(in, f) = now + d
  BY <1>1
<1>8. d \in Nat
  BY <1>3
<1> HIDE DEF d
<1>9. LastExpiry(in, f) < TimerOf(in, f) + Millisecond
  BY <1>4, <1>5, <1>6, <1>7, <1>8
<1> QED BY <1>1, <1>2, <1>4, <1>5, <1>6, <1>9

\* A doubled interval is still between the constants of the strategy.
LEMMA DoubledIsBounded ==
  ASSUME NEW i \in Initial .. MaxInterval
  PROVE  Doubled(i) \in Initial .. MaxInterval
BY ForwardingAssumption DEF Doubled

\* Out-records stay out-records when their intervals back off.
LEMMA BackedOffType ==
  ASSUME NEW out \in PartialMaps(OutRecords), NEW hops
  PROVE  BackedOff(out, hops) \in PartialMaps(OutRecords)
<1>1. PICK S \in SUBSET Faces : out \in [S -> OutRecords]
  BY DEF PartialMaps
<1>2. \A u \in S : [out[u] EXCEPT !.interval = Doubled(@)] \in OutRecords
  <2> TAKE u \in S
  <2>1. out[u] \in OutRecords
    BY <1>1
  <2>2. Doubled(out[u].interval) \in Initial .. MaxInterval
    BY <2>1, DoubledIsBounded DEF OutRecords
  <2> QED BY <2>1, <2>2 DEF OutRecords
<1>3. BackedOff(out, hops) \in [S -> OutRecords]
  BY <1>1, <1>2 DEF BackedOff
<1> QED BY <1>3 DEF PartialMaps

\* Queueing puts packets into the queues.
LEMMA QueueType ==
  ASSUME queues \in [Faces -> Seq(Packets)],
         NEW packet \in Packets, NEW F, Queue(packet, F)
  PROVE  queues' \in [Faces -> Seq(Packets)]
BY DEF Queue

\* Changing one entry into an entry.
LEMMA EntryUpdate ==
  ASSUME EntriesOK, NEW e, NEW E, e \in Entries => E \in AllEntries,
         entry' = [entry EXCEPT ![e] = E]
  PROVE  EntriesOK'
BY DEF EntriesOK, Entries

\* The entry an Interest is about, and its in-records with the new one.
LEMMA InterestTypes ==
  ASSUME EntriesOK, RestOK, NEW f \in Downs, NEW n \in Nonces,
         NEW lifetime \in Lifetimes,
         arrived < MaxInterests, Insert, arrived' = arrived + 1
  PROVE  /\ Current \in Entries
         /\ Current \in 0 .. created'
         /\ created' \in 0 .. arrived'
         /\ entry[Current] \in AllEntries
         /\ With(entry[Current].in, f, [nonce |-> n, expiry |-> now + lifetime])
              \in PartialMaps(InRecords)
<1>1. Current \in Entries /\ Current \in 0 .. created' /\ created' \in 0 .. arrived'
  BY ForwardingAssumption DEF Current, Insert, RestOK, Entries, NoEntry
<1>2. entry[Current] \in AllEntries
  BY <1>1 DEF EntriesOK
<1>3. now + lifetime \in 0 .. MaxNow + MaxLifetime
  BY ForwardingAssumption DEF RestOK
<1>4. [nonce |-> n, expiry |-> now + lifetime] \in InRecords
  BY <1>3 DEF InRecords
<1>5. entry[Current].in \in PartialMaps(InRecords)
  BY <1>2 DEF AllEntries
<1> QED BY <1>1, <1>2, <1>4, <1>5, WithType DEF Faces

-----------------------------------------------------------------------------
(* Types. *)

LEMMA InitType == Init => EntriesOK /\ RestOK
<1> SUFFICES ASSUME Init PROVE EntriesOK /\ RestOK
  OBVIOUS
<1>1. \A T : Empty \in PartialMaps(T)
  <2> TAKE T
  <2>1. Empty \in [{} -> T]
    BY DEF Empty
  <2> QED BY <2>1 DEF PartialMaps
<1>2. NewEntry \in AllEntries
  <2>1. Empty \in PartialMaps(InRecords) /\ Empty \in PartialMaps(OutRecords)
    BY <1>1
  <2>2. Initial \in Initial .. MaxInterval
    BY ForwardingAssumption
  <2> QED BY <2>1, <2>2 DEF NewEntry, AllEntries
<1>3. EntriesOK
  BY <1>2 DEF Init, EntriesOK
<1>4. queues \in [Faces -> Seq(Packets)]
  BY DEF Init
<1>5. unanswered \in [Ups -> SUBSET Nonces]
  BY DEF Init
<1>6. /\ now \in 0 .. MaxNow /\ arrived \in 0 .. MaxInterests
      /\ created \in 0 .. arrived /\ pit \in 0 .. created
  BY ForwardingAssumption DEF Init, NoEntry
<1> QED BY <1>3, <1>4, <1>5, <1>6 DEF Init, RestOK

LEMMA InterestMissesType ==
  ASSUME EntriesOK, RestOK, NEW f \in Downs, NEW n \in Nonces,
         NEW lifetime \in Lifetimes,
         arrived < MaxInterests, arrived' = arrived + 1,
         InterestMisses(f, n, lifetime)
  PROVE  EntriesOK' /\ RestOK'
<1> DEFINE E == entry[Current]
           in == With(E.in, f, [nonce |-> n, expiry |-> now + lifetime])
           hops == Hops(E, f)
           p == [type |-> "interest", entry |-> Current, nonce |-> n,
                 lifetime |-> lifetime]
           E2 == [E EXCEPT !.in = IF NoRoute(E, f) THEN Without(in, f) ELSE in,
                           !.timer = IF NoRoute(E, f) THEN now ELSE TimerOf(in, f),
                           !.rejecter = IF NoRoute(E, f) THEN f ELSE NoFace,
                           !.out = BackedOff(E.out, hops),
                           !.interval = IF Pending(E) /\ ~EntrySuppressed(E)
                                        THEN Doubled(E.interval) ELSE E.interval]
<1>1. Insert
  BY DEF InterestMisses
<1>2. /\ Current \in Entries /\ Current \in 0 .. created'
      /\ created' \in 0 .. arrived'
      /\ E \in AllEntries /\ in \in PartialMaps(InRecords)
  BY <1>1, InterestTypes
<1>3. now \in Nat
  BY ForwardingAssumption DEF RestOK
<1>4. f \in DOMAIN in /\ in[f].expiry = now + lifetime /\ now + lifetime >= now
  BY <1>3, ForwardingAssumption DEF With
<1>5. entry' = [entry EXCEPT ![Current] = E2]
  BY DEF InterestMisses
<1>6. Queue(p, hops)
  BY DEF InterestMisses
<1>7. UNCHANGED <<now, dataFace, cached, dnl, unanswered>> /\ pit' = Current
      /\ pc' \in {"idle", "pass"}
  BY DEF InterestMisses
<1>8. Doubled(E.interval) \in Initial .. MaxInterval
  BY <1>2, DoubledIsBounded DEF AllEntries
<1>9. BackedOff(E.out, hops) \in PartialMaps(OutRecords)
  BY <1>2, BackedOffType DEF AllEntries
<1> HIDE DEF in, hops
<1>10. TimerOf(in, f) \in Nat
  BY <1>2, <1>3, <1>4, TimerOfCovers
<1>11. Without(in, f) \in PartialMaps(InRecords)
  BY <1>2, WithoutType
<1>12. E2 \in AllEntries
  BY <1>2, <1>3, <1>8, <1>9, <1>10, <1>11 DEF AllEntries
<1>13. p \in Packets
  BY <1>2, ForwardingAssumption DEF Packets
<1> HIDE DEF E2, p
<1>14. EntriesOK'
  BY <1>5, <1>12, EntryUpdate
<1>15. queues' \in [Faces -> Seq(Packets)]
  BY <1>6, <1>13, QueueType DEF RestOK
<1>16. arrived' \in 0 .. MaxInterests
  BY ForwardingAssumption DEF RestOK
<1> QED BY <1>2, <1>7, <1>14, <1>15, <1>16 DEF RestOK

LEMMA ReceiveInterestType ==
  ASSUME EntriesOK, RestOK, NEW f \in Downs, NEW n \in Nonces,
         NEW lifetime \in Lifetimes, ReceiveInterest(f, n, lifetime)
  PROVE  EntriesOK' /\ RestOK'
<1>1. arrived < MaxInterests /\ arrived' = arrived + 1 /\ arrived' \in 0 .. MaxInterests
  BY ForwardingAssumption DEF RestOK, ReceiveInterest
<1>2. CASE InterestLoops(f, n)
  BY <1>1, <1>2 DEF InterestLoops, EntriesOK, RestOK
<1>3. CASE InterestHits(f, n)
  <2> DEFINE E2 == [entry[Current] EXCEPT !.satisfied = TRUE, !.timer = now]
  <2>1. Insert /\ entry' = [entry EXCEPT ![Current] = E2]
    BY <1>3 DEF InterestHits
  <2>2. /\ Current \in 0 .. created'
        /\ created' \in 0 .. arrived'
        /\ entry[Current] \in AllEntries
    BY <1>1, <2>1, InterestTypes
  <2>3. now \in Nat
    BY ForwardingAssumption DEF RestOK
  <2>4. E2 \in AllEntries
    BY <2>2, <2>3 DEF AllEntries
  <2> HIDE DEF E2
  <2>5. EntriesOK'
    BY <2>1, <2>4, EntryUpdate
  <2> QED BY <1>1, <1>3, <2>2, <2>5 DEF InterestHits, RestOK
<1>4. CASE InterestMisses(f, n, lifetime)
  BY <1>1, <1>4, InterestMissesType
<1> QED BY <1>2, <1>3, <1>4 DEF ReceiveInterest

LEMMA ReceiveDataType ==
  ASSUME EntriesOK, RestOK, NEW u \in Ups, NEW n \in Nonces, ReceiveData(u, n)
  PROVE  EntriesOK' /\ RestOK'
<1>1. unanswered' \in [Ups -> SUBSET Nonces]
  BY DEF ReceiveData, RestOK
<1>2. UNCHANGED <<now, created, pit, dnl, arrived>>
  BY DEF ReceiveData
<1>3. CASE DataUnsolicited(u, n)
  BY <1>1, <1>2, <1>3 DEF DataUnsolicited, EntriesOK, RestOK
<1>4. CASE DataMatches(u, n)
  <2> DEFINE E2 == [entry[pit] EXCEPT !.timer = now]
             p == [type |-> "data", entry |-> pit, nonce |-> n, lifetime |-> 0]
  <2>1. pit \in Entries /\ entry[pit] \in AllEntries /\ now \in Nat
    BY <1>4, ForwardingAssumption DEF DataMatches, RestOK, EntriesOK, Entries, NoEntry
  <2>2. entry' = [entry EXCEPT ![pit] = E2]
    BY <1>4 DEF DataMatches
  <2>3. E2 \in AllEntries
    BY <2>1 DEF AllEntries
  <2>4. p \in Packets
    BY <2>1 DEF Packets
  <2>5. Queue(p, Waiting(entry[pit], u))
    BY <1>4 DEF DataMatches
  <2> HIDE DEF E2, p
  <2>6. EntriesOK'
    BY <2>2, <2>3, EntryUpdate
  <2>7. queues' \in [Faces -> Seq(Packets)]
    BY <2>4, <2>5, QueueType DEF RestOK
  <2>8. cached' \in BOOLEAN /\ pc' \in {"idle", "pass"} /\ dataFace' \in Ups \cup {NoFace}
    BY <1>4 DEF DataMatches
  <2> QED BY <1>1, <1>2, <2>6, <2>7, <2>8 DEF RestOK
<1> QED BY <1>3, <1>4 DEF ReceiveData

LEMMA NackedType ==
  ASSUME RestOK, NEW E \in AllEntries, NEW u, NEW n
  PROVE  Nacked(E, u, n) \in AllEntries
<1> DEFINE N == [E EXCEPT !.out[u].nacked = TRUE]
<1>1. ASSUME u \in DOMAIN E.out PROVE N \in AllEntries
  <2>1. PICK S \in SUBSET Faces : E.out \in [S -> OutRecords]
    BY DEF AllEntries, PartialMaps
  <2>2. [E.out[u] EXCEPT !.nacked = TRUE] \in OutRecords
    BY <1>1, <2>1 DEF OutRecords
  <2>3. [E.out EXCEPT ![u] = [E.out[u] EXCEPT !.nacked = TRUE]] \in [S -> OutRecords]
    BY <2>1, <2>2
  <2>4. [E.out EXCEPT ![u] = [E.out[u] EXCEPT !.nacked = TRUE]] \in PartialMaps(OutRecords)
    BY <2>3 DEF PartialMaps
  <2>5. N = [E EXCEPT !.out = [E.out EXCEPT ![u] = [E.out[u] EXCEPT !.nacked = TRUE]]]
    OBVIOUS
  <2> QED BY <2>4, <2>5 DEF AllEntries
<1>2. now \in Nat
  BY ForwardingAssumption DEF RestOK
<1> HIDE DEF N
<1>3. ASSUME N \in AllEntries PROVE [N EXCEPT !.timer = now] \in AllEntries
  BY <1>2, <1>3 DEF AllEntries
<1> USE DEF N
<1> QED BY <1>1, <1>3, Zenon DEF Nacked

LEMMA ReceiveNackType ==
  ASSUME EntriesOK, RestOK, NEW u \in Ups, NEW n \in Nonces, ReceiveNack(u, n)
  PROVE  EntriesOK' /\ RestOK'
<1>1. EntriesOK'
  <2>1. CASE pit = NoEntry
    BY <2>1 DEF ReceiveNack, EntriesOK
  <2>2. CASE pit # NoEntry
    <3>1. pit \in Entries
      BY <2>2, ForwardingAssumption DEF RestOK, Entries, NoEntry
    <3>2. Nacked(entry[pit], u, n) \in AllEntries
      BY <3>1, NackedType DEF EntriesOK
    <3>3. entry' = [entry EXCEPT ![pit] = Nacked(entry[pit], u, n)]
      BY <2>2 DEF ReceiveNack
    <3> QED BY <3>2, <3>3, EntryUpdate
  <2> QED BY <2>1, <2>2
<1> QED BY <1>1 DEF ReceiveNack, RestOK

LEMMA RecordedType ==
  ASSUME RestOK, NEW E \in AllEntries, NEW u \in Faces, NEW n \in Nonces,
         NEW lifetime \in Nat
  PROVE  Recorded(E, u, n, lifetime) \in PartialMaps(OutRecords)
<1> DEFINE old == u \in DOMAIN E.out
           r == [nonce |-> n, renewed |-> now, expiry |-> now + lifetime,
                 nacked |-> old /\ E.out[u].nacked,
                 interval |-> IF old THEN E.out[u].interval ELSE Initial,
                 sends |-> IF old THEN E.out[u].sends + 1 ELSE 1]
<1>1. E.out \in PartialMaps(OutRecords)
  BY DEF AllEntries
<1>2. old => E.out[u] \in OutRecords
  BY <1>1 DEF PartialMaps
<1>3. now \in 0 .. MaxNow /\ now + lifetime \in Nat
  BY ForwardingAssumption DEF RestOK
<1>4. Initial \in Initial .. MaxInterval
  BY ForwardingAssumption
<1>6. r \in OutRecords
  <2>1. CASE old
    <3>1. /\ E.out[u].nacked \in BOOLEAN /\ E.out[u].sends + 1 \in Nat
          /\ E.out[u].interval \in Initial .. MaxInterval
      BY <1>2, <2>1 DEF OutRecords
    <3> QED BY <1>3, <2>1, <3>1 DEF OutRecords
  <2>2. CASE ~old
    BY <1>3, <1>4, <2>2 DEF OutRecords
  <2> QED BY <2>1, <2>2
<1> HIDE DEF r
<1>7. With(E.out, u, r) \in PartialMaps(OutRecords)
  BY <1>1, <1>6, WithType
<1> QED BY <1>7 DEF Recorded, r

LEMMA SendInterestType ==
  ASSUME EntriesOK, RestOK, NEW u \in Faces, SendInterest(u)
  PROVE  EntriesOK' /\ RestOK'
<1> DEFINE p == Head(queues[u])
           E == entry[p.entry]
           E2 == [E EXCEPT !.out = Recorded(E, u, p.nonce, p.lifetime)]
<1>1. queues[u] \in Seq(Packets) /\ queues[u] # <<>>
  BY DEF RestOK, SendInterest, IsHead
<1>2. p \in Packets /\ Tail(queues[u]) \in Seq(Packets)
  BY <1>1
<1>3. p.entry \in Entries /\ p.nonce \in Nonces /\ p.lifetime \in Nat
  BY <1>2 DEF Packets
<1>4. E \in AllEntries
  BY <1>3 DEF EntriesOK
<1> HIDE DEF p
<1>5. Recorded(E, u, p.nonce, p.lifetime) \in PartialMaps(OutRecords)
  BY <1>3, <1>4, RecordedType
<1>6. E2 \in AllEntries
  BY <1>4, <1>5 DEF AllEntries
<1>7. entry' = [entry EXCEPT ![p.entry] = E2]
  BY DEF SendInterest, p
<1> HIDE DEF E2
<1>8. EntriesOK'
  BY <1>6, <1>7, EntryUpdate
<1>9. queues' \in [Faces -> Seq(Packets)]
  BY <1>2 DEF SendInterest, RestOK
<1>10. unanswered' \in [Ups -> SUBSET Nonces]
  <2>1. unanswered' = [unanswered EXCEPT ![u] = @ \cup {p.nonce}]
    BY DEF SendInterest, p
  <2> QED BY <1>3, <2>1 DEF RestOK
<1> QED BY <1>8, <1>9, <1>10 DEF SendInterest, RestOK

LEMMA SendDataType ==
  ASSUME EntriesOK, RestOK, NEW f \in Faces, SendData(f)
  PROVE  EntriesOK' /\ RestOK'
<1> DEFINE p == Head(queues[f])
           E == entry[p.entry]
           E2 == [E EXCEPT !.in = Without(E.in, f)]
<1>1. queues[f] \in Seq(Packets) /\ queues[f] # <<>>
  BY DEF RestOK, SendData, IsHead
<1>2. p \in Packets /\ Tail(queues[f]) \in Seq(Packets)
  BY <1>1
<1>3. E \in AllEntries
  BY <1>2 DEF EntriesOK, Packets
<1>4. Without(E.in, f) \in PartialMaps(InRecords)
  BY <1>3, WithoutType DEF AllEntries
<1>5. E2 \in AllEntries
  BY <1>3, <1>4 DEF AllEntries
<1>6. entry' = [entry EXCEPT ![p.entry] = E2]
  BY DEF SendData
<1> HIDE DEF E2, p
<1>7. EntriesOK'
  BY <1>5, <1>6, EntryUpdate
<1>8. queues' \in [Faces -> Seq(Packets)]
  BY <1>2 DEF SendData, RestOK, p
<1> QED BY <1>7, <1>8 DEF SendData, RestOK, netVars

LEMMA EndPassType ==
  ASSUME EntriesOK, RestOK, EndPass
  PROVE  EntriesOK' /\ RestOK'
<1>1. EntriesOK'
  <2>1. CASE dataFace = NoFace
    BY <2>1 DEF EndPass, EntriesOK
  <2>2. CASE dataFace # NoFace
    <3> DEFINE E == entry[pit]
               E2 == [E EXCEPT !.satisfied = TRUE, !.out = Without(E.out, dataFace)]
    <3>1. entry' = [entry EXCEPT ![pit] = E2]
      BY <2>2 DEF EndPass
    <3>2. ASSUME pit \in Entries PROVE E2 \in AllEntries
      <4>1. E \in AllEntries
        BY <3>2 DEF EntriesOK
      <4>2. Without(E.out, dataFace) \in PartialMaps(OutRecords)
        BY <4>1, WithoutType DEF AllEntries
      <4> QED BY <4>1, <4>2 DEF AllEntries
    <3> HIDE DEF E2
    <3> QED BY <3>1, <3>2, EntryUpdate
  <2> QED BY <2>1, <2>2
<1> QED BY <1>1 DEF EndPass, RestOK, netVars

LEMMA FinalizeType ==
  ASSUME EntriesOK, RestOK, Finalize
  PROVE  EntriesOK' /\ RestOK'
<1>1. pit \in Entries /\ pit' = 0 /\ UNCHANGED created /\ created \in Nat
  BY ForwardingAssumption DEF Finalize, RestOK, Entries, NoEntry
<1>2. entry[pit] \in AllEntries
  BY <1>1 DEF EntriesOK
<1>3. {entry[pit].out[u].nonce : u \in DOMAIN entry[pit].out} \subseteq Nonces
  BY <1>2 DEF AllEntries, PartialMaps, OutRecords
<1>4. dnl' \subseteq Nonces
  BY <1>3 DEF Finalize, RestOK
<1>5. pit' \in 0 .. created'
  BY <1>1
<1> QED BY <1>4, <1>5 DEF Finalize, EntriesOK, RestOK

LEMMA NextType == EntriesOK /\ RestOK /\ [Next]_vars => EntriesOK' /\ RestOK'
<1> SUFFICES ASSUME EntriesOK, RestOK, [Next]_vars PROVE EntriesOK' /\ RestOK'
  OBVIOUS
<1>1. ASSUME NEW f \in Downs, NEW n \in Nonces, NEW lifetime \in Lifetimes,
             ReceiveInterest(f, n, lifetime)
      PROVE  EntriesOK' /\ RestOK'
  BY <1>1, ReceiveInterestType
<1>2. ASSUME NEW u \in Ups, NEW n \in Nonces, ReceiveData(u, n)
      PROVE  EntriesOK' /\ RestOK'
  BY <1>2, ReceiveDataType
<1>3. ASSUME NEW u \in Ups, NEW n \in Nonces, ReceiveNack(u, n)
      PROVE  EntriesOK' /\ RestOK'
  BY <1>3, ReceiveNackType
<1>4. CASE OtherEvent
  BY <1>4 DEF OtherEvent, EntriesOK, RestOK, netVars
<1>5. ASSUME NEW f \in Faces, SendInterest(f) PROVE EntriesOK' /\ RestOK'
  BY <1>5, SendInterestType
<1>6. ASSUME NEW f \in Faces, SendData(f) PROVE EntriesOK' /\ RestOK'
  BY <1>6, SendDataType
<1>7. CASE EndPass
  BY <1>7, EndPassType
<1>8. CASE Finalize
  BY <1>8, FinalizeType
<1>9. CASE Evict
  BY <1>9 DEF Evict, EntriesOK, RestOK
<1>10. CASE Tick
  <2>1. now' \in 0 .. MaxNow
    BY <1>10, ForwardingAssumption DEF Tick, RestOK
  <2> QED BY <1>10, <2>1 DEF Tick, EntriesOK, RestOK, netVars
<1>11. CASE UNCHANGED vars
  BY <1>11 DEF vars, EntriesOK, RestOK
<1> QED BY <1>1, <1>2, <1>3, <1>4, <1>5, <1>6, <1>7, <1>8, <1>9, <1>10, <1>11 DEF Next

\* The variables have their types: a suppression interval stays between
\* RETX_SUPPRESSION_INITIAL and RETX_SUPPRESSION_MAX however often it is
\* doubled, and a queued packet speaks of an entry that was created.
THEOREM TypeCorrect == Spec => []TypeOK
<1>1. Init => EntriesOK /\ RestOK
  BY InitType
<1>2. EntriesOK /\ RestOK /\ [Next]_vars => EntriesOK' /\ RestOK'
  BY NextType
<1>3. EntriesOK /\ RestOK => TypeOK
  BY TypeParts
<1> QED BY <1>1, <1>2, <1>3, PTL DEF Spec

-----------------------------------------------------------------------------
(* The timer of the entry, and why it is cut. *)

\* While prioritySend was called by onIncomingData there is an entry, and
\* the timer neither lies in the past nor much before the last in-record.
TimerInv ==
  /\ dataFace # NoFace => pc = "pass" /\ pit # NoEntry
  /\ TimerCoversDownstreams

\* The cause of an entry that is about to be finalised.
Cause(E) ==
  \/ E.satisfied
  \/ \A f \in DOMAIN E.in : E.in[f].expiry < now + Millisecond
  \/ \E u \in DOMAIN E.out : E.out[u].nacked
  \/ E.rejecter # NoFace /\ HasNoRoute(E.rejecter)

\* An entry whose timer is due has a cause, but while its Data is being sent.
CauseInv ==
  pit # NoEntry /\ entry[pit].timer <= now /\ dataFace = NoFace => Cause(entry[pit])

LEMMA InitInv == Init => TimerInv /\ CauseInv
BY DEF Init, TimerInv, TimerCoversDownstreams, CauseInv

\* An entry that keeps its timer and its cause, and gets no new in-records,
\* keeps the invariants.
LEMMA KeptInv ==
  ASSUME EntriesOK, RestOK, TimerInv, CauseInv,
         UNCHANGED <<now, pit, dataFace, pc>>,
         NEW e, NEW E2, entry' = [entry EXCEPT ![e] = E2],
         e \in Entries =>
           /\ E2.timer = entry[e].timer
           /\ DOMAIN E2.in \subseteq DOMAIN entry[e].in
           /\ \A f \in DOMAIN E2.in : E2.in[f] = entry[e].in[f]
           /\ Cause(entry[e]) => Cause(E2)
  PROVE  TimerInv' /\ CauseInv'
<1>1. CASE pit = NoEntry
  BY <1>1 DEF TimerInv, TimerCoversDownstreams, CauseInv
<1>2. CASE pit # NoEntry
  <2>1. pit \in Entries
    BY <1>2, ForwardingAssumption DEF RestOK, Entries, NoEntry
  <2>2. entry'[pit] = IF e = pit THEN E2 ELSE entry[pit]
    BY <2>1 DEF EntriesOK
  <2>3. /\ entry'[pit].timer = entry[pit].timer
        /\ DOMAIN entry'[pit].in \subseteq DOMAIN entry[pit].in
        /\ \A f \in DOMAIN entry'[pit].in : entry'[pit].in[f] = entry[pit].in[f]
        /\ Cause(entry[pit]) => Cause(entry'[pit])
    BY <2>1, <2>2
  <2>4. TimerInv'
    BY <2>3 DEF TimerInv, TimerCoversDownstreams
  <2>5. Cause(entry'[pit]) => Cause(entry[pit])'
    BY DEF Cause
  <2>6. CauseInv'
    BY <2>3, <2>5 DEF CauseInv
  <2> QED BY <2>4, <2>6
<1> QED BY <1>1, <1>2

LEMMA InterestInv ==
  ASSUME EntriesOK, RestOK, TimerInv, CauseInv,
         NEW f \in Downs, NEW n \in Nonces, NEW lifetime \in Lifetimes,
         ReceiveInterest(f, n, lifetime)
  PROVE  TimerInv' /\ CauseInv'
<1>1. arrived < MaxInterests /\ arrived' = arrived + 1 /\ pc = "idle"
      /\ dataFace = NoFace
  BY DEF ReceiveInterest, TimerInv
<1>2. CASE InterestLoops(f, n)
  <2>1. UNCHANGED <<now, entry, pit, dataFace>>
    BY <1>2 DEF InterestLoops
  <2> QED BY <1>1, <2>1 DEF TimerInv, TimerCoversDownstreams, CauseInv, Cause
<1>3. CASE InterestHits(f, n)
  <2> DEFINE E2 == [entry[Current] EXCEPT !.satisfied = TRUE, !.timer = now]
  <2>1. Insert /\ entry' = [entry EXCEPT ![Current] = E2] /\ pit' = Current
        /\ now' = now /\ dataFace' = dataFace
    BY <1>3 DEF InterestHits
  <2>2. Current \in Entries /\ entry[Current] \in AllEntries
    BY <1>1, <2>1, InterestTypes
  <2>3. E2.satisfied = TRUE /\ E2.timer = now
    BY <2>2 DEF AllEntries
  <2>4. entry'[pit'] = E2
    BY <2>1, <2>2 DEF EntriesOK
  <2>5. now \in Nat
    BY ForwardingAssumption DEF RestOK
  <2> HIDE DEF E2
  <2>6. TimerInv'
    BY <1>1, <2>1, <2>3, <2>4, <2>5 DEF TimerInv, TimerCoversDownstreams
  <2>7. CauseInv'
    BY <2>3, <2>4 DEF CauseInv, Cause
  <2> QED BY <2>6, <2>7
<1>4. CASE InterestMisses(f, n, lifetime)
  <2> DEFINE E == entry[Current]
             in == With(E.in, f, [nonce |-> n, expiry |-> now + lifetime])
             E2 == [E EXCEPT !.in = IF NoRoute(E, f) THEN Without(in, f) ELSE in,
                             !.timer = IF NoRoute(E, f) THEN now ELSE TimerOf(in, f),
                             !.rejecter = IF NoRoute(E, f) THEN f ELSE NoFace,
                             !.out = BackedOff(E.out, Hops(E, f)),
                             !.interval = IF Pending(E) /\ ~EntrySuppressed(E)
                                          THEN Doubled(E.interval) ELSE E.interval]
  <2>1. Insert /\ entry' = [entry EXCEPT ![Current] = E2] /\ pit' = Current
        /\ now' = now /\ dataFace' = dataFace
    BY <1>4 DEF InterestMisses
  <2>2. Current \in Entries /\ E \in AllEntries /\ in \in PartialMaps(InRecords)
    BY <1>1, <2>1, InterestTypes
  <2>3. /\ E2.in = IF NoRoute(E, f) THEN Without(in, f) ELSE in
        /\ E2.timer = IF NoRoute(E, f) THEN now ELSE TimerOf(in, f)
    BY <2>2 DEF AllEntries
  <2>4. entry'[pit'] = E2
    BY <2>1, <2>2 DEF EntriesOK
  <2>5. now \in Nat /\ lifetime \in Nat
    BY ForwardingAssumption DEF RestOK
  <2>6. f \in DOMAIN in /\ in[f].expiry = now + lifetime
    BY DEF With
  <2>7. E2.rejecter = IF NoRoute(E, f) THEN f ELSE NoFace
    BY <2>2 DEF AllEntries
  <2> HIDE DEF E2, in, E
  <2>8. /\ TimerOf(in, f) \in Nat /\ TimerOf(in, f) >= now
        /\ \A g \in DOMAIN in : in[g].expiry < TimerOf(in, f) + Millisecond
    BY <2>2, <2>5, <2>6, TimerOfCovers
  <2>9. CASE NoRoute(E, f)
    <3>1. E2.timer = now
      BY <2>3, <2>9
    <3>2. TimerInv'
      BY <1>1, <2>1, <2>4, <2>5, <3>1 DEF TimerInv, TimerCoversDownstreams
    <3>3. HasNoRoute(f) /\ f # NoFace
      BY <2>9, ForwardingAssumption DEF NoRoute, Hops, HasNoRoute
    <3>4. CauseInv'
      BY <2>4, <2>7, <2>9, <3>3 DEF CauseInv, Cause, HasNoRoute
    <3> QED BY <3>2, <3>4
  <2>10. CASE ~NoRoute(E, f)
    <3>1. E2.timer = TimerOf(in, f) /\ E2.in = in
      BY <2>3, <2>10
    <3>2. TimerInv'
      BY <1>1, <2>1, <2>4, <2>8, <3>1 DEF TimerInv, TimerCoversDownstreams
    <3>3. \A g \in DOMAIN in : in[g].expiry \in Nat
      BY <2>2, ForwardingAssumption DEF PartialMaps, InRecords
    <3>4. E2.timer <= now => \A g \in DOMAIN E2.in : E2.in[g].expiry < now + Millisecond
      BY <2>5, <2>8, <3>1, <3>3, ForwardingAssumption
    <3>5. CauseInv'
      BY <2>1, <2>4, <3>4 DEF CauseInv, Cause
    <3> QED BY <3>2, <3>5
  <2> QED BY <2>9, <2>10
<1> QED BY <1>2, <1>3, <1>4 DEF ReceiveInterest

LEMMA DataInv ==
  ASSUME EntriesOK, RestOK, TimerInv, CauseInv,
         NEW u \in Ups, NEW n \in Nonces, ReceiveData(u, n)
  PROVE  TimerInv' /\ CauseInv'
<1>1. UNCHANGED <<now, pit>> /\ pc = "idle" /\ dataFace = NoFace
  BY DEF ReceiveData, TimerInv
<1>2. CASE DataUnsolicited(u, n)
  BY <1>1, <1>2 DEF DataUnsolicited, TimerInv, TimerCoversDownstreams, CauseInv
<1>3. CASE DataMatches(u, n)
  <2>1. pit # NoEntry /\ pc' = "pass" /\ dataFace' = u
        /\ entry' = [entry EXCEPT ![pit].timer = now]
    BY <1>3 DEF DataMatches
  <2>2. pit \in Entries /\ now \in Nat /\ u # NoFace
    BY <2>1, ForwardingAssumption DEF RestOK, Entries, NoEntry
  <2>3. entry[pit] \in AllEntries
    BY <2>2 DEF EntriesOK
  <2>4. [entry[pit] EXCEPT !.timer = now].timer = now
    BY <2>3 DEF AllEntries
  <2>5. entry'[pit].timer = now
    BY <2>1, <2>2, <2>4 DEF EntriesOK
  <2> QED BY <1>1, <2>1, <2>2, <2>5 DEF TimerInv, TimerCoversDownstreams, CauseInv
<1> QED BY <1>2, <1>3 DEF ReceiveData

LEMMA NackInv ==
  ASSUME EntriesOK, RestOK, TimerInv, CauseInv,
         NEW u \in Ups, NEW n \in Nonces, ReceiveNack(u, n)
  PROVE  TimerInv' /\ CauseInv'
<1>1. UNCHANGED <<now, pit, pc, dataFace>>
  BY DEF ReceiveNack
<1>2. CASE pit = NoEntry
  BY <1>1, <1>2 DEF TimerInv, TimerCoversDownstreams, CauseInv
<1>3. CASE pit # NoEntry
  <2> DEFINE E == entry[pit]
             out2 == [E.out EXCEPT ![u] = [E.out[u] EXCEPT !.nacked = TRUE]]
             N == [E EXCEPT !.out = out2]
             NT == [N EXCEPT !.timer = now]
  <2>1. pit \in Entries /\ now \in Nat
    BY <1>3, ForwardingAssumption DEF RestOK, Entries, NoEntry
  <2>2. E \in AllEntries
    BY <2>1 DEF EntriesOK
  <2>3. entry' = [entry EXCEPT ![pit] = Nacked(E, u, n)]
    BY <1>3 DEF ReceiveNack
  <2>4. entry'[pit] = Nacked(E, u, n)
    BY <2>1, <2>3 DEF EntriesOK
  <2>5. N = [E EXCEPT !.out[u].nacked = TRUE]
    OBVIOUS
  <2>6. CASE u \notin DOMAIN E.out \/ E.out[u].nonce # n
    <3>1. Nacked(E, u, n) = E
      BY <2>6 DEF Nacked
    <3> QED BY <1>1, <2>3, <3>1, KeptInv
  <2>7. CASE u \in DOMAIN E.out /\ E.out[u].nonce = n
    <3>1. PICK S \in SUBSET Faces : E.out \in [S -> OutRecords]
      BY <2>2 DEF AllEntries, PartialMaps
    <3>2. DOMAIN out2 = DOMAIN E.out /\ out2[u].nacked = TRUE
      BY <2>7, <3>1 DEF OutRecords
    <3> HIDE DEF out2
    <3>3. N.out = out2 /\ N.in = E.in /\ N.timer = E.timer /\ NT.out = out2
          /\ NT.in = E.in /\ NT.timer = now
      BY <2>2 DEF AllEntries
    <3>4. Cause(N) /\ Cause(NT)
      BY <2>7, <3>2, <3>3 DEF Cause
    <3> HIDE DEF N
    <3>5. CASE Nacked(E, u, n) = N
      BY <1>1, <2>3, <3>3, <3>4, <3>5, KeptInv
    <3>6. CASE Nacked(E, u, n) = NT
      <4>1. entry'[pit'].timer = now' /\ now' \in Nat
        BY <1>1, <2>1, <2>4, <3>3, <3>6
      <4>2. TimerInv'
        BY <1>1, <4>1 DEF TimerInv, TimerCoversDownstreams
      <4>3. Cause(entry'[pit]) => Cause(entry[pit])'
        BY <1>1 DEF Cause
      <4>4. CauseInv'
        BY <1>1, <2>4, <3>4, <3>6, <4>3 DEF CauseInv
      <4> QED BY <4>2, <4>4
    <3>7. Nacked(E, u, n) = N \/ Nacked(E, u, n) = NT
      BY <2>5, <2>7, Zenon DEF Nacked
    <3> QED BY <3>5, <3>6, <3>7
  <2> QED BY <2>6, <2>7
<1> QED BY <1>2, <1>3

LEMMA SendInterestInv ==
  ASSUME EntriesOK, RestOK, TimerInv, CauseInv, NEW u \in Faces, SendInterest(u)
  PROVE  TimerInv' /\ CauseInv'
<1> DEFINE p == Head(queues[u])
           E == entry[p.entry]
           out2 == Recorded(E, u, p.nonce, p.lifetime)
           E2 == [E EXCEPT !.out = out2]
<1>1. UNCHANGED <<now, pit, dataFace, pc>> /\ entry' = [entry EXCEPT ![p.entry] = E2]
  BY DEF SendInterest
<1>2. ASSUME p.entry \in Entries
      PROVE  /\ E2.timer = E.timer /\ E2.in = E.in
             /\ Cause(E) => Cause(E2)
  <2>1. E \in AllEntries
    BY <1>2 DEF EntriesOK
  <2>2. /\ DOMAIN E.out \subseteq DOMAIN out2
        /\ \A v \in DOMAIN E.out : E.out[v].nacked => out2[v].nacked
    BY DEF Recorded, With
  <2> HIDE DEF out2, p
  <2>3. /\ E2.timer = E.timer /\ E2.in = E.in /\ E2.out = out2
        /\ E2.satisfied = E.satisfied /\ E2.rejecter = E.rejecter
    BY <2>1 DEF AllEntries
  <2> HIDE DEF E2, E
  <2> QED BY <2>2, <2>3 DEF Cause
<1> HIDE DEF E2, p
<1> QED BY <1>1, <1>2, KeptInv

LEMMA SendDataInv ==
  ASSUME EntriesOK, RestOK, TimerInv, CauseInv, NEW f \in Faces, SendData(f)
  PROVE  TimerInv' /\ CauseInv'
<1> DEFINE p == Head(queues[f])
           E == entry[p.entry]
           in2 == Without(E.in, f)
           E2 == [E EXCEPT !.in = in2]
<1>1. UNCHANGED <<now, pit, dataFace, pc>> /\ entry' = [entry EXCEPT ![p.entry] = E2]
  BY DEF SendData, netVars
<1>2. ASSUME p.entry \in Entries
      PROVE  /\ E2.timer = E.timer /\ DOMAIN E2.in \subseteq DOMAIN E.in
             /\ \A g \in DOMAIN E2.in : E2.in[g] = E.in[g]
             /\ Cause(E) => Cause(E2)
  <2>1. E \in AllEntries
    BY <1>2 DEF EntriesOK
  <2>2. DOMAIN in2 \subseteq DOMAIN E.in /\ \A g \in DOMAIN in2 : in2[g] = E.in[g]
    BY DEF Without
  <2> HIDE DEF in2, p
  <2>3. /\ E2.timer = E.timer /\ E2.in = in2 /\ E2.out = E.out
        /\ E2.satisfied = E.satisfied /\ E2.rejecter = E.rejecter
    BY <2>1 DEF AllEntries
  <2> HIDE DEF E2, E
  <2> QED BY <2>2, <2>3 DEF Cause
<1> HIDE DEF E2, p
<1> QED BY <1>1, <1>2, KeptInv

LEMMA EndPassInv ==
  ASSUME EntriesOK, RestOK, TimerInv, CauseInv, EndPass
  PROVE  TimerInv' /\ CauseInv'
<1>1. UNCHANGED <<now, pit>> /\ dataFace' = NoFace
  BY DEF EndPass, netVars
<1>2. CASE dataFace = NoFace
  <2>1. UNCHANGED entry
    BY <1>2 DEF EndPass
  <2> QED BY <1>1, <1>2, <2>1 DEF TimerInv, TimerCoversDownstreams, CauseInv, Cause
<1>3. CASE dataFace # NoFace
  <2> DEFINE E == entry[pit]
             E2 == [E EXCEPT !.satisfied = TRUE, !.out = Without(E.out, dataFace)]
  <2>1. pit # NoEntry /\ pit \in Entries
    BY <1>3, ForwardingAssumption DEF TimerInv, RestOK, Entries, NoEntry
  <2>2. E \in AllEntries
    BY <2>1 DEF EntriesOK
  <2>3. entry'[pit] = E2
    BY <1>3, <2>1 DEF EndPass, EntriesOK
  <2>4. E2.satisfied = TRUE /\ E2.timer = E.timer /\ E2.in = E.in
    BY <2>2 DEF AllEntries
  <2> HIDE DEF E2
  <2>5. TimerInv'
    BY <1>1, <2>1, <2>3, <2>4 DEF TimerInv, TimerCoversDownstreams
  <2>6. CauseInv'
    BY <1>1, <2>3, <2>4 DEF CauseInv, Cause
  <2> QED BY <2>5, <2>6
<1> QED BY <1>2, <1>3

LEMMA TickInv ==
  ASSUME EntriesOK, RestOK, TimerInv, CauseInv, Tick
  PROVE  TimerInv' /\ CauseInv'
<1>1. UNCHANGED <<entry, pit, dataFace>> /\ now' = now + 1 /\ pc = "idle" /\ pc' = pc
  BY DEF Tick, netVars
<1>2. now \in Nat
  BY ForwardingAssumption DEF RestOK
<1>3. CASE pit = NoEntry
  BY <1>1, <1>3 DEF TimerInv, TimerCoversDownstreams, CauseInv
<1>4. CASE pit # NoEntry
  <2>1. pit \in Entries /\ entry[pit].timer > now
    BY <1>4, ForwardingAssumption DEF Tick, RestOK, Entries, NoEntry
  <2>2. entry[pit] \in AllEntries
    BY <2>1 DEF EntriesOK
  <2>3. entry[pit].timer \in Nat
    BY <2>2 DEF AllEntries
  <2>4. \A f \in DOMAIN entry[pit].in :
          entry[pit].in[f].expiry < entry[pit].timer + Millisecond
    BY <1>4, <2>1 DEF TimerInv, TimerCoversDownstreams
  <2>5. \A f \in DOMAIN entry[pit].in : entry[pit].in[f].expiry \in Nat
    BY <2>2, ForwardingAssumption DEF AllEntries, PartialMaps, InRecords
  <2>6. entry[pit].timer <= now + 1 =>
          \A f \in DOMAIN entry[pit].in : entry[pit].in[f].expiry < now + 1 + Millisecond
    BY <1>2, <2>3, <2>4, <2>5, ForwardingAssumption
  <2>7. TimerInv'
    BY <1>1, <1>2, <2>1, <2>3, <2>4 DEF TimerInv, TimerCoversDownstreams
  <2>8. CauseInv'
    BY <1>1, <2>6 DEF CauseInv, Cause
  <2> QED BY <2>7, <2>8
<1> QED BY <1>3, <1>4

LEMMA NextInv ==
  ASSUME EntriesOK, RestOK, TimerInv, CauseInv, [Next]_vars
  PROVE  TimerInv' /\ CauseInv'
<1>1. ASSUME NEW f \in Downs, NEW n \in Nonces, NEW lifetime \in Lifetimes,
             ReceiveInterest(f, n, lifetime)
      PROVE  TimerInv' /\ CauseInv'
  BY <1>1, InterestInv
<1>2. ASSUME NEW u \in Ups, NEW n \in Nonces, ReceiveData(u, n)
      PROVE  TimerInv' /\ CauseInv'
  BY <1>2, DataInv
<1>3. ASSUME NEW u \in Ups, NEW n \in Nonces, ReceiveNack(u, n)
      PROVE  TimerInv' /\ CauseInv'
  BY <1>3, NackInv
<1>4. CASE OtherEvent
  BY <1>4 DEF OtherEvent, TimerInv, TimerCoversDownstreams, CauseInv, Cause
<1>5. ASSUME NEW f \in Faces, SendInterest(f) PROVE TimerInv' /\ CauseInv'
  BY <1>5, SendInterestInv
<1>6. ASSUME NEW f \in Faces, SendData(f) PROVE TimerInv' /\ CauseInv'
  BY <1>6, SendDataInv
<1>7. CASE EndPass
  BY <1>7, EndPassInv
<1>8. CASE Finalize
  BY <1>8 DEF Finalize, TimerInv, TimerCoversDownstreams, CauseInv
<1>9. CASE Evict
  BY <1>9 DEF Evict, TimerInv, TimerCoversDownstreams, CauseInv, Cause
<1>10. CASE Tick
  BY <1>10, TickInv
<1>11. CASE UNCHANGED vars
  BY <1>11 DEF vars, TimerInv, TimerCoversDownstreams, CauseInv, Cause
<1> QED BY <1>1, <1>2, <1>3, <1>4, <1>5, <1>6, <1>7, <1>8, <1>9, <1>10, <1>11 DEF Next

\* The timer of the entry never lies before now, nor, until something cuts it
\* down to now, a millisecond or more before the expiry of any of its
\* downstreams' Interests.
THEOREM TimerIsLastExpiry == Spec => []TimerCoversDownstreams
<1>1. Init => EntriesOK /\ RestOK /\ TimerInv /\ CauseInv
  BY InitType, InitInv
<1>2. EntriesOK /\ RestOK /\ TimerInv /\ CauseInv /\ [Next]_vars
        => EntriesOK' /\ RestOK' /\ TimerInv' /\ CauseInv'
  BY NextType, NextInv
<1>3. TimerInv => TimerCoversDownstreams
  BY DEF TimerInv
<1> QED BY <1>1, <1>2, <1>3, PTL DEF Spec

\* An entry that ends while a downstream still waits was satisfied, has been
\* answered with a Nack, or was rejected because of an Interest that no next hop
\* could take, whatever was suppressed at the time.
THEOREM EntriesEndForCause == Spec => EndsForCause
<1>1. Init => EntriesOK /\ RestOK /\ TimerInv /\ CauseInv
  BY InitType, InitInv
<1>2. EntriesOK /\ RestOK /\ TimerInv /\ CauseInv /\ [Next]_vars
        => EntriesOK' /\ RestOK' /\ TimerInv' /\ CauseInv'
  BY NextType, NextInv
<1>3. TimerInv /\ CauseInv /\ [Next]_vars =>
        [Finalize =>
           \/ entry[pit].satisfied
           \/ \A f \in DOMAIN entry[pit].in :
                entry[pit].in[f].expiry < now + Millisecond
           \/ \E u \in DOMAIN entry[pit].out : entry[pit].out[u].nacked
           \/ entry[pit].rejecter # NoFace /\ HasNoRoute(entry[pit].rejecter)]_vars
  BY DEF Finalize, TimerInv, CauseInv, Cause
<1> QED BY <1>1, <1>2, <1>3, PTL DEF Spec, EndsForCause
=============================================================================
