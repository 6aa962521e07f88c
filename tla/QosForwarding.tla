---------------------------- MODULE QosForwarding ----------------------------
(***************************************************************************)
(* The PIT entry of one name on one node that runs the QoS strategy:       *)
(*   fw/forwarder            the Interest, Data and Nack pipelines         *)
(*   fw/qos-strategy         which faces a packet is queued for            *)
(*   fw/retx-suppression-exponential   which retransmissions are queued    *)
(*   table/pit-entry         in-records and out-records                    *)
(* The strategy queues a packet in one event and sends it in the same or a *)
(* later one, when prioritySend finds tokens for it: QosScheduler says     *)
(* when, here a pass sends any packets from the heads of the queues.  The  *)
(* entry goes on changing meanwhile, and is finalised by its timer.        *)
(* All faces are point-to-point, Interests have no MustBeFresh flag and no *)
(* NextHopFaceId tag, and one PIT entry at a time matches the name.        *)
(***************************************************************************)
EXTENDS Integers, Sequences, FiniteSets

CONSTANTS
  Downs,         \* faces Interests for the name come from
  Ups,           \* next hops of the name's FIB entry
  OutOfScope,    \* <<f, u>>: wouldViolateScope, for an Interest from f to u
  NoFace,        \* no face
  Millisecond,   \* steps of the clock in a millisecond
  Initial,       \* RETX_SUPPRESSION_INITIAL
  MaxInterval,   \* RETX_SUPPRESSION_MAX
  Lifetimes,     \* InterestLifetime values
  MaxLifetime,   \* bound: no lifetime is longer
  Blocked,       \* faces whose tokens and queue space may run out
  MaxInterests,  \* bound: Interests that ever arrive
  MaxNow         \* bound: time that ever passes

ASSUME ForwardingAssumption ==
  /\ NoFace \notin Downs \cup Ups
  /\ OutOfScope \subseteq Downs \X Ups
  /\ Millisecond \in Nat \ {0}
  /\ Initial \in Nat \ {0}
  /\ MaxInterval \in Nat /\ Initial <= MaxInterval
  /\ MaxLifetime \in Nat /\ Lifetimes \subseteq 0 .. MaxLifetime
  /\ Blocked \subseteq Downs \cup Ups
  /\ MaxInterests \in Nat
  /\ MaxNow \in Nat

Faces == Downs \cup Ups
Entries == 1 .. MaxInterests     \* entries are numbered as they are created
Nonces == 1 .. MaxInterests
NoEntry == 0

VARIABLES
  now,         \* steady_clock::now()
  entry,       \* entry[e]: the e-th PIT entry of the name
  created,     \* entries created so far
  pit,         \* the entry in the PIT, or NoEntry
  queues,      \* queues[f]: the packets m_tx_queue[f] holds for the name
  pc,          \* "idle" between events, "pass" inside prioritySend
  dataFace,    \* inFace of the onIncomingData that prioritySend returns to
  cached,      \* the content store holds the Data
  dnl,         \* nonces in the dead nonce list
  arrived,     \* Interests that have arrived
  unanswered   \* unanswered[u]: nonces sent to u that got no Data or Nack yet

netVars == <<cached, dnl, arrived, unanswered>>
vars == <<now, entry, created, pit, queues, pc, dataFace, cached, dnl, arrived,
          unanswered>>

With(m, f, v) == [g \in DOMAIN m \cup {f} |-> IF g = f THEN v ELSE m[g]]
Without(m, f) == [g \in DOMAIN m \ {f} |-> m[g]]
Empty == [f \in {} |-> 0]

\* A PIT entry as it is constructed; both PitInfo are made on first use.  The
\* field rejecter is history: the face whose Interest set the timer to now.
NewEntry == [in |-> Empty, out |-> Empty, interval |-> Initial,
             satisfied |-> FALSE, timer |-> 0, rejecter |-> NoFace]

Init ==
  /\ now = 0
  /\ entry = [e \in Entries |-> NewEntry]
  /\ created = 0
  /\ pit = NoEntry
  /\ queues = [f \in Faces |-> <<>>]
  /\ pc = "idle"
  /\ dataFace = NoFace
  /\ cached = FALSE
  /\ dnl = {}
  /\ arrived = 0
  /\ unanswered = [u \in Ups |-> {}]

-----------------------------------------------------------------------------
(* Retransmission suppression. *)

\* Mutant: the interval has no maximum.
DoubledUncapped(interval) == 2 * interval

\* suppressionInterval * m_multiplier, at most m_maxInterval.
Doubled(interval) ==
  IF 2 * interval < MaxInterval THEN 2 * interval ELSE MaxInterval

\* decidePerUpstream is SUPPRESS: u has an out-record that is too fresh.
Suppressed(E, u) ==
  u \in DOMAIN E.out /\ now - E.out[u].renewed < E.out[u].interval

\* hasPendingOutRecords.
Pending(E) == \E u \in DOMAIN E.out : E.out[u].expiry >= now /\ ~E.out[u].nacked

\* decidePerPitEntry is SUPPRESS: the latest out-record is too fresh.
EntrySuppressed(E) ==
  /\ Pending(E)
  /\ \E u \in DOMAIN E.out : now - E.out[u].renewed < E.interval

-----------------------------------------------------------------------------
(* Interests. *)

\* m_pit.insert returns the entry in the PIT or makes a new one.
Current == IF pit = NoEntry THEN created + 1 ELSE pit
Insert == created' = (IF pit = NoEntry THEN created + 1 ELSE created)

\* findDuplicateNonce; the same nonce from the same p2p face is no loop.
Duplicate(E, f, n) ==
  /\ ~(f \in DOMAIN E.in /\ E.in[f].nonce = n)
  /\ \/ \E g \in DOMAIN E.in : E.in[g].nonce = n
     \/ \E u \in DOMAIN E.out : E.out[u].nonce = n

Looped(f, n) == n \in dnl \/ Duplicate(entry[Current], f, n)

\* onInterestLoop: a Nack goes back, and nothing is remembered.
InterestLoops(f, n) ==
  /\ Looped(f, n)
  /\ UNCHANGED <<now, entry, created, pit, queues, pc, dataFace, cached, dnl,
                 unanswered>>

\* onContentStoreHit sends the Data at once, past the queues.
InterestHits(f, n) ==
  /\ ~Looped(f, n)
  /\ cached /\ entry[Current].in = Empty
  /\ entry' = [entry EXCEPT ![Current].satisfied = TRUE, ![Current].timer = now]
  /\ pit' = Current
  /\ Insert
  /\ UNCHANGED <<now, queues, pc, dataFace, cached, dnl, unanswered>>

\* Mutant: the timer follows the Interest that came last.
LastExpiryOfThis(in, f) == in[f].expiry

\* The expiry of the in-record that expires last.
LastExpiry(in, f) ==
  CHOOSE t \in {in[g].expiry : g \in DOMAIN in} :
    \A g \in DOMAIN in : in[g].expiry <= t

\* What duration_cast<milliseconds> leaves of a duration.
WholeMilliseconds(d) == (d \div Millisecond) * Millisecond

\* setExpiryTimer in onContentStoreMiss.
TimerOf(in, f) == now + WholeMilliseconds(LastExpiry(in, f) - now)

\* The loop of afterReceiveInterest: the next hops an Interest from f is
\* queued for.
Hops(E, f) ==
  {u \in Ups \ {f} : ~Suppressed(E, u) /\ <<f, u>> \notin OutOfScope}

\* Mutant: a suppressed next hop counts as none.
NoRouteSuppressed(E, f) == Hops(E, f) = {}

\* No next hop was found, although none is suppressed.
NoRoute(E, f) == Hops(E, f) = {} /\ ~\E u \in Ups : Suppressed(E, u)

\* incrementIntervalForOutRecord, for next hops that have an out-record.
BackedOff(out, hops) == [u \in DOMAIN out |->
  IF u \in hops THEN [out[u] EXCEPT !.interval = Doubled(@)] ELSE out[u]]

Queue(packet, F) ==
  \E full \in SUBSET (F \cap Blocked) :
    queues' = [f \in Faces |->
      IF f \in F \ full THEN Append(queues[f], packet) ELSE queues[f]]

\* onContentStoreMiss and afterReceiveInterest.  NO_ROUTE takes the in-record
\* of f away again and rejects the whole entry.
InterestMisses(f, n, lifetime) ==
  LET E    == entry[Current]
      in   == With(E.in, f, [nonce |-> n, expiry |-> now + lifetime])
      hops == Hops(E, f)
  IN  /\ ~Looped(f, n)
      /\ ~(cached /\ E.in = Empty)
      /\ entry' = [entry EXCEPT ![Current] =
           [E EXCEPT !.in = IF NoRoute(E, f) THEN Without(in, f) ELSE in,
                     !.timer = IF NoRoute(E, f) THEN now ELSE TimerOf(in, f),
                     !.rejecter = IF NoRoute(E, f) THEN f ELSE NoFace,
                     !.out = BackedOff(E.out, hops),
                     !.interval = IF Pending(E) /\ ~EntrySuppressed(E)
                                  THEN Doubled(@) ELSE @]]
      /\ pit' = Current
      /\ Insert
      /\ Queue([type |-> "interest", entry |-> Current, nonce |-> n,
                lifetime |-> lifetime], hops)
      /\ pc' = IF EntrySuppressed(E) THEN "idle" ELSE "pass"
      /\ UNCHANGED <<now, dataFace, cached, dnl, unanswered>>

\* onIncomingInterest.  The nonce is new, or one that was here before.
ReceiveInterest(f, n, lifetime) ==
  /\ pc = "idle"
  /\ arrived < MaxInterests
  /\ n <= arrived + 1
  /\ arrived' = arrived + 1
  /\ \/ InterestLoops(f, n)
     \/ InterestHits(f, n)
     \/ InterestMisses(f, n, lifetime)

-----------------------------------------------------------------------------
(* Data and Nacks, each the answer to an Interest that was sent. *)

Waiting(E, u) == {f \in DOMAIN E.in : E.in[f].expiry > now /\ f # u}

\* onIncomingData without a match: onDataUnsolicited drops it.
DataUnsolicited(u, n) ==
  /\ pit = NoEntry
  /\ UNCHANGED <<entry, queues, pc, dataFace, cached>>

\* onIncomingData up to the prioritySend at the end of afterReceiveData.
DataMatches(u, n) ==
  /\ pit # NoEntry
  /\ cached' = TRUE
  /\ entry' = [entry EXCEPT ![pit].timer = now]
  /\ Queue([type |-> "data", entry |-> pit, nonce |-> n, lifetime |-> 0],
           Waiting(entry[pit], u))
  /\ pc' = "pass"
  /\ dataFace' = u

ReceiveData(u, n) ==
  /\ pc = "idle"
  /\ n \in unanswered[u]
  /\ unanswered' = [unanswered EXCEPT ![u] = @ \ {n}]
  /\ DataUnsolicited(u, n) \/ DataMatches(u, n)
  /\ UNCHANGED <<now, created, pit, dnl, arrived>>

\* onIncomingNack; the strategy's afterReceiveNack returns at once.
Nacked(E, u, n) ==
  LET N == [E EXCEPT !.out[u].nacked = TRUE]
  IN  IF u \notin DOMAIN E.out \/ E.out[u].nonce # n THEN E
      ELSE IF Pending(N) THEN N ELSE [N EXCEPT !.timer = now]

ReceiveNack(u, n) ==
  /\ pc = "idle"
  /\ n \in unanswered[u]
  /\ unanswered' = [unanswered EXCEPT ![u] = @ \ {n}]
  /\ entry' = IF pit = NoEntry THEN entry
              ELSE [entry EXCEPT ![pit] = Nacked(@, u, n)]
  /\ UNCHANGED <<now, created, pit, queues, pc, dataFace, cached, dnl, arrived>>

-----------------------------------------------------------------------------
(* prioritySend. *)

\* A refill, or a packet of another name, makes the strategy look again.
OtherEvent ==
  /\ pc = "idle"
  /\ pc' = "pass"
  /\ UNCHANGED <<now, entry, created, pit, queues, dataFace, netVars>>

IsHead(f, type) == queues[f] # <<>> /\ Head(queues[f]).type = type

\* insertOrUpdateOutRecord; the update touches neither a Nack that came before
\* nor the suppression interval.  The field sends is history.
Recorded(E, u, n, lifetime) ==
  LET old == u \in DOMAIN E.out
  IN  With(E.out, u,
        [nonce |-> n, renewed |-> now, expiry |-> now + lifetime,
         nacked |-> old /\ E.out[u].nacked,
         interval |-> IF old THEN E.out[u].interval ELSE Initial,
         sends |-> IF old THEN E.out[u].sends + 1 ELSE 1])

\* onOutgoingInterest: the out-record is inserted only now.
SendInterest(u) ==
  /\ pc = "pass"
  /\ IsHead(u, "interest")
  /\ LET p == Head(queues[u])
         E == entry[p.entry]
     IN  /\ entry' = [entry EXCEPT ![p.entry].out =
                        Recorded(E, u, p.nonce, p.lifetime)]
         /\ unanswered' = [unanswered EXCEPT ![u] = @ \cup {p.nonce}]
  /\ queues' = [queues EXCEPT ![u] = Tail(@)]
  /\ UNCHANGED <<now, created, pit, pc, dataFace, cached, dnl, arrived>>

\* Strategy::sendData: the in-record goes when its Data does.
SendData(f) ==
  /\ pc = "pass"
  /\ IsHead(f, "data")
  /\ entry' = [entry EXCEPT ![Head(queues[f]).entry].in = Without(@, f)]
  /\ queues' = [queues EXCEPT ![f] = Tail(@)]
  /\ UNCHANGED <<now, created, pit, pc, dataFace, netVars>>

\* prioritySend returns, to onIncomingData if that called it.
EndPass ==
  /\ pc = "pass"
  /\ \A f \in Faces \ Blocked : queues[f] = <<>>
  /\ pc' = "idle"
  /\ dataFace' = NoFace
  /\ entry' = IF dataFace = NoFace THEN entry
              ELSE [entry EXCEPT ![pit].satisfied = TRUE,
                                 ![pit].out = Without(@, dataFace)]
  /\ UNCHANGED <<now, created, pit, queues, netVars>>

-----------------------------------------------------------------------------
(* Time. *)

\* onInterestFinalize, when the entry's timer fires.
Finalize ==
  /\ pc = "idle"
  /\ pit # NoEntry
  /\ entry[pit].timer <= now
  /\ dnl' = IF entry[pit].satisfied THEN dnl
            ELSE dnl \cup {entry[pit].out[u].nonce : u \in DOMAIN entry[pit].out}
  /\ pit' = NoEntry
  /\ UNCHANGED <<now, entry, created, queues, pc, dataFace, cached, arrived,
                 unanswered>>

\* The content store makes room for Data of another name.
Evict ==
  /\ pc = "idle"
  /\ cached
  /\ cached' = FALSE
  /\ UNCHANGED <<now, entry, created, pit, queues, pc, dataFace, dnl, arrived,
                 unanswered>>

\* Time passes when no timer is due.
Tick ==
  /\ pc = "idle"
  /\ now < MaxNow
  /\ pit # NoEntry => entry[pit].timer > now
  /\ now' = now + 1
  /\ UNCHANGED <<entry, created, pit, queues, pc, dataFace, netVars>>

Next ==
  \/ \E f \in Downs, n \in Nonces, lifetime \in Lifetimes :
       ReceiveInterest(f, n, lifetime)
  \/ \E u \in Ups, n \in Nonces : ReceiveData(u, n) \/ ReceiveNack(u, n)
  \/ OtherEvent
  \/ \E f \in Faces : SendInterest(f) \/ SendData(f)
  \/ EndPass
  \/ Finalize
  \/ Evict
  \/ Tick

Spec == Init /\ [][Next]_vars

-----------------------------------------------------------------------------
(* Properties. *)

InRecords == [nonce : Nonces, expiry : 0 .. MaxNow + MaxLifetime]
OutRecords == [nonce : Nonces, renewed : 0 .. MaxNow, expiry : Nat,
               nacked : BOOLEAN, interval : Initial .. MaxInterval, sends : Nat]
PitEntries(I, O) ==
  [in : [I -> InRecords], out : [O -> OutRecords],
   interval : Initial .. MaxInterval, satisfied : BOOLEAN, timer : Nat,
   rejecter : Downs \cup {NoFace}]
Packets == [type : {"interest", "data"}, entry : Entries, nonce : Nonces,
            lifetime : Nat]

\* Types of the variables: a suppression interval stays between the two
\* constants of the strategy, and packets always speak for an entry that was
\* created.
TypeOK ==
  /\ now \in 0 .. MaxNow
  /\ DOMAIN entry = Entries
  /\ \A e \in Entries : \E I, O \in SUBSET Faces : entry[e] \in PitEntries(I, O)
  /\ created \in 0 .. arrived
  /\ pit \in 0 .. created
  /\ queues \in [Faces -> Seq(Packets)]
  /\ pc \in {"idle", "pass"}
  /\ dataFace \in Ups \cup {NoFace}
  /\ cached \in BOOLEAN
  /\ dnl \subseteq Nonces
  /\ arrived \in 0 .. MaxInterests
  /\ unanswered \in [Ups -> SUBSET Nonces]

\* Unless something cut it down to this instant, the timer of the entry fires
\* when the Interest of each downstream has lived its lifetime, or less than
\* the millisecond that duration_cast cuts off before that.
TimerCoversDownstreams ==
  pit # NoEntry =>
    /\ entry[pit].timer >= now
    /\ entry[pit].timer > now =>
         \A f \in DOMAIN entry[pit].in :
           entry[pit].in[f].expiry < entry[pit].timer + Millisecond

\* An Interest from f has no next hop, now or later.
HasNoRoute(f) == \A u \in Ups \ {f} : <<f, u>> \in OutOfScope

\* The timer is cut for a cause: an entry that ends while a downstream still
\* waits a millisecond or more was satisfied, or an upstream answered it with a
\* Nack, or it was rejected: by the Interest of a downstream all whose next hops
\* are itself or out of its scope, never of one whose next hops were suppressed
\* for the moment.  Such an Interest does end the wait of the others
\* (rejectPendingInterest in afterReceiveInterest).
EndsForCause ==
  [][Finalize =>
       \/ entry[pit].satisfied
       \/ \A f \in DOMAIN entry[pit].in : entry[pit].in[f].expiry < now + Millisecond
       \/ \E u \in DOMAIN entry[pit].out : entry[pit].out[u].nacked
       \/ entry[pit].rejecter # NoFace /\ HasNoRoute(entry[pit].rejecter)]_vars

\* The i-th retransmission leaves MIN(initialInterval * 2^(i-1), maxInterval)
\* or more after the transmission before it, to the same upstream.
RetxSpaced ==
  [][\A u \in Ups : SendInterest(u) =>
       LET E == entry[Head(queues[u]).entry]
           gap == Initial * 2 ^ (E.out[u].sends - 1)
       IN  u \in DOMAIN E.out =>
             now - E.out[u].renewed >= (IF gap < MaxInterval THEN gap ELSE MaxInterval)]_vars
=============================================================================
