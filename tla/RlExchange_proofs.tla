------------------------- MODULE RlExchange_proofs -------------------------
(***************************************************************************)
(* Proofs about RlExchange, for every number of nodes, instances, agents   *)
(* killed and restarted, and for any initial rates: the rates stay above   *)
(* zero and follow the actions; an agent that joined at the start of a     *)
(* round never fails, and with an agent of its own every instance trains   *)
(* on the reward of the next second; the exchange has no deadlock.         *)
(***************************************************************************)
EXTENDS RlExchange, FiniteSetTheorems, TLAPS

\* A pair of rates the driver can divide by.
GoodRates == {r \in Nat \X Nat : r[1] > 0 /\ r[2] > 0}

RateInv == rates \in [Nodes -> GoodRates]

\* perform_action's switch leads from good rates to good rates, whatever it is
\* given as an action.
LEMMA AdjustedIsGood ==
  ASSUME NEW a, NEW r \in GoodRates
  PROVE  Adjusted(a, r) \in GoodRates
<1>1. r[1] \in Nat /\ r[2] \in Nat /\ r[1] > 0 /\ r[2] > 0 /\ r = <<r[1], r[2]>>
  BY DEF GoodRates
<1>2. \A h, m \in Nat : h > 0 /\ m > 0 => <<h, m>> \in GoodRates
  BY DEF GoodRates
<1>3. CASE a = 0
  BY <1>1, <1>2, <1>3 DEF Adjusted
<1>4. CASE a = 1
  BY <1>1, <1>2, <1>4 DEF Adjusted
<1>5. CASE a = 2
  BY <1>1, <1>2, <1>5 DEF Adjusted
<1>6. CASE a = 3
  BY <1>1, <1>2, <1>6 DEF Adjusted
<1>7. CASE a = 4
  BY <1>1, <1>2, <1>7 DEF Adjusted
<1>8. CASE a = 5
  BY <1>1, <1>2, <1>8 DEF Adjusted
<1>9. CASE a \notin {0, 1, 2, 3, 4, 5}
  BY <1>9 DEF Adjusted
<1> QED BY <1>3, <1>4, <1>5, <1>6, <1>7, <1>8, <1>9

LEMMA TakeActionRates ==
  ASSUME RateInv, TakeAction
  PROVE  RateInv'
<1>1. CASE learning_mode
  <2>1. PICK n, a :
          rates' = [rates EXCEPT ![n] = Adjusted(a, rates[n])]
    BY <1>1 DEF TakeAction
  <2>2. \A k \in Nodes : rates'[k] = IF k = n THEN Adjusted(a, rates[k]) ELSE rates[k]
    BY <2>1 DEF RateInv
  <2>3. \A k \in Nodes : rates'[k] \in GoodRates
    BY <2>2, AdjustedIsGood DEF RateInv
  <2> QED BY <2>1, <2>3 DEF RateInv
<1>2. CASE ~learning_mode
  BY <1>2 DEF TakeAction, RateInv
<1> QED BY <1>1, <1>2

LEMMA InitRates == Init => RateInv
BY ExchangeAssumption DEF Init, RateInv, GoodRates

LEMMA NextRates == RateInv /\ [Next]_vars => RateInv'
<1> SUFFICES ASSUME RateInv, [Next]_vars PROVE RateInv'
  OBVIOUS
<1>1. CASE TakeAction
  BY <1>1, TakeActionRates
<1>2. CASE UNCHANGED rates
  BY <1>2 DEF RateInv
<1>3. Next => TakeAction \/ UNCHANGED rates
  BY DEF Next, Simulation, BeginRound, SendRequest, TakeReply, NextSecond,
         AgentStep, Start, Crash, simVars
<1>4. UNCHANGED vars => UNCHANGED rates
  BY DEF vars
<1> QED BY <1>1, <1>2, <1>3, <1>4

\* No sequence of actions, of any agent or of none, takes a fill rate to zero,
\* so that the driver's 1 / fillRate is always a period (perform_action).
THEOREM RatesStayPositive == Spec => []RatesPositive
<1>1. RateInv => RatesPositive
  BY DEF RateInv, GoodRates, RatesPositive
<1> QED BY <1>1, InitRates, NextRates, PTL DEF Spec

-----------------------------------------------------------------------------
(* The script of the simulation and the loop of the agent stay in step. *)

\* What is under way belongs to the request the simulation waits for.
ChannelOK ==
  /\ waiting => running # None
  /\ reply # None => waiting
  /\ request # None =>
       waiting /\ reply = None /\ request.kind = Script[step] /\ request.inst = running

Served(n) == running # None /\ NodeOf[running] = n

\* The request of its script that the agent of node n gets next.
Position(n) ==
  IF ~Served(n) THEN 1
  ELSE IF reply # None THEN (IF step = 6 THEN 1 ELSE step + 1) ELSE step

\* What extract_state_data has after its first part, and after its second.
OnlyQueues == {"Queue sizes"}
QueuesAndPackets == {"Queue sizes", "Incoming packets"}

\* Request p is the one the agent of node n is ready for.
ReadyFor(n, p) ==
  \/ p = 1 /\ agent[n] = "reward"
  \/ p = 2 /\ agent[n] = "state" /\ ~known[n] /\ got[n] = {}
  \/ p = 3 /\ agent[n] = "state" /\ known[n] /\ got[n] = {}
  \/ p = 4 /\ agent[n] = "state" /\ known[n] /\ got[n] = OnlyQueues
  \/ p = 5 /\ agent[n] = "state" /\ known[n] /\ got[n] = QueuesAndPackets
  \/ p = 6 /\ agent[n] = "send"

\* An agent that joined at the start of a round has not failed and is ready
\* for the request it gets next, or the only thread of the simulation waits
\* for an answer that was lost.
InStep(n) ==
  clean[n] => /\ agent[n] # "failed"
              /\ agent[n] \in {"state", "send", "reward"} =>
                    ReadyFor(n, Position(n)) \/ (Served(n) /\ Lost)

IInv == TypeOK /\ RateInv /\ ChannelOK /\ \A n \in Nodes : InStep(n)

LEMMA ScriptFacts ==
  /\ Script[1] = "Reward" /\ Script[2] = "Node" /\ Script[3] = "Queue sizes"
  /\ Script[4] = "Incoming packets" /\ Script[5] = "Rates" /\ Script[6] = "Action"
  /\ Len(Script) = 6 /\ 1 \in 1 .. Len(Script)
  /\ \A p \in 1 .. 6 :
       /\ Script[p] \in Kinds
       /\ (Script[p] = "Reward") <=> (p = 1)
       /\ (Script[p] = "Action") <=> (p = 6)
<1>1. DOMAIN Script = 1 .. 6 /\ Len(Script) = 6
  BY DEF Script
<1>2. /\ Script[1] = "Reward" /\ Script[2] = "Node" /\ Script[3] = "Queue sizes"
      /\ Script[4] = "Incoming packets" /\ Script[5] = "Rates" /\ Script[6] = "Action"
  BY DEF Script
<1>3. \A p \in 1 .. 6 : p = 1 \/ p = 2 \/ p = 3 \/ p = 4 \/ p = 5 \/ p = 6
  OBVIOUS
<1>4. Kinds = {Script[p] : p \in 1 .. 6}
  BY <1>1 DEF Kinds
<1> HIDE DEF Script
<1>5. \A p \in 1 .. 6 : /\ (Script[p] = "Reward") <=> (p = 1)
                        /\ (Script[p] = "Action") <=> (p = 6)
  BY <1>2, <1>3
<1>6. \A p \in 1 .. 6 : Script[p] \in Kinds
  BY <1>4
<1>7. 1 \in 1 .. Len(Script)
  BY <1>1
<1> QED BY <1>1, <1>2, <1>5, <1>6, <1>7

\* The kinds alone, for leaves that need no quantifier.
LEMMA ScriptItems ==
  /\ Script[1] = "Reward" /\ Script[2] = "Node" /\ Script[3] = "Queue sizes"
  /\ Script[4] = "Incoming packets" /\ Script[5] = "Rates" /\ Script[6] = "Action"
BY ScriptFacts

\* What an agent that is ready for a request has, request by request.
LEMMA ReadyMeans ==
  ASSUME NEW n
  PROVE  /\ ReadyFor(n, 1) => agent[n] = "reward"
         /\ ReadyFor(n, 2) => agent[n] = "state" /\ ~known[n] /\ got[n] = {}
         /\ ReadyFor(n, 3) => agent[n] = "state" /\ known[n] /\ got[n] = {}
         /\ ReadyFor(n, 4) => agent[n] = "state" /\ known[n] /\ got[n] = OnlyQueues
         /\ ReadyFor(n, 5) => agent[n] = "state" /\ known[n] /\ got[n] = QueuesAndPackets
         /\ ReadyFor(n, 6) => agent[n] = "send"
BY DEF ReadyFor

\* The parts add up, one request after the other.
LEMMA PartsAddUp ==
  /\ {} \cup ({"Queue sizes"} \cap StateParts) = OnlyQueues /\ OnlyQueues # StateParts
  /\ OnlyQueues \cup ({"Incoming packets"} \cap StateParts) = QueuesAndPackets
  /\ QueuesAndPackets # StateParts
  /\ QueuesAndPackets \cup ({"Rates"} \cap StateParts) = StateParts
<1>1. "Rates" \in StateParts \ OnlyQueues /\ "Rates" \in StateParts \ QueuesAndPackets
  BY DEF StateParts, OnlyQueues, QueuesAndPackets
<1>2. /\ {} \cup ({"Queue sizes"} \cap StateParts) = OnlyQueues
      /\ OnlyQueues \cup ({"Incoming packets"} \cap StateParts) = QueuesAndPackets
  BY DEF StateParts, OnlyQueues, QueuesAndPackets
<1>3. QueuesAndPackets \cup ({"Rates"} \cap StateParts) = StateParts
  BY DEF StateParts, QueuesAndPackets
<1> QED BY <1>1, <1>2, <1>3

\* A part of the state is added to what extract_state_data has; with the last
\* part the agent leaves the loop.
LEMMA StateTurn ==
  ASSUME TypeOK, NEW n \in Nodes, ReceiveState(n), known[n],
         request.kind \notin {"Node", "Action"},
         NEW parts, parts = got[n] \cup ({request.kind} \cap StateParts)
  PROVE  /\ known'[n] /\ got'[n] = parts
         /\ agent'[n] = IF parts = StateParts THEN "send" ELSE "state"
<1>1. /\ got' = [got EXCEPT ![n] = parts]
      /\ agent' = [agent EXCEPT ![n] = IF parts = StateParts THEN "send" ELSE @]
      /\ UNCHANGED known /\ agent[n] = "state"
  BY Zenon DEF ReceiveState
<1>2. n \in DOMAIN got /\ n \in DOMAIN agent
  BY DEF TypeOK
<1> QED BY <1>1, <1>2

\* A request that is sent is typed.
LEMMA SentIsRequest ==
  ASSUME TypeOK, running # None
  PROVE  [kind |-> Script[step], inst |-> running, second |-> second] \in Requests
<1>1. Script[step] \in Kinds /\ running \in Instances /\ second \in 0 .. SecondModulus - 1
  BY ScriptFacts DEF TypeOK
<1> QED BY <1>1 DEF Requests

-----------------------------------------------------------------------------
(* Types. *)

\* What the agent that takes a request leaves behind is typed.
LEMMA AgentTypes ==
  ASSUME TypeOK, NEW n \in Nodes, AgentStep(n)
  PROVE  TypeOK'
<1>1. Receives(n) /\ request \in Requests /\ request' = None
  BY DEF AgentStep, ReceiveFirst, ReceiveState, SendAction, ReceiveReward, Receives, TypeOK
<1>2. UNCHANGED <<second, due, running, step, waiting, rates, crashes, starts>>
  BY DEF AgentStep, simVars
<1>3. reply' \in [answer : {Ack} \cup Actions] \cup {None}
  BY DEF AgentStep, ReceiveFirst, ReceiveState, SendAction, ReceiveReward,
         Received, Answer, TypeOK
<1>4. agent' \in [Nodes -> AgentStates]
  <2>1. PICK a \in AgentStates : agent' \in {agent, [agent EXCEPT ![n] = a]}
    <3>1. {"state", "send", "reward", "failed"} \subseteq AgentStates
      BY DEF AgentStates
    <3>2. agent[n] \in AgentStates
      BY DEF TypeOK
    <3>3. CASE ReceiveFirst(n)
      BY <3>1, <3>3 DEF ReceiveFirst
    <3>4. CASE ReceiveState(n)
      BY <3>1, <3>2, <3>4 DEF ReceiveState
    <3>5. CASE SendAction(n)
      BY <3>1, <3>5 DEF SendAction
    <3>6. CASE ReceiveReward(n)
      BY <3>1, <3>6 DEF ReceiveReward
    <3> QED BY <3>3, <3>4, <3>5, <3>6 DEF AgentStep
  <2>2. agent \in [Nodes -> AgentStates]
    BY DEF TypeOK
  <2> QED BY <2>1, <2>2
<1>5. known' \in [Nodes -> BOOLEAN]
  <2>1. known' \in {known, [known EXCEPT ![n] = TRUE], [known EXCEPT ![n] = FALSE]}
    BY Zenon DEF AgentStep, ReceiveFirst, ReceiveState, SendAction, ReceiveReward
  <2> QED BY <2>1, Zenon DEF TypeOK
<1>8. got' \in [Nodes -> SUBSET StateParts]
  <2>1. PICK S \in SUBSET StateParts : got' \in {got, [got EXCEPT ![n] = S]}
    <3>1. got[n] \cup ({request.kind} \cap StateParts) \in SUBSET StateParts
      BY DEF TypeOK
    <3>2. \/ got' = got \/ got' = [got EXCEPT ![n] = {}]
          \/ got' = [got EXCEPT ![n] = got[n] \cup ({request.kind} \cap StateParts)]
      BY Zenon DEF AgentStep, ReceiveFirst, ReceiveState, SendAction, ReceiveReward
    <3> QED BY <3>1, <3>2, Zenon
  <2> QED BY <2>1, Zenon DEF TypeOK
<1>6. /\ acted' \in [Nodes -> Requests \cup {None}]
      /\ rewarded' \in [Nodes -> Requests \cup {None}]
  BY <1>1 DEF AgentStep, ReceiveFirst, ReceiveState, SendAction, ReceiveReward, TypeOK
<1>7. clean' \in [Nodes -> BOOLEAN]
  BY DEF AgentStep, ReceiveFirst, ReceiveState, SendAction, ReceiveReward, TypeOK
<1> QED BY <1>1, <1>2, <1>3, <1>4, <1>5, <1>6, <1>7, <1>8 DEF TypeOK

LEMMA SimulationTypes ==
  ASSUME TypeOK, RateInv, ChannelOK, Simulation
  PROVE  TypeOK'
<1> DEFINE AgentsTyped == /\ agent \in [Nodes -> AgentStates]
                          /\ known \in [Nodes -> BOOLEAN]
                          /\ got \in [Nodes -> SUBSET StateParts]
                          /\ acted \in [Nodes -> Requests \cup {None}]
                          /\ rewarded \in [Nodes -> Requests \cup {None}]
                          /\ clean \in [Nodes -> BOOLEAN]
                          /\ crashes \in 0 .. MaxCrashes
                          /\ starts \in [Nodes -> 0 .. MaxStarts]
<1>0. AgentsTyped'
  BY DEF Simulation, BeginRound, SendRequest, TakeReply, TakeAction, NextSecond,
         agentVars, TypeOK
<1> HIDE DEF AgentsTyped
<1>6. SUFFICES /\ second' \in 0 .. SecondModulus - 1 /\ due' \subseteq Instances
               /\ running' \in Instances \cup {None} /\ step' \in 1 .. Len(Script)
               /\ waiting' \in BOOLEAN /\ request' \in Requests \cup {None}
               /\ reply' \in [answer : {Ack} \cup Actions] \cup {None}
               /\ request' = None \/ reply' = None
               /\ rates' \in [Nodes -> Nat \X Nat]
  BY <1>0 DEF AgentsTyped, TypeOK
<1>7. /\ second \in 0 .. SecondModulus - 1 /\ due \subseteq Instances
      /\ running \in Instances \cup {None} /\ step \in 1 .. Len(Script)
      /\ waiting \in BOOLEAN /\ request \in Requests \cup {None}
      /\ reply \in [answer : {Ack} \cup Actions] \cup {None}
      /\ request = None \/ reply = None
      /\ rates \in [Nodes -> Nat \X Nat]
  BY DEF TypeOK
<1>1. CASE \E i \in Instances : BeginRound(i)
  BY <1>1, <1>7, ScriptFacts DEF BeginRound
<1>2. CASE SendRequest
  <2>1. request' \in Requests /\ reply' = None
    BY <1>2, SentIsRequest DEF SendRequest, ChannelOK
  <2> QED BY <1>2, <1>7, <2>1 DEF SendRequest
<1>3. CASE TakeReply
  <2>1. step \in 1 .. 6 /\ step # 6
    BY <1>3, <1>7, ScriptFacts DEF TakeReply
  <2>2. step' \in 1 .. Len(Script)
    <3>1. step' = step + 1 /\ Len(Script) = 6
      BY <1>3, ScriptFacts DEF TakeReply
    <3> QED BY <2>1, <3>1
  <2> QED BY <1>3, <1>7, <2>2 DEF TakeReply
<1>4. CASE TakeAction
  <2>1. rates' \in [Nodes -> Nat \X Nat]
    BY <1>4, TakeActionRates DEF RateInv, GoodRates
  <2>2. /\ reply' = None /\ waiting' = FALSE /\ running' = None
        /\ UNCHANGED <<second, due, step, request>>
    BY <1>4 DEF TakeAction
  <2> QED BY <1>7, <2>1, <2>2
<1>5. CASE NextSecond
  <2>1. second' \in 0 .. SecondModulus - 1
    <3>1. SecondModulus \in Nat \ {0} /\ second + 1 \in Nat
      BY <1>7, ExchangeAssumption
    <3>2. (second + 1) % SecondModulus \in 0 .. SecondModulus - 1
      BY <3>1
    <3> QED BY <1>5, <3>2 DEF NextSecond
  <2> QED BY <1>5, <1>7, <2>1 DEF NextSecond
<1> QED BY <1>1, <1>2, <1>3, <1>4, <1>5 DEF Simulation

LEMMA StartTypes ==
  ASSUME TypeOK, NEW n \in Nodes, Start(n)
  PROVE  TypeOK'
<1>1. starts' \in [Nodes -> 0 .. MaxStarts]
  BY ExchangeAssumption DEF Start, TypeOK
<1>2. agent' \in [Nodes -> AgentStates]
  BY DEF Start, TypeOK, AgentStates
<1>3. /\ acted' \in [Nodes -> Requests \cup {None}]
      /\ rewarded' \in [Nodes -> Requests \cup {None}] /\ clean' \in [Nodes -> BOOLEAN]
  BY DEF Start, TypeOK
<1> QED BY <1>1, <1>2, <1>3 DEF Start, simVars, TypeOK

LEMMA CrashTypes ==
  ASSUME TypeOK, NEW n \in Nodes, Crash(n)
  PROVE  TypeOK'
<1>1. crashes' \in 0 .. MaxCrashes
  BY ExchangeAssumption DEF Crash, TypeOK
<1>2. agent' \in [Nodes -> AgentStates]
  BY DEF Crash, TypeOK, AgentStates
<1>3. request' \in {request, None}
  BY DEF Crash
<1> QED BY <1>1, <1>2, <1>3 DEF Crash, simVars, TypeOK

-----------------------------------------------------------------------------
(* The channel. *)

LEMMA NextChannel == TypeOK /\ ChannelOK /\ [Next]_vars => ChannelOK'
<1> SUFFICES ASSUME TypeOK, ChannelOK, [Next]_vars PROVE ChannelOK'
  OBVIOUS
<1> USE DEF ChannelOK
<1>1. CASE \E i \in Instances : BeginRound(i)
  BY <1>1, ExchangeAssumption DEF BeginRound
<1>2. CASE SendRequest
  BY <1>2 DEF SendRequest
<1>3. CASE TakeReply
  BY <1>3 DEF TakeReply
<1>4. CASE TakeAction
  BY <1>4 DEF TakeAction
<1>5. CASE NextSecond
  BY <1>5 DEF NextSecond
<1>6. ASSUME NEW n \in Nodes, AgentStep(n)
      PROVE  ChannelOK'
  <2>1. request # None /\ request' = None
    BY <1>6 DEF AgentStep, ReceiveFirst, ReceiveState, SendAction, ReceiveReward, Receives
  <2>2. UNCHANGED <<running, step, waiting>>
    BY <1>6 DEF AgentStep, simVars
  <2> QED BY <2>1, <2>2
<1>7. CASE \E n \in Nodes : Start(n)
  BY <1>7 DEF Start, simVars
<1>8. ASSUME NEW n \in Nodes, Crash(n)
      PROVE  ChannelOK'
  <2>1. request' \in {request, None} /\ UNCHANGED <<running, step, waiting, reply>>
    BY <1>8 DEF Crash, simVars
  <2> QED BY <2>1
<1>9. CASE UNCHANGED vars
  BY <1>9 DEF vars
<1> QED BY <1>1, <1>2, <1>3, <1>4, <1>5, <1>6, <1>7, <1>8, <1>9 DEF Next, Simulation

-----------------------------------------------------------------------------
(* The agents stay in step. *)

\* A step of the simulation changes what an agent gets next only by taking
\* the answer to what the agent got last.
LEMMA SimulationInStep ==
  ASSUME TypeOK, ChannelOK, Simulation, NEW n \in Nodes, InStep(n)
  PROVE  InStep(n)'
<1>1. UNCHANGED <<agent, known, got, clean>>
  BY DEF Simulation, BeginRound, SendRequest, TakeReply, TakeAction, NextSecond, agentVars
<1>2. step \in 1 .. 6
  BY ScriptFacts DEF TypeOK
<1>3. Served(n) /\ Lost => (Served(n) /\ Lost)'
  BY DEF Simulation, BeginRound, SendRequest, TakeReply, TakeAction, NextSecond,
         Served, Lost, ChannelOK
<1>4. ~(Served(n) /\ Lost) => Position(n)' = Position(n)
  <2> USE DEF Position, Served
  <2>1. CASE \E i \in Instances : BeginRound(i)
    BY <2>1 DEF BeginRound, ChannelOK
  <2>2. CASE SendRequest
    BY <2>2 DEF SendRequest
  <2>3. CASE TakeReply
    <3>1. step # 6
      BY <1>2, <2>3, ScriptFacts DEF TakeReply
    <3> QED BY <2>3, <3>1 DEF TakeReply
  <2>4. CASE TakeAction
    <3>1. step = 6
      BY <1>2, <2>4, ScriptFacts DEF TakeAction
    <3> QED BY <2>4, <3>1 DEF TakeAction
  <2>5. CASE NextSecond
    BY <2>5 DEF NextSecond
  <2> QED BY <2>1, <2>2, <2>3, <2>4, <2>5 DEF Simulation
<1>5. \A p : ReadyFor(n, p) <=> ReadyFor(n, p)'
  BY <1>1 DEF ReadyFor
<1> QED BY <1>1, <1>3, <1>4, <1>5 DEF InStep

\* The agent that takes a request is served by the running instance.
LEMMA TakenInStep ==
  ASSUME TypeOK, ChannelOK, NEW n \in Nodes, AgentStep(n)
  PROVE  /\ Served(n) /\ request.kind = Script[step] /\ Position(n) = step /\ ~Lost
         /\ \A m \in Nodes \ {n} : ~Served(m)
         /\ UNCHANGED <<running, step>>
<1>1. request # None /\ NodeOf[request.inst] = n
  BY DEF AgentStep, ReceiveFirst, ReceiveState, SendAction, ReceiveReward, Receives
<1>2. /\ waiting /\ running # None /\ reply = None
      /\ request.kind = Script[step] /\ request.inst = running
  BY <1>1 DEF ChannelOK
<1>3. UNCHANGED <<running, step>>
  BY DEF AgentStep, simVars
<1> QED BY <1>1, <1>2, <1>3 DEF Served, Position, Lost

\* An agent in step is ready for the next request afterwards.
LEMMA AgentInStep ==
  ASSUME TypeOK, ChannelOK, NEW n \in Nodes, AgentStep(n), InStep(n)
  PROVE  InStep(n)'
<1>1. /\ Served(n) /\ request.kind = Script[step] /\ Position(n) = step /\ ~Lost
      /\ UNCHANGED <<running, step>>
  BY TakenInStep
<1>2. step \in 1 .. 6 /\ Served(n)'
  BY <1>1, ScriptFacts DEF TypeOK, Served
<1>3. \/ (Served(n) /\ Lost)'
      \/ Position(n)' = IF step = 6 THEN 1 ELSE step + 1
  <2>1. request # None /\ request' = None
    BY DEF AgentStep, ReceiveFirst, ReceiveState, SendAction, ReceiveReward, Receives
  <2>2. waiting /\ UNCHANGED waiting
    BY <2>1 DEF ChannelOK, AgentStep, simVars
  <2> QED BY <1>1, <1>2, <2>1, <2>2 DEF Position, Lost
<1>4. ASSUME NEW p, p = (IF step = 6 THEN 1 ELSE step + 1),
             agent'[n] # "failed", ReadyFor(n, p)'
      PROVE  InStep(n)'
  BY <1>3, <1>4 DEF InStep, ReadyFor
<1>5. ASSUME clean'[n] = FALSE
      PROVE  InStep(n)'
  BY <1>5 DEF InStep
<1>6. CASE ReceiveFirst(n)
  <2>1. agent'[n] = "state" /\ ~known'[n] /\ got'[n] = {} /\ reply' = [answer |-> Ack]
    BY <1>6 DEF ReceiveFirst, Received, Answer, TypeOK
  <2>2. clean'[n] <=> step = 1
    <3>1. clean' = [clean EXCEPT ![n] = request.kind = "Reward"] /\ n \in DOMAIN clean
      BY <1>6 DEF ReceiveFirst, TypeOK
    <3>2. clean'[n] = (request.kind = "Reward")
      BY <3>1, Zenon
    <3>3. (Script[step] = "Reward") <=> (step = 1)
      BY <1>2, ScriptFacts
    <3> QED BY <1>1, <3>2, <3>3, Zenon
  <2>3. CASE step = 1
    <3>1. ReadyFor(n, 2)' /\ agent'[n] # "failed"
      BY <2>1 DEF ReadyFor
    <3> QED BY <1>4, <2>3, <3>1
  <2>4. CASE step # 1
    BY <2>2, <2>4 DEF InStep
  <2> QED BY <2>3, <2>4
<1>7. CASE ReceiveState(n)
  <2>1. reply' = [answer |-> Ack] /\ UNCHANGED clean /\ agent[n] = "state"
    BY <1>7 DEF ReceiveState, Received, Answer
  <2>2. CASE clean[n]
    <3>1. ReadyFor(n, step)
      BY <1>1, <2>1, <2>2 DEF InStep
    <3>2. CASE step = 2
      <4>1. got[n] = {} /\ request.kind = "Node"
        BY <1>1, <3>1, <3>2, ScriptItems, ReadyMeans
      <4>3. agent'[n] = "state" /\ known'[n] /\ got'[n] = {}
        BY <1>7, <2>1, <4>1 DEF ReceiveState, TypeOK
      <4>4. ReadyFor(n, 3)' /\ agent'[n] # "failed"
        BY <4>3 DEF ReadyFor
      <4> QED BY <1>4, <3>2, <4>4
    <3>3. CASE step = 3
      <4>1. known[n] /\ got[n] = {} /\ request.kind = "Queue sizes"
        BY <1>1, <3>1, <3>3, ScriptItems, ReadyMeans
      <4>2. agent'[n] = "state" /\ known'[n] /\ got'[n] = OnlyQueues
        BY <1>7, <4>1, PartsAddUp, StateTurn
      <4>3. ReadyFor(n, 4)' /\ agent'[n] # "failed"
        BY <4>2 DEF ReadyFor
      <4> QED BY <1>4, <3>3, <4>3
    <3>4. CASE step = 4
      <4>1. known[n] /\ got[n] = OnlyQueues /\ request.kind = "Incoming packets"
        BY <1>1, <3>1, <3>4, ScriptItems, ReadyMeans
      <4>2. agent'[n] = "state" /\ known'[n] /\ got'[n] = QueuesAndPackets
        BY <1>7, <4>1, PartsAddUp, StateTurn
      <4>3. ReadyFor(n, 5)' /\ agent'[n] # "failed"
        BY <4>2 DEF ReadyFor
      <4> QED BY <1>4, <3>4, <4>3
    <3>5. CASE step = 5
      <4>1. known[n] /\ got[n] = QueuesAndPackets /\ request.kind = "Rates"
        BY <1>1, <3>1, <3>5, ScriptItems, ReadyMeans
      <4>2. agent'[n] = "send"
        BY <1>7, <4>1, PartsAddUp, StateTurn
      <4>3. ReadyFor(n, 6)' /\ agent'[n] # "failed"
        BY <4>2 DEF ReadyFor
      <4> QED BY <1>4, <3>5, <4>3
    <3> QED BY <1>2, <2>1, <3>1, <3>2, <3>3, <3>4, <3>5 DEF ReadyFor
  <2>3. CASE ~clean[n]
    BY <2>1, <2>3 DEF InStep
  <2> QED BY <2>2, <2>3
<1>8. CASE SendAction(n)
  <2>1. UNCHANGED clean /\ agent[n] = "send"
    BY <1>8 DEF SendAction
  <2>2. CASE clean[n]
    <3>1. step = 6 /\ request.kind = "Action"
      BY <1>1, <2>1, <2>2, ScriptFacts DEF InStep, ReadyFor
    <3>2. agent'[n] = "reward" /\ \E a \in Actions : reply' = [answer |-> a]
      BY <1>8, <3>1 DEF SendAction, Answer, TypeOK
    <3>3. ReadyFor(n, 1)' /\ agent'[n] # "failed"
      BY <3>2 DEF ReadyFor
    <3> QED BY <1>4, <3>1, <3>3
  <2>3. CASE ~clean[n]
    BY <2>1, <2>3 DEF InStep
  <2> QED BY <2>2, <2>3
<1>9. CASE ReceiveReward(n)
  <2>1. reply' = [answer |-> Ack] /\ UNCHANGED clean /\ agent[n] = "reward"
    BY <1>9 DEF ReceiveReward, Received, Answer
  <2>2. CASE clean[n]
    <3>1. step = 1 /\ request.kind = "Reward"
      BY <1>1, <2>1, <2>2, ScriptFacts DEF InStep, ReadyFor
    <3>2. agent'[n] = "state" /\ ~known'[n] /\ got'[n] = {}
      BY <1>9, <3>1 DEF ReceiveReward, TypeOK
    <3>3. ReadyFor(n, 2)' /\ agent'[n] # "failed"
      BY <3>2 DEF ReadyFor
    <3> QED BY <1>4, <3>1, <3>3
  <2>3. CASE ~clean[n]
    BY <2>1, <2>3 DEF InStep
  <2> QED BY <2>2, <2>3
<1> QED BY <1>6, <1>7, <1>8, <1>9 DEF AgentStep

\* The other agents get nothing.
LEMMA OthersInStep ==
  ASSUME TypeOK, ChannelOK, NEW n \in Nodes, AgentStep(n),
         NEW m \in Nodes \ {n}, InStep(m)
  PROVE  InStep(m)'
<1>1. ~Served(m) /\ UNCHANGED running
  BY TakenInStep
<1>2. Position(m) = 1 /\ Position(m)' = 1 /\ ~Served(m)'
  BY <1>1 DEF Position, Served
<1>3. /\ agent'[m] = agent[m] /\ known'[m] = known[m] /\ got'[m] = got[m]
      /\ clean'[m] = clean[m]
  <2> USE DEF TypeOK
  <2>1. CASE ReceiveFirst(n)
    BY <2>1 DEF ReceiveFirst
  <2>2. CASE ReceiveState(n)
    BY <2>2 DEF ReceiveState
  <2>3. CASE SendAction(n)
    BY <2>3 DEF SendAction
  <2>4. CASE ReceiveReward(n)
    BY <2>4 DEF ReceiveReward
  <2> QED BY <2>1, <2>2, <2>3, <2>4 DEF AgentStep
<1> QED BY <1>1, <1>2, <1>3 DEF InStep, ReadyFor

\* Agents that start or are killed do not disturb the others.
LEMMA StartInStep ==
  ASSUME TypeOK, NEW n \in Nodes, Start(n), NEW m \in Nodes, InStep(m)
  PROVE  InStep(m)'
<1>1. UNCHANGED <<running, step, waiting, request, reply, known, got>>
  BY DEF Start, simVars
<1>2. agent'[m] = (IF m = n THEN "first" ELSE agent[m])
      /\ clean'[m] = (IF m = n THEN FALSE ELSE clean[m])
  BY DEF Start, TypeOK
<1> QED BY <1>1, <1>2 DEF InStep, ReadyFor, Position, Served, Lost

LEMMA CrashInStep ==
  ASSUME TypeOK, NEW n \in Nodes, Crash(n), NEW m \in Nodes, InStep(m)
  PROVE  InStep(m)'
<1>1. /\ UNCHANGED <<running, step, waiting, reply, known, got, clean>>
      /\ request' \in {request, None}
  BY DEF Crash, simVars
<1>2. agent'[m] = IF m = n THEN "down" ELSE agent[m]
  BY DEF Crash, TypeOK
<1> QED BY <1>1, <1>2 DEF InStep, ReadyFor, Position, Served, Lost

-----------------------------------------------------------------------------

LEMMA InitIInv == Init => IInv
<1> SUFFICES ASSUME Init PROVE IInv
  OBVIOUS
<1>1. TypeOK
  <2>1. /\ second \in 0 .. SecondModulus - 1 /\ crashes \in 0 .. MaxCrashes
        /\ starts \in [Nodes -> 0 .. MaxStarts]
    BY ExchangeAssumption DEF Init
  <2>2. rates \in [Nodes -> Nat \X Nat] /\ step \in 1 .. Len(Script)
    <3>1. InitialRates \in Nat \X Nat
      BY ExchangeAssumption
    <3> QED BY <3>1, ScriptFacts DEF Init
  <2> QED BY <2>1, <2>2 DEF Init, TypeOK, AgentStates
<1> QED BY <1>1, InitRates DEF Init, IInv, ChannelOK, InStep

LEMMA NextIInv == IInv /\ [Next]_vars => IInv'
<1> SUFFICES ASSUME IInv, [Next]_vars PROVE IInv'
  OBVIOUS
<1>1. TypeOK /\ RateInv /\ ChannelOK /\ \A n \in Nodes : InStep(n)
  BY DEF IInv
<1>2. RateInv' /\ ChannelOK'
  BY <1>1, NextRates, NextChannel
<1>3. CASE Simulation
  BY <1>1, <1>2, <1>3, SimulationTypes, SimulationInStep DEF IInv
<1>4. ASSUME NEW n \in Nodes, AgentStep(n)
      PROVE  IInv'
  <2>1. InStep(n)'
    BY <1>1, <1>4, AgentInStep
  <2>2. \A m \in Nodes \ {n} : InStep(m)'
    BY <1>1, <1>4, OthersInStep
  <2> QED BY <1>1, <1>2, <1>4, <2>1, <2>2, AgentTypes DEF IInv
<1>5. CASE \E n \in Nodes : Start(n)
  BY <1>1, <1>2, <1>5, StartTypes, StartInStep DEF IInv
<1>6. CASE \E n \in Nodes : Crash(n)
  BY <1>1, <1>2, <1>6, CrashTypes, CrashInStep DEF IInv
<1>7. CASE UNCHANGED vars
  <2>1. TypeOK'
    BY <1>1, <1>7 DEF vars, TypeOK
  <2>2. \A n \in Nodes : InStep(n)'
    <3>1. \A n \in Nodes : /\ Position(n)' = Position(n)
                           /\ (Served(n) /\ Lost)' <=> (Served(n) /\ Lost)
      BY <1>7 DEF vars, Position, Served, Lost
    <3> QED BY <1>1, <1>7, <3>1 DEF vars, InStep, ReadyFor
  <2> QED BY <1>2, <2>1, <2>2 DEF IInv
<1> QED BY <1>3, <1>4, <1>5, <1>6, <1>7 DEF Next

\* The variables have their types in every reachable state; in particular one
\* request or answer at most is under way in the whole simulation.
THEOREM TypeCorrect == Spec => []TypeOK
<1>1. IInv => TypeOK
  BY DEF IInv
<1> QED BY <1>1, InitIInv, NextIInv, PTL DEF Spec

\* An agent that joins at the start of a round never meets a message that
\* ends it, for any number of nodes, of instances that share an agent, and of
\* agents killed and restarted (everyNSeconds against train-RL-model.py).
THEOREM InStepForEver == Spec => []CleanAgentsSurvive
<1>1. IInv => CleanAgentsSurvive
  BY DEF IInv, InStep, CleanAgentsSurvive
<1> QED BY <1>1, InitIInv, NextIInv, PTL DEF Spec

-----------------------------------------------------------------------------
(* What an agent that is in step does with a request, by its state. *)

TookFirst(n) ==
  /\ agent[n] = "first" /\ agent'[n] = "state"
  /\ clean'[n] <=> step = 1
  /\ acted'[n] = acted[n] /\ rewarded'[n] = rewarded[n]

TookState(n) ==
  /\ agent[n] = "state" /\ agent'[n] \in {"state", "send", "failed"}
  /\ clean'[n] = clean[n] /\ (clean[n] => step \in 2 .. 5)
  /\ acted'[n] = acted[n] /\ rewarded'[n] = rewarded[n]

TookAction(n) ==
  /\ agent[n] = "send" /\ agent'[n] \in {"reward", "failed"}
  /\ clean'[n] = clean[n]
  /\ clean[n] => /\ step = 6 /\ agent'[n] = "reward" /\ acted'[n] = request
                 /\ reply'.answer \in Actions

TookReward(n) ==
  /\ agent[n] = "reward" /\ agent'[n] \in {"state", "failed"}
  /\ clean'[n] = clean[n] /\ acted'[n] = acted[n]
  /\ clean[n] => step = 1 /\ agent'[n] = "state" /\ rewarded'[n] = request

LEMMA AgentEffect ==
  ASSUME TypeOK, ChannelOK, NEW n \in Nodes, AgentStep(n), InStep(n)
  PROVE  TookFirst(n) \/ TookState(n) \/ TookAction(n) \/ TookReward(n)
<1>1. Served(n) /\ request.kind = Script[step] /\ Position(n) = step /\ ~Lost
  BY TakenInStep
<1>2. step \in 1 .. 6
  BY ScriptFacts DEF TypeOK
<1>3. clean[n] /\ agent[n] \in {"state", "send", "reward"} => ReadyFor(n, step)
  BY <1>1 DEF InStep
<1>4. /\ n \in DOMAIN agent /\ n \in DOMAIN clean
      /\ n \in DOMAIN acted /\ n \in DOMAIN rewarded
  BY DEF TypeOK
<1>5. CASE ReceiveFirst(n)
  <2>1. /\ agent[n] = "first" /\ agent' = [agent EXCEPT ![n] = "state"]
        /\ clean' = [clean EXCEPT ![n] = request.kind = "Reward"]
        /\ UNCHANGED <<acted, rewarded>>
    BY <1>5 DEF ReceiveFirst
  <2>2. agent'[n] = "state" /\ clean'[n] = (request.kind = "Reward")
    BY <1>4, <2>1, Zenon
  <2>3. (Script[step] = "Reward") <=> (step = 1)
    BY <1>2, ScriptFacts
  <2>4. clean'[n] <=> step = 1
    BY <1>1, <2>2, <2>3, Zenon
  <2> QED BY <2>1, <2>2, <2>4 DEF TookFirst
<1>6. CASE ReceiveState(n)
  <2>1. /\ agent[n] = "state" /\ UNCHANGED <<acted, rewarded, clean>>
        /\ \E a \in {"state", "send", "failed"} :
             agent' \in {agent, [agent EXCEPT ![n] = a]}
    BY <1>6 DEF ReceiveState
  <2>2. agent'[n] \in {"state", "send", "failed"}
    BY <1>4, <2>1
  <2>3. ReadyFor(n, step) => step \in 2 .. 5
    BY <1>2, <2>1 DEF ReadyFor
  <2> QED BY <1>3, <2>1, <2>2, <2>3 DEF TookState
<1>7. CASE SendAction(n)
  <2>1. agent[n] = "send" /\ UNCHANGED clean
    BY <1>7 DEF SendAction
  <2>2. ReadyFor(n, step) => step = 6
    BY <2>1 DEF ReadyFor
  <2>3. CASE step = 6
    <3>1. request.kind = "Action"
      BY <1>1, <2>3, ScriptItems
    <3>2. /\ agent' = [agent EXCEPT ![n] = "reward"]
          /\ acted' = [acted EXCEPT ![n] = request]
          /\ \E a \in Actions : reply' = [answer |-> a]
      BY <1>7, <3>1 DEF SendAction, Answer
    <3>3. agent'[n] = "reward" /\ acted'[n] = request /\ reply'.answer \in Actions
      BY <1>4, <3>2
    <3> QED BY <2>1, <2>3, <3>3 DEF TookAction
  <2>4. CASE ~clean[n]
    <3>1. \E a \in {"reward", "failed"} : agent' = [agent EXCEPT ![n] = a]
      BY <1>7 DEF SendAction
    <3> QED BY <1>4, <2>1, <2>4, <3>1 DEF TookAction
  <2> QED BY <1>3, <2>1, <2>2, <2>3, <2>4
<1>8. CASE ReceiveReward(n)
  <2>1. agent[n] = "reward" /\ UNCHANGED <<acted, clean>>
    BY <1>8 DEF ReceiveReward
  <2>2. ReadyFor(n, step) => step = 1
    BY <2>1 DEF ReadyFor
  <2>3. CASE step = 1
    <3>1. request.kind = "Reward"
      BY <1>1, <2>3, ScriptItems
    <3>2. /\ agent' = [agent EXCEPT ![n] = "state"]
          /\ rewarded' = [rewarded EXCEPT ![n] = request]
      BY <1>8, <3>1 DEF ReceiveReward
    <3> QED BY <1>4, <2>1, <2>3, <3>2 DEF TookReward
  <2>4. CASE ~clean[n]
    <3>1. \E a \in {"state", "failed"} : agent' = [agent EXCEPT ![n] = a]
      BY <1>8 DEF ReceiveReward
    <3> QED BY <1>4, <2>1, <2>4, <3>1 DEF TookReward
  <2> QED BY <1>3, <2>1, <2>2, <2>3, <2>4
<1> QED BY <1>5, <1>6, <1>7, <1>8 DEF AgentStep

-----------------------------------------------------------------------------
(* The answer to the last request of a round is an action. *)

\* The answer the simulation takes for an action is one that the agent chose,
\* when the agent of that node joined at the start of a round.
AnswerOK ==
  running # None /\ step = 6 /\ reply # None /\ clean[NodeOf[running]]
    => reply.answer \in Actions

LEMMA NextAnswer == IInv /\ AnswerOK /\ [Next]_vars => AnswerOK'
<1> SUFFICES ASSUME IInv, AnswerOK, [Next]_vars PROVE AnswerOK'
  OBVIOUS
<1>1. TypeOK /\ ChannelOK /\ \A n \in Nodes : InStep(n)
  BY DEF IInv
<1>2. CASE Simulation
  <2>1. UNCHANGED clean
    BY <1>2 DEF Simulation, BeginRound, SendRequest, TakeReply, TakeAction,
                NextSecond, agentVars
  <2>2. reply' = None \/ running' = None \/ step' = 1 \/ UNCHANGED <<running, step, reply>>
    BY <1>2 DEF Simulation, BeginRound, SendRequest, TakeReply, TakeAction, NextSecond
  <2> QED BY <2>1, <2>2 DEF AnswerOK
<1>3. ASSUME NEW n \in Nodes, AgentStep(n)
      PROVE  AnswerOK'
  <2>1. Served(n) /\ UNCHANGED <<running, step>>
    BY <1>1, <1>3, TakenInStep
  <2>2. TookFirst(n) \/ TookState(n) \/ TookAction(n) \/ TookReward(n)
    BY <1>1, <1>3, AgentEffect
  <2>3. step = 6 /\ clean'[n] => reply'.answer \in Actions
    <3>1. CASE TookFirst(n)
      BY <3>1 DEF TookFirst
    <3>2. CASE TookState(n)
      BY <3>2 DEF TookState
    <3>3. CASE TookAction(n)
      BY <3>3 DEF TookAction
    <3>4. CASE TookReward(n)
      BY <3>4 DEF TookReward
    <3> QED BY <2>2, <3>1, <3>2, <3>3, <3>4
  <2> QED BY <2>1, <2>3 DEF Served, AnswerOK
<1>4. ASSUME NEW n \in Nodes, Start(n)
      PROVE  AnswerOK'
  <2>1. UNCHANGED <<running, step, reply>> /\ clean' = [clean EXCEPT ![n] = FALSE]
    BY <1>4 DEF Start, simVars
  <2>2. running \in Instances \cup {None} /\ clean \in [Nodes -> BOOLEAN]
    BY <1>1 DEF TypeOK
  <2>3. \A m \in Nodes : clean'[m] => clean[m]
    BY <2>1, <2>2
  <2>4. running # None => NodeOf[running] \in Nodes
    BY <2>2, ExchangeAssumption
  <2> QED BY <2>1, <2>3, <2>4 DEF AnswerOK
<1>5. CASE \E n \in Nodes : Crash(n)
  BY <1>5 DEF Crash, simVars, AnswerOK
<1>6. CASE UNCHANGED vars
  BY <1>6 DEF vars, AnswerOK
<1> QED BY <1>2, <1>3, <1>4, <1>5, <1>6 DEF Next

\* When a step changes the rates of a node whose agent joined at the start of
\* a round, it applies an action that this agent chose: perform_action never
\* runs on receive_action's default, whoever is killed in between.
THEOREM RatesFollowActions == Spec => ActionsAreChosen
<1>1. Init => IInv /\ AnswerOK
  <2>1. Init => AnswerOK
    BY DEF Init, AnswerOK
  <2> QED BY <2>1, InitIInv
<1>2. IInv /\ AnswerOK /\ [Next]_vars =>
        [\A n \in Nodes : (clean[n] /\ rates'[n] # rates[n]) =>
             reply.answer \in Actions]_vars
  <2> SUFFICES ASSUME IInv, AnswerOK, Next,
                      NEW n \in Nodes, clean[n], rates'[n] # rates[n]
               PROVE  reply.answer \in Actions
    OBVIOUS
  <2>1. TakeAction
    BY DEF Next, Simulation, BeginRound, SendRequest, TakeReply, NextSecond,
           AgentStep, Start, Crash, simVars
  <2>2. TypeOK /\ ChannelOK
    BY DEF IInv
  <2>3. reply # None /\ running # None /\ step = 6
    <3>1. Script[step] = "Action" /\ waiting /\ reply # None
      BY <2>1 DEF TakeAction
    <3>2. step \in 1 .. 6
      BY <2>2, ScriptFacts DEF TypeOK
    <3> QED BY <2>2, <3>1, <3>2, ScriptFacts DEF ChannelOK
  <2>4. NodeOf[running] = n
    <3>1. rates \in [Nodes -> Nat \X Nat]
      BY <2>2 DEF TypeOK
    <3>2. PICK r : rates' \in {rates, [rates EXCEPT ![NodeOf[running]] = r]}
      BY <2>1 DEF TakeAction
    <3> QED BY <3>1, <3>2
  <2> QED BY <2>3, <2>4 DEF AnswerOK
<1> QED BY <1>1, <1>2, NextIInv, NextAnswer, PTL DEF Spec, ActionsAreChosen

-----------------------------------------------------------------------------
(* Every action is paired with the reward of one second later. *)

\* A node has one instance at most: instances do not share an agent.
OneInstanceEach == \A i, j \in Instances : NodeOf[i] = NodeOf[j] => i = j

\* The instance that runs is not due again in this second, and what it asks
\* is stamped with this second.
RoundOK ==
  /\ running # None => running \notin due
  /\ request # None => request.second = second

\* The agent of node n waits for the reward of its last action: the rest of
\* this second's events may have to run, or the next round of the instance
\* that asked is about to begin or at its first request.
RewardDue(n) ==
  /\ NodeOf[acted[n].inst] = n
  /\ \/ /\ second = acted[n].second
        /\ acted[n].inst \notin due
        /\ running = acted[n].inst => step = 6
     \/ /\ second = (acted[n].second + 1) % SecondModulus
        /\ \/ acted[n].inst \in due /\ running # acted[n].inst
           \/ running = acted[n].inst /\ step = 1

\* The reward the agent of node n has taken is of the second after its action.
RewardTaken(n) ==
  /\ rewarded[n] # None
  /\ rewarded[n].second = (acted[n].second + 1) % SecondModulus
  /\ rewarded[n].inst = acted[n].inst

RewardInv(n) ==
  /\ agent[n] = "first" => acted[n] = None
  /\ clean[n] /\ acted[n] # None =>
       /\ agent[n] = "reward" => RewardDue(n)
       /\ agent[n] = "state" => RewardTaken(n)

LEMMA NextRound == IInv /\ RoundOK /\ [Next]_vars => RoundOK'
<1> SUFFICES ASSUME IInv, RoundOK, [Next]_vars PROVE RoundOK'
  OBVIOUS
<1> USE DEF RoundOK
<1>1. ChannelOK
  BY DEF IInv
<1>2. CASE \E i \in Instances : BeginRound(i)
  BY <1>2 DEF BeginRound
<1>3. CASE SendRequest
  BY <1>3 DEF SendRequest
<1>4. CASE TakeReply
  BY <1>4 DEF TakeReply
<1>5. CASE TakeAction
  BY <1>5 DEF TakeAction
<1>6. CASE NextSecond
  BY <1>1, <1>6 DEF NextSecond, ChannelOK
<1>7. ASSUME NEW n \in Nodes, AgentStep(n) \/ Start(n) \/ Crash(n)
      PROVE  RoundOK'
  <2>1. UNCHANGED <<running, due, second>>
    BY <1>7 DEF AgentStep, Start, Crash, simVars
  <2>2. request' \in {request, None}
    BY <1>7 DEF AgentStep, ReceiveFirst, ReceiveState, SendAction, ReceiveReward,
                Receives, Start, Crash
  <2> QED BY <2>1, <2>2
<1>8. CASE UNCHANGED vars
  BY <1>8 DEF vars
<1> QED BY <1>2, <1>3, <1>4, <1>5, <1>6, <1>7, <1>8 DEF Next, Simulation

\* A step of the simulation keeps the reward due: it passes through the rest
\* of the second to the next round of the instance, and no further, because
\* the agent that waits for the reward is the one that answers there.
LEMMA SimulationReward ==
  ASSUME IInv, RoundOK, Simulation, NEW n \in Nodes, RewardInv(n)
  PROVE  RewardInv(n)'
<1>1. UNCHANGED <<agent, clean, acted, rewarded>>
  BY DEF Simulation, BeginRound, SendRequest, TakeReply, TakeAction, NextSecond, agentVars
<1>2. TypeOK /\ ChannelOK /\ InStep(n)
  BY DEF IInv
<1>3. ASSUME clean[n], acted[n] # None, agent[n] = "reward", RewardDue(n)
      PROVE  RewardDue(n)'
  <2>1. /\ acted[n].inst \in Instances /\ NodeOf[acted[n].inst] = n
        /\ acted[n].inst # None
    BY <1>2, <1>3, ExchangeAssumption DEF TypeOK, Requests, RewardDue
  <2>2. CASE \E i \in Instances : BeginRound(i)
    BY <1>1, <1>3, <2>1, <2>2 DEF BeginRound, RewardDue
  <2>3. CASE SendRequest
    BY <1>1, <1>3, <2>3 DEF SendRequest, RewardDue
  <2>4. CASE TakeReply
    <3>1. running # acted[n].inst
      <4>1. SUFFICES ASSUME running = acted[n].inst PROVE FALSE
        OBVIOUS
      <4>2. Served(n) /\ reply # None /\ ~Lost
        BY <2>1, <2>4, <4>1 DEF Served, TakeReply, Lost
      <4>3. Position(n) = 1
        BY <1>2, <1>3, <4>2 DEF InStep, ReadyFor
      <4>4. step = 6
        <5>1. step \in 1 .. 6
          BY <1>2, ScriptFacts DEF TypeOK
        <5> QED BY <4>2, <4>3, <5>1 DEF Position
      <4> QED BY <2>4, <4>4, ScriptItems DEF TakeReply
    <3> QED BY <1>1, <1>3, <2>4, <3>1 DEF TakeReply, RewardDue
  <2>5. CASE TakeAction
    <3>1. step = 6
      <4>1. step \in 1 .. 6 /\ Script[step] = "Action"
        BY <1>2, <2>5, ScriptFacts DEF TypeOK, TakeAction
      <4> QED BY <4>1, ScriptFacts
    <3> QED BY <1>1, <1>3, <2>1, <2>5, <3>1 DEF TakeAction, RewardDue
  <2>6. CASE NextSecond
    BY <1>1, <1>3, <2>1, <2>6 DEF NextSecond, RewardDue
  <2> QED BY <2>2, <2>3, <2>4, <2>5, <2>6 DEF Simulation
<1> QED BY <1>1, <1>3 DEF RewardInv, RewardTaken

\* What an agent takes in the state "reward" is the reward that is due.
LEMMA AgentReward ==
  ASSUME OneInstanceEach, IInv, RoundOK, NEW n \in Nodes, AgentStep(n), RewardInv(n)
  PROVE  RewardInv(n)'
<1>1. TypeOK /\ ChannelOK /\ InStep(n)
  BY DEF IInv
<1>2. UNCHANGED <<second, due, running, step>>
  BY DEF AgentStep, simVars
<1>3. request # None
  BY DEF AgentStep, ReceiveFirst, ReceiveState, SendAction, ReceiveReward, Receives
<1>4. /\ request.inst = running /\ running \in Instances /\ NodeOf[running] = n
      /\ request.second = second /\ running \notin due
  BY <1>1, <1>3, TakenInStep DEF ChannelOK, RoundOK, TypeOK, Served
<1>5. TookFirst(n) \/ TookState(n) \/ TookAction(n) \/ TookReward(n)
  BY <1>1, AgentEffect
<1>6. CASE TookFirst(n)
  BY <1>6 DEF TookFirst, RewardInv
<1>7. CASE TookState(n)
  BY <1>7 DEF TookState, RewardInv, RewardTaken
<1>8. CASE TookAction(n)
  <2>1. clean'[n] => RewardDue(n)'
    BY <1>2, <1>4, <1>8 DEF TookAction, RewardDue
  <2> QED BY <1>8, <2>1 DEF TookAction, RewardInv
<1>9. CASE TookReward(n)
  <2>1. ASSUME clean[n], acted[n] # None
        PROVE  RewardTaken(n)'
    <3>1. /\ step = 1 /\ rewarded'[n] = request /\ acted'[n] = acted[n]
          /\ RewardDue(n)
      BY <1>9, <2>1 DEF TookReward, RewardInv
    <3>2. acted[n].inst = running
      <4>1. acted[n].inst \in Instances
        BY <1>1, <2>1 DEF TypeOK, Requests
      <4> QED BY <1>4, <3>1, <4>1 DEF OneInstanceEach, RewardDue
    <3>3. second = (acted[n].second + 1) % SecondModulus
      BY <1>4, <3>1, <3>2 DEF RewardDue
    <3> QED BY <1>3, <1>4, <3>1, <3>2, <3>3 DEF RewardTaken
  <2> QED BY <1>9, <2>1 DEF TookReward, RewardInv
<1> QED BY <1>5, <1>6, <1>7, <1>8, <1>9

LEMMA NextReward ==
  ASSUME OneInstanceEach
  PROVE  IInv /\ RoundOK /\ (\A n \in Nodes : RewardInv(n)) /\ [Next]_vars
           => \A n \in Nodes : RewardInv(n)'
<1> SUFFICES ASSUME IInv, RoundOK, \A n \in Nodes : RewardInv(n), [Next]_vars,
                    NEW m \in Nodes
             PROVE  RewardInv(m)'
  OBVIOUS
<1>1. TypeOK
  BY DEF IInv
<1>2. CASE Simulation
  BY <1>2, SimulationReward
<1>3. ASSUME NEW n \in Nodes, n # m, AgentStep(n) \/ Start(n) \/ Crash(n)
      PROVE  RewardInv(m)'
  <2>1. UNCHANGED <<second, due, running, step>>
    BY <1>3 DEF AgentStep, Start, Crash, simVars
  <2>2. /\ agent'[m] = agent[m] /\ clean'[m] = clean[m]
        /\ acted'[m] = acted[m] /\ rewarded'[m] = rewarded[m]
    <3> USE DEF TypeOK
    <3>1. CASE ReceiveFirst(n)
      BY <1>1, <1>3, <3>1 DEF ReceiveFirst
    <3>2. CASE ReceiveState(n)
      BY <1>1, <1>3, <3>2 DEF ReceiveState
    <3>3. CASE SendAction(n)
      BY <1>1, <1>3, <3>3 DEF SendAction
    <3>4. CASE ReceiveReward(n)
      BY <1>1, <1>3, <3>4 DEF ReceiveReward
    <3>5. CASE Start(n)
      BY <1>1, <1>3, <3>5 DEF Start
    <3>6. CASE Crash(n)
      BY <1>1, <1>3, <3>6 DEF Crash
    <3> QED BY <1>3, <3>1, <3>2, <3>3, <3>4, <3>5, <3>6 DEF AgentStep
  <2>3. RewardDue(m) <=> RewardDue(m)'
    BY <2>1, <2>2 DEF RewardDue
  <2> QED BY <2>2, <2>3 DEF RewardInv, RewardTaken
<1>4. CASE AgentStep(m)
  BY <1>4, AgentReward
<1>5. CASE Start(m)
  <2>1. acted'[m] = None
    BY <1>1, <1>5 DEF Start, TypeOK
  <2> QED BY <2>1 DEF RewardInv
<1>6. CASE Crash(m)
  <2>1. agent'[m] = "down"
    BY <1>1, <1>6 DEF Crash, TypeOK
  <2> QED BY <2>1 DEF RewardInv
<1>7. CASE UNCHANGED vars
  BY <1>7 DEF vars, RewardInv, RewardDue, RewardTaken
<1> QED BY <1>2, <1>3, <1>4, <1>5, <1>6, <1>7 DEF Next

\* When no two instances share an agent, the reward an agent trains an action
\* with is the one its instance computed one second later, whatever the order
\* of the instances within a second and whoever is killed and restarted: the
\* comment in train-RL-model.py on "this next part", for every agent whose
\* first message began a round.
THEOREM RewardsArePaired ==
  ASSUME OneInstanceEach
  PROVE  Spec => []RewardIsOneSecondLater
<1>1. Init => IInv /\ RoundOK /\ \A n \in Nodes : RewardInv(n)
  <2>1. Init => RoundOK /\ \A n \in Nodes : RewardInv(n)
    BY DEF Init, RoundOK, RewardInv
  <2> QED BY <2>1, InitIInv
<1>2. IInv /\ RoundOK /\ (\A n \in Nodes : RewardInv(n)) /\ [Next]_vars
        => IInv' /\ RoundOK' /\ (\A n \in Nodes : RewardInv(n))'
  BY NextIInv, NextRound, NextReward
<1>3. (\A n \in Nodes : RewardInv(n)) => RewardIsOneSecondLater
  BY DEF RewardInv, RewardTaken, RewardIsOneSecondLater
<1> QED BY <1>1, <1>2, <1>3, PTL DEF Spec

-----------------------------------------------------------------------------
(* Why the rounds go on: the safety half of Recovers.                      *)

\* A step of the simulation or of an agent can be taken: the thread is not in
\* socket.recv, or an answer is there, or a request is there and the agent it
\* is for takes this request next.
SomebodyMoves ==
  \/ running = None
  \/ ~waiting
  \/ reply # None
  \/ /\ request # None
     /\ LET n == NodeOf[request.inst]
        IN  Up(n) /\ (agent[n] = "first" \/ ReadyFor(n, step))

\* What is left of the round of the instance that is running: three steps for
\* each request (send it, answer it, take the answer).
InRound ==
  IF running = None THEN 0
  ELSE 3 * (6 - step) + (IF ~waiting THEN 3 ELSE IF request # None THEN 2 ELSE 1)

\* What is left of this second: a round has 18 steps after its first.
Work == 19 * Cardinality(due) + InRound

\* The thread of the simulation waits only while somebody can move, when every
\* agent has joined at the start of a round and none took a request with it:
\* the exchange has no deadlock, although neither side has a timeout.
THEOREM NeverStuck ==
  Spec => []((\A n \in Nodes : Joined(n)) /\ ~Lost => SomebodyMoves)
<1>1. ASSUME IInv, \A n \in Nodes : Joined(n), ~Lost PROVE SomebodyMoves
  <2> SUFFICES ASSUME running # None, waiting, reply = None PROVE SomebodyMoves
    BY DEF SomebodyMoves
  <2>1. request # None /\ request.inst = running /\ running \in Instances
    BY <1>1 DEF Lost, IInv, TypeOK, ChannelOK
  <2> DEFINE n == NodeOf[running]
  <2>2. n \in Nodes /\ Served(n) /\ Position(n) = step
    BY <2>1, ExchangeAssumption DEF Served, Position
  <2>3. Up(n) /\ (agent[n] = "first" \/ clean[n])
    BY <1>1, <2>2 DEF Joined
  <2>4. agent[n] = "first" \/ ReadyFor(n, step)
    <3>1. InStep(n) /\ agent[n] \in AgentStates
      BY <1>1, <2>2 DEF IInv, TypeOK
    <3>2. agent[n] \in {"first", "state", "send", "reward"}
      BY <2>3, <3>1 DEF Up, AgentStates
    <3> QED BY <1>1, <2>2, <2>3, <3>1, <3>2 DEF InStep
  <2> QED BY <2>1, <2>3, <2>4 DEF SomebodyMoves
<1> QED BY <1>1, InitIInv, NextIInv, PTL DEF Spec

\* And no such agent takes a request to its grave: whatever it takes, it
\* answers.
THEOREM JoinedAgentsAnswer ==
  Spec => [][\A n \in Nodes : Joined(n) /\ AgentStep(n)
               => reply' \in [answer : {Ack} \cup Actions]]_vars
<1>1. ASSUME IInv, IInv', NEW n \in Nodes, Joined(n), AgentStep(n)
      PROVE  reply' \in [answer : {Ack} \cup Actions]
  <2>1. agent'[n] # "failed"
    <3>1. CASE ReceiveFirst(n)
      BY <1>1, <3>1 DEF ReceiveFirst, IInv, TypeOK
    <3>2. CASE ~ReceiveFirst(n)
      <4>1. clean[n] /\ UNCHANGED clean
        BY <1>1, <3>2 DEF Joined, AgentStep, ReceiveFirst, ReceiveState, SendAction, ReceiveReward
      <4> QED BY <1>1, <4>1 DEF IInv, InStep
    <3> QED BY <3>1, <3>2
  <2>2. n \in DOMAIN agent
    BY <1>1 DEF IInv, TypeOK
  <2>3. CASE ~SendAction(n)
    BY <1>1, <2>3 DEF AgentStep, ReceiveFirst, ReceiveState, ReceiveReward, Received, Answer
  <2>4. CASE SendAction(n)
    <3>1. request.kind = "Action"
      BY <2>1, <2>2, <2>4 DEF SendAction
    <3> QED BY <2>4, <3>1 DEF SendAction, Answer
  <2> QED BY <2>3, <2>4
<1>2. IInv /\ [Next]_vars
        => [\A n \in Nodes : Joined(n) /\ AgentStep(n)
              => reply' \in [answer : {Ack} \cup Actions]]_vars
  BY <1>1, NextIInv
<1> QED BY <1>2, InitIInv, NextIInv, PTL DEF Spec

LEMMA WorkSums ==
  /\ \A p \in 1 .. 6 : 3 * (6 - p) \in Nat
  /\ \A p \in 1 .. 6, k \in 1 .. 3 : 3 * (6 - p) + k \in Nat \ {0}
  /\ \A c, a, b \in Nat : b < a => 19 * c + b < 19 * c + a
  /\ \A c, a, b \in Nat : b <= a => 19 * c + b <= 19 * c + a
  /\ \A c \in Nat : 19 * (c - 1) + 18 < 19 * c + 0
OBVIOUS

\* What is left of a round is a number.
LEMMA RoundIsNat ==
  ASSUME step \in 1 .. 6
  PROVE  InRound \in Nat /\ (running # None => InRound > 0)
<1>1. CASE running = None
  BY <1>1 DEF InRound
<1>2. CASE running # None
  <2>1. PICK k \in 1 .. 3 : InRound = 3 * (6 - step) + k
    BY <1>2 DEF InRound
  <2>2. 3 * (6 - step) + k \in Nat \ {0}
    BY WorkSums
  <2>3. InRound \in Nat \ {0}
    BY <2>1, <2>2
  <2> QED BY <2>3
<1> QED BY <1>1, <1>2

LEMMA RoundIsNatNext ==
  ASSUME step' \in 1 .. 6
  PROVE  InRound' \in Nat
<1>1. CASE running' = None
  BY <1>1 DEF InRound
<1>2. CASE running' # None
  <2>1. PICK k \in 1 .. 3 : InRound' = 3 * (6 - step') + k
    BY <1>2 DEF InRound
  <2>2. 3 * (6 - step') + k \in Nat \ {0}
    BY WorkSums
  <2> QED BY <2>1, <2>2
<1> QED BY <1>1, <1>2

\* Every step but that to the next second leaves less to do in this second, or
\* no more when an agent is started or killed, so a second with a finite number
\* of instances ends after at most 19 steps of the simulation and the agents
\* for each of them.
THEOREM SecondsEnd ==
  ASSUME IsFiniteSet(Instances)
  PROVE  Spec => [][IF NextSecond THEN due = {}
                    ELSE IF \E n \in Nodes : Start(n) \/ Crash(n) THEN Work' <= Work
                    ELSE Work' < Work]_vars
<1>1. ASSUME IInv
      PROVE  /\ IsFiniteSet(due) /\ Cardinality(due) \in Nat /\ step \in 1 .. 6
             /\ InRound \in Nat /\ (running # None => InRound > 0)
  <2>1. due \in SUBSET Instances /\ step \in 1 .. 6
    BY <1>1, ScriptFacts DEF IInv, TypeOK
  <2> QED BY <2>1, FS_Subset, FS_CardinalityType, RoundIsNat
<1>2. ASSUME IInv, NEW i \in Instances, BeginRound(i) PROVE Work' < Work
  <2>1. i \in due /\ Cardinality(due') = Cardinality(due) - 1
    BY <1>1, <1>2, FS_RemoveElement DEF BeginRound
  <2>2. InRound = 0 /\ InRound' = 18
    <3>1. ~waiting
      BY <1>2 DEF IInv, ChannelOK, BeginRound
    <3>2. running = None /\ running' # None /\ step' = 1 /\ ~waiting'
      BY <1>2, <3>1, ExchangeAssumption DEF BeginRound
    <3> QED BY <3>2 DEF InRound
  <2>3. Cardinality(due) \in Nat
    BY <1>1, <1>2
  <2> QED BY <2>1, <2>2, <2>3, WorkSums DEF Work
<1>3. ASSUME IInv, IInv', UNCHANGED due, InRound' < InRound PROVE Work' < Work
  <2>1. step' \in 1 .. 6
    BY <1>3, ScriptFacts DEF IInv, TypeOK
  <2>2. InRound' \in Nat
    BY <2>1, RoundIsNatNext
  <2>3. Cardinality(due') = Cardinality(due)
    BY <1>3
  <2>4. InRound \in Nat /\ Cardinality(due) \in Nat
    BY <1>1, <1>3
  <2> QED BY <1>3, <2>2, <2>3, <2>4, WorkSums DEF Work
<1>4. ASSUME IInv, SendRequest PROVE UNCHANGED due /\ InRound' < InRound
  BY <1>1, <1>4 DEF SendRequest, InRound
<1>5. ASSUME IInv, TakeReply PROVE UNCHANGED due /\ InRound' < InRound
  <2>1. running # None /\ request = None
    BY <1>5 DEF TakeReply, IInv, ChannelOK
  <2> QED BY <1>1, <1>5, <2>1 DEF TakeReply, InRound
<1>6. ASSUME IInv, TakeAction PROVE UNCHANGED due /\ InRound' < InRound
  <2>1. running # None
    BY <1>6 DEF TakeAction, IInv, ChannelOK
  <2>2. InRound > 0
    BY <1>1, <1>6, <2>1
  <2>3. UNCHANGED due /\ running' = None
    BY <1>6 DEF TakeAction
  <2> QED BY <2>2, <2>3 DEF InRound
<1>7. ASSUME IInv, NEW n \in Nodes, AgentStep(n) PROVE UNCHANGED due /\ InRound' < InRound
  <2>1. request # None /\ request' = None
    BY <1>7 DEF AgentStep, ReceiveFirst, ReceiveState, SendAction, ReceiveReward, Receives
  <2>2. waiting /\ running # None
    BY <1>7, <2>1 DEF IInv, ChannelOK
  <2>3. UNCHANGED <<due, running, step, waiting>>
    BY <1>7 DEF AgentStep, simVars
  <2> QED BY <1>1, <1>7, <2>1, <2>2, <2>3 DEF InRound
<1>8. ASSUME IInv, NEW n \in Nodes, Start(n) \/ Crash(n) PROVE Work' <= Work
  <2>1. UNCHANGED <<due, running, step, waiting>> /\ (request = None => request' = None)
    BY <1>8 DEF Start, Crash, simVars
  <2>2. InRound' <= InRound
    BY <1>1, <1>8, <2>1 DEF InRound
  <2>3. InRound' \in Nat
    BY <1>1, <1>8, <2>1, RoundIsNatNext
  <2>4. Cardinality(due') = Cardinality(due)
    BY <2>1
  <2>5. InRound \in Nat /\ Cardinality(due) \in Nat
    BY <1>1, <1>8
  <2> QED BY <2>2, <2>3, <2>4, <2>5, WorkSums DEF Work
<1>9. IInv /\ [Next]_vars
        => [IF NextSecond THEN due = {}
            ELSE IF \E n \in Nodes : Start(n) \/ Crash(n) THEN Work' <= Work
            ELSE Work' < Work]_vars
  BY <1>2, <1>3, <1>4, <1>5, <1>6, <1>7, <1>8, NextIInv DEF Next, Simulation, NextSecond
<1> QED BY <1>9, InitIInv, NextIInv, PTL DEF Spec
=============================================================================
