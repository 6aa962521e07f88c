----------------------------- MODULE RlExchange -----------------------------
(***************************************************************************)
(* The learning loop between the simulation (QosStrategy::everyNSeconds,   *)
(* fw/qos-strategy.cpp) and the agents (train-RL-model.py), one process    *)
(* per node.                                                               *)
(*                                                                         *)
(* The simulation is one thread.  Once per simulated second every instance *)
(* of the strategy runs everyNSeconds, which sends six requests to the     *)
(* agent of its node and blocks on the answer to each, so there is at most *)
(* one request under way in the whole simulation.  Instances of one node   *)
(* share the port of its agent and the token buckets of the node.          *)
(*                                                                         *)
(* An agent answers "Received" before it looks at a message; a message it  *)
(* does not expect is a Python exception that ends it.                     *)
(***************************************************************************)
EXTENDS Integers, Sequences, FiniteSets

CONSTANTS
  Nodes,          \* nodes that run the strategy, one agent each
  Instances,      \* strategy instances
  NodeOf,         \* [Instances -> Nodes]
  None,           \* no instance, no message
  learning_mode,  \* whether perform_action changes the rates
  InitialRates,   \* the two fill rates the token bucket driver sets
  MaxRate,        \* bound: agents choose no action that exceeds it
  MaxCrashes,     \* bound: agent processes killed from outside
  MaxStarts,      \* bound: agent processes started, per node
  SecondModulus   \* bound: seconds are counted modulo this number

ASSUME ExchangeAssumption ==
  /\ NodeOf \in [Instances -> Nodes]
  /\ None \notin Instances
  /\ learning_mode \in BOOLEAN
  /\ InitialRates \in (Nat \ {0}) \X (Nat \ {0})
  /\ MaxRate \in Nat /\ MaxCrashes \in Nat /\ MaxStarts \in Nat
  /\ SecondModulus \in Nat /\ SecondModulus > 2

VARIABLES
  second,    \* the simulated second
  due,       \* instances whose event of this second has not run yet
  running,   \* the instance inside everyNSeconds, or None
  step,      \* the request of its round that it is at
  waiting,   \* the thread is inside socket.recv
  request,   \* the request under way, or None
  reply,     \* the answer under way, or None
  agent,     \* agent[n]: where the agent of node n is in its script
  known,     \* known[n]: curr_node of extract_state_data has been set
  got,       \* got[n]: the parts of the state extract_state_data has
  acted,     \* acted[n]: the request the agent answered with an action
  rewarded,  \* rewarded[n]: the request it takes as that action's reward
  clean,     \* history: the first message of the agent began a round
  rates,     \* rates[n]: m_fillRate of the high and medium buckets
  crashes,   \* history: agents killed so far
  starts     \* history: agents started so far, per node

simVars == <<second, due, running, step, waiting, rates>>
agentVars == <<agent, known, got, acted, rewarded, clean>>
vars == <<second, due, running, step, waiting, request, reply, agent, known,
          got, acted, rewarded, clean, rates, crashes, starts>>

\* Mutant: the action is asked for before the rates are reported.
ScriptActionEarly ==
  <<"Reward", "Node", "Queue sizes", "Incoming packets", "Action", "Rates">>

\* The requests of one round, in the order everyNSeconds sends them.
Script == <<"Reward", "Node", "Queue sizes", "Incoming packets", "Rates", "Action">>

Kinds == {Script[i] : i \in DOMAIN Script}

\* The parts extract_state_data collects.
StateParts == {"Queue sizes", "Incoming packets", "Rates"}

\* The agent's num_actions.
Actions == 0 .. 5

\* The answer "Received", which is no action.
Ack == -1

Requests == [kind : Kinds, inst : Instances, second : 0 .. SecondModulus - 1]

\* What an agent does next: the "reward" it ignores, extract_state_data,
\* send_action, the reward of its action; or it is not running, or it ended
\* with an exception.
AgentStates == {"first", "state", "send", "reward", "down", "failed"}

Up(n) == agent[n] \notin {"down", "failed"}

Init ==
  /\ second = 0
  /\ due = Instances
  /\ running = None
  /\ step = 1
  /\ waiting = FALSE
  /\ request = None
  /\ reply = None
  /\ agent = [n \in Nodes |-> "down"]
  /\ known = [n \in Nodes |-> FALSE]
  /\ got = [n \in Nodes |-> {}]
  /\ acted = [n \in Nodes |-> None]
  /\ rewarded = [n \in Nodes |-> None]
  /\ clean = [n \in Nodes |-> FALSE]
  /\ rates = [n \in Nodes |-> InitialRates]
  /\ crashes = 0
  /\ starts = [n \in Nodes |-> 0]

-----------------------------------------------------------------------------
(* The simulation. *)

\* Mutant: the rates are lowered without a look at what is left.
AdjustedUnguarded(a, r) ==
  CASE a = 0 -> <<r[1] + 10, r[2]>>
    [] a = 1 -> <<r[1] - 10, r[2]>>
    [] a = 3 -> <<r[1], r[2] + 10>>
    [] OTHER -> r

\* perform_action's switch; 6, 7 and 8 pass receive_action and do nothing.
Adjusted(a, r) ==
  CASE a = 0 -> <<r[1] + 10, r[2]>>
    [] a = 1 /\ r[1] > 10 -> <<r[1] - 10, r[2]>>
    [] a = 2 /\ r[1] > 10 -> <<r[1] - 10, r[2] + 10>>
    [] a = 3 -> <<r[1], r[2] + 10>>
    [] a = 4 /\ r[2] > 10 -> <<r[1], r[2] - 10>>
    [] a = 5 /\ r[2] > 10 -> <<r[1] + 10, r[2] - 10>>
    [] OTHER -> r

\* receive_action: an answer that is no action counts as action 0.
ActionOf(answer) == IF answer \in 0 .. 8 THEN answer ELSE 0

\* The event of instance i in this second starts.
BeginRound(i) ==
  /\ running = None
  /\ i \in due
  /\ due' = due \ {i}
  /\ running' = i
  /\ step' = 1
  /\ UNCHANGED <<second, waiting, request, reply, rates, agentVars, crashes, starts>>

\* Mutant: a request is sent before the last one was answered.
SendRequestEarly ==
  /\ running # None
  /\ reply # None \/ ~waiting
  /\ request' = [kind |-> Script[step], inst |-> running, second |-> second]
  /\ waiting' = TRUE
  /\ UNCHANGED <<second, due, running, step, reply, rates, agentVars, crashes, starts>>

\* socket.send of the next request of the round.
SendRequest ==
  /\ running # None
  /\ ~waiting
  /\ request' = [kind |-> Script[step], inst |-> running, second |-> second]
  /\ waiting' = TRUE
  /\ UNCHANGED <<second, due, running, step, reply, rates, agentVars, crashes, starts>>

\* socket.recv returns; nothing is done with the answer.
TakeReply ==
  /\ waiting
  /\ reply # None
  /\ Script[step] # "Action"
  /\ reply' = None
  /\ waiting' = FALSE
  /\ step' = step + 1
  /\ UNCHANGED <<second, due, running, request, rates, agentVars, crashes, starts>>

\* socket.recv returns the action; perform_action ends the round.
TakeAction ==
  /\ waiting
  /\ reply # None
  /\ Script[step] = "Action"
  /\ IF learning_mode
     THEN rates' = [rates EXCEPT ![NodeOf[running]] = Adjusted(ActionOf(reply.answer), @)]
     ELSE UNCHANGED rates
  /\ reply' = None
  /\ waiting' = FALSE
  /\ running' = None
  /\ UNCHANGED <<second, due, step, request, agentVars, crashes, starts>>

\* Mutant: the event does not schedule itself again.
NextSecondForgets ==
  /\ running = None
  /\ due = {}
  /\ second' = (second + 1) % SecondModulus
  /\ UNCHANGED <<due, running, step, waiting, request, reply, rates, agentVars, crashes, starts>>

\* The events of this second have all run; the next are one second away.
NextSecond ==
  /\ running = None
  /\ due = {}
  /\ due' = Instances
  /\ second' = (second + 1) % SecondModulus
  /\ UNCHANGED <<running, step, waiting, request, reply, rates, agentVars, crashes, starts>>

Simulation ==
  \/ \E i \in Instances : BeginRound(i)
  \/ SendRequest
  \/ TakeReply
  \/ TakeAction
  \/ NextSecond

-----------------------------------------------------------------------------
(* The agents. *)

\* socket.recv of the agent of node n returns.
Receives(n) ==
  /\ Up(n)
  /\ request # None
  /\ NodeOf[request.inst] = n
  /\ request' = None

Answer(v) == reply' = [answer |-> v]

\* receive_string_and_send_reply answers whatever it received.
Received == Answer(Ack)

\* The first message is taken for a reward and dropped.
ReceiveFirst(n) ==
  /\ agent[n] = "first"
  /\ Receives(n)
  /\ Received
  /\ agent' = [agent EXCEPT ![n] = "state"]
  /\ known' = [known EXCEPT ![n] = FALSE]
  /\ got' = [got EXCEPT ![n] = {}]
  /\ clean' = [clean EXCEPT ![n] = request.kind = "Reward"]
  /\ UNCHANGED <<acted, rewarded>>

\* One turn of extract_state_data's loop: a message before "Node: " makes
\* int('') fail, and "Action" makes float('Action') fail.
ReceiveState(n) ==
  /\ agent[n] = "state"
  /\ Receives(n)
  /\ Received
  /\ LET kind == request.kind
         parts == got[n] \cup ({kind} \cap StateParts)
     IN  IF kind = "Node"
         THEN /\ known' = [known EXCEPT ![n] = TRUE]
              /\ UNCHANGED <<agent, got>>
         ELSE IF ~known[n] \/ kind = "Action"
         THEN /\ agent' = [agent EXCEPT ![n] = "failed"]
              /\ UNCHANGED <<known, got>>
         ELSE /\ got' = [got EXCEPT ![n] = parts]
              /\ agent' = [agent EXCEPT ![n] = IF parts = StateParts THEN "send" ELSE @]
              /\ UNCHANGED known
  /\ UNCHANGED <<acted, rewarded, clean>>

\* send_action: any other message raises RuntimeError, and is not answered.
SendAction(n) ==
  /\ agent[n] = "send"
  /\ Receives(n)
  /\ IF request.kind = "Action"
     THEN \E a \in Actions :
            /\ \A i \in {1, 2} : Adjusted(a, rates[n])[i] <= MaxRate
            /\ Answer(a)
            /\ agent' = [agent EXCEPT ![n] = "reward"]
            /\ acted' = [acted EXCEPT ![n] = request]
     ELSE /\ agent' = [agent EXCEPT ![n] = "failed"]
          /\ UNCHANGED <<reply, acted>>
  /\ UNCHANGED <<known, got, rewarded, clean>>

\* Mutant: the reward is left for extract_state_data to find.
RewardNotTaken(n) ==
  /\ agent[n] = "reward"
  /\ agent' = [agent EXCEPT ![n] = "state"]
  /\ known' = [known EXCEPT ![n] = FALSE]
  /\ got' = [got EXCEPT ![n] = {}]
  /\ UNCHANGED <<request, reply, acted, rewarded, clean>>

\* The reward of the last action, then extract_state_data from the start.
ReceiveReward(n) ==
  /\ agent[n] = "reward"
  /\ Receives(n)
  /\ Received
  /\ IF request.kind = "Reward"
     THEN /\ agent' = [agent EXCEPT ![n] = "state"]
          /\ known' = [known EXCEPT ![n] = FALSE]
          /\ got' = [got EXCEPT ![n] = {}]
          /\ rewarded' = [rewarded EXCEPT ![n] = request]
     ELSE /\ agent' = [agent EXCEPT ![n] = "failed"]
          /\ UNCHANGED <<known, got, rewarded>>
  /\ UNCHANGED <<acted, clean>>

AgentStep(n) ==
  /\ ReceiveFirst(n) \/ ReceiveState(n) \/ SendAction(n) \/ ReceiveReward(n)
  /\ UNCHANGED <<simVars, crashes, starts>>

\* A process is started for node n: it binds the port, and a request that
\* found nobody there reaches it.
Start(n) ==
  /\ ~Up(n)
  /\ starts[n] < MaxStarts
  /\ agent' = [agent EXCEPT ![n] = "first"]
  /\ acted' = [acted EXCEPT ![n] = None]
  /\ rewarded' = [rewarded EXCEPT ![n] = None]
  /\ clean' = [clean EXCEPT ![n] = FALSE]
  /\ starts' = [starts EXCEPT ![n] = @ + 1]
  /\ UNCHANGED <<simVars, request, reply, known, got, crashes>>

\* The process of node n is killed; a request on its way to it is lost with
\* it, or still in the sender's queue.
Crash(n) ==
  /\ Up(n)
  /\ crashes < MaxCrashes
  /\ agent' = [agent EXCEPT ![n] = "down"]
  /\ crashes' = crashes + 1
  /\ request' \in IF request # None /\ NodeOf[request.inst] = n
                  THEN {request, None} ELSE {request}
  /\ UNCHANGED <<simVars, reply, known, got, acted, rewarded, clean, starts>>

Next ==
  \/ Simulation
  \/ \E n \in Nodes : AgentStep(n) \/ Start(n) \/ Crash(n)

Spec == Init /\ [][Next]_vars

\* The simulation and every agent that has a request run on, and somebody
\* starts each agent.
FairSpec ==
  /\ Spec
  /\ WF_vars(Simulation)
  /\ \A n \in Nodes : WF_vars(AgentStep(n)) /\ WF_vars(Start(n))

-----------------------------------------------------------------------------
(* Properties. *)

\* Types of the variables; at most one request or answer is ever under way.
TypeOK ==
  /\ second \in 0 .. SecondModulus - 1
  /\ due \subseteq Instances
  /\ running \in Instances \cup {None}
  /\ step \in 1 .. Len(Script)
  /\ waiting \in BOOLEAN
  /\ request \in Requests \cup {None}
  /\ reply \in [answer : {Ack} \cup Actions] \cup {None}
  /\ request = None \/ reply = None
  /\ agent \in [Nodes -> AgentStates]
  /\ known \in [Nodes -> BOOLEAN]
  /\ got \in [Nodes -> SUBSET StateParts]
  /\ acted \in [Nodes -> Requests \cup {None}]
  /\ rewarded \in [Nodes -> Requests \cup {None}]
  /\ clean \in [Nodes -> BOOLEAN]
  /\ rates \in [Nodes -> Nat \X Nat]
  /\ crashes \in 0 .. MaxCrashes
  /\ starts \in [Nodes -> 0 .. MaxStarts]

\* An agent whose first message began a round never meets a message that
\* ends it: the script of everyNSeconds and the loop of the agent stay in
\* step for ever, through any number of rounds and of other agents' crashes.
CleanAgentsSurvive ==
  \A n \in Nodes : agent[n] = "failed" => ~clean[n]

\* No fill rate an agent can reach is zero: the driver divides by it.
RatesPositive == \A n \in Nodes : rates[n][1] > 0 /\ rates[n][2] > 0

\* When the rates of a node change, and its agent's first message began a
\* round, the change is an action that agent chose, never the receive_action
\* default for an answer that is none.
ActionsAreChosen ==
  [][\A n \in Nodes : (clean[n] /\ rates'[n] # rates[n]) =>
       reply.answer \in Actions]_vars

\* The agent's comment on the reward it trains an action with: "this next
\* part is the part that is done after 1 second when the network has had time
\* to gather more data for a reward", for agents whose first message began a
\* round.
RewardIsOneSecondLater ==
  \A n \in Nodes :
    (clean[n] /\ agent[n] = "state" /\ acted[n] # None) =>
      /\ rewarded[n] # None
      /\ rewarded[n].second = (acted[n].second + 1) % SecondModulus
      /\ rewarded[n].inst = acted[n].inst

\* The simulation never stops for good: every instance completes a round again
\* and again, although one thread waits for all agents and without a timeout.
RoundsGoOn == \A i \in Instances : []<><<TakeAction /\ running = i>>_vars

\* The agent took the request of the waiting simulation to its grave.
Lost == waiting /\ request = None /\ reply = None

\* The agent of node n runs, and has missed no part of a round.
Joined(n) == Up(n) /\ (agent[n] = "first" \/ clean[n])

\* Once every agent is up for good and joined at the start of a round, and no
\* request was lost, the simulation recovers from all earlier crashes.
Recovers ==
  (<>[](\A n \in Nodes : Joined(n)) /\ []~Lost) => RoundsGoOn
=============================================================================
