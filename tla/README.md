# Specifications of the QoS strategy and its learning loop

The repository is an ns-3/ndnSIM tree in which a small part is the project's own:
a QoS forwarding strategy for NDN (`QosStrategy`), the queues and token buckets it
sends through, the applications that drive them, and a reinforcement-learning
agent (`train-RL-model.py`) that tunes the token rates while the simulation runs.
This directory holds TLA+ specifications of that part, of the NFD pipelines it runs
in, and of the two programs of the tree that have threads (the test runner and the
visualizer), TLC configurations that check them on small instances, and TLAPS
proofs. Paths below are relative to the repository; `fw/`, `table/` stand for
`src/ndnSIM/NFD/daemon/fw/` and `table/` beside it, `apps/` for `src/ndnSIM/apps/`.

## 1. Inventory

| Component | State | Operations | Status |
|---|---|---|---|
| QoS queues: `fw/ndn-qos-queue`, `fw/ndn-priority-tx-queue` | three bounded FIFOs per face, the last virtual finish time of each | `DoEnqueue`, `DoDequeue`, `SelectQueueToSend`, `tokenReq*` | `QosScheduler` |
| Token buckets: `fw/ndn-token-bucket`, `apps/tokenBucketDriver` | tokens and need per class and face, capacity, fill rate | `addToken`, `consumeToken`, `UpdateBucket` | `QosScheduler` |
| Strategy, sending side: `fw/qos-strategy` | `m_tx_queue`, one queue set per face | `afterReceiveInterest`, `afterReceiveData`, `prioritySend` | `QosScheduler` |
| Strategy, statistics: `fw/qos-strategy` | packets, losses, device losses | the counters, `callback`, `everyNSeconds` | `QosStatistics` |
| Learning exchange: `fw/qos-strategy`, `train-RL-model.py` | one request under way, the position of each agent in its script, fill rates | `everyNSeconds`, `receive_action`, `perform_action`; the agent's loop | `RlExchange` |
| Pipelines and PIT: `fw/forwarder`, `fw/strategy`, `fw/algorithm`, `table/pit-*` | PIT entries, in- and out-records, timers | incoming and outgoing Interest and Data, Nack, expiry, rejection | `QosForwarding` |
| Retransmission suppression: `fw/retx-suppression-exponential` | interval per out-record and per PIT entry | `decidePerUpstream`, `decidePerPitEntry`, `incrementIntervalForOutRecord` | `QosForwarding` |
| Strategy instances: `table/strategy-choice`, `apps/TBucketRef` | the instance of each prefix, the table `CT` | insert, erase, and the traffic through the shared buckets | `QosInstances` |
| QoS consumer and producer: `apps/ndn-QoS-*` | sequence numbers, retransmission set, delay lists; subscription, scheduled chunks | send, timeout, Interest, Data, start, stop | `QosApplications` |
| Test runner: `test.py` | two queues, worker threads, counters, results | dispatch, run, collect, interrupt, join | `TestRunner` |
| Visualizer threads: `visualizer/core.py`, `pyviz.cc` | lock, event, target, timers, nested callbacks | simulation loop, timer, play, speed, quit | `VisualizerThreads` |
| `apps/tokenBucketDriver2`, `fw/TBucketDebug` | as the driver, for all nodes at once | `UpdateBucket` | not modelled: no scenario uses it |
| Other NFD strategies, tables, faces, management, RIB | | | not modelled: unchanged from NFD |
| Scenarios, statistics and plotting scripts | trace files | | not modelled: straight-line code |
| ns-3, its Python bindings, waf, ndn-cxx, websocketpp | | | not modelled: vendored or generated; ns-3 appears as a scheduler that runs one event at a time |

How the parts interact:

* A packet reaches the strategy as a call (`afterReceiveInterest`,
  `afterReceiveData`). It is queued for every next hop or pending downstream, then
  `prioritySend` walks all queues and sends what the tokens allow.
* The driver application runs one event per bucket, forever. The event adds tokens
  and emits the bucket's `send` signal; the strategy's slot is `prioritySend`.
  Driver and strategy meet through the global table `CT` (`apps/TBucketRef.hpp`).
* Once per simulated second every strategy instance runs `everyNSeconds`: it sends
  a reward, the node, queue sizes, packet counts and rates to the agent of its node
  over a ZeroMQ REQ socket, each answered before the next is sent, then asks for an
  action and changes the fill rates (only when `learning_mode` is set; at this
  commit it is a constant that is off, and the runs switch it on to check the
  exchange it is meant for).
* The pipelines of `Forwarder` own the PIT entry; the strategy only queues. The
  out-record of an Interest and the removal of the in-record of a Data come with the
  *departure* of the packet, in a later event than its arrival.
* Every prefix has its own instance, queues and buckets, but `prioritySend` spends
  from `CT`, which the constructor of the last instance has overwritten.
* Consumers and producer meet over the network only. The producer has one
  subscription for all consumers.
* The test runner's threads share two `queue.Queue`s and one flag; the visualizer's
  share a lock, an event and the target time.

What is hard: everything inside the simulator is one event at a time, so the
interleavings there are those of *events* (arrivals, departures, refills, timers,
seconds), of *faces* (the walk order of an `unordered_map`), and of *processes*
(agents that start late, are killed, and restart). The test runner and the visualizer
have real threads. The hard places are listed, at their line, as hazards in
`PROJECT.json`; those without a property say why.

What makes each component correct: queues are bounded FIFOs and packets leave in
order within a class; a class never sends faster than its bucket allows; no accepted
packet is stranded; a pass of `prioritySend` sends what it can; the counters of one
second are about that second; both ends of the exchange agree on what comes next, an
action is paired with the reward it caused, and the simulation does not stop. A PIT
entry waits as long as its downstreams do; instances together keep to one rate; a
delay is traced once; no test is lost or reported twice; the simulation never runs
away from its view, and both threads can stop.

## 2. Modules

### ShapedLinks
What the sending side promises, without its machinery: each (face, class) is a
bounded FIFO behind a token bucket; only heads leave, each costs a token, the last
token is never spent; a refill gives every face of a class one token up to capacity.
It leaves open which class goes first, the virtual time, the walk and its early end.

### QosScheduler
One node with one strategy instance.

| Variable | Code |
|---|---|
| `queues`, `lvft` | `m_queue`, `m_lastVirtualFinishTime` of the three `QosQueue`s of each `m_tx_queue[f]`; a packet is represented by the finish time it was queued with |
| `order` | the iteration order of `m_tx_queue`; it may change when a key is added, and only then |
| `tokens`, `need`, `capacity` | `m_tokens`, `m_need`, `m_capacity` of the three `TokenBucket`s; maps are partial, as in the code |
| `pc`, `rest`, `tokenwait` | where `prioritySend` is: the faces left in its outer loop and its local flag |
| `sent`, `credits` | history, used by properties and theorems only |

`ReceiveInterest`, `ReceiveData` and `UpdateBucket` are the three events; each is
enabled only when no pass is under way, and ends by starting one (an Interest that
`decidePerPitEntry` suppresses is queued but starts none, as in the code).
`prioritySend` is spread over `SendOne` (one turn of the inner loop that sends),
`TokenWait` (the turn that finds no class with tokens), `NextFace` and `EndPass`.
Which faces a packet goes to is any subset of the faces: the FIB, the suppression and
the scope check of `afterReceiveInterest` and the in-records of `afterReceiveData`
decide it in the code. Every name that is not `typeI` is medium: the code's branch
for the low class is commented out, so the low queue exists and stays empty.

Abstractions: `float` arithmetic on finish times is exact integer arithmetic (equal
to the code's for the checked sizes and any time below 2^24); tokens, a `double` that
only moves by one, are integers; the fill rate is the nondeterministic timing of
`UpdateBucket`. `afterReceiveNack` returns at once and has no action. The `NACK`
packet type is never queued. `StopApplication` of the driver cancels nothing, so the
driver's events never end.

### QosStatistics
Extends `QosScheduler`: each step is conjoined with what it counts. `Count` is the
increment of the packet counter and of the loss counter per full queue, made by the
same handler that queues the packet; `SendOneCounted` adds the drop callback of the
device the packet goes to; `EveryNSeconds` is the event in which the reward is
computed and all five counters are cleared (nothing else runs in between, since the
thread blocks on the agent). `onDroppedInterest` runs only with link reliability,
which the scenarios leave off, and is left out. The reward is kept as a sign over a
common denominator, because TLA+ has no reals.

### RlExchange
The simulation thread and one agent process per node. `BeginRound`, `SendRequest`,
`TakeReply`, `TakeAction` and `NextSecond` are `everyNSeconds`; the agent's script is
`ReceiveFirst` (the reward it ignores), `ReceiveState` (one turn of
`extract_state_data`), `SendAction` and `ReceiveReward`. A message that makes the
Python code raise takes the agent to `"failed"`. The neural network is an arbitrary
choice among its six actions; `Adjusted` is the `switch` of `perform_action`. Start
and Crash are the operator's; a request that finds nobody listening waits in the
REQ socket, one whose agent is killed is either lost or still waiting. `clean[n]` is
history: the agent of n has had its first message, and it began a round. `Joined(n)`
also holds of an agent that is up and has had none yet.

### QosForwarding
One name on one node: its PIT entries, numbered as they are created, and its packets
in the queues of the strategy.

| Variable | Code |
|---|---|
| `entry[e].in`, `.out` | in-records and out-records: nonce, expiry, last renewal, Nack, suppression interval (`sends` is history) |
| `entry[e].interval`, `.timer`, `.satisfied` | the entry's `PitInfo`, `expiryTimer`, `isSatisfied` |
| `entry[e].rejecter` | history: the face whose Interest had no next hop and set the timer to now |
| `pit`, `created` | the entry the PIT has now. Packets keep theirs alive (`shared_ptr`), so older ones remain |
| `queues`, `pc`, `dataFace` | the name's packets in `m_tx_queue[f]`, and the call that `prioritySend` returns to |
| `cached`, `dnl` | whether the content store has the Data; the dead nonce list |
| `unanswered` | what upstreams may still answer, with Data or with a Nack |

`ReceiveInterest` is the incoming Interest pipeline with its three ends
(`InterestLoops`, `InterestHits`, `InterestMisses`); `ReceiveData` and `ReceiveNack` are
the other two pipelines, `SendInterest` and `SendData` one packet of `prioritySend`,
`Finalize` the timer. Which packets a pass sends to the faces in `Blocked` is open, and
their queues may be full: tokens and other names' packets decide it, and `QosScheduler`
has those. The queues of the other faces never fill, and a pass that is begun empties
them. `OutOfScope` is `wouldViolateScope` for the name: it takes next hops away from an
Interest, and an Interest that has none left and none suppressed rejects the entry
(`NoRoute`). A millisecond is `Millisecond` steps of the clock: `setExpiryTimer` is
called with whole milliseconds (`TimerOf`), so the timer may be early by less than one.

### QosInstances
`Insert` and `Erase` are `StrategyChoice::insert` and `erase`: the constructor puts its
buckets into `CT` before the table is looked at. `Receive` is an arrival at any
instance, `UpdateBucket` the driver. `prioritySend` is one step here, because nothing
interrupts it; it gets to a set of faces that ends with one that keeps a packet.
Following a pointer to an instance that is gone is undefined, so no step is enabled
that would. `sent` and `credits` are history, counted since `owner` was created.
`ReceiveSuppressed` is the early return of `afterReceiveInterest`, which leaves what it
queued without a pass.

Only `StartApplication` sets `m_fillRate` (`rated` is the owner it did that for), and the
constructor of a bucket does not. So `periodic[b]`, whether 1/`m_fillRate` of the bucket
in `CT` is a time that will come, is open for an owner created later, and the driver's
chain of events for b (`ticking[b]`) may end with it. A destroyed instance leaves its
`everyNSeconds` event and its `Drop` callbacks behind; a behaviour in which one was
destroyed stands for the code only until the first of these is called.

### QosApplications
`SendPacket`, `CheckRetxTimeout`, `OnData`, `StartApplication` and `StopApplication` are the
consumer's; `OnInterest`, `SendTimeout`, `SendChunk` (one scheduled `SendData`) and
`StopProducer` the producer's. Events have no times: one that is scheduled runs at any
later moment. Data once published may arrive at any time and any number of times, an
Interest once or never. Round-trip estimation and the delays themselves are left out.

### TestRunner
`main`, `worker`, the two queues, `process` (what a test's process did), `left` (the main
thread's count of results to come), `tally` and `results`. Dispatch is one step per test,
the loop over `output_queue.get()` is `Collect`, `JoinAll` the joins and the exit code.
`process[j]` includes what the test program of a suite leaves in its file (`Saved`, from
`src/core/model/test.cc`), `results[j]` is the sequence of entries that the main thread
writes for a test, each told apart by what it says. A worker steps between
`input_queue.get()`, its test of `thread_exit`, and the end of the process; a `Popen` that
raises ends the worker. `Interrupt` is `sigint_hook`.

### VisualizerThreads
`SimulationThread.run` step by step (`Wake` to `Release`), and the GTK callbacks of the
view: `update_view_timeout` runs the main loop again while the lock is taken, so `frames`
is a stack of its calls; a callback that holds the lock for its whole body is one step.
`timers` are the GLib sources alive, `timerId` the one `_update_timeout_id` tells of.
`period` is `sample_period`, which the speed control changes between any two callbacks; a
target already set is left as it is, and the next one may be earlier. `step` is history,
the period at the last `update_view`. A run may end short of its target at a
`Simulator::Stop` of the scenario (`Stops`, `RunEnds`). Handlers that only read under the
lock, drawing, and the IPython console (the import at `core.py:64` leaves it off) are left
out.

## 3. Runs

| Run | Instance | What it shows |
|---|---|---|
| `sched` | 2 faces, queues of 2, bursts 2/3/1, 3 packets, 1 ms | types, rate limit, token accounting, freshness of `m_need`, how far a pass gets, refinement of `ShapedLinks`; `Drains`: the node empties when packets stop coming |
| `rl` | 2 nodes with an instance each, 2 kills, 3 starts per agent | agents that joined at the start of a round stay in step; their rewards belong to the action one second earlier, and only chosen actions change the rates; rates stay positive; the simulation recovers |
| `rl_shared` | 1 node, 2 instances, no kill | *violated*: rewards of two instances are mixed |
| `stats_loss` | 2 faces, queues of 1, 3 packets | the loss ratio never exceeds one |
| `stats_reward` | the same | *violated*: the reward is not always a number in [0, 1] |
| `fwd` | downstreams d1, d2 and u1, next hops u1 and u2, the second out of u1's scope; 2 Interests with lifetimes of one or two milliseconds of 2 steps; u1 may lack tokens or room | types and suppression intervals; the timer covers every downstream to the millisecond; an entry ends for a cause |
| `fwd_spacing` | 1 downstream, 2 next hops, 3 Interests, nothing ever full | *violated*: retransmissions are not spaced as the header says |
| `apps` | a soft subscriber and a sender of payloads, 2 numbers | delays traced once; one send event; updates go on |
| `inst` | 2 prefixes, 2 instances, 2 faces, 2 classes, 3 packets, some suppressed; prefixes set again and erased before and after the driver starts | shared rate limit; the queues of an owner with fill rates drain |
| `inst_references` | 2 prefixes, 2 instances, 1 face | *violated*: `CT` points to buckets that were destroyed |
| `runner` | 2 workers, a suite, an example and a skipped Python example, codes 0, 1, 2 and a crash | jobs are kept, each test has one entry that is true of it, the exit code is right; the run ends unless a worker dies |
| `viz` | sample periods 1 and 2, time up to 4 with a Stop event at 3, 3 timers, pauses | the view keeps up; playing never stalls; no go is lost; quitting ends the thread |

The four violations are disagreements between the code and what a comment says of
it; the findings in `PROJECT.json` quote the line.

Some properties are deliberately conditional because the code needs the condition:

* `Ends` allows a run in which a worker has died: the main thread then waits for its
  result for ever.
* `UpdatesGoOn` starts when consumers without a subscription are silent: their
  Interests end the one subscription the producer has.
* `OwnerDrains` is about an owner that `StartApplication` gave its fill rates, while no
  instance was destroyed: a bucket created later may have none.
* `EndsForCause` counts as a cause an Interest all whose next hops are its own face or
  out of its scope: it rejects the entry that others wait in, which in `fwd` is what an
  Interest from u1 does.
* `NeverAhead` measures with the period at the last update of the view: when the speed
  is turned down, the simulation is many of the new periods ahead for a moment.

`EachReportedOnce` describes the code where a comment says otherwise. `test.py:1753-1757`
says that a suite that fails under valgrind has its entry PASS followed by one VALGR;
`test.py:1767-1772` copies the saved file, and writes a VALGR entry only for an example.
The file of a crashed suite whose output cannot be decoded is copied as it is, half
written: the entry is then `"partial"`, and the property says when that happens.

### Bounds, and why they are enough

* Two faces: the walk of `prioritySend` has a first face that blocks and a second
  that waits; everything the model says of a face beyond that is per face.
* `QueueSize` 2 (1 for the statistics) and 3 packets: a queue is filled, a packet is
  dropped, and the next is queued after a departure. The code's `QUEUE_SIZE` is 10.
* Bursts 2 (high), 3 (medium) and 1 (low): a class that can send one packet before it
  waits, and one that can send two. The low class is never given a packet.
* `MaxNow` 1: a packet may be queued before or after time moved. Sizes {7}: one
  size gives the classes different finish times; two classes reach equal ones.
* Two kills: both agents may be down at once, or one be killed again in the round that
  it joined in the middle of.
* `MaxRate` 25 from initial rates (20, 15): raising, lowering and moving the rates
  all happen, and both rates get down to where the guards bite. `SecondModulus` 3:
  a reward from this second, the next, and the one after are told apart.
* `fwd`: u1 is a downstream and a next hop, and u2 out of its scope, so that Interests
  find two, one or no next hops; two Interests make a retransmission, a second
  downstream, a loop, a rejection, or a second entry after the first. Two steps to a
  millisecond make a lifetime that is cut short by half of one. One face lacks tokens or
  room and the others do not, which keeps packets back past the end of their entry.
  `MaxInterval` 3 cuts a doubling; in `fwd_spacing` it is 4, two whole ones.
* `apps`: `MaxSeq` 1 leaves number 0 to be told apart from all later ones; a property
  about one number needs no second.
* `inst`: two instances are one that owns the buckets and one that did, or one that is
  created for a prefix that has one; 3 packets fill a queue and leave one waiting
  elsewhere.
* `runner`: with two workers the order of results differs from that of jobs; one test
  of each kind and a skipped one take every branch of the collection.
* `viz`: three timers allow two nested calls and a new timer; with periods 1 and 2 and
  time up to 4, a go comes before, during and after a run, a change of speed takes a
  target back or forth, and the Stop at 3 lies inside a run, at its end, or before it.
* The theorems hold without the bounds of the instance: any finite set of faces, any
  queue size, capacity and bound.

Deadlock is checked where the system cannot stop. `CHECK_DEADLOCK FALSE` is set in `rl`
(a request that died with its agent leaves the simulation waiting in `recv`), `apps` (all
applications may be stopped), `inst` (after the owner is gone the next access is
undefined), `runner` (a program that ends) and `viz` (the window is closed). Symmetry is
used in the two runs of the statistics and in `fwd` (of d1 and d2, which the scope does
not tell apart), none of which has a liveness property.

## 4. Fairness

* `WF(PassStep)`: a handler that was entered returns.
* `SF(UpdateBucket(b))` for each bucket: the simulator runs every event in its queue,
  and each refill event schedules the next (`ScheduleNextToken`, whose period 1/fillRate
  is finite and positive while the rate is positive). Weak fairness is too weak because
  the refill is disabled while a pass runs, which happens again and again.
* `WF(Simulation)`, `WF(AgentStep(n))`, `WF(Start(n))`: the simulation thread and an
  agent with a message to read run, and someone starts the agent of each node, as the
  repository's README tells the user to do. No fairness on `Crash`, and none on arrivals
  or on the clock.
* `QosApplications`: `WF` of the scheduled events of both applications (`SendPacket`,
  `CheckRetxTimeout`, `SendTimeout`, `SendChunk`): the simulator runs them. `SF` of
  `OnInterest(c)`: a network that is asked again and again delivers at last. None on
  `OnData`, starts, stops.
* `QosInstances`: `WF(UpdateBucket(b))`, which is enabled while an event for b is in the
  simulator's queue (`ticking[b]`): that event is called when its time comes. That there
  is always another is not assumed: the model says it of a bucket with a fill rate.
* `TestRunner`: `WF` of the main thread and of each worker: the operating system runs
  them, and every test ends. None on the interrupt and on failures.
* `VisualizerThreads`: `WF` of the simulation thread, and of the rest of `_quit` once it
  was entered. None on timers and clicks.

`Drains` is checked with bursts of two and three in the classes that get packets: a
class with a capacity of one never sends at all, because `SelectQueueToSend` asks for
*more than* one token. `Recovers` assumes that each agent is eventually `Joined` for
good, that is up, with a first message that is still to come or that began a round, and
that no request died inside an agent; without the second assumption the simulation waits
for ever in `recv`, which is what the code does.

## 5. Theorems

Every theorem assumes the named assumption of its module (`ParamAssumption`,
`ExchangeAssumption`, `ForwardingAssumption`, `RunnerAssumption` and so on): finitely
many faces or jobs, natural bounds, positive initial rates. Three have a hypothesis
of their own, in the table and explained below it.

| Module | Theorem | Statement | Argument |
|---|---|---|---|
| `QosScheduler_proofs` | `TypeCorrect` | `Spec => []TypeOK` | inductive as it is; the queue bound uses the guard of `HasRoom` |
| | `TokensAreAccounted` | `Spec => []TokensAccounted` | `TokenInv` below |
| | `RateLimit` | `Spec => []Conforms` | from `TokenInv`: tokens left are at least one |
| | `NeedIsNeverStale` | `Spec => []NeedIsCurrent` | inductive with `TypeOK` |
| | `PassReachesFrontier` | `Spec => []PassFrontier` | `PassInv` below |
| | `PassesEnd`, `PassIsNeverStuck`, `RefillUnblocks` | every turn of a pass makes `PassWork` smaller; some turn can be taken; after its refill a class of capacity above one may send on every face it has packets for | the packets are a finite set that `SendOne` shrinks; the least of three finish times exists; `TokenInv`: an entry has at least one token before the refill |
| | `SchedulerImplementsLinks` | `Spec => Links!Spec` | step simulation under the mapping, with `TokenInv` |
| `RlExchange_proofs` | `TypeCorrect` | `Spec => []TypeOK` | with `ChannelOK`: who may have sent what is under way |
| | `RatesStayPositive` | `Spec => []RatesPositive` | every branch of `perform_action` leads from positive rates to positive rates, whatever the action |
| | `InStepForEver` | `Spec => []CleanAgentsSurvive` | `InStep` below |
| | `RatesFollowActions` | `Spec => ActionsAreChosen` | `InStep` and `AnswerOK`: what a clean agent has answered to the last request of a round is an action |
| | `RewardsArePaired` | `ASSUME OneInstanceEach PROVE Spec => []RewardIsOneSecondLater` | `RoundOK`, `RewardInv` below |
| | `NeverStuck`, `JoinedAgentsAnswer`, `SecondsEnd` | the thread waits only while somebody can move; a joined agent answers what it takes; `ASSUME IsFiniteSet(Instances)`: every step leaves less of the second to do | `InStep`; `Work` counts the steps left in this second |
| `QosStatistics_proofs` | `LossAtMostOne` | `SpecCounted => []LossIsRatio` | `StatInv`: the walk `order` has each face once (`WalkExact`) and never shrinks, so a packet is lost on at most `Len(order)` faces |
| `QosForwarding_proofs` | `TypeCorrect` | `Spec => []TypeOK` | `EntriesOK`, `RestOK`: intervals double below their maximum |
| | `TimerIsLastExpiry` | `Spec => []TimerCoversDownstreams` | `TimerInv`: every step that adds an in-record sets the timer to now or to the last expiry, which `TruncationIsSmall` moves by less than a millisecond |
| | `EntriesEndForCause` | `Spec => EndsForCause` | `CauseInv` below |
| `QosInstances_proofs` | `TypeCorrect`, `RateIsShared` | `Spec => []TypeOK`, `[]SharedRate` | `Accounts`: what the instances spent and what is left in the owner's bucket add up |
| `QosApplications_proofs` | `TypeCorrect` | `Spec => []TypeOK` | `ProducerOK`, `NetworkOK`: while there is a subscription its prefix is a number, and chunks to come have one as name, so only such Data is published |
| | `OneEvent`, `TracedOnce` | `Spec => []OneSendEvent`, `[]DelayTracedOnce` | `EventsOK`: events follow the state; `TraceOK`: a number that was traced is in no delay list and is never used again |
| `TestRunner_proofs` | `TypeCorrect`, `NoJobIsLost` | `Spec => []TypeOK`, `[]JobsKept` | `PlacesOK`, `LeftOK` below |
| | `AllIsTaken` | `Spec => []NothingLeftBehind` | `BreaksOK` below |
| | `ResultsAreComplete`, `ExitCodeIsRight` | `Spec => []EachReportedOnce`, `[]ExitTellsTruth` | `ReportsOK`, `ResultsOK`, `EntriesOK` below |
| | `RunsAreFinite`, `NeverStuck` | every step makes the finite set `ToDo` smaller; `ASSUME Workers # {}`: until the end, some thread can move unless a worker died | `ToDo` lists what each thread has yet to do; `BreaksLast` |
| `VisualizerThreads_proofs` | `TypeCorrect`, `ViewKeepsUp`, `PlayingHasTimer` | types, `[]NeverAhead`, `[]PlayingTicks` | `TargetClose`: the target is at most one period after what was shown, of the length that was in force then |
| | `GoIsNotLost` | `Spec => [][KeepsGo]_vars` | `RunEndsAt`: a run ends at its target, or after a Stop of the scenario; a new target is later than now |
| | `JoinNeverBlocks`, `JoinIsShort` | while `_quit` joins the thread, it waits for neither the lock nor a go, and only its steps happen, each towards its end | `QuitIsKnown`: `quit` is set before the go, and both before the join; no call of `update_view_timeout` holds the lock then |

`TokenInv` is needed because `TokensAccounted` is not inductive: an entry of `m_tokens`
is created from `m_capacity` the first time a face sends, and before that nothing has
been sent or credited for it; `m_capacity` is either 0 (the driver never ran, and then
nothing can be spent) or the driver's capacity. `PassInv` is needed because the end of a
pass says nothing about how it got there: it says that the faces already walked are
drained while `tokenwait` is off, that one walked or current face is blocked when it is
on, that `rest` is a suffix of `order`, and that every face with a packet is in `order`.

`InStep(n)` puts the position of n's agent next to the position of the simulation in its
script: `ReadyFor(n, k)` says that the agent takes request k without an exception.
`CleanAgentsSurvive` alone says nothing of an agent that is still alive. It survives
crashes because an agent that is killed in the middle of a round starts with whatever
request comes, and is not clean unless that is the first.

An agent that has not had its first message is not clean. `ActionsAreChosen` would be
false of it: an agent is killed with the request for an action still on its way, the
next one takes it as its first message, answers "Received" and is killed too, and a
third is started before the simulation reads that answer and `receive_action` takes it
for action 0. The run allows the two kills this needs.

`RewardInv(n)` adds the second to `InStep`: while the agent of n waits for the reward of
its last action, `RewardDue(n)` places the instance that asked for the action either in
the second of the action, with its event over, or in the next second, with its event due
or at its first request. `RoundOK` says that the instance that runs is not due again.
Every instance runs once a second, so the next reward of that instance is the one of the
next second; that the next reward the agent gets is of that instance is
`OneInstanceEach`: no two instances share an agent. It is needed: `rl_shared` is the
counterexample without it.

`CauseInv` says of the entry in the PIT that a timer which is not later than now has a
cause, or that all in-records expire within a millisecond. A Nack ends an entry only if
no out-record is pending. The rejection for want of a next hop has a cause of its own,
the face whose Interest it was: `NoRoute` allows it only if no next hop is left by face
and scope (`HasNoRoute`), which stays so, and never because they are suppressed.

The proofs about `TestRunner` give every job its place: `undispatched`, `Inputs`,
`Held`, `Outputs` or `Done`. `PlacesOK` says that no job is in two places or twice in
one, and `LeftOK` that `left` is the number of jobs in the middle three; every step
moves one job from one place to the next. `BreaksOK` says that there are as many break
jobs in the queue as workers that are not gone, so when all are gone the queue has none.
`ReportsOK` says that what a worker reports is what became of the job, and `ResultsOK`
that each counter of `tally` is the number of jobs in `Done` that count as it: the exit
code is a comparison of these numbers. `FilesOK` says that a suite has saved what
suites with its return code save, and `EntriesOK` that the entry of a job describes it.
`NeverStuck` needs a worker, or nobody takes the
jobs: `test.py` starts one per processor, and one if it cannot tell (`test.py:1346`,
`test.py:1626`).

In the refinement mapping, an entry that a bucket does not have yet stands for a full
one. Arrivals map to `Accept`, `SendOne` to `Send`, `UpdateBucket` to `Refill`, and
every other step to a stutter.

Model-checked only: liveness (`Drains`, `Recovers`, `UpdatesGoOn`, `OwnerDrains`, `Ends`,
`GoHonoured`, `JoinReturns`), which the prover cannot treat. Of five of them the theorems
state what the fairness has to work with, for every value of the constants:

* `Drains`: a pass returns (`PassesEnd`, `PassIsNeverStuck`); it returns with nothing
  left or blocked at a face without a class that may send (`PassReachesFrontier`); a
  refill lets such a class send there (`RefillUnblocks`). It needs that the class has a
  capacity above one.
* `Ends`: a run has finitely many steps (`RunsAreFinite`), and there is one to take
  until the end or a death (`NeverStuck`).
* `Recovers`: a second has finitely many steps (`SecondsEnd`), there is one to take
  while the agents are joined and nothing is lost (`NeverStuck`), and a joined agent
  loses nothing (`JoinedAgentsAnswer`). `NeverStuck` says that the agent takes the
  request; that it then has an action within `MaxRate` is a matter of that bound.
* `GoHonoured`: a go stays, with a target ahead, until a run has ended there or after a
  Stop of the scenario (`GoIsNotLost`).
* `JoinReturns`: nothing blocks the thread (`JoinNeverBlocks`) and each step is one of
  its last (`JoinIsShort`).

All invariants and all other action properties of the passing runs have a theorem. The
four properties of the violated runs are false, and so have none.

## 6. Running

`tlc -config QosScheduler.cfg MCQosScheduler` and likewise for the other
configurations; each `MC` module only gives the constants of its specification
values. The longest run takes a minute or two. `tlapm QosScheduler_proofs.tla` and
likewise for the other `_proofs` modules check the proofs.

## 7. Mutants

Definitions whose comment begins with "Mutant:" are plausible faults of the code: an
off-by-one in the queue bound, a missing test of the capacity, a need flag left set,
a refill that signals only sometimes, a timer that follows the wrong Interest, a job
that is dropped on interrupt, an event cleared too late. They are used by
no specification. `PROJECT.json` pairs each property with one that breaks it.

## 8. Not modelled, and why

* `QosForwarding`: Data that matches several PIT entries, ad hoc and multi-access
  faces, `MustBeFresh`, `NextHopFaceId`, faces that are destroyed: the scenarios use
  none of them. Entries of the dead nonce list never expire. The branch of
  `afterReceiveInterest` for names of the lowest priority level is dead code.
* No property is stated where the code gives none to keep: a queued Interest leaves
  although its entry has expired; Data is queued a second time for a downstream whose
  first is still waiting; an out-record keeps an old Nack; the choice between the
  classes goes by the packet that joined last. The models do the same.
* `QosInstances`: what the event and the callbacks that a destroyed instance left behind
  do when they are called, which is undefined; the strategy information of the PIT, which
  `StrategyChoice` clears when the strategy's type changes. Instances that do not own the
  buckets have no liveness property: nothing wakes them but their own packets.
* `QosApplications`: a lost Interest is never sent again, because the insertion into
  `m_seqTimeouts` is commented out, so no property speaks of retransmission.
* `TestRunner`: the choice of tests from the options and the build, the wording of
  the reports, the order of the entries, the files of results beyond whether they are
  there and complete.
* `VisualizerThreads`: transmission samples. The next run clears them and may start
  before the callback that reads them; which period a callback shows is open.
* The Python bindings (`modulegen__gcc_*.py`, most lines of Python in the tree) are
  generated tables, waf and ndn-cxx are vendored, and the other ns-3 modules are the
  upstream simulator: none of them is this project's logic.
* `tokenBucketDriver2` and `TBucketDebug`: no scenario installs them.

What would come next: for `OwnerDrains` and `UpdatesGoOn` what the theorems say for the
other liveness properties; the spacing of retransmissions under the conditions in
which it holds; and instances of `QosForwarding` with three Interests.

Never checked here: float precision of finish times beyond 2^24, the training of the
network, file output, and the vendored code.
