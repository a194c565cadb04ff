# Verification of virtualps

virtualps is a pair of programs that load-test a publish/subscribe service on a
named-data network (NDN). `virtual-device` plays many publishers at once,
`virtual-user` many subscribers. This directory holds TLA+ models of both, of the two
running together, and of the load generator `sub-perf`; the TLC configurations that
check them on small instances; and theorems about them proved with TLAPS. Paths below
are relative to the root of the repository.

## 1. The system

### Components

| component | source | state | operations |
|---|---|---|---|
| publisher engine | `virtual-device/src/main.cpp` | `gStatPA/PD/PU`, `gPDMap`, `gPUMap`, `m_sequence` and `m_schedulePD` of each topic, two vectors of delegators | `sendPA`, `sendPD`, `sendPU` (two of them), the Data/Nack/Timeout handler of each, the Duration event, `check_complete`, `signalHandler`, the report |
| subscriber engine | `virtual-user/src/main.cpp` | `gStatST/SM/SD`, `m_sequence` of each topic | `scheduleSendST`, `sendST`, `sendSM`, `sendSD`, their handlers, the Duration event |
| `Statistics` | `*/src/statistics.{h,cpp}` | five `uint64_t` counters, time stamps | `increase_*`, `decrease_topic`, `is_complete` |
| `InterestDelegator` | `*/src/interestdelegator.h` | one Interest, three handlers | `send`, resend on timeout |
| topic and its sequence | `virtual-device/src/pubtopic.h`, `virtual-user/src/subtopic.h` | `m_sequence`, `m_fetch` | `getNextSequence`, `timeout`, `setNextSequence` |
| topic tree and configuration | `load_layer`, `makeTopicList`, `parseIntRange`, `yaml::getNode` | the tree of topics | loading, before anything runs |
| sensor data and payloads | `sensordevice.h`, `setDataRange`, `configureSensorDevice`, `makeSend*Data` | the sensors of each topic | reading the sensor file, drawing values |
| packet options, logging, utilities | the remaining files of `*/src` | – | data and formatting |
| load generator | `virtual-user/src/sub-perf.cpp` | `gStatST/SM/SD`, three lists of topics, `m_sequence` of each topic | the ST, SM and SD tests: `sendST`, `sendSM`, `sendSD` and their handlers, `check_complete`, the Duration event |
| earlier publisher | `virtual-device/src/pub-perf.cpp` | – | does not compile (section 6) |
| face, forwarder, brokers | external (ndn-cxx, NFD, PSDCNv2) | – | answer Interests |

### How they interact

Each program is one thread that runs a `boost::asio::io_service`. Everything after
start-up is a callback of that loop: an event of the scheduler, or the Data, Nack
or Timeout of an Interest. A callback runs to its end before the next begins, so
the unit of interleaving is the callback; all shared state is global variables
that every callback reads and writes.

*Publisher.* For each topic: PA (advertise) -> Data -> PD (publish), `Round` times,
`PDInterval` apart -> PU (withdraw). The PAs of the topics go out `PAInterval`
apart. A PD or PU Interest belongs to an `InterestDelegator` that is kept alive
only by an entry of `gPDMap` or `gPUMap`; the NDN face calls it through a raw
pointer, and on a timeout it expresses its Interest again. Every handler counts
what happened in one of three `Statistics`. `check_complete` runs every second and
stops the process when all three say `is_complete`. If `Duration` is set, a timer
cancels the publications that are waiting in the scheduler and withdraws all
topics through a second set of delegators.

*Subscriber.* For each topic: ST asks which sources hold it; for each source SM
asks for its sequence numbers; each OK reply starts a chain of SD requests that
never ends. There are no delegators: a handler schedules the send again itself.
All chains of one topic share the topic's `m_sequence`.

*Load generator.* `sub-perf` runs up to three tests side by side, each over a list of all
topics: one ST, one SM, or `SDRound` SDs per topic. Here the handler of a timeout makes
the next request itself, and `check_complete` stops the program as in the publisher. The
Makefile names the program in comments only.

The two programs never talk to each other directly; what one publishes reaches the
other through the brokers, which are outside this repository.

Every send may throw; what makes one throw is up to the version of ndn-cxx. Both programs
and `sub-perf` run the event loop inside `try`, log what comes out of a callback, and run
the loop again: whatever the callback had not done yet is lost.

### What is hard here

* The decision to stop is taken from counters only, while topics are in different
  stages; a callback that moves a topic from one counter to the next must do it in
  one go (`check_complete`, main.cpp:2245).
* A timed-out Interest is counted in the engine and sent again in the delegator.
* The lifetime of a delegator: it must be stored exactly while its Interest may
  still be answered, and two PU delegators of one topic share one key.
* The Duration event finds every topic in any stage, and subtracts one from an
  unsigned counter for each.
* Chains of requests of one topic share a sequence number.
* An exception leaves a callback half done: a request counted and not expressed, a
  sequence drawn and not used, a list of topics that nobody goes on with.
* The user runs ahead of the device: it asks for readings that have not been taken yet,
  and learns only from its own timeouts.

### What makes each component correct

* *publisher*: counters equal what is outstanding; a stop by `check_complete` leaves
  nothing outstanding; each topic publishes `Round` times in sequence and then
  withdraws; a stored delegator for every pending Interest and no other; the
  process ends.
* *subscriber*: counters equal what is outstanding; a chain skips nothing and repeats
  nothing; every source listed is heard.
* *load generator*: counters equal what is outstanding; it completes only after the last
  answer of the last topic; round `r` of a topic requests the `r`-th sequence.
* *both programs together*: what the device counts as published is stored; a user receives
  every reading from the first it asks for on.
* *Statistics*: `is_complete` says that every counted Interest is answered and no
  topic is in progress.
* *configuration loading*: each leaf of the configured layers becomes one topic with
  its full name; `$n` refers to the name of the n-th layer above.
* *sensor data*: every usable sensor of the file is reported, within its range, and
  announced before.

## 2. Modules

| module | what it is |
|---|---|
| `Statistics` | the counters, as operators on a record; used by all engines |
| `TopicSequence` | `getNextSequence` and `timeout` of a subscribed topic; used by both subscribers |
| `VirtualDevice` | the publisher engine: state, one action per callback, properties |
| `PublishLifecycle` | abstract specification: what the publisher promises for each topic |
| `VirtualUser` | the subscriber engine |
| `SubPerf` | the load generator |
| `PublishSubscribe` | `VirtualDevice` and `VirtualUser` composed through the service between them |
| `TopicTree` | how both programs turn configuration layers into topics |
| `SensorData` | the sensors of the publisher's topics and the payloads made from them |
| `MCVirtualDevice`, `MCVirtualUser`, `MCSubPerf`, `MCPublishSubscribe`, `MCTopicTree`, `MCSensorData` | instances for TLC: symmetry, a negative constant, small configurations and sensor files |
| `StatisticsProofs` | lemmas about the counters and about sets that gain or lose one element |
| `VirtualDeviceProofs` | type correctness, accounting of Interests and of topics, what a stop by `check_complete` means; rounds, sequence numbers and stored delegators; the report; the refinement of `PublishLifecycle` |
| `VirtualUserProofs` | type correctness and accounting of the subscriber; with one source per topic, requests follow the sequence; with several, how far it may fall |
| `SubPerfProofs` | all safety properties of the load generator |
| `PublishSubscribeProofs` | the safety properties of the composition |
| `SequenceLemmas` | induction over natural numbers and over sequences, and what the sequence operators used by the loaders return |
| `SensorDataProofs` | all properties of the sensors and payloads |
| `TopicTreeProofs` | all properties of the topic tree |

### VirtualDevice and the code

A topic's place in its chain of callbacks is one variable, `stage[t]`; in the
program it is spread over closures: which handler or scheduled event captured the
topic. `round[t]` is the `round` captured by the last PD handler.

| stage | in the program |
|---|---|
| `paUnsent` | its delegator is in the vector and not sent yet |
| `paPending`, `pdPending`, `puPending` | an Interest is in the face's table, a delegator waits for the answer |
| `pdReady`, `puReady` | `sendPD(topic, 0)` or `sendPU(topic)` is scheduled at interval 0 |
| `pdTimer` | `m_schedulePD` holds the next `sendPD` |
| `pdCancelled` | the Duration event has cancelled `m_schedulePD` |
| `paNacked`, `pdNacked`, `puNacked` | the chain has ended in a Nack |
| `paLost`, `pdLost`, `puLost` | the send threw: no Interest, and nothing goes on for this topic (after `paLost`, for the topics still in the vector) |
| `paStranded`, `pdStranded`, `puStranded` | the resend after a timeout threw: the Interest is counted and will not be answered |
| `done` | its PU has been answered |

`delegators2[t]` follows the topic's delegator in `main`'s `delegators2` the same
way. Actions are named after the functions (`sendPA`, `sendPD`, `sendPU`,
`check_complete`, `signalHandler`) or after handler and kind (`PDTimeout` is the
timeout handler set by `sendPD`). `sendPU2`, `PU2Data`... belong to the overload of
`sendPU` on a vector and to `scheduleSendPU`. `sendPD` draws the sequence number,
stores the delegator and counts the Interest in one step, as the callback does; the
same holds for a handler together with the resend of the delegator (`onTimeout`).
A PU callback whose delegator is no longer in `gPUMap` runs on freed memory: it is
both allowed to work on the old contents and to crash (`UsePUAfterFree`).

`Throwing` is the set of kinds whose Interests may fail to be expressed. A send calls
`expressInterest` before it stores its delegator and counts the Interest, so a throwing
one does neither, although `sendPD` and `sendPU` have drawn the sequence; a resend
happens after the handler of the timeout has counted it.

Abstracted: names and payloads, waiting times, intervals (any scheduled event may
run at any time, except that the first look of `check_complete`, at one second,
comes after the event at time 0). The order of advertisement is that of an
unordered map, any order. `m_interest`, `m_data`, `m_nack` and `m_timeout` only grow,
one per message, and are natural numbers; `m_topic` is decremented, and keeps its
width: `MaxU64` stands for 2^64 - 1.

### VirtualUser and the code

`st[t]` and `sm[t, s]` follow a topic's ST and a source's SM request; `chain[c]` is a
chain of `sendSD` calls: `next` means that `sendSD(round + 1)` is scheduled, `retry`
that `sendSD(round)` is. A request is `lost` or `dropped` when its first, or a later, send
threw; `ST` and `SM` Data handlers catch exceptions themselves, so there one only cuts the
list of sources short. A source is the pair of names an ST reply lists. An ST
reply that cannot be parsed, in whole or from some item on, is the reply with the
sources read so far. The replies of SM fall into four kinds: OK with a last
sequence, NOT_FOUND (which schedules SM again *and* calls `sendSD`), another status
(`sendSD` only) and one that cannot be parsed. `NextSequence` truncates `m_sequence`
to an int, as `getNextSequence` does.

### TopicTree

The set of topics both engines work on is loaded before the event loop starts.
`load_layer` and `makeTopicList` recur one layer down at a time, and so do
`load_layers[d]` and `childless[d]`, functions of the depth: at `d` they are the code on
layers, or topics, nested at most `d` deep. `Depth` is the depth of the
configuration, any natural number. `LoadLayer(p)` is one turn of `main`'s loop over the
top layers of program `p`, and `MakeTopicList(p)` fills `gTopicmap`. The five branches of the device's `load_layer` (fixed prefix, `x-${..}`,
`${Area}`, and `${$n-..}` with a scalar or a map) repeat one body and differ in the
siblings they make; `FixedGroup`, `CountedGroup`, `ScalarGroup` and `MapGroup` say
which, `NewTopic` and `load_topic` are the body. A YAML document is a record of
optional keys, names are not spelled out, and `serial` stands for the four attributes
that are set and inherited alike. A map as a node of the file (instead of a sequence
or a scalar) is left out: neither shipped file has one. An exception out of
`as<std::string>()` ends `main` as a -1 does. A full name is the sequence of its names,
so a '/' inside one, which could make two full names equal, is left out; so are the
overflow exceptions of `std::stol`, as numbers are small.

Two things the model makes visible and no text of the repository settles: `Sequence`
on a layer with layers below it (as in the shipped configuration) has no effect on
its leaves, which start at 0; and a layer below which nothing is found leaves a
childless topic that `makeTopicList` takes for a leaf, and is published without
devices.

### SensorData

`configureSensorDevice` reads the sensor file once and gives every topic its own
sensors; the model makes its whole loop one step, as nothing runs beside it, and ends
`main` when an entry throws. `sendPA` and `sendPD` stand for the parts of
`scheduleSendPA` and `sendPD` that make a payload; how the Interests travel is
`VirtualDevice`. A payload is the sequence of its sensor members. `generateData` is the
set of values it may draw. The main configuration repeats the lists of the sensor file
or lacks those of some kinds; the shipped one lacks all. Overflow exceptions of `std::stol`
and `std::stold` are left out.

### SubPerf

`stage[k, t]` is what test `k` does with topic `t`; `unsent` topics are in the test's list,
`waiting` ones have their next SD round scheduled. `Express` is `expressInterest` with
the counting after it, in every send and in the handlers of timeouts. Those of ST and SM
find the topic again by cutting the name out of the Interest: `FoundAgain` says when that
works (`OwnURI` are the topics whose name is not escaped, `SMComponents` the number of
components of the configured RN). The lists are assumed not to be empty, since `back()`
of an empty vector is undefined.

### PublishSubscribe

Every step of the device and of the user is a step of their own modules, taken as named
instances; no action is written twice. What the module adds is the service, which is
external and modelled from what the two programs expect of it: `Advertise`, `Store` and
`Withdraw` are the arrival of a PA, PD or PU at any time while it is pending, so an
Interest that times out may or may not have arrived; an acknowledgement comes only for what
has arrived; ST is answered with the repository between PA and PU and with an empty
list otherwise; SM with the last sequence stored, or NOT_FOUND; SD only with data that is
stored, which a PU does not remove. `received` is a history variable. The device runs
without a Duration, and there are no nacks or exceptions here: what they do to each
program is checked with that program alone.

### PublishLifecycle

A topic is unadvertised, advertising, publishing, withdrawing, finished, refused or
stuck, and `published[t]` counts its acknowledged data. `VirtualDevice` maps its
stages to these, `round` and the pending state to `published`, and `stopCause` to
`ended`. The abstract `Complete` requires that no topic is under way; the concrete
`check_complete` reads only counters. That is the content of the refinement.

## 3. Model checking

| run | instance | distinct states | checks |
|---|---|---|---|
| `DeviceSafety` | 2 topics, 2 rounds, nacks and exceptions of all kinds, 2 timeouts, Duration at any time or never; symmetry | 162,879 | all safety properties of the publisher |
| `DeviceByRounds` | 3 topics, 2 rounds, nacks and exceptions of all kinds, 1 timeout, no Duration | 60,354 | `ImplementsLifecycle`, `Terminates` |
| `UserAccounting` | 2 topics, 2 sources, all replies, SD nacks, SM and SD exceptions, 1 timeout, 2 chains, int of 2 bits; symmetry | 1,634,940 | types, accounting, `SequenceFloor` |
| `UserOneSource` | 2 topics, 1 source each, all nacks and exceptions, 2 timeouts, sequences up to 4 | 21,096 | `SequenceInStep`, `ChainInOrder`, `EventuallyHeard` |
| `PerfTests` | all three tests on 2 topics, 3 rounds, one name that is escaped, an RN of 2 components, nacks, SD exceptions, 2 timeouts, int of 2 bits | 414,384 | all properties of the load generator |
| `DeviceToUser` | 1 topic, 3 rounds, 1 timeout of the device and 2 of the user, 2 chains | 455,948 | the properties of the composition |
| `TopicTreeLoads` | 2688 pairs of layers and files, three deep, both programs | 19,676 | the topics loaded |
| `SensorPayloads` | 999 sensor files, any of their kinds missing from the main configuration, 2 topics with different devices | 75,725 | the payloads |
| `NthLayer` | the configurations of `TopicTreeLoads` | – | a statement of the repository the code does not keep (section 5) |
| `AllAdvertised`, `PendingPU`, `StopsAfterDuration` | one or two topics | – | statements of the repository that the code does not keep (section 5) |

Deadlock is not checked: loading ends, the programs come to rest, the publisher and
`sub-perf` when they have exited, the models also when a bound is reached.

### The properties

* `InterestAccounting`: Interests counted less answers counted = Interests pending,
  for each kind, resends included; with exceptions, also the ones the publisher has counted
  as resent and could not express.
* `TopicAccounting`: `m_topic` of PD is the number of topics between their first PD
  and their last Data (less all topics, modulo 2^64, once Duration is over); that of
  PU the number of withdrawals begun and not answered with Data.
* `CompletesQuiet`, `CompletesAnswered`: what a stop by `check_complete` implies,
  before the Duration event and in general.
* `RoundsPublished`: a topic withdraws after exactly `Round` publications (one if
  `Round` is 0, the first is unconditional), with consecutive sequence numbers.
* `PDDelegatorsStored`, `PUDelegatorsStored`: of the topics whose Interest was not nacked,
  `gPDMap` and `gPUMap` hold exactly the delegators of Interests that are pending or
  stranded; for PU only until the Duration event, after which it is false (section 5). They
  say nothing of nacked ones, where the code and its comments disagree (section 5).
* `ReportHasData`: the division at the end of the report (main.cpp:2535) is by zero,
  in a process that completed before Duration, only when no advertisement was
  accepted. After a signal or a Duration it may be by zero in other states too.
* `ImplementsLifecycle`, `Terminates`: section 2 and below.
* `ChainInOrder`, `SequenceInStep`: a chain asks for the successor of what it
  received, and for the same number after a timeout. They are checked, and true,
  with one source per topic and no NOT_FOUND reply. With two chains for a topic
  they are false: an SM reply resets the sequence both draw from.
* `SequenceFloor`: what is left with several chains. Every OK reply sets the sequence anew,
  every timeout or nack takes it back by one, also for a request drawn before it was set;
  yet it falls below 0 by at most one for each chain beyond the second. So two chains never
  ask for a negative sequence, which the run checks; a third can, and the theorem
  (section 4) bounds it.
* `EventuallyHeard`: a source that was listed is heard, or refused, or its request was cut
  short by an exception, or the process is stopped.

* `InterestAccounting`, `TopicAccounting` of `SubPerf`: the same balance as above, and
  `m_topic` of a test is the number of its topics that still owe an answer.
* `CompletesWithAll`: `sub-perf` stops by itself only after the last answer of every topic
  of every test. `RoundsInSequence`: round `r` requests sequence `r` (or the configured
  one), a timeout repeats it, a finished topic has had all its rounds. `Terminates`: it
  ends, unless an exception, or a timeout whose topic is not found again, has silenced
  a request.

* `HeldWhenWithdrawn`: when a topic is withdrawn the repository holds exactly the readings
  of its rounds, whatever Interests and acknowledgements were lost.
* `ReceivedUnbroken`: what a user with one chain for a topic has received has no gap, and it
  asks for the next one. `NoReadingMissed`: it receives every reading from the first it
  has come to request on that is ever stored, although it asks before the device
  publishes. A second chain (after NOT_FOUND) is excepted: it shares the sequence number.

* `NamesAsConfigured`: the names in `gTopicmap` are the ends of the paths through the
  configured layers, by a definition that follows paths instead of building a tree
  and takes the n-th name of the path for `$n`. On the device it is restricted to
  configurations in which no siblings share tokens above a `$n` (`TokensApart`, which
  the shipped configuration satisfies); section 5 says why.
* `LeavesHaveDevices`, `SerialInherited`, `NoTopicLost`: no leaf goes up without a
  `LifeDevice`; a device's attributes reach the topics right below it; the name of each
  childless topic has an entry with a topic of that name, and its own one if siblings have
  distinct names.

* `SensorsReported`, `ValuesInRange`, `ReportedWasAnnounced`: a PD has one member for each
  usable entry of its topic's kinds of devices, in order, whatever the entries around
  it; each value is within the range of its own entry; and it was announced by the
  PA, but for kinds the main configuration has no list of. The shipped one has none at
  all: its PAs announce no sensors.

### Bounds, and why they suffice

Topics interact only through counters, `gPDMap`, `gPUMap` and the decision to stop;
two topics show every pair of stages, three are used where interchangeable pairs
could hide something (the refinement, termination). `Round = 2` gives a first
and a last Data, and a timer between them. Two timeouts allow the same Interest to time out
twice and two different ones to time out once. `MaxU64 = 7` exceeds every
legitimate value, so a wrapped counter is told apart. For `sub-perf`, three rounds are the
least with one between first and last, and draw a sequence beyond `MaxInt = 1`; of the two
topics one is found again after an ST timeout and one is not. In `DeviceToUser`, topics
do not meet (each program's own runs show that), three readings leave room for
a gap, and the timeouts allow a reading to be requested, and lost, before and after it is
published; after the NOT_FOUND replies that two chains allow, an SM goes unanswered. For the subscriber,
`MaxChains` and `MaxSequence` end the endless chains; `MaxInt = 1` makes the
truncation happen within them. Two chains are
the fewest that share a sequence. For `TopicTree`, three layers are the depth of the
shipped configuration and the least at which a `$n` layer lies below siblings; every
prefix form occurs at each depth it can, with ranges that fit, pass the end, are
negative or are missing, and with devices listed one or several to a map. For
`SensorData`, lists of two entries show what one entry does to the next.

### Fairness

The event loop runs whatever is due: weak fairness of every scheduled action.
Interests have a lifetime, and the face answers each with Data, Nack or Timeout;
weak fairness of "Data or Nack" for the publisher says that an Interest does not
time out for ever (`MaxTimeouts` bounds them in the instance). In `VirtualUser` this
is stated apart from the event loop, as `HelpfulReplies`, since it is a statement
about the brokers. `SubPerf` takes the same for Data. `PublishSubscribe` has weak fairness
of arrival at the service and of the answers the service can give, and none of a stop or
a timeout: a request for a reading that is never stored stays pending for ever. A signal, the subscriber's stop, timeouts and nacks are never
owed. `Terminates` of the publisher excepts runs in which a PD or PU is nacked or not expressed,
or an Interest is stranded: each keeps the process running, which is what the code does.

## 4. Proofs

Assumptions. Publisher: the set of topics is finite and `2 * Cardinality(Topics) <= MaxU64`
(2^64 - 1 in the code; the Duration event adds all topics to a counter that already
holds up to all of them); `Round` and the first sequence are natural numbers. Subscribers:
finite topics and sources, an int of any width, any `Fetch`; `sub-perf` has at least one
topic. `HasDuration`, `NackKinds`, `Throwing` and the bounds are arbitrary, so every theorem
covers runs with a Duration event, nacks and exceptions. `SensorData`: sensor files of the
shape the loader accepts, with lists of any length. `TopicTree`: any set of
configurations of the types the YAML accessors give, nested to any `Depth`.

Recursion. The library's induction theorems take an operator as a parameter, which the
provers cannot instantiate, and RECURSIVE operators are out of their reach. Both are
avoided: the recursions of the models are functions, and `SetInduction` of
`SequenceLemmas` is induction over a *set* of numbers, proved from the least element
a well-founded relation has (`WFMin`). From it follow `SeqInduction`, and the lemmas on
`FlattenSeq`, which the community modules define by recursion.

*Publisher*

* `TypeCorrect`: `Spec => []TypeOK`.
* `InterestsAccounted`: `Spec => []InterestAccounting`. Every callback moves one topic
  between stages; `StageMoved` says how this changes the cardinality of a set of
  stages (`CountMoved`: by one at most), `OutstandingChange` how each counter
  operation changes the balance, and each action's two changes agree.
  `InterestAccounting` is inductive together with `TypeOK` and `Delegators2Idle` (no
  delegator in `delegators2` before the Duration event, which creates them: without
  it that event could drop pending ones).
* `TopicsAccounted`: `Spec => []TopicAccounting`. `Wrapped` is subtraction modulo 2^64;
  `TopicChange` shows that the wrapping counter operations commute with it as long
  as the number stays within one width of zero, which the assumption on topics
  guarantees.
* `CompletionQuiet`, `CompletionAnswered`: `CompleteMeansAnswered` reads the two
  accounting theorems backwards: counters at zero mean empty sets of topics. After
  the stop only `Report` can step, which changes neither.
* `RoundsArePublished`, from `ChainRounds`. `RoundsPublished` speaks of the end of a chain;
  `ChainRound(t)` says where `round` and `m_sequence` stand at every stage, which is what a
  step needs of the one before it (the last Data must know that a pending round is at
  least 1 and that a timer is only armed below `Round`).
* `PDDelegatorsAreStored`, `PUDelegatorsAreStored`: each action adds or removes the key of the
  topic it moves; `ChainRounds` makes the keys of different rounds differ. What is inductive
  is `PDStored` and `PUStored`, the exact contents of the maps, nacked delegators included.
* `ReportsData`: an acknowledged publication has been counted (`DataCounted`), and a
  quiet completion leaves only topics with all their publications or none begun.
* `DeviceImplementsLifecycle`: without a Duration, `Spec => Lifecycle!LifecycleSpec`.
  `LifecycleStep` takes each callback to an action of `PublishLifecycle` or a stutter; the
  step of `check_complete` needs `CompleteMeansAnswered`, that of the last Data `ChainRounds`.

*Subscriber*

* `UserTypeCorrect` and `UserInterestsAccounted`. The inductive `Accounted` adds to the balance
  that a topic whose ST has not been answered has asked no source (`NotAskedYet`): the
  ST reply sets all its sources pending at once and would otherwise overwrite one that is.
  `ToIntFits` is about the truncation of a long to an int.
* `SequencesInStep`, `ChainsInOrder`, for one source per topic, OK replies only, no `Fetch` and
  sequences that fit an int (`OneSource`). The strengthening `InStep` adds that a topic has at
  most one chain, that a chain's source has been answered (so no second one can be born),
  and that sequences fit.
* `SequenceHasFloor`: `Spec => []SequenceFloor`, for any number of sources and chains. It is
  inductive together with the types. The bound is on the sequence less the chains that are
  pending, which a timeout or nack leaves as it is; `ChainsRecounted` says how each other step
  changes the two sets of chains.

*Load generator*

* `PerfTypeCorrect`, `PerfInterestsAccounted`, `PerfTopicsAccounted`, `PerfCompletesWithAll`,
  `PerfRoundsInSequence`: `PerfInvariant` is the conjunction of types, counts, completion and
  rounds. All requests move in one of four ways (`Sends`, `TimesOut`, `Continues`,
  `Finishes`), so the counting is done once for each way and not for each callback.

*Both together*, for any number of topics, rounds, timeouts and chains; the assumption on
topics and counters is the publisher's, and no theorem of the other modules is used, only
their actions through the instances.

* `ReadingsHeld`: `Spec => []HeldWhenWithdrawn`. `DeviceAdvances` reduces the device's callbacks to
  the eight ways a chain advances. `DeviceInvariant` relates chain and repository at every
  stage: the readings of all rounds so far are stored and no other, except that the one of
  a pending PD may still be missing; an acknowledgement comes only when it is not.
* `ReadingsUnbroken`: `Spec => []ReceivedUnbroken`, as long as no sequence outgrows an int and
  `Fetch` is not set (`Fits`). `UserMoves` reduces the user's callbacks to start, resend,
  loss and receipt. `UserInvariant` says for a topic with one chain that what was received is
  an interval that ends where the chain asks on, and for one with none that its sequence
  is still 0, which the first NOT_FOUND needs. That the last sequence stored fits an int
  (`LastStored`) comes from `DeviceInvariant`.

*Sensors*

* `SensorTypeCorrect`, `SensorsAreReported`, `ValuesAreInRange`, `ReportedHasBeenAnnounced`, from one
  invariant, `SensorInv`: what was read is one of the files (`ConfigurationRead`), each
  topic's lists are what the loop of `configureSensorDevice` makes of it
  (`DevicesLoaded`), and each payload is what those lists give (`AnnouncedAsConfigured`,
  `PublishedAsSampled`). The loop appends none or one sensor for each entry of a list; the
  reference of `SensorsReported` picks entries from all lists at once. That the two
  agree for lists of any length is `FlatMapTwice` and `FlatMapFlatten` of
  `SequenceLemmas`.

*Topic tree*

* `TopicTreeTypeCorrect`, `SerialsAreInherited`, `NoTopicIsLost`, from the invariant `TreeInv`:
  `Typing`, `AllBequeath` (every topic of the tree passes its serial on) and `MapMade` (once
  up, `gTopicmap` is what `makeTopicList` makes of the tree). Each fact about the loaders or
  about `childless` is an induction on the depth: a predicate that says it of every call at
  depth `n`, a lemma from `n` to `n + 1`, and one that concludes (`LoadType`,
  `InheritsAlways`, `PlacedType`). `NoTopicIsLost` needs that with distinct siblings a full
  name tells the place of its topic (`PathsTell`), and counts through a bijection; without
  that, `NamesHeld` says that no name is missing or made up.
* `NamesAreAsConfigured`, `LeavesHaveTheirDevices`, from `NamesInv`, which adds that a program is
  up only with all layers loaded, and that at every turn of `main`'s loop the tree agrees
  with the layers loaded so far (`LoadedAsConfigured`). Agreement (`Agree`) is more than
  equal names: the ends of the paths through layers nested `n` deep are the childless topics
  of what is loaded from them, and those of leaves have a LifeDevice. It is inductive on
  the depth (`ConfiguredUp`, `ConfiguredAlways`) only together with what the loader has as
  tokens and the reference has as path: they must name the same node for every `$n` below
  (`Faithful`). On the user they are equal; on the device `TokensApart` is what keeps them
  so, which is where the proof uses it.

Every invariant and every action property a passing run checks, and the refinement of
`PublishLifecycle`, is thereby a theorem. Only model-checked: liveness (`Terminates` of the
publisher and of `sub-perf`, `EventuallyHeard`, `NoReadingMissed`), as fairness and ENABLED are
out of the prover's reach.

## 5. Where the code departs from what the repository says

Each has a run whose only property TLC finds violated.

* `AllAdvertised` (main.cpp:2092): if the topics advertised so far have all finished
  before `PAInterval` is over, `check_complete` stops the process and the others are
  never advertised.
* `PendingPUStored` (main.cpp:1470): the Data of the Duration event's PU erases the
  delegator of the topic's own pending PU.
* `StopsAfterDuration` (test-001-virtual-device.yaml:2): a topic that has finished
  publishing before Duration makes the counter wrap; the process never completes.
* `NthLayerPrefix` (main.cpp:625): the device's `addtokens` keeps the names of all
  siblings before (lines 751 and 993), so that below the second sibling of a counted
  layer or of a map of devices `$n` names the first. The subscriber's copy of
  `load_layer` takes the names apart, so with such a configuration the two programs
  disagree on the topics.

Seen while reading, without a run:

* The comments at virtual-device/src/main.cpp:1637 and 1484 say that the stored delegator of a
  nacked PD, or PU, is discarded. The handlers they stand in (1628, 1475) only count: it stays
  in `gPDMap` or `gPUMap` as long as the process runs, a PU's at least until the PU of the
  Duration event for the same topic is answered. `PDDelegatorsStored` and
  `PUDelegatorsStored` leave nacked topics out; the invariants `PDStored` and `PUStored` behind
  their theorems have them as the code does.
* The comment at virtual-user/src/main.cpp:413 says that the layers below '#' are ignored; the
  code loads them, and the subscriber goes up with the topics it finds there.
  `NamesAsConfigured` counts '#' as a fixed prefix, as the code does; no configuration of the
  run has one.
* With `Fetch` set, a user requests that one sequence for ever; the comment at
  virtual-user/test-001-virtual-user.yaml:27 says that it repeats from that sequence on.
* The comment at virtual-user/src/sub-perf.cpp:1449 says that SM Interests are sent after
  the Data of an ST; the two tests are independent.
* A user whose ST comes before the device's PA gets an empty list and never asks again. One
  whose SM comes between PA and the first PD is told NOT_FOUND, starts a chain at sequence
  0 and asks again, so that a second chain joins on the same sequence number; one that is
  told OK starts at 1 at least, while a leaf without a `Sequence` of its own publishes
  its first reading as 0.

## 6. Not modelled

* `load_config`: assigns scalars, which are constants here.
* Packet options: defaults and overrides of lifetime, CanBePrefix, MustBeFresh and HopLimit,
  data that decides no step.
* The other members of the payloads (model name, serial, position, time).
* The maps of time stamps and waiting times, the reports, logging, utilities. `gPDTimeMap`
  gains an entry for every sequence published and never loses one; as nothing depends on
  it but averages, this is a remark and not a model.
* `InterestDelegator::cancel`, `setHandler` and the unused overloads of `send`: no caller.
* `sub-perf.cpp`, lines 590 to 1011: three overloads nobody calls; and its loader.
* `pub-perf.cpp` has no behaviour to model: `scheduleSendPU` calls an overload of `sendPU` that
  is commented out, and `Topic` has lost `setType`, `getType`, `push_back` and `generateData`.
* The brokers, beyond what `PublishSubscribe` assumes of them; several repositories for one
  topic, nacks and a Duration in the composition.

The reasons are also in PROJECT.json, component by component. What could be done next: a
composition with several repositories, and a theorem that the tree's topics are the ones the
engines take as constants.
