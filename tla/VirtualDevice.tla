---------------------------- MODULE VirtualDevice ----------------------------
(***************************************************************************)
(* The publisher (virtual-device/src/main.cpp): one thread runs a boost    *)
(* io_service, and everything it does is a callback - a scheduled event,   *)
(* or the Data, Nack or Timeout of an Interest.  An action is one callback *)
(* run to its end, so callbacks interleave but never overlap.              *)
(*                                                                         *)
(* Every topic is advertised once (PA), then publishes its data one        *)
(* Interest at a time (PD) and withdraws (PU).  A timed-out Interest is    *)
(* expressed again by its InterestDelegator; a nacked one is given up.     *)
(* With a Duration, a timer cancels the waiting publications and withdraws *)
(* every topic through a second set of delegators.                         *)
(*                                                                         *)
(* The network is the environment: it answers each pending Interest with   *)
(* Data, a Nack or a Timeout, in any order.                                *)
(*                                                                         *)
(* Expressing an Interest may throw.  main logs an exception that leaves a *)
(* callback and runs the event loop again, so the rest of that callback is *)
(* lost and what it did before stays done.                                 *)
(***************************************************************************)
EXTENDS Statistics, FiniteSets

CONSTANTS
    Topics,          \* keys of gTopicmap: the full names of the leaf topics
    Round,           \* cfg_round
    HasDuration,     \* 0 < cfg_duration
    FirstSequence,   \* m_sequence of a topic as load_layer leaves it
    NackKinds,       \* the kinds of Interest the network may nack
    Throwing,        \* the kinds of Interest whose expression may throw
    MaxTimeouts      \* bound on the timeouts of a behaviour

ASSUME TopicsAssumption == IsFiniteSet(Topics) /\ 2 * Cardinality(Topics) <= MaxU64
ASSUME ConfigAssumption ==
    /\ Round \in Nat /\ HasDuration \in BOOLEAN /\ FirstSequence \in Nat
    /\ NackKinds \subseteq {"PA", "PD", "PU"} /\ Throwing \subseteq {"PA", "PD", "PU"}
    /\ MaxTimeouts \in Nat

VARIABLES
    phase,        \* of the process: see Phases
    stopCause,    \* who called gIOService->stop(): "none", "complete", "signal"
    paStarted,    \* the event scheduled at time 0 by scheduleSendPA has run
    durationOver, \* the Duration event has run
    stage,        \* per topic: where its chain of callbacks stands
    round,        \* per topic: the round its last PD handler captured
    m_sequence,   \* per topic: Topic::m_sequence
    delegators2,  \* per topic: its delegator in main's delegators2
    gPDMap,       \* keys <<topic, sequence>> of the stored PD delegators
    gPUMap,       \* keys of the PU delegators stored by sendPU(topic)
    gStatPA, gStatPD, gStatPU

vars == <<phase, stopCause, paStarted, durationOver, stage, round, m_sequence,
          delegators2, gPDMap, gPUMap, gStatPA, gStatPD, gStatPU>>
stats == <<gStatPA, gStatPD, gStatPU>>
process == <<phase, stopCause, paStarted, durationOver>>

Phases == {"running",      \* inside gIOService->run()
           "stopped",      \* run() has returned, the report is not written
           "exited",       \* main has returned
           "divideByZero", \* the report divided by gStatPD.m_data = 0
           "useAfterFree"} \* a callback ran on a destroyed delegator

\* Pending: expressed and unanswered.  Ready: a sendPD(topic, 0) or sendPU(topic)
\* scheduled at interval 0.  Timer: m_schedulePD holds the next sendPD.
\* Lost: the first expression threw, before the Interest was stored and counted.
\* Stranded: expressing it again threw, after the timeout handler had counted it.
PAStages == {"paUnsent", "paPending", "paNacked", "paLost", "paStranded"}
PDStages == {"pdReady", "pdPending", "pdTimer", "pdNacked", "pdCancelled", "pdLost",
             "pdStranded"}
PUStages == {"puReady", "puPending", "puNacked", "puLost", "puStranded"}
Stages   == PAStages \cup PDStages \cup PUStages \cup {"done"}
Stages2  == {"none", "unsent", "pending", "nacked", "lost", "stranded", "done"}

Where(f, s) == {t \in Topics : f[t] \in s}
In(s)  == Where(stage, s)
In2(s) == Where(delegators2, s)

TypeOK ==
    /\ phase \in Phases
    /\ stopCause \in {"none", "complete", "signal"}
    /\ paStarted \in BOOLEAN /\ durationOver \in BOOLEAN
    /\ stage \in [Topics -> Stages]
    /\ round \in [Topics -> Nat]
    /\ m_sequence \in [Topics -> Nat]
    /\ delegators2 \in [Topics -> Stages2]
    /\ gPDMap \subseteq Topics \X Nat
    /\ gPUMap \subseteq Topics
    /\ gStatPA \in Statistic /\ gStatPD \in Statistic /\ gStatPU \in Statistic

Init ==
    /\ phase = "running" /\ stopCause = "none"
    /\ paStarted = FALSE /\ durationOver = FALSE
    /\ stage = [t \in Topics |-> "paUnsent"]
    /\ round = [t \in Topics |-> 0]
    /\ m_sequence = [t \in Topics |-> FirstSequence]
    /\ delegators2 = [t \in Topics |-> "none"]
    /\ gPDMap = {} /\ gPUMap = {}
    /\ gStatPA = NewStatistic /\ gStatPD = NewStatistic /\ gStatPU = NewStatistic

Moves(t, from, to) ==
    /\ phase = "running"
    /\ stage[t] = from
    /\ stage' = [stage EXCEPT ![t] = to]

TimeoutsLeft == gStatPA.timeout + gStatPD.timeout + gStatPU.timeout < MaxTimeouts

\* InterestDelegator::onTimeout: after the handler, the Interest is expressed
\* again, or is not because that throws.
onTimeout(t, kind, pending, stranded) ==
    /\ TimeoutsLeft
    /\ \/ Moves(t, pending, pending)
       \/ kind \in Throwing /\ Moves(t, pending, stranded)

(***************************************************************************)
(* PA: advertising.  The vector of delegators follows the order of an      *)
(* unordered map, so the next one sent is any topic not sent yet.          *)
(***************************************************************************)
sendPA(t) ==
    /\ Moves(t, "paUnsent", "paPending")
    /\ gStatPA' = increase_interest(gStatPA, 1)
    /\ UNCHANGED <<round, m_sequence, delegators2, gPDMap, gPUMap, gStatPD, gStatPU>>

\* delegators[index]->send() throws.
sendPAThrows(t) ==
    /\ "PA" \in Throwing
    /\ Moves(t, "paUnsent", "paLost")
    /\ UNCHANGED <<round, m_sequence, delegators2, gPDMap, gPUMap, stats>>

\* The event at time 0 sends the first PA; there may be no topic at all.
StartPA ==
    /\ phase = "running"
    /\ ~paStarted
    /\ paStarted' = TRUE
    /\ \/ \E t \in Topics : sendPA(t) \/ sendPAThrows(t)
       \/ /\ Topics = {}
          /\ UNCHANGED <<stage, round, m_sequence, delegators2, gPDMap, gPUMap, stats>>
    /\ UNCHANGED <<phase, stopCause, durationOver>>

\* Each send schedules the next one, PAinterval later, unless it has thrown.
NextPA(t) ==
    /\ paStarted /\ In({"paLost"}) = {}
    /\ sendPA(t) \/ sendPAThrows(t)
    /\ UNCHANGED process

\* Mutant of PAData: the topic enters PD's count only when its first PD is sent.
PADataUncounted(t) ==
    /\ Moves(t, "paPending", "pdReady")
    /\ gStatPA' = increase_data(gStatPA)
    /\ UNCHANGED <<process, round, m_sequence, delegators2, gPDMap, gPUMap,
                   gStatPD, gStatPU>>

PAData(t) ==
    /\ Moves(t, "paPending", "pdReady")
    /\ gStatPA' = increase_data(gStatPA)
    /\ gStatPD' = increase_topic(gStatPD, 1)
    /\ UNCHANGED <<process, round, m_sequence, delegators2, gPDMap, gPUMap, gStatPU>>

PATimeout(t) ==
    /\ onTimeout(t, "PA", "paPending", "paStranded")
    /\ gStatPA' = increase_interest(increase_timeout(gStatPA), 1)
    /\ UNCHANGED <<process, round, m_sequence, delegators2, gPDMap, gPUMap,
                   gStatPD, gStatPU>>

PANack(t) ==
    /\ "PA" \in NackKinds
    /\ Moves(t, "paPending", "paNacked")
    /\ gStatPA' = increase_nack(gStatPA)
    /\ UNCHANGED <<process, round, m_sequence, delegators2, gPDMap, gPUMap,
                   gStatPD, gStatPU>>

(***************************************************************************)
(* PD: publishing.                                                         *)
(***************************************************************************)
sendPD(t, from, r) ==
    /\ Moves(t, from, "pdPending")
    /\ m_sequence' = [m_sequence EXCEPT ![t] = @ + 1]
    /\ round' = [round EXCEPT ![t] = r + 1]
    /\ gPDMap' = gPDMap \cup {<<t, m_sequence[t]>>}
    /\ gStatPD' = increase_interest(gStatPD, 1)
    /\ UNCHANGED <<process, delegators2, gPUMap, gStatPA, gStatPU>>

\* Mutant of sendPDThrows: the delegator is stored before the Interest is sent.
sendPDThrowsStored(t, from) ==
    /\ "PD" \in Throwing
    /\ Moves(t, from, "pdLost")
    /\ m_sequence' = [m_sequence EXCEPT ![t] = @ + 1]
    /\ gPDMap' = gPDMap \cup {<<t, m_sequence[t]>>}
    /\ UNCHANGED <<process, round, delegators2, gPUMap, stats>>

\* pd_delegator->send() throws: the sequence is spent, nothing else is done.
sendPDThrows(t, from) ==
    /\ "PD" \in Throwing
    /\ Moves(t, from, "pdLost")
    /\ m_sequence' = [m_sequence EXCEPT ![t] = @ + 1]
    /\ UNCHANGED <<process, round, delegators2, gPDMap, gPUMap, stats>>

FirstPD(t) == sendPD(t, "pdReady", 0) \/ sendPDThrows(t, "pdReady")
NextPD(t)  == sendPD(t, "pdTimer", round[t]) \/ sendPDThrows(t, "pdTimer")

\* The key under which the pending PD of t was stored.
PDKey(t) == <<t, m_sequence[t] - 1>>

\* Mutant of MoreRounds: one round too many.
MoreRoundsInclusive(t) == round[t] <= Round

MoreRounds(t) == round[t] < Round

\* More rounds to go: m_schedulePD is armed for the next one.
PDDataMore(t) ==
    /\ MoreRounds(t)
    /\ Moves(t, "pdPending", "pdTimer")
    /\ gPDMap' = gPDMap \ {PDKey(t)}
    /\ gStatPD' = increase_data(gStatPD)
    /\ UNCHANGED <<process, round, m_sequence, delegators2, gPUMap, gStatPA, gStatPU>>

\* Mutant of PDDataLast: the topic never leaves PD's count.
PDDataLastKeepsCount(t) ==
    /\ ~MoreRounds(t)
    /\ Moves(t, "pdPending", "puReady")
    /\ gPDMap' = gPDMap \ {PDKey(t)}
    /\ gStatPD' = increase_data(gStatPD)
    /\ gStatPU' = increase_topic(gStatPU, 1)
    /\ UNCHANGED <<process, round, m_sequence, delegators2, gPUMap, gStatPA>>

\* The last round: the topic changes from PD's count to PU's.
PDDataLast(t) ==
    /\ ~MoreRounds(t)
    /\ Moves(t, "pdPending", "puReady")
    /\ gPDMap' = gPDMap \ {PDKey(t)}
    /\ gStatPD' = decrease_topic(increase_data(gStatPD), 1)
    /\ gStatPU' = increase_topic(gStatPU, 1)
    /\ UNCHANGED <<process, round, m_sequence, delegators2, gPUMap, gStatPA>>

\* Mutant of PDTimeout: the resent Interest is not counted.
PDTimeoutUncounted(t) ==
    /\ onTimeout(t, "PD", "pdPending", "pdStranded")
    /\ gStatPD' = increase_timeout(gStatPD)
    /\ UNCHANGED <<process, round, m_sequence, delegators2, gPDMap, gPUMap,
                   gStatPA, gStatPU>>

\* Mutant of PDTimeout: the next reading is sent instead of the lost one.
PDTimeoutNextReading(t) ==
    /\ TimeoutsLeft
    /\ Moves(t, "pdPending", "pdTimer")
    /\ gStatPD' = increase_timeout(gStatPD)
    /\ UNCHANGED <<process, round, m_sequence, delegators2, gPDMap, gPUMap,
                   gStatPA, gStatPU>>

PDTimeout(t) ==
    /\ onTimeout(t, "PD", "pdPending", "pdStranded")
    /\ gStatPD' = increase_interest(increase_timeout(gStatPD), 1)
    /\ UNCHANGED <<process, round, m_sequence, delegators2, gPDMap, gPUMap,
                   gStatPA, gStatPU>>

\* Mutant of PDNack: the topic leaves PD's count, so it counts as finished.
PDNackGivesUp(t) ==
    /\ "PD" \in NackKinds
    /\ Moves(t, "pdPending", "pdNacked")
    /\ gStatPD' = decrease_topic(increase_nack(gStatPD), 1)
    /\ UNCHANGED <<process, round, m_sequence, delegators2, gPDMap, gPUMap,
                   gStatPA, gStatPU>>

\* Neither the stored delegator nor the topic's count is given back.
PDNack(t) ==
    /\ "PD" \in NackKinds
    /\ Moves(t, "pdPending", "pdNacked")
    /\ gStatPD' = increase_nack(gStatPD)
    /\ UNCHANGED <<process, round, m_sequence, delegators2, gPDMap, gPUMap,
                   gStatPA, gStatPU>>

(***************************************************************************)
(* PU: withdrawing, at the end of a topic's chain.                         *)
(***************************************************************************)
sendPU(t) ==
    /\ Moves(t, "puReady", "puPending")
    /\ m_sequence' = [m_sequence EXCEPT ![t] = @ + 1]
    /\ gPUMap' = gPUMap \cup {t}
    /\ gStatPU' = increase_interest(gStatPU, 1)
    /\ UNCHANGED <<process, round, delegators2, gPDMap, gStatPA, gStatPD>>

sendPUThrows(t) ==
    /\ "PU" \in Throwing
    /\ Moves(t, "puReady", "puLost")
    /\ m_sequence' = [m_sequence EXCEPT ![t] = @ + 1]
    /\ UNCHANGED <<process, round, delegators2, gPDMap, gPUMap, stats>>

\* Mutant of PUData: the answered delegator stays stored.
PUDataKeepsDelegator(t) ==
    /\ Moves(t, "puPending", "done")
    /\ gStatPU' = decrease_topic(increase_data(gStatPU), 1)
    /\ UNCHANGED <<process, round, m_sequence, delegators2, gPDMap, gPUMap,
                   gStatPA, gStatPD>>

\* gPUMap is the only owner of the delegator whose callbacks these are.  When
\* the other PU of the topic has erased it, the callback runs on freed memory:
\* it may still find the old object there, or crash (UsePUAfterFree).
PUData(t) ==
    /\ Moves(t, "puPending", "done")
    /\ gPUMap' = gPUMap \ {t}
    /\ gStatPU' = decrease_topic(increase_data(gStatPU), 1)
    /\ UNCHANGED <<process, round, m_sequence, delegators2, gPDMap, gStatPA, gStatPD>>

PUTimeout(t) ==
    /\ onTimeout(t, "PU", "puPending", "puStranded")
    /\ gStatPU' = increase_interest(increase_timeout(gStatPU), 1)
    /\ UNCHANGED <<process, round, m_sequence, delegators2, gPDMap, gPUMap,
                   gStatPA, gStatPD>>

PUNack(t) ==
    /\ "PU" \in NackKinds
    /\ Moves(t, "puPending", "puNacked")
    /\ gStatPU' = increase_nack(gStatPU)
    /\ UNCHANGED <<process, round, m_sequence, delegators2, gPDMap, gPUMap,
                   gStatPA, gStatPD>>

UsePUAfterFree(t) ==
    /\ phase = "running"
    /\ stage[t] = "puPending"
    /\ t \notin gPUMap
    /\ phase' = "useAfterFree"
    /\ UNCHANGED <<stopCause, paStarted, durationOver, stage, round, m_sequence,
                   delegators2, gPDMap, gPUMap, stats>>

(***************************************************************************)
(* Duration: the armed publications are cancelled, PD's count drops by one *)
(* for every topic whatever its stage, and every topic gets a delegator in *)
(* delegators2, counted in PU at once and sent PUinterval apart.           *)
(***************************************************************************)
scheduleSendPU ==
    /\ delegators2' = [t \in Topics |-> "unsent"]
    /\ gStatPU' = increase_topic(gStatPU, Cardinality(Topics))

DurationExpires ==
    /\ phase = "running"
    /\ HasDuration /\ paStarted /\ ~durationOver
    /\ durationOver' = TRUE
    /\ stage' = [t \in Topics |-> IF stage[t] = "pdTimer" THEN "pdCancelled"
                                                         ELSE stage[t]]
    /\ gStatPD' = decrease_topic(gStatPD, Cardinality(Topics))
    /\ scheduleSendPU
    /\ UNCHANGED <<phase, stopCause, paStarted, round, m_sequence, gPDMap, gPUMap,
                   gStatPA>>

Moves2(t, from, to) ==
    /\ phase = "running"
    /\ delegators2[t] = from
    /\ delegators2' = [delegators2 EXCEPT ![t] = to]

\* As with PA, a send that throws is the last one.
sendPU2(t) ==
    /\ In2({"lost"}) = {}
    /\ \/ /\ Moves2(t, "unsent", "pending")
          /\ gStatPU' = increase_interest(gStatPU, 1)
       \/ /\ "PU" \in Throwing
          /\ Moves2(t, "unsent", "lost")
          /\ UNCHANGED gStatPU
    /\ UNCHANGED <<process, stage, round, m_sequence, gPDMap, gPUMap, gStatPA, gStatPD>>

\* Erases whatever gPUMap holds under the topic's PU name.
PU2Data(t) ==
    /\ Moves2(t, "pending", "done")
    /\ gPUMap' = gPUMap \ {t}
    /\ gStatPU' = decrease_topic(increase_data(gStatPU), 1)
    /\ UNCHANGED <<process, stage, round, m_sequence, gPDMap, gStatPA, gStatPD>>

PU2Timeout(t) ==
    /\ TimeoutsLeft
    /\ \/ Moves2(t, "pending", "pending")
       \/ "PU" \in Throwing /\ Moves2(t, "pending", "stranded")
    /\ gStatPU' = increase_interest(increase_timeout(gStatPU), 1)
    /\ UNCHANGED <<process, stage, round, m_sequence, gPDMap, gPUMap, gStatPA, gStatPD>>

PU2Nack(t) ==
    /\ "PU" \in NackKinds
    /\ Moves2(t, "pending", "nacked")
    /\ gStatPU' = increase_nack(gStatPU)
    /\ UNCHANGED <<process, stage, round, m_sequence, gPDMap, gPUMap, gStatPA, gStatPD>>

(***************************************************************************)
(* Stopping.  check_complete looks every second; an unsuccessful look      *)
(* changes nothing.  Its first look comes after the event at time 0.       *)
(***************************************************************************)
Stop(cause) ==
    /\ phase = "running"
    /\ phase' = "stopped"
    /\ stopCause' = cause
    /\ UNCHANGED <<paStarted, durationOver, stage, round, m_sequence, delegators2,
                   gPDMap, gPUMap, stats>>

\* Mutant of AllComplete: the withdrawals are not waited for.
AllCompleteButPU == is_complete(gStatPA) /\ is_complete(gStatPD)

AllComplete == is_complete(gStatPA) /\ is_complete(gStatPD) /\ is_complete(gStatPU)

check_complete == paStarted /\ AllComplete /\ Stop("complete")

signalHandler == Stop("signal")

\* The last figure of the report divides by gStatPD.m_data without the test
\* the other averages have.
Report ==
    /\ phase = "stopped"
    /\ phase' = IF gStatPD.data = 0 THEN "divideByZero" ELSE "exited"
    /\ UNCHANGED <<stopCause, paStarted, durationOver, stage, round, m_sequence,
                   delegators2, gPDMap, gPUMap, stats>>

\* What the scheduler has in hand for a topic, what the network may answer.
Scheduled(t) ==
    NextPA(t) \/ FirstPD(t) \/ NextPD(t) \/ sendPU(t) \/ sendPUThrows(t) \/ sendPU2(t)
Answered(t)  == PAData(t) \/ PDDataMore(t) \/ PDDataLast(t) \/ PUData(t)
Answered2(t) == PU2Data(t) \/ PU2Nack(t)
Nacked(t)    == PANack(t) \/ PDNack(t) \/ PUNack(t)
TimedOut(t)  == PATimeout(t) \/ PDTimeout(t) \/ PUTimeout(t) \/ PU2Timeout(t)

Next ==
    \/ StartPA \/ DurationExpires \/ check_complete \/ signalHandler \/ Report
    \/ \E t \in Topics : \/ Scheduled(t) \/ Answered(t) \/ Answered2(t)
                         \/ Nacked(t) \/ TimedOut(t) \/ UsePUAfterFree(t)

Spec == Init /\ [][Next]_vars

(***************************************************************************)
(* The event loop runs every due event, and the network answers an         *)
(* Interest after finitely many timeouts.  Nothing is owed by a signal.    *)
(***************************************************************************)
Fairness ==
    /\ WF_vars(StartPA) /\ WF_vars(DurationExpires)
    /\ WF_vars(check_complete) /\ WF_vars(Report)
    /\ \A t \in Topics : /\ WF_vars(Scheduled(t))
                         /\ WF_vars(Answered(t) \/ Nacked(t))
                         /\ WF_vars(Answered2(t))

FairSpec == Spec /\ Fairness

(***************************************************************************)
(* Properties.                                                             *)
(***************************************************************************)

\* Every Interest counted by sendPA, sendPD and sendPU is either counted again
\* as Data, Nack or Timeout, or still awaits its answer, or was counted by the
\* timeout handler and could not be expressed again: the books
\* Statistics::is_complete reads balance after every callback, whether or not an
\* exception cut it short.
PAOpen == {"paPending", "paStranded"}
PDOpen == {"pdPending", "pdStranded"}
PUOpen == {"puPending", "puStranded"}
Open2  == {"pending", "stranded"}
InterestAccounting ==
    /\ Outstanding(gStatPA) = Cardinality(In(PAOpen))
    /\ Outstanding(gStatPD) = Cardinality(In(PDOpen))
    /\ Outstanding(gStatPU) = Cardinality(In(PUOpen)) + Cardinality(In2(Open2))

\* m_topic counts the topics between their first and last PD, and the
\* withdrawals between their scheduling and their Data.  Once the Duration
\* event has run, PD's count is short by one for every topic, modulo 2^64.
Withdrawals2 == {"unsent", "pending", "nacked", "lost", "stranded"}
Wrapped(n)   == IF 0 <= n THEN n ELSE n + (MaxU64 + 1)
PDDebt       == IF durationOver THEN Cardinality(Topics) ELSE 0
TopicAccounting ==
    /\ gStatPD.topic = Wrapped(Cardinality(In(PDStages)) - PDDebt)
    /\ gStatPU.topic = Cardinality(In(PUStages)) + Cardinality(In2(Withdrawals2))

\* check_complete sees only counters.  When it stops the process before the
\* Duration event, no topic is in the middle of its chain: none has an event
\* scheduled or an Interest pending, and none died of a PD or PU nack or exception.
CompletesQuiet ==
    stopCause = "complete" /\ ~durationOver =>
        \A t \in Topics : stage[t] \in {"paUnsent", "paNacked", "paLost", "done"}

\* Whenever check_complete stops the process, Duration or not, no Interest is
\* left without an answer and every withdrawal of delegators2 has its Data.
CompletesAnswered ==
    stopCause = "complete" =>
        /\ In(PAOpen \cup PDOpen \cup PUOpen) = {}
        /\ In2(Withdrawals2) = {}

\* A topic is withdrawn by its chain only after LastRound publications, never
\* publishes more, and uses consecutive sequence numbers, one per publication
\* plus one that sendPU, or a sendPD that throws, takes without using it.
LastRound == IF Round = 0 THEN 1 ELSE Round
SequenceSpent == {"pdLost", "done"} \cup (PUStages \ {"puReady"})
RoundsPublished ==
    \A t \in Topics :
        /\ round[t] <= LastRound
        /\ stage[t] \in PUStages \cup {"done"} => round[t] = LastRound
        /\ m_sequence[t] = FirstSequence + round[t]
              + (IF stage[t] \in SequenceSpent THEN 1 ELSE 0)

\* Of the topics whose PD was not nacked, gPDMap owns exactly the delegators of
\* the PD Interests that are pending or could not be expressed again: no callback
\* of a PD finds its delegator destroyed, no answered one is kept, whatever the
\* order of answers and timers.  Nothing is said of nacked ones, which the code keeps
\* and the comment at main.cpp 1637 says are discarded.
PDUnanswered == PDOpen \cup {"pdNacked"}
PDNackedKeys == {PDKey(t) : t \in In({"pdNacked"})}
PDDelegatorsStored == gPDMap \ PDNackedKeys = {PDKey(t) : t \in In(PDOpen)}

\* The same of gPUMap, as long as the Duration event has not run.  For the nacked
\* ones see the comment at main.cpp 1484.
PUDelegatorsStored == ~durationOver => gPUMap \ In({"puNacked"}) = In(PUOpen)

\* Publications of t that were answered with Data.
Acked(t) == round[t] - (IF stage[t] \in PDUnanswered THEN 1 ELSE 0)

(***************************************************************************)
(* The promise of PublishLifecycle, kept topic by topic.                   *)
(***************************************************************************)
StatusOf == [paUnsent |-> "unadvertised", paPending |-> "advertising",
             paNacked |-> "refused", paLost |-> "refused", paStranded |-> "stuck",
             pdReady |-> "publishing", pdPending |-> "publishing",
             pdTimer |-> "publishing", pdCancelled |-> "publishing",
             puReady |-> "withdrawing", puPending |-> "withdrawing",
             pdNacked |-> "stuck", pdLost |-> "stuck", pdStranded |-> "stuck",
             puNacked |-> "stuck", puLost |-> "stuck", puStranded |-> "stuck",
             done |-> "finished"]

EndOf == [none |-> "no", complete |-> "complete", signal |-> "interrupted"]

Lifecycle == INSTANCE PublishLifecycle
    WITH Readings <- LastRound,
         status <- [t \in Topics |-> StatusOf[stage[t]]],
         published <- [t \in Topics |-> Acked(t)],
         ended <- EndOf[stopCause]

\* Without a Duration the device implements the lifecycle: the counters tell
\* check_complete what no callback tells it, that no topic is under way.
ImplementsLifecycle == Lifecycle!LifecycleSpec

\* A process that completed by itself before Duration fails in its report only
\* when no topic's advertisement was ever accepted.
ReportHasData ==
    phase = "divideByZero" /\ stopCause = "complete" /\ ~durationOver =>
        \A t \in Topics : stage[t] \in {"paUnsent", "paNacked", "paLost"}

\* Without a Duration the process ends, however the callbacks of its topics
\* interleave and even when the advertising is cut short by an exception.  Only a
\* nacked or lost PD or PU, which gives back no place in m_topic, or an Interest
\* counted and not expressed again can keep it running.
KeepsRunning == {"paStranded", "pdNacked", "pdLost", "pdStranded",
                 "puNacked", "puLost", "puStranded"}
Terminates ==
    \/ <>(phase \in {"exited", "divideByZero"})
    \/ <>(\E t \in Topics : stage[t] \in KeepsRunning)

(***************************************************************************)
(* What the repository says of the program and the code does not do.       *)
(***************************************************************************)

\* main.cpp:1470 says that a stored PU delegator must not be discarded while
\* its Interest may time out and be sent again.
PendingPUStored == \A t \in Topics : stage[t] = "puPending" => t \in gPUMap

\* main.cpp:2092 says that all PA delegators are sent, from 0 to their number.
AllAdvertised == stopCause = "complete" => In({"paUnsent"}) = {}

\* test-001-virtual-device.yaml:2 calls Duration the time the program runs: once
\* it is over, and the network answers everything, the process comes to an end.
StopsAfterDuration == durationOver ~> phase # "running"
=============================================================================
