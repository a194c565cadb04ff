------------------------------ MODULE SubPerf ------------------------------
(***************************************************************************)
(* The load generator for repositories (virtual-user/src/sub-perf.cpp):    *)
(* up to three tests, ST, SM and SD, that run side by side on one          *)
(* io_service.  A test walks a list of all topics, one sendXX after the    *)
(* other; ST and SM want one answer per topic, SD SDRound of them.  The    *)
(* program ends when the counters of all tests balance.                    *)
(*                                                                         *)
(* An action is one callback run to its end.  Unlike in the other          *)
(* programs a request that times out is made again in the same callback;   *)
(* for ST and SM its topic is found by the name cut out of the Interest.   *)
(***************************************************************************)
EXTENDS Statistics, TopicSequence, FiniteSets

CONSTANTS
    Topics,        \* keys of gTopicmap; back() of an empty list is undefined
    Tests,         \* gTestST, gTestSM, gTestSD
    SDRound,       \* cfg_SDRound
    OwnURI,        \* the topics whose full name is its own URI ("#" escapes)
    SMComponents,  \* the number of components of cfg_SMRN
    NackKinds,     \* the kinds of Interest the network may nack
    Throwing,      \* the kinds of Interest whose expression may throw
    MaxTimeouts    \* bound on the timeouts of a behaviour

Kinds == {"ST", "SM", "SD"}

ASSUME SubPerfAssumption ==
    /\ IsFiniteSet(Topics) /\ Topics # {} /\ Cardinality(Topics) <= MaxU64
    /\ Tests \subseteq Kinds /\ NackKinds \subseteq Kinds /\ Throwing \subseteq Kinds
    /\ SDRound \in Int /\ SMComponents \in Nat /\ MaxTimeouts \in Nat

VARIABLES
    stopped,       \* why run() returned: not yet, "complete" or "stop"
    stage,         \* per test and topic: its request
    round,         \* per topic: the round of its SD requests
    m_sequence,    \* per topic: Topic::m_sequence
    requested,     \* per topic: the sequence its last SD request names
    gStat          \* gStatST, gStatSM and gStatSD

vars == <<stopped, stage, round, m_sequence, requested, gStat>>

\* waiting: the next SD round is scheduled; lost: the send from the list threw,
\* and the rest of the list with it; dropped: a later send threw, or did not
\* find its topic.
Stages == {"unsent", "pending", "waiting", "done", "nacked", "lost", "dropped"}

Running == stopped = "no"
Requests == Tests \X Topics
Pending(k) == {t \in Topics : stage[<<k, t>>] = "pending"}
Open(k) == {t \in Topics : stage[<<k, t>>] \notin {"done", "nacked"}}

TypeOK ==
    /\ stopped \in {"no", "complete", "stop"}
    /\ stage \in [Requests -> Stages]
    /\ round \in [Topics -> Nat] /\ m_sequence \in [Topics -> Int]
    /\ requested \in [Topics -> SDSequences]
    /\ gStat \in [Kinds -> Statistic]

Init ==
    /\ stopped = "no"
    /\ stage = [r \in Requests |-> "unsent"]
    /\ round = [t \in Topics |-> 0] /\ m_sequence = [t \in Topics |-> 0]
    /\ requested = [t \in Topics |-> 0]
    /\ gStat = [k \in Kinds |->
           IF k \in Tests THEN increase_topic(NewStatistic, Cardinality(Topics))
                          ELSE NewStatistic]

TimeoutsLeft ==
    gStat["ST"].timeout + gStat["SM"].timeout + gStat["SD"].timeout < MaxTimeouts

\* expressInterest after the Statistic has become s: the request is pending and
\* counted, or it throws and is neither.
Express(k, t, s, failed) ==
    \/ /\ stage' = [stage EXCEPT ![<<k, t>>] = "pending"]
       /\ gStat' = [gStat EXCEPT ![k] = increase_interest(s, 1)]
    \/ /\ k \in Throwing
       /\ stage' = [stage EXCEPT ![<<k, t>>] = failed]
       /\ gStat' = [gStat EXCEPT ![k] = s]

\* The sequence an SD request for topic t draws when m_sequence is n.
Draw(t, n) ==
    /\ requested' = [requested EXCEPT ![t] = NextSequence(n)]
    /\ m_sequence' = [m_sequence EXCEPT ![t] = AfterNext(n)]

(***************************************************************************)
(* The sends.                                                              *)
(***************************************************************************)
\* The lists hold the topics in the order of an unordered map; a send from one
\* schedules the next, unless it has thrown.
NextOfList(k, t) ==
    /\ Running
    /\ stage[<<k, t>>] = "unsent"
    /\ \A u \in Topics : stage[<<k, u>>] # "lost"
    /\ Express(k, t, gStat[k], "lost")
    /\ UNCHANGED <<stopped, round>>

sendST(t) == NextOfList("ST", t) /\ UNCHANGED <<m_sequence, requested>>
sendSM(t) == NextOfList("SM", t) /\ UNCHANGED <<m_sequence, requested>>
sendSD(t) == NextOfList("SD", t) /\ Draw(t, m_sequence[t])

\* The SD request of the next round, scheduled by the Data of the one before.
NextRound(t) ==
    /\ Running
    /\ stage[<<"SD", t>>] = "waiting"
    /\ round' = [round EXCEPT ![t] = @ + 1]
    /\ Express("SD", t, gStat["SD"], "dropped")
    /\ Draw(t, m_sequence[t])
    /\ UNCHANGED stopped

(***************************************************************************)
(* The handlers.                                                           *)
(***************************************************************************)
Answer(k, t, to, s) ==
    /\ Running
    /\ stage[<<k, t>>] = "pending"
    /\ stage' = [stage EXCEPT ![<<k, t>>] = to]
    /\ gStat' = [gStat EXCEPT ![k] = s]
    /\ UNCHANGED <<stopped, round, requested>>

RequestData(k, t) ==
    /\ k # "SD"
    /\ Answer(k, t, "done", decrease_topic(increase_data(gStat[k]), 1))
    /\ UNCHANGED m_sequence

MoreRounds(r) == r + 1 < SDRound

SDDataMore(t) ==
    /\ MoreRounds(round[t])
    /\ Answer("SD", t, "waiting", increase_data(gStat["SD"]))
    /\ UNCHANGED m_sequence

\* Mutant of SDDataLast: the topic keeps its place in the count.
SDDataLastKeepsCount(t) ==
    /\ ~MoreRounds(round[t])
    /\ Answer("SD", t, "done", increase_data(gStat["SD"]))
    /\ UNCHANGED m_sequence

SDDataLast(t) ==
    /\ ~MoreRounds(round[t])
    /\ Answer("SD", t, "done", decrease_topic(increase_data(gStat["SD"]), 1))
    /\ UNCHANGED m_sequence

\* Mutant of RequestNack: the topic keeps its place in the count.
RequestNackKeepsCount(k, t) ==
    /\ k # "SD" /\ k \in NackKinds
    /\ Answer(k, t, "nacked", increase_nack(gStat[k]))
    /\ UNCHANGED m_sequence

RequestNack(k, t) ==
    /\ k # "SD" /\ k \in NackKinds
    /\ Answer(k, t, "nacked", decrease_topic(increase_nack(gStat[k]), 1))
    /\ UNCHANGED m_sequence

\* The sequence is given back, although no request follows.
SDNack(t) ==
    /\ "SD" \in NackKinds
    /\ Answer("SD", t, "nacked", decrease_topic(increase_nack(gStat["SD"]), 1))
    /\ m_sequence' = [m_sequence EXCEPT ![t] = AfterTimeout(@)]

\* The name of an Interest from its third component to its digest: the topic's
\* full name below "/rn/ST", but below cfg_SMRN and "SM" only when cfg_SMRN has
\* one component (no topic is taken to have the name cut out otherwise); as a
\* URI, in which reserved characters are escaped.
FoundAgain(k, t) == t \in OwnURI /\ (k = "SM" => SMComponents = 1)

\* Mutant of RequestTimeout: the new Interest is not counted.
RequestTimeoutUncounted(k, t) ==
    /\ k # "SD" /\ Running /\ TimeoutsLeft
    /\ stage[<<k, t>>] = "pending"
    /\ gStat' = [gStat EXCEPT ![k] = increase_timeout(@)]
    /\ UNCHANGED <<stopped, stage, round, m_sequence, requested>>

\* A timed-out ST or SM request is made again, or forgotten without a word when
\* gTopicmap has no such name.
RequestTimeout(k, t) ==
    /\ k # "SD" /\ Running /\ TimeoutsLeft
    /\ stage[<<k, t>>] = "pending"
    /\ \/ FoundAgain(k, t) /\ Express(k, t, increase_timeout(gStat[k]), "dropped")
       \/ /\ ~FoundAgain(k, t)
          /\ stage' = [stage EXCEPT ![<<k, t>>] = "dropped"]
          /\ gStat' = [gStat EXCEPT ![k] = increase_timeout(@)]
    /\ UNCHANGED <<stopped, round, m_sequence, requested>>

\* Mutant of SDTimeout: the sequence is not given back.
SDTimeoutKeeps(t) ==
    /\ Running /\ TimeoutsLeft
    /\ stage[<<"SD", t>>] = "pending"
    /\ Express("SD", t, increase_timeout(gStat["SD"]), "dropped")
    /\ Draw(t, m_sequence[t])
    /\ UNCHANGED <<stopped, round>>

\* A timed-out SD request gives its sequence back and draws it again; its topic
\* is found by the name the handler has captured.
SDTimeout(t) ==
    /\ Running /\ TimeoutsLeft
    /\ stage[<<"SD", t>>] = "pending"
    /\ Express("SD", t, increase_timeout(gStat["SD"]), "dropped")
    /\ Draw(t, AfterTimeout(m_sequence[t]))
    /\ UNCHANGED <<stopped, round>>

(***************************************************************************)
(* The end.                                                                *)
(***************************************************************************)
check_complete ==
    /\ Running
    /\ \A k \in Kinds : is_complete(gStat[k])
    /\ stopped' = "complete"
    /\ UNCHANGED <<stage, round, m_sequence, requested, gStat>>

\* The Duration event or a signal.
Stop ==
    /\ Running
    /\ stopped' = "stop"
    /\ UNCHANGED <<stage, round, m_sequence, requested, gStat>>

RequestStep(k, t) == RequestData(k, t) \/ RequestNack(k, t) \/ RequestTimeout(k, t)

SDStep(t) ==
    \/ sendSD(t) \/ NextRound(t)
    \/ SDDataMore(t) \/ SDDataLast(t) \/ SDNack(t) \/ SDTimeout(t)

Next ==
    \/ check_complete \/ Stop
    \/ \E t \in Topics :
          \/ "ST" \in Tests /\ (sendST(t) \/ RequestStep("ST", t))
          \/ "SM" \in Tests /\ (sendSM(t) \/ RequestStep("SM", t))
          \/ "SD" \in Tests /\ SDStep(t)

Spec == Init /\ [][Next]_vars

(***************************************************************************)
(* The event loop runs every due event, and check_complete every second;   *)
(* after finitely many timeouts the network answers.                       *)
(***************************************************************************)
Fairness ==
    /\ WF_vars(check_complete)
    /\ "ST" \in Tests => \A t \in Topics : WF_vars(sendST(t)) /\ WF_vars(RequestData("ST", t))
    /\ "SM" \in Tests => \A t \in Topics : WF_vars(sendSM(t)) /\ WF_vars(RequestData("SM", t))
    /\ "SD" \in Tests => \A t \in Topics :
           /\ WF_vars(sendSD(t)) /\ WF_vars(NextRound(t))
           /\ WF_vars(SDDataMore(t)) /\ WF_vars(SDDataLast(t))

FairSpec == Spec /\ Fairness

(***************************************************************************)
(* Properties.                                                             *)
(***************************************************************************)

\* Every Interest counted is counted again as Data, Nack or Timeout or still
\* awaits its answer, also when a handler that counts a timeout makes the next
\* request, fails to, or throws on the way.
InterestAccounting ==
    \A k \in Tests : Outstanding(gStat[k]) = Cardinality(Pending(k))

\* m_topic of a test is the number of its topics that have not come to their
\* end: a topic is given up once, by its last Data or by its Nack.
TopicAccounting == \A k \in Tests : gStat[k].topic = Cardinality(Open(k))

\* check_complete stops the program only when every topic of every test has had
\* its last answer: the topics still waiting in a list, for their interval or
\* for their next round are in m_topic from the start, so no moment between two
\* requests looks like the end.
CompletesWithAll == stopped = "complete" => \A k \in Tests : Open(k) = {}

\* However many timeouts, rounds, nacks and exceptions: the SD request of round
\* r names the r-th sequence (or the one configured), a topic that is done has
\* had exactly SDRound rounds (one at least), and m_sequence stands behind the
\* rounds answered and the one pending or cut short by an exception.
Drawn(t) == round[t] + (IF stage[<<"SD", t>>] \in {"unsent", "nacked"} THEN 0 ELSE 1)

RoundsInSequence ==
    "SD" \in Tests => \A t \in Topics :
        /\ stage[<<"SD", t>>] # "unsent" => requested[t] = NextSequence(round[t])
        /\ stage[<<"SD", t>>] = "done" => round[t] + 1 = (IF SDRound < 1 THEN 1 ELSE SDRound)
        /\ m_sequence[t] = (IF 0 < Fetch THEN 0 ELSE Drawn(t))

\* The program ends, across timeouts and nacks, unless an exception has ended a
\* list or a request, or a timed-out ST or SM request no longer finds its topic.
Silenced(k, t) ==
    \/ k \in Throwing /\ stage[<<k, t>>] \in {"lost", "dropped"}
    \/ k # "SD" /\ ~FoundAgain(k, t) /\ stage[<<k, t>>] = "dropped"

Terminates == <>(~Running \/ \E k \in Tests, t \in Topics : Silenced(k, t))
=============================================================================
