----------------------------- MODULE VirtualUser -----------------------------
(***************************************************************************)
(* The subscriber (virtual-user/src/main.cpp): one thread, one io_service; *)
(* an action is one callback run to its end.                               *)
(*                                                                         *)
(* For every subscribed topic the user asks the service which sources,     *)
(* (rn name, data name) pairs, hold matching data (ST), asks each source   *)
(* for its sequence numbers (SM), and then requests data one Interest at a *)
(* time for ever (SD): each Data or Timeout schedules the next request.    *)
(* Every sendSD issued by an SM reply starts such a chain of requests, and *)
(* all chains of a topic draw from its single m_sequence.                  *)
(*                                                                         *)
(* Requests are made anew after a timeout; this program has no             *)
(* InterestDelegator.  The network and the repositories are the            *)
(* environment.                                                            *)
(*                                                                         *)
(* Expressing an Interest may throw.  The handlers of ST and SM Data catch *)
(* that themselves; out of any other callback main logs it and runs the    *)
(* event loop again.                                                       *)
(***************************************************************************)
EXTENDS Statistics, TopicSequence, FiniteSets

CONSTANTS
    Topics,        \* keys of gTopicmap
    Sources,       \* the (rnname, dataname) pairs an ST reply may list
    LastSequences, \* values of "lst" in SM replies
    OddReplies,    \* the SM replies other than status OK that may come
    NackKinds,     \* the kinds of Interest the network may nack
    Throwing,      \* the kinds of Interest whose expression may throw
    MaxTimeouts,   \* bound on the timeouts of a behaviour
    MaxChains,     \* bound on the SD chains of a behaviour
    MaxSequence    \* bound: no chain goes on once m_sequence is this large

ASSUME UserAssumption ==
    /\ IsFiniteSet(Topics) /\ IsFiniteSet(Sources)
    /\ LastSequences \subseteq Int
    /\ OddReplies \subseteq {"NOT_FOUND", "OTHER", "MALFORMED"}
    /\ NackKinds \subseteq {"ST", "SM", "SD"} /\ Throwing \subseteq {"ST", "SM", "SD"}
    /\ MaxTimeouts \in Nat /\ MaxChains \in Nat /\ MaxSequence \in Nat

VARIABLES
    running,     \* inside gIOService->run()
    started,     \* the event at time 0 has filled topicList
    st,          \* per topic: its ST request
    sm,          \* per topic and source: its SM request
    chain,       \* the SD chains, numbered in the order they start
    m_sequence,  \* per topic: Topic::m_sequence
    gStatST, gStatSM, gStatSD

vars == <<running, started, st, sm, chain, m_sequence, gStatST, gStatSM, gStatSD>>

\* scheduled: sendST or sendSM is scheduled again; answered: its Data ended it;
\* lost: the first sendST threw; dropped: a later one, or a sendSM, threw.
RequestStages ==
    {"unsent", "pending", "scheduled", "answered", "nacked", "lost", "dropped"}

\* An SD chain is waiting for an answer, has sendSD scheduled after a Data
\* ("next", round + 1) or a Timeout ("retry", same round), or died of a Nack or
\* of a sendSD that threw ("lost").
ChainIds    == 1 .. MaxChains
ChainStates == {"unborn", "pending", "next", "retry", "nacked", "lost"}
UnbornChain == [state |-> "unborn", topic |-> "none", source |-> "none", seq |-> 0]

Chains == [state : ChainStates \ {"unborn"}, topic : Topics, source : Sources,
           seq : SDSequences]

SDPending == {c \in ChainIds : chain[c].state = "pending"}
Pending(f) == {i \in DOMAIN f : f[i] = "pending"}

TypeOK ==
    /\ running \in BOOLEAN /\ started \in BOOLEAN
    /\ st \in [Topics -> RequestStages]
    /\ sm \in [Topics \X Sources -> RequestStages]
    /\ chain \in [ChainIds -> {UnbornChain} \cup Chains]
    /\ m_sequence \in [Topics -> Int]
    /\ gStatST \in Statistic /\ gStatSM \in Statistic /\ gStatSD \in Statistic

Init ==
    /\ running = TRUE /\ started = FALSE
    /\ st = [t \in Topics |-> "unsent"]
    /\ sm = [p \in Topics \X Sources |-> "unsent"]
    /\ chain = [c \in ChainIds |-> UnbornChain]
    /\ m_sequence = [t \in Topics |-> 0]
    /\ gStatST = NewStatistic /\ gStatSM = NewStatistic /\ gStatSD = NewStatistic

TimeoutsLeft == gStatST.timeout + gStatSM.timeout + gStatSD.timeout < MaxTimeouts

(***************************************************************************)
(* ST: which sources hold the topic.                                       *)
(***************************************************************************)
\* A call that throws leaves the request in stage "failed".
sendST(t, from, failed) ==
    /\ running
    /\ st[t] = from
    /\ \/ /\ st' = [st EXCEPT ![t] = "pending"]
          /\ gStatST' = increase_interest(gStatST, 1)
       \/ /\ "ST" \in Throwing
          /\ st' = [st EXCEPT ![t] = failed]
          /\ UNCHANGED gStatST
    /\ UNCHANGED <<running, sm, chain, m_sequence, gStatSM, gStatSD>>

\* scheduleSendST: topicList holds the topics in the order of an unordered
\* map; the event at time 0 sends the first, each send schedules the next
\* unless it has thrown.
StartST ==
    /\ running /\ ~started
    /\ started' = TRUE
    /\ \/ \E t \in Topics : sendST(t, "unsent", "lost")
       \/ Topics = {} /\ UNCHANGED <<running, st, sm, chain, m_sequence,
                                     gStatST, gStatSM, gStatSD>>
scheduleSendST(t) ==
    /\ started /\ \A u \in Topics : st[u] # "lost"
    /\ sendST(t, "unsent", "lost") /\ UNCHANGED started
ResendST(t) == sendST(t, "scheduled", "dropped") /\ UNCHANGED started

\* The reply lists any set of sources, none when it cannot be parsed; sendSM is
\* called for each of them.  One that throws ends the list early, which is the
\* same as a shorter list.
STData(t, listed) ==
    /\ running
    /\ st[t] = "pending"
    /\ st' = [st EXCEPT ![t] = "answered"]
    /\ sm' = [p \in Topics \X Sources |->
                 IF p[1] = t /\ p[2] \in listed THEN "pending" ELSE sm[p]]
    /\ gStatST' = increase_data(gStatST)
    /\ gStatSM' = increase_interest(gStatSM, Cardinality(listed))
    /\ UNCHANGED <<running, started, chain, m_sequence, gStatSD>>

STTimeout(t) ==
    /\ running /\ TimeoutsLeft
    /\ st[t] = "pending"
    /\ st' = [st EXCEPT ![t] = "scheduled"]
    /\ gStatST' = increase_timeout(gStatST)
    /\ UNCHANGED <<running, started, sm, chain, m_sequence, gStatSM, gStatSD>>

STNack(t) ==
    /\ running /\ "ST" \in NackKinds
    /\ st[t] = "pending"
    /\ st' = [st EXCEPT ![t] = "nacked"]
    /\ gStatST' = increase_nack(gStatST)
    /\ UNCHANGED <<running, started, sm, chain, m_sequence, gStatSM, gStatSD>>

(***************************************************************************)
(* SM: the sequence numbers of a source.                                   *)
(***************************************************************************)
\* sendSD called while m_sequence[t] is n: chain c has a request pending, or
\* is lost, its sequence spent.
ExpressSD(c, t, s, n) ==
    /\ m_sequence' = [m_sequence EXCEPT ![t] = AfterNext(n)]
    /\ \E state \in {"pending", "lost"} :
          /\ chain' = [chain EXCEPT ![c] = [state |-> state, topic |-> t,
                                            source |-> s, seq |-> NextSequence(n)]]
          /\ \/ state = "pending" /\ gStatSD' = increase_interest(gStatSD, 1)
             \/ state = "lost" /\ "SD" \in Throwing /\ UNCHANGED gStatSD

StartChain(t, s, n) ==
    \E c \in ChainIds :
        /\ chain[c] = UnbornChain
        /\ \A d \in ChainIds : d < c => chain[d] # UnbornChain
        /\ ExpressSD(c, t, s, n)

ResendSM(t, s) ==
    /\ running
    /\ sm[<<t, s>>] = "scheduled"
    /\ \/ /\ sm' = [sm EXCEPT ![<<t, s>>] = "pending"]
          /\ gStatSM' = increase_interest(gStatSM, 1)
       \/ /\ "SM" \in Throwing
          /\ sm' = [sm EXCEPT ![<<t, s>>] = "dropped"]
          /\ UNCHANGED gStatSM
    /\ UNCHANGED <<running, started, st, chain, m_sequence, gStatST, gStatSD>>

SMReply(t, s, to) ==
    /\ running
    /\ sm[<<t, s>>] = "pending"
    /\ sm' = [sm EXCEPT ![<<t, s>>] = to]
    /\ gStatSM' = increase_data(gStatSM)
    /\ UNCHANGED <<running, started, st, gStatST>>

\* Mutant of SMDataOK: "lst" is taken as it is.
SMDataOKAny(t, s, lst) ==
    /\ SMReply(t, s, "answered")
    /\ StartChain(t, s, lst)

\* OK: the chain starts from the last sequence stored, at least from 1.
SMDataOK(t, s, lst) ==
    /\ SMReply(t, s, "answered")
    /\ StartChain(t, s, IF lst < 1 THEN 1 ELSE lst)

\* NOT_FOUND: sendSM is scheduled again, and sendSD is called all the same.
SMDataNotFound(t, s) ==
    /\ "NOT_FOUND" \in OddReplies
    /\ SMReply(t, s, "scheduled")
    /\ StartChain(t, s, m_sequence[t])

\* Mutant of SMDataMalformed: the exception leaves before the Data is counted.
SMDataMalformedUncounted(t, s) ==
    /\ "MALFORMED" \in OddReplies
    /\ running
    /\ sm[<<t, s>>] = "pending"
    /\ sm' = [sm EXCEPT ![<<t, s>>] = "answered"]
    /\ UNCHANGED <<running, started, st, chain, m_sequence, gStatST, gStatSM, gStatSD>>

\* Another status: only sendSD is called.
SMDataOther(t, s) ==
    /\ "OTHER" \in OddReplies
    /\ SMReply(t, s, "answered")
    /\ StartChain(t, s, m_sequence[t])

\* A reply that cannot be parsed is logged, and that is the end of it.
SMDataMalformed(t, s) ==
    /\ "MALFORMED" \in OddReplies
    /\ SMReply(t, s, "answered")
    /\ UNCHANGED <<chain, m_sequence, gStatSD>>

\* Mutant of SMTimeout: nothing is scheduled.
SMTimeoutForgets(t, s) ==
    /\ running /\ TimeoutsLeft
    /\ sm[<<t, s>>] = "pending"
    /\ sm' = [sm EXCEPT ![<<t, s>>] = "answered"]
    /\ gStatSM' = increase_timeout(gStatSM)
    /\ UNCHANGED <<running, started, st, chain, m_sequence, gStatST, gStatSD>>

SMTimeout(t, s) ==
    /\ running /\ TimeoutsLeft
    /\ sm[<<t, s>>] = "pending"
    /\ sm' = [sm EXCEPT ![<<t, s>>] = "scheduled"]
    /\ gStatSM' = increase_timeout(gStatSM)
    /\ UNCHANGED <<running, started, st, chain, m_sequence, gStatST, gStatSD>>

SMNack(t, s) ==
    /\ running /\ "SM" \in NackKinds
    /\ sm[<<t, s>>] = "pending"
    /\ sm' = [sm EXCEPT ![<<t, s>>] = "nacked"]
    /\ gStatSM' = increase_nack(gStatSM)
    /\ UNCHANGED <<running, started, st, chain, m_sequence, gStatST, gStatSD>>

(***************************************************************************)
(* SD: the data.  A Timeout or a Nack gives the sequence back.             *)
(***************************************************************************)
sendSD(c) ==
    /\ running
    /\ chain[c].state \in {"next", "retry"}
    /\ ExpressSD(c, chain[c].topic, chain[c].source, m_sequence[chain[c].topic])
    /\ UNCHANGED <<running, started, st, sm, gStatST, gStatSM>>

SDAnswer(c, to) ==
    /\ running
    /\ chain[c].state = "pending"
    /\ chain' = [chain EXCEPT ![c].state = to]
    /\ UNCHANGED <<running, started, st, sm, gStatST, gStatSM>>

SDData(c) ==
    /\ SDAnswer(c, "next")
    /\ m_sequence[chain[c].topic] < MaxSequence
    /\ gStatSD' = increase_data(gStatSD)
    /\ UNCHANGED m_sequence

\* Mutant of SDTimeout: the next request is not scheduled.
SDTimeoutForgets(c) ==
    /\ TimeoutsLeft
    /\ SDAnswer(c, "nacked")
    /\ m_sequence' = [m_sequence EXCEPT ![chain[c].topic] = AfterTimeout(@)]
    /\ gStatSD' = increase_timeout(gStatSD)

SDTimeout(c) ==
    /\ TimeoutsLeft
    /\ SDAnswer(c, "retry")
    /\ m_sequence' = [m_sequence EXCEPT ![chain[c].topic] = AfterTimeout(@)]
    /\ gStatSD' = increase_timeout(gStatSD)

\* Mutant of SDNack: the sequence is not given back.
SDNackKeeps(c) ==
    /\ "SD" \in NackKinds
    /\ SDAnswer(c, "nacked")
    /\ gStatSD' = increase_nack(gStatSD)
    /\ UNCHANGED m_sequence

SDNack(c) ==
    /\ "SD" \in NackKinds
    /\ SDAnswer(c, "nacked")
    /\ m_sequence' = [m_sequence EXCEPT ![chain[c].topic] = AfterTimeout(@)]
    /\ gStatSD' = increase_nack(gStatSD)

\* The Duration event or a signal.
Stop ==
    /\ running
    /\ running' = FALSE
    /\ UNCHANGED <<started, st, sm, chain, m_sequence, gStatST, gStatSM, gStatSD>>

STStep(t) ==
    \/ scheduleSendST(t) \/ ResendST(t) \/ STTimeout(t) \/ STNack(t)
    \/ \E listed \in SUBSET Sources : STData(t, listed)

SMStep(t, s) ==
    \/ ResendSM(t, s) \/ SMTimeout(t, s) \/ SMNack(t, s)
    \/ SMDataNotFound(t, s) \/ SMDataOther(t, s) \/ SMDataMalformed(t, s)
    \/ \E lst \in LastSequences : SMDataOK(t, s, lst)

SDStep(c) == sendSD(c) \/ SDData(c) \/ SDTimeout(c) \/ SDNack(c)

Next ==
    \/ StartST \/ Stop
    \/ \E t \in Topics : STStep(t) \/ \E s \in Sources : SMStep(t, s)
    \/ \E c \in ChainIds : SDStep(c)

Spec == Init /\ [][Next]_vars

(***************************************************************************)
(* The event loop runs every due event.  The rest is owed by the others:   *)
(* the network and the repositories answer after finitely many timeouts,   *)
(* and a repository asked again and again in the end answers OK.           *)
(***************************************************************************)
EventLoop ==
    /\ WF_vars(StartST)
    /\ \A t \in Topics : /\ WF_vars(scheduleSendST(t)) /\ WF_vars(ResendST(t))
                         /\ \A s \in Sources : WF_vars(ResendSM(t, s))
    /\ \A c \in ChainIds : WF_vars(sendSD(c))

HelpfulReplies ==
    /\ \A t \in Topics :
          /\ WF_vars(\E listed \in SUBSET Sources : STData(t, listed))
          /\ \A s \in Sources : WF_vars(\E lst \in LastSequences : SMDataOK(t, s, lst))
    /\ \A c \in ChainIds : WF_vars(SDData(c))

FairSpec == Spec /\ EventLoop /\ HelpfulReplies

(***************************************************************************)
(* Properties.                                                             *)
(***************************************************************************)

\* Every Interest counted is counted again as Data, Nack or Timeout or still
\* awaits its answer, also when one ST reply makes several SM requests and
\* several chains run for one topic.
InterestAccounting ==
    /\ Outstanding(gStatST) = Cardinality(Pending(st))
    /\ Outstanding(gStatSM) = Cardinality(Pending(sm))
    /\ Outstanding(gStatSD) = Cardinality(SDPending)

\* A chain requests the sequence after the one it has received, and after a
\* timeout the same one again: nothing is skipped, nothing requested twice.
\* This needs m_sequence, which the topic's chains share, to stand still while
\* a chain waits.
ChainInOrder ==
    [][\A c \in ChainIds :
          chain'[c].state = "pending" =>
              /\ chain[c].state = "next"  => chain'[c].seq = chain[c].seq + 1
              /\ chain[c].state = "retry" => chain'[c].seq = chain[c].seq]_vars

\* With one chain per topic, m_sequence is the sequence after the last one
\* received, or after the one pending or lost.
SequenceInStep ==
    \A c \in ChainIds :
        chain[c] # UnbornChain =>
            m_sequence[chain[c].topic] =
                chain[c].seq + (IF chain[c].state \in {"pending", "next", "lost"} THEN 1 ELSE 0)

\* The chains of a topic draw from one m_sequence, which every OK reply sets anew
\* and every timeout or nack takes back, also for a request made before it was
\* set.  Once the pending ones are all taken back it has fallen below 0 by no more
\* than the topic has chains beyond the second: up to two never ask for a
\* negative sequence.
ChainsOf(t)  == {c \in ChainIds : chain[c] # UnbornChain /\ chain[c].topic = t}
PendingOf(t) == {c \in ChainsOf(t) : chain[c].state = "pending"}

SequenceFloor ==
    Fetch <= 0 =>
        \A t \in Topics :
            \/ Cardinality(PendingOf(t)) <= m_sequence[t]
            \/ Cardinality(PendingOf(t)) + 2 <= m_sequence[t] + Cardinality(ChainsOf(t))

\* A source that an ST reply has listed is eventually heard: some chain receives
\* Data from it, across lost SM and SD requests, unless the process is stopped or
\* a request of that source is nacked or throws.
Heard(t, s) ==
    \E c \in ChainIds : /\ chain[c].topic = t /\ chain[c].source = s
                        /\ chain[c].state \in {"next", "nacked", "lost"}

EventuallyHeard ==
    \A t \in Topics, s \in Sources :
        sm[<<t, s>>] = "pending" ~>
            ~running \/ sm[<<t, s>>] \in {"nacked", "dropped"} \/ Heard(t, s)
=============================================================================
