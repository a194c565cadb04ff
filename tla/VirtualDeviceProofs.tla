------------------------- MODULE VirtualDeviceProofs -------------------------
(***************************************************************************)
(* Theorems about VirtualDevice, for every set of topics, number of rounds *)
(* and counter width its assumptions allow.                                *)
(***************************************************************************)
EXTENDS VirtualDevice, StatisticsProofs

(***************************************************************************)
(* Type correctness.                                                       *)
(***************************************************************************)
LEMMA TopicsCounted == Cardinality(Topics) \in Nat /\ Cardinality(Topics) <= MaxU64
  BY TopicsAssumption, MaxU64Assumption, FS_CardinalityType

\* The program starts in a state of the model: every variable has its type.
LEMMA TypeInit == Init => TypeOK
  <1>1. NewStatistic \in Statistic
    BY MaxU64Assumption DEF NewStatistic, Statistic
  <1>2. "paUnsent" \in Stages /\ "none" \in Stages2 /\ "running" \in Phases
    BY DEF Stages, PAStages, Stages2, Phases
  <1> SUFFICES ASSUME Init PROVE TypeOK
    OBVIOUS
  <1>3. phase \in Phases /\ stopCause \in {"none", "complete", "signal"}
    BY <1>2 DEF Init
  <1>4. paStarted \in BOOLEAN /\ durationOver \in BOOLEAN
    BY DEF Init
  <1>5. /\ stage \in [Topics -> Stages] /\ delegators2 \in [Topics -> Stages2]
        /\ round \in [Topics -> Nat] /\ m_sequence \in [Topics -> Nat]
    BY <1>2, ConfigAssumption DEF Init
  <1>6. gPDMap \subseteq Topics \X Nat /\ gPUMap \subseteq Topics
    BY DEF Init
  <1>7. gStatPA \in Statistic /\ gStatPD \in Statistic /\ gStatPU \in Statistic
    BY <1>1 DEF Init
  <1> QED BY <1>3, <1>4, <1>5, <1>6, <1>7 DEF TypeOK

\* Every callback, the timer, the signal and the report keep the types.
LEMMA TypeNext == TypeOK /\ [Next]_vars => TypeOK'
  <1> SUFFICES ASSUME TypeOK, [Next]_vars PROVE TypeOK'
    OBVIOUS
  <1> USE DEF TypeOK, process, stats, Moves, Moves2, Phases, Stages, PAStages, PDStages,
              PUStages, Stages2
  <1>u. 1 \in Nat /\ 1 <= MaxU64
    BY MaxU64Assumption
  <1>s. \A x \in Statistic :
           /\ increase_interest(x, 1) \in Statistic
           /\ increase_data(x) \in Statistic
           /\ increase_nack(x) \in Statistic
           /\ increase_timeout(x) \in Statistic
           /\ increase_topic(x, 1) \in Statistic
           /\ decrease_topic(x, 1) \in Statistic
           /\ increase_topic(x, Cardinality(Topics)) \in Statistic
           /\ decrease_topic(x, Cardinality(Topics)) \in Statistic
    BY <1>u, StatisticClosed, TopicsCounted
  <1>1. CASE StartPA
    BY <1>1, <1>s DEF StartPA, sendPA, sendPAThrows
  <1>2. CASE DurationExpires
    BY <1>2, <1>s DEF DurationExpires, scheduleSendPU
  <1>3. CASE check_complete \/ signalHandler
    BY <1>3 DEF check_complete, signalHandler, Stop
  <1>4. CASE Report
    BY <1>4 DEF Report
  <1>5. ASSUME NEW t \in Topics, Scheduled(t) PROVE TypeOK'
    <2>1. CASE NextPA(t)
      BY <2>1, <1>s DEF NextPA, sendPA, sendPAThrows
    <2>2. CASE FirstPD(t) \/ NextPD(t)
      BY <2>2, <1>s DEF FirstPD, NextPD, sendPD, sendPDThrows
    <2>3. CASE sendPU(t) \/ sendPUThrows(t)
      BY <2>3, <1>s DEF sendPU, sendPUThrows
    <2>4. CASE sendPU2(t)
      BY <2>4, <1>s DEF sendPU2
    <2> QED BY <1>5, <2>1, <2>2, <2>3, <2>4 DEF Scheduled
  <1>6. ASSUME NEW t \in Topics, Answered(t) \/ Answered2(t) PROVE TypeOK'
    <2>1. CASE PAData(t)
      BY <2>1, <1>s DEF PAData
    <2>2. CASE PDDataMore(t) \/ PDDataLast(t)
      BY <2>2, <1>s DEF PDDataMore, PDDataLast
    <2>3. CASE PUData(t)
      BY <2>3, <1>s DEF PUData
    <2>4. CASE PU2Data(t) \/ PU2Nack(t)
      BY <2>4, <1>s DEF PU2Data, PU2Nack
    <2> QED BY <1>6, <2>1, <2>2, <2>3, <2>4 DEF Answered, Answered2
  <1>7. ASSUME NEW t \in Topics, Nacked(t) PROVE TypeOK'
    BY <1>7, <1>s DEF Nacked, PANack, PDNack, PUNack
  <1>8. ASSUME NEW t \in Topics, TimedOut(t) PROVE TypeOK'
    BY <1>8, <1>s DEF TimedOut, PATimeout, onTimeout, PDTimeout, PUTimeout, PU2Timeout
  <1>9. ASSUME NEW t \in Topics, UsePUAfterFree(t) PROVE TypeOK'
    BY <1>9 DEF UsePUAfterFree
  <1>10. CASE UNCHANGED vars
    BY <1>10 DEF vars
  <1> QED BY <1>1, <1>2, <1>3, <1>4, <1>5, <1>6, <1>7, <1>8, <1>9, <1>10 DEF Next

\* Every variable keeps its type; in particular both topic counters stay in the
\* range of uint64_t through every increment and decrement of every handler.
THEOREM TypeCorrect == Spec => []TypeOK
  BY TypeInit, TypeNext, PTL DEF Spec

(***************************************************************************)
(* Interest accounting.                                                    *)
(***************************************************************************)

\* When one topic of a per-topic function changes, the number of topics with a
\* value in A grows by one if the new value is in A and falls by one if the old
\* one was.
LEMMA CountMoved ==
    ASSUME NEW f, NEW g, NEW A, NEW t \in Topics,
           \A x \in Topics \ {t} : g[x] = f[x]
    PROVE  /\ Cardinality(Where(f, A)) \in Nat
           /\ Cardinality(Where(g, A)) = Cardinality(Where(f, A))
                 + (IF g[t] \in A THEN 1 ELSE 0) - (IF f[t] \in A THEN 1 ELSE 0)
  <1>1. /\ IsFiniteSet(Topics) /\ Where(f, A) \subseteq Topics /\ Where(g, A) \subseteq Topics
        /\ t \in Where(f, A) <=> f[t] \in A
        /\ t \in Where(g, A) <=> g[t] \in A
        /\ Where(f, A) \ {t} = Where(g, A) \ {t}
    BY TopicsAssumption DEF Where
  <1> QED BY <1>1, CountChanged

\* When a callback takes topic t from one stage to another, any set of stages
\* gains t, loses t or stays as it was: what In counts changes by at most one.
LEMMA StageMoved ==
    ASSUME TypeOK, NEW CONSTANT A, NEW t \in Topics, NEW from, NEW to, Moves(t, from, to)
    PROVE  /\ Cardinality(In(A)) \in Nat
           /\ Cardinality(In(A)') = Cardinality(In(A)) + (IF to \in A THEN 1 ELSE 0)
                                                       - (IF from \in A THEN 1 ELSE 0)
  <1>1. stage \in [Topics -> Stages] /\ stage[t] = from /\ stage' = [stage EXCEPT ![t] = to]
    BY DEF TypeOK, Moves
  <1>2. /\ Cardinality(Where(stage, A)) \in Nat
        /\ Cardinality(Where(stage', A)) = Cardinality(Where(stage, A))
              + (IF to \in A THEN 1 ELSE 0) - (IF stage[t] \in A THEN 1 ELSE 0)
    <2>1. stage'[t] = to /\ \A x \in Topics \ {t} : stage'[x] = stage[x]
      BY <1>1
    <2> QED BY <2>1, CountMoved
  <1> QED BY <1>1, <1>2 DEF In

\* The same for a topic's delegator in delegators2.
LEMMA Stage2Moved ==
    ASSUME TypeOK, NEW CONSTANT A, NEW t \in Topics, NEW from, NEW to, Moves2(t, from, to)
    PROVE  /\ Cardinality(In2(A)) \in Nat
           /\ Cardinality(In2(A)') = Cardinality(In2(A)) + (IF to \in A THEN 1 ELSE 0)
                                                         - (IF from \in A THEN 1 ELSE 0)
  <1>1. /\ delegators2 \in [Topics -> Stages2] /\ delegators2[t] = from
        /\ delegators2' = [delegators2 EXCEPT ![t] = to]
    BY DEF TypeOK, Moves2
  <1>2. /\ Cardinality(Where(delegators2, A)) \in Nat
        /\ Cardinality(Where(delegators2', A)) = Cardinality(Where(delegators2, A))
              + (IF to \in A THEN 1 ELSE 0) - (IF delegators2[t] \in A THEN 1 ELSE 0)
    <2>1. delegators2'[t] = to /\ \A x \in Topics \ {t} : delegators2'[x] = delegators2[x]
      BY <1>1
    <2> QED BY <2>1, CountMoved
  <1> QED BY <1>1, <1>2 DEF In2

\* How many topics a set of stages holds, when t joins or leaves it.
LEMMA WhereCount ==
    ASSUME NEW f, NEW A
    PROVE  /\ IsFiniteSet(Where(f, A))
           /\ Cardinality(Where(f, A)) \in Nat
           /\ Cardinality(Where(f, A)) <= Cardinality(Topics)
  <1>1. Where(f, A) \subseteq Topics
    BY DEF Where
  <1> QED BY <1>1, TopicsAssumption, FS_Subset, FS_CardinalityType

\* Counts of topics are natural numbers: Topics is finite.
LEMMA CountsAreNat ==
    ASSUME NEW CONSTANT A
    PROVE  Cardinality(In(A)) \in Nat /\ Cardinality(In2(A)) \in Nat
  <1>1. In(A) \subseteq Topics /\ In2(A) \subseteq Topics
    BY DEF In, In2, Where
  <1> QED BY <1>1, TopicsAssumption, FS_Subset, FS_CardinalityType

\* A step that leaves stage alone leaves every set of stages as it was.
LEMMA StageKept == ASSUME UNCHANGED stage, NEW CONSTANT A PROVE In(A)' = In(A)
  BY DEF In

\* A step that leaves delegators2 alone leaves its sets of stages as they were.
LEMMA Stage2Kept == ASSUME UNCHANGED delegators2, NEW CONSTANT A PROVE In2(A)' = In2(A)
  BY DEF In2

\* The sets InterestAccounting counts, before and after a step of t's chain.
LEMMA OpenMoved ==
    ASSUME TypeOK, NEW t \in Topics, NEW from, NEW to, Moves(t, from, to)
    PROVE  \A A \in {PAOpen, PDOpen, PUOpen} :
              /\ Cardinality(In(A)) \in Nat
              /\ Cardinality(In(A)') = Cardinality(In(A)) + (IF to \in A THEN 1 ELSE 0)
                                                          - (IF from \in A THEN 1 ELSE 0)
  BY StageMoved

\* The delegators of delegators2 are made by the Duration event.
Delegators2Idle == ~durationOver => \A t \in Topics : delegators2[t] = "none"

\* Only the Duration event takes a topic out of "none" in delegators2.
LEMMA IdleNext == TypeOK /\ Delegators2Idle /\ [Next]_vars => Delegators2Idle'
  <1> SUFFICES ASSUME TypeOK, Delegators2Idle, [Next]_vars PROVE Delegators2Idle'
    OBVIOUS
  <1> USE DEF Delegators2Idle, process
  <1>1. ASSUME NEW t \in Topics, NEW from, NEW to, Moves2(t, from, to), from # "none"
        PROVE  durationOver
    BY <1>1 DEF Moves2
  <1>2. CASE UNCHANGED <<durationOver, delegators2>>
    BY <1>2
  <1>3. CASE DurationExpires
    BY <1>3 DEF DurationExpires, scheduleSendPU
  <1>4. ASSUME NEW t \in Topics, sendPU2(t) \/ Answered2(t) \/ PU2Timeout(t)
        PROVE  Delegators2Idle'
    BY <1>1, <1>4 DEF sendPU2, Answered2, PU2Data, PU2Nack, PU2Timeout
  <1>5. ASSUME NEW t \in Topics,
               \/ NextPA(t) \/ FirstPD(t) \/ NextPD(t) \/ sendPU(t) \/ sendPUThrows(t)
               \/ Answered(t) \/ Nacked(t)
        PROVE  UNCHANGED <<durationOver, delegators2>>
    BY <1>5 DEF NextPA, sendPA, sendPAThrows, FirstPD, NextPD, sendPD, sendPDThrows,
                sendPU, sendPUThrows, Answered, PAData,
                PDDataMore, PDDataLast, PUData, Nacked, PANack, PDNack, PUNack
  <1>6. ASSUME NEW t \in Topics, TimedOut(t) \/ UsePUAfterFree(t)
        PROVE  UNCHANGED <<durationOver, delegators2>> \/ PU2Timeout(t)
    BY <1>6 DEF TimedOut, PATimeout, onTimeout, PDTimeout, PUTimeout, UsePUAfterFree
  <1>7. CASE StartPA \/ check_complete \/ signalHandler \/ Report \/ UNCHANGED vars
    BY <1>2, <1>7 DEF StartPA, sendPA, sendPAThrows, check_complete, signalHandler, Stop, Report, vars
  <1> QED BY <1>2, <1>3, <1>4, <1>5, <1>6, <1>7 DEF Next, Scheduled

\* Before the Duration event there is no delegator in delegators2.
LEMMA IdleCorrect == Spec => []Delegators2Idle
  <1>1. Init => Delegators2Idle
    BY DEF Init, Delegators2Idle
  <1> QED BY <1>1, TypeCorrect, IdleNext, PTL DEF Spec

\* Before the first PA is sent nothing is counted and nothing is pending.
LEMMA InterestInit == Init => InterestAccounting
  <1> SUFFICES ASSUME Init PROVE InterestAccounting
    OBVIOUS
  <1>1. In(PAOpen) = {} /\ In(PDOpen) = {} /\ In(PUOpen) = {}
    BY DEF Init, In, Where, PAOpen, PDOpen, PUOpen
  <1>2. In2(Open2) = {}
    BY DEF Init, In2, Where, Open2
  <1> QED BY <1>1, <1>2, FS_EmptySet DEF Init, InterestAccounting, Outstanding, NewStatistic

\* The books of all three kinds of Interest balance after every step: one case
\* per callback, and under it one per kind of Interest.
LEMMA InterestNext ==
    TypeOK /\ Delegators2Idle /\ InterestAccounting /\ [Next]_vars => InterestAccounting'
  <1> SUFFICES ASSUME TypeOK, Delegators2Idle, InterestAccounting, [Next]_vars
               PROVE  InterestAccounting'
    OBVIOUS
  <1> USE DEF InterestAccounting
  <1>s. gStatPA \in Statistic /\ gStatPD \in Statistic /\ gStatPU \in Statistic
    BY DEF TypeOK
  <1>n. Cardinality(Topics) \in Nat
    BY TopicsCounted
  <1>c. Cardinality(In(PUOpen)) \in Nat /\ Cardinality(In2(Open2)) \in Nat
    BY CountsAreNat
  <1>k. ASSUME NEW t \in Topics, NEW from, NEW to, Moves(t, from, to), UNCHANGED delegators2,
               \A A \in {PAOpen, PDOpen, PUOpen} : to \in A <=> from \in A,
               Outstanding(gStatPA)' = Outstanding(gStatPA),
               Outstanding(gStatPD)' = Outstanding(gStatPD),
               Outstanding(gStatPU)' = Outstanding(gStatPU)
        PROVE  InterestAccounting'
    BY <1>k, <1>c, OpenMoved, Stage2Kept
  <1>x. UNCHANGED gStatPA => Outstanding(gStatPA)' = Outstanding(gStatPA)
    OBVIOUS
  <1>y. UNCHANGED gStatPD => Outstanding(gStatPD)' = Outstanding(gStatPD)
    OBVIOUS
  <1>z. UNCHANGED gStatPU => Outstanding(gStatPU)' = Outstanding(gStatPU)
    OBVIOUS
  <1>a. ASSUME NEW t \in Topics, sendPA(t) \/ sendPAThrows(t) PROVE InterestAccounting'
    <2>1. CASE sendPA(t)
      BY <2>1, <1>s, <1>c, OpenMoved, Stage2Kept, OutstandingChange
      DEF sendPA, PAOpen, PDOpen, PUOpen
    <2>2. CASE sendPAThrows(t)
      BY <2>2, <1>k, <1>x, <1>y, <1>z DEF sendPAThrows, stats, PAOpen, PDOpen, PUOpen
    <2> QED BY <1>a, <2>1, <2>2
  <1>5. ASSUME NEW t \in Topics, Scheduled(t) PROVE InterestAccounting'
    <2>2. CASE \E r : sendPD(t, "pdReady", r) \/ sendPD(t, "pdTimer", r)
      BY <2>2, <1>s, <1>c, OpenMoved, Stage2Kept, OutstandingChange
      DEF sendPD, PAOpen, PDOpen, PUOpen
    <2>3. CASE sendPDThrows(t, "pdReady") \/ sendPDThrows(t, "pdTimer") \/ sendPUThrows(t)
      BY <2>3, <1>k, <1>x, <1>y, <1>z
      DEF sendPDThrows, sendPUThrows, stats, PAOpen, PDOpen, PUOpen
    <2>4. CASE sendPU(t)
      BY <2>4, <1>s, <1>c, OpenMoved, Stage2Kept, OutstandingChange
      DEF sendPU, PAOpen, PDOpen, PUOpen
    <2>5. CASE sendPU2(t)
      BY <2>5, <1>s, <1>c, Stage2Moved, StageKept, OutstandingChange DEF sendPU2, Open2
    <2> QED BY <1>5, <1>a, <2>2, <2>3, <2>4, <2>5 DEF Scheduled, NextPA, FirstPD, NextPD
  <1>6. ASSUME NEW t \in Topics, Answered(t) \/ Answered2(t) PROVE InterestAccounting'
    <2>1. CASE PAData(t)
      BY <2>1, <1>s, <1>c, OpenMoved, Stage2Kept, OutstandingChange
      DEF PAData, PAOpen, PDOpen, PUOpen
    <2>2. CASE PDDataMore(t)
      BY <2>2, <1>s, <1>c, OpenMoved, Stage2Kept, OutstandingChange
      DEF PDDataMore, PAOpen, PDOpen, PUOpen
    <2>3. CASE PDDataLast(t)
      BY <2>3, <1>s, <1>c, OpenMoved, Stage2Kept, OutstandingChange
      DEF PDDataLast, PAOpen, PDOpen, PUOpen
    <2>4. CASE PUData(t)
      BY <2>4, <1>s, <1>c, OpenMoved, Stage2Kept, OutstandingChange
      DEF PUData, PAOpen, PDOpen, PUOpen
    <2>5. CASE Answered2(t)
      BY <2>5, <1>s, <1>c, Stage2Moved, StageKept, OutstandingChange
      DEF Answered2, PU2Data, PU2Nack, Open2
    <2> QED BY <1>6, <2>1, <2>2, <2>3, <2>4, <2>5 DEF Answered
  <1>7. ASSUME NEW t \in Topics, Nacked(t) PROVE InterestAccounting'
    BY <1>7, <1>s, <1>c, OpenMoved, Stage2Kept, OutstandingChange
    DEF Nacked, PANack, PDNack, PUNack, PAOpen, PDOpen, PUOpen
  <1>8. ASSUME NEW t \in Topics, TimedOut(t) PROVE InterestAccounting'
    <2>1. CASE PU2Timeout(t)
      BY <2>1, <1>s, <1>c, Stage2Moved, StageKept, OutstandingChange DEF PU2Timeout, Open2
    <2>2. CASE PATimeout(t) \/ PDTimeout(t) \/ PUTimeout(t)
      <3>1. /\ Outstanding(gStatPA)' = Outstanding(gStatPA)
            /\ Outstanding(gStatPD)' = Outstanding(gStatPD)
            /\ Outstanding(gStatPU)' = Outstanding(gStatPU)
            /\ UNCHANGED delegators2
        BY <2>2, <1>s, OutstandingChange DEF PATimeout, PDTimeout, PUTimeout
      <3>2. \/ Moves(t, "paPending", "paPending") \/ Moves(t, "paPending", "paStranded")
            \/ Moves(t, "pdPending", "pdPending") \/ Moves(t, "pdPending", "pdStranded")
            \/ Moves(t, "puPending", "puPending") \/ Moves(t, "puPending", "puStranded")
        BY <2>2 DEF PATimeout, PDTimeout, PUTimeout, onTimeout
      <3> QED BY <3>1, <3>2, <1>k DEF PAOpen, PDOpen, PUOpen
    <2> QED BY <1>8, <2>1, <2>2 DEF TimedOut
  <1>1. CASE StartPA
    <2>1. CASE \E t \in Topics : sendPA(t) \/ sendPAThrows(t)
      BY <2>1, <1>a
    <2>2. CASE UNCHANGED <<stage, delegators2, stats>>
      BY <2>2, StageKept, Stage2Kept DEF stats
    <2> QED BY <1>1, <2>1, <2>2 DEF StartPA
  <1>2. CASE DurationExpires
    <2>1. In(PAOpen)' = In(PAOpen) /\ In(PDOpen)' = In(PDOpen) /\ In(PUOpen)' = In(PUOpen)
      BY <1>2 DEF DurationExpires, scheduleSendPU, In, Where, PAOpen, PDOpen, PUOpen
    <2>2. In2(Open2) = {} /\ In2(Open2)' = {}
      BY <1>2 DEF DurationExpires, scheduleSendPU, Delegators2Idle, In2, Where, Open2
    <2> QED BY <1>2, <1>s, <1>c, <1>n, <2>1, <2>2, OutstandingChange
            DEF DurationExpires, scheduleSendPU
  <1>3. CASE UNCHANGED <<stage, delegators2, stats>>
    BY <1>3, StageKept, Stage2Kept DEF stats
  <1> QED BY <1>1, <1>2, <1>3, <1>5, <1>6, <1>7, <1>8
          DEF Next, check_complete, signalHandler, Stop, Report, UsePUAfterFree, vars, stats

\* The counters of check_complete account for every Interest that is pending,
\* for any number of topics, rounds, timeouts and nacks, with or without the
\* Duration event and the second set of delegators it brings.
THEOREM InterestsAccounted == Spec => []InterestAccounting
  BY TypeCorrect, IdleCorrect, InterestInit, InterestNext, PTL DEF Spec

(***************************************************************************)
(* Topic accounting.                                                       *)
(***************************************************************************)
LEMMA TopicMoved ==
    ASSUME TypeOK, NEW t \in Topics, NEW from, NEW to, Moves(t, from, to)
    PROVE  /\ Cardinality(In(PDStages)') = Cardinality(In(PDStages))
                + (IF to \in PDStages THEN 1 ELSE 0) - (IF from \in PDStages THEN 1 ELSE 0)
           /\ Cardinality(In(PUStages)') = Cardinality(In(PUStages))
                + (IF to \in PUStages THEN 1 ELSE 0) - (IF from \in PUStages THEN 1 ELSE 0)
  BY StageMoved

\* The operations of a Statistics object on a topic count that may have wrapped.
LEMMA TopicChange ==
    ASSUME NEW s \in Statistic
    PROVE  /\ increase_interest(s, 1).topic = s.topic
           /\ increase_data(s).topic = s.topic
           /\ increase_nack(s).topic = s.topic
           /\ increase_interest(increase_timeout(s), 1).topic = s.topic
           /\ \A n \in Int, v \in Nat :
                 s.topic = Wrapped(n) /\ v <= MaxU64 /\ n + v <= MaxU64 =>
                    increase_topic(s, v).topic = Wrapped(n + v)
           /\ \A n \in Int, v \in Nat :
                 s.topic = Wrapped(n) /\ v <= MaxU64 /\ 0 <= n - v + MaxU64 + 1 =>
                    decrease_topic(s, v).topic = Wrapped(n - v)
  <1>1. s.topic \in 0 .. MaxU64 /\ MaxU64 \in Nat
    BY MaxU64Assumption DEF Statistic
  <1>2. /\ increase_interest(s, 1).topic = s.topic
        /\ increase_data(s).topic = s.topic
        /\ increase_nack(s).topic = s.topic
        /\ increase_interest(increase_timeout(s), 1).topic = s.topic
    BY DEF Statistic, increase_interest, increase_data, increase_nack, increase_timeout
  <1>3. ASSUME NEW n \in Int, NEW v \in Nat,
               s.topic = Wrapped(n), v <= MaxU64, n + v <= MaxU64
        PROVE  increase_topic(s, v).topic = Wrapped(n + v)
    BY <1>1, <1>3 DEF Statistic, increase_topic, Wrapped
  <1>4. ASSUME NEW n \in Int, NEW v \in Nat,
               s.topic = Wrapped(n), v <= MaxU64, 0 <= n - v + MaxU64 + 1
        PROVE  decrease_topic(s, v).topic = Wrapped(n - v)
    BY <1>1, <1>4 DEF Statistic, decrease_topic, Wrapped
  <1> QED BY <1>2, <1>3, <1>4

\* Counting an answer leaves m_topic alone; what decrease_topic then does to it.
LEMMA TopicAnswered ==
    ASSUME NEW s \in Statistic, NEW n \in Int, s.topic = Wrapped(n)
    PROVE  /\ 0 <= n + MaxU64 => decrease_topic(increase_data(s), 1).topic = Wrapped(n - 1)
           /\ n + 1 <= MaxU64 => increase_topic(s, 1).topic = Wrapped(n + 1)
  <1>1. increase_data(s) \in Statistic /\ increase_data(s).topic = Wrapped(n)
    <2>1. 1 \in Nat /\ 1 <= MaxU64
      BY MaxU64Assumption
    <2>2. increase_data(s) \in Statistic
      BY <2>1, StatisticClosed
    <2> QED BY <2>2, TopicChange
  <1>2. 1 \in Nat /\ 1 <= MaxU64 /\ MaxU64 \in Nat
    BY MaxU64Assumption
  <1>3. ASSUME 0 <= n + MaxU64
        PROVE  decrease_topic(increase_data(s), 1).topic = Wrapped(n - 1)
    <2>1. 0 <= n - 1 + MaxU64 + 1
      BY <1>2, <1>3
    <2> QED BY <1>1, <1>2, <2>1, TopicChange
  <1>4. ASSUME n + 1 <= MaxU64
        PROVE  increase_topic(s, 1).topic = Wrapped(n + 1)
    BY <1>2, <1>4, TopicChange
  <1> QED BY <1>3, <1>4

\* At the start no topic publishes or withdraws, and m_topic is 0.
LEMMA TopicInit == Init => TopicAccounting
  <1> SUFFICES ASSUME Init PROVE TopicAccounting
    OBVIOUS
  <1>1. In(PDStages) = {} /\ In(PUStages) = {}
    BY DEF Init, In, Where, PDStages, PUStages
  <1>2. In2(Withdrawals2) = {}
    BY DEF Init, In2, Where, Withdrawals2
  <1>3. gStatPD.topic = 0 /\ gStatPU.topic = 0 /\ durationOver = FALSE
    BY DEF Init, NewStatistic
  <1> QED BY <1>1, <1>2, <1>3, FS_EmptySet DEF TopicAccounting, Wrapped, PDDebt

\* m_topic follows the topics in progress through every step, the Duration
\* event included, which takes one per topic from PD's and gives it to PU's.
LEMMA TopicNext ==
    TypeOK /\ Delegators2Idle /\ TopicAccounting /\ [Next]_vars => TopicAccounting'
  <1> SUFFICES ASSUME TypeOK, Delegators2Idle, TopicAccounting, [Next]_vars
               PROVE  TopicAccounting'
    OBVIOUS
  <1> DEFINE pd == Cardinality(In(PDStages))
             pu == Cardinality(In(PUStages))
             pu2 == Cardinality(In2(Withdrawals2))
             all == Cardinality(Topics)
  <1>s. /\ gStatPD \in Statistic /\ gStatPU \in Statistic
        /\ gStatPD.topic \in 0 .. MaxU64 /\ gStatPU.topic \in 0 .. MaxU64
    BY DEF TypeOK, Statistic
  <1>n. /\ pd \in Nat /\ pu \in Nat /\ pu2 \in Nat /\ all \in Nat /\ MaxU64 \in Nat
        /\ pd <= all /\ pu <= all /\ pu2 <= all /\ 2 * all <= MaxU64 /\ 1 <= MaxU64
    BY WhereCount, TopicsCounted, TopicsAssumption, MaxU64Assumption DEF In, In2
  <1>p. /\ pd' \in Nat /\ pu' \in Nat /\ pu2' \in Nat
        /\ pd' <= all /\ pu' <= all /\ pu2' <= all
    BY WhereCount DEF In, In2
  <1>i. /\ gStatPD.topic = Wrapped(pd - PDDebt)
        /\ gStatPU.topic = Wrapped(pu + pu2)
        /\ PDDebt \in {0, all}
    BY <1>n DEF TopicAccounting, Wrapped, PDDebt
  <1>r. ASSUME gStatPD'.topic = Wrapped(pd' - PDDebt'), gStatPU'.topic = Wrapped(pu' + pu2')
        PROVE  TopicAccounting'
    BY <1>r, <1>p DEF TopicAccounting, Wrapped
  <1>m. ASSUME NEW t \in Topics, NEW from, NEW to, Moves(t, from, to),
               UNCHANGED <<durationOver, delegators2>>
        PROVE  /\ pd' = pd + (IF to \in PDStages THEN 1 ELSE 0)
                          - (IF from \in PDStages THEN 1 ELSE 0)
               /\ pu' = pu + (IF to \in PUStages THEN 1 ELSE 0)
                          - (IF from \in PUStages THEN 1 ELSE 0)
               /\ pu2' = pu2 /\ PDDebt' = PDDebt
    <2>1. PDDebt' = PDDebt
      BY <1>m DEF PDDebt
    <2>2. pu2' = pu2
      BY <1>m, Stage2Kept
    <2> QED BY <2>1, <2>2, <1>m, TopicMoved
  <1>m2. ASSUME NEW t \in Topics, NEW from, NEW to, Moves2(t, from, to),
                UNCHANGED <<durationOver, stage>>
         PROVE  /\ pu2' = pu2 + (IF to \in Withdrawals2 THEN 1 ELSE 0)
                             - (IF from \in Withdrawals2 THEN 1 ELSE 0)
                /\ pd' = pd /\ pu' = pu /\ PDDebt' = PDDebt
    BY <1>m2, Stage2Moved, StageKept DEF PDDebt
  <1>k. ASSUME NEW t \in Topics, NEW from, NEW to, Moves(t, from, to),
               UNCHANGED <<durationOver, delegators2>>,
               (to \in PDStages) <=> (from \in PDStages),
               (to \in PUStages) <=> (from \in PUStages),
               gStatPD'.topic = gStatPD.topic, gStatPU'.topic = gStatPU.topic
        PROVE  TopicAccounting'
    <2>1. pd' = pd /\ pu' = pu /\ pu2' = pu2 /\ PDDebt' = PDDebt
      BY <1>k, <1>m, <1>n
    <2> QED BY <1>k, <2>1, <1>i, <1>r
  <1>k2. ASSUME NEW t \in Topics, NEW from, NEW to, Moves2(t, from, to),
                UNCHANGED <<durationOver, stage>>,
                (to \in Withdrawals2) <=> (from \in Withdrawals2),
                gStatPD'.topic = gStatPD.topic, gStatPU'.topic = gStatPU.topic
         PROVE  TopicAccounting'
    <2>1. pd' = pd /\ pu' = pu /\ pu2' = pu2 /\ PDDebt' = PDDebt
      BY <1>k2, <1>m2, <1>n
    <2> QED BY <1>k2, <2>1, <1>i, <1>r
  <1> USE DEF process
  <1>a. ASSUME NEW t \in Topics, sendPA(t) \/ sendPAThrows(t), UNCHANGED durationOver
        PROVE  TopicAccounting'
    BY <1>a, <1>k DEF sendPA, sendPAThrows, stats, PDStages, PUStages
  <1>b. ASSUME NEW t \in Topics,
               \/ FirstPD(t) \/ NextPD(t) \/ sendPU(t) \/ sendPUThrows(t)
               \/ PDDataMore(t) \/ Nacked(t)
        PROVE  TopicAccounting'
    BY <1>b, <1>k, <1>s, TopicChange
    DEF FirstPD, NextPD, sendPD, sendPDThrows, sendPU, sendPUThrows, stats, PDDataMore,
        Nacked, PANack, PDNack, PUNack, PDStages, PUStages
  <1>c. ASSUME NEW t \in Topics, PATimeout(t) \/ PDTimeout(t) \/ PUTimeout(t)
        PROVE  TopicAccounting'
    BY <1>c, <1>k, <1>s, TopicChange
    DEF PATimeout, onTimeout, PDTimeout, PUTimeout, PDStages, PUStages
  <1>d. ASSUME NEW t \in Topics, sendPU2(t) \/ PU2Nack(t) \/ PU2Timeout(t)
        PROVE  TopicAccounting'
    BY <1>d, <1>k2, <1>s, TopicChange DEF sendPU2, PU2Nack, PU2Timeout, Withdrawals2
  <1>e. ASSUME NEW t \in Topics, PAData(t) PROVE TopicAccounting'
    <2>1. pd' = pd + 1 /\ pu' = pu /\ pu2' = pu2 /\ PDDebt' = PDDebt
      BY <1>e, <1>m, <1>n DEF PAData, PDStages, PUStages
    <2>2. gStatPD'.topic = Wrapped(pd - PDDebt + 1) /\ gStatPU'.topic = gStatPU.topic
      BY <1>e, <1>i, <1>s, <1>n, TopicChange DEF PAData
    <2> QED BY <2>1, <2>2, <1>i, <1>n, <1>r DEF Wrapped
  <1>f. ASSUME NEW t \in Topics, PDDataLast(t) PROVE TopicAccounting'
    <2>1. pd' = pd - 1 /\ pu' = pu + 1 /\ pu2' = pu2 /\ PDDebt' = PDDebt
      BY <1>f, <1>m, <1>n DEF PDDataLast, PDStages, PUStages
    <2>2. pd - PDDebt \in Int /\ 0 <= pd - PDDebt + MaxU64
          /\ pu + pu2 \in Int /\ pu + pu2 + 1 <= MaxU64
      BY <1>i, <1>n, <1>p, <2>1
    <2>3. gStatPD'.topic = Wrapped(pd - PDDebt - 1)
      BY <1>f, <1>i, <1>s, <2>2, TopicAnswered DEF PDDataLast
    <2>4. gStatPU'.topic = Wrapped(pu + pu2 + 1)
      BY <1>f, <1>i, <1>s, <2>2, TopicAnswered DEF PDDataLast
    <2> QED BY <2>1, <2>3, <2>4, <1>i, <1>n, <1>r DEF Wrapped
  <1>g. ASSUME NEW t \in Topics, PUData(t) PROVE TopicAccounting'
    <2>1. pd' = pd /\ pu' = pu - 1 /\ pu2' = pu2 /\ PDDebt' = PDDebt
      BY <1>g, <1>m, <1>n DEF PUData, PDStages, PUStages
    <2>2. pu + pu2 \in Int /\ 0 <= pu + pu2 + MaxU64
      BY <1>n
    <2>3. gStatPU' = decrease_topic(increase_data(gStatPU), 1) /\ gStatPD' = gStatPD
      BY <1>g DEF PUData
    <2>4. gStatPU'.topic = Wrapped(pu + pu2 - 1)
      <3> DEFINE n == pu + pu2
      <3>1. n \in Int /\ gStatPU.topic = Wrapped(n) /\ 0 <= n + MaxU64
        BY <1>i, <2>2
      <3> HIDE DEF n
      <3>2. decrease_topic(increase_data(gStatPU), 1).topic = Wrapped(n - 1)
        BY <3>1, <1>s, TopicAnswered
      <3> QED BY <2>3, <3>2, <1>n DEF n
    <2> QED BY <2>1, <2>3, <2>4, <1>i, <1>n, <1>r DEF Wrapped
  <1>h. ASSUME NEW t \in Topics, PU2Data(t) PROVE TopicAccounting'
    <2>1. pd' = pd /\ pu' = pu /\ pu2' = pu2 - 1 /\ PDDebt' = PDDebt
      BY <1>h, <1>m2, <1>n DEF PU2Data, Withdrawals2
    <2>2. pu + pu2 \in Int /\ 0 <= pu + pu2 + MaxU64
      BY <1>n
    <2>3. gStatPU' = decrease_topic(increase_data(gStatPU), 1) /\ gStatPD' = gStatPD
      BY <1>h DEF PU2Data
    <2>4. gStatPU'.topic = Wrapped(pu + pu2 - 1)
      <3> DEFINE n == pu + pu2
      <3>1. n \in Int /\ gStatPU.topic = Wrapped(n) /\ 0 <= n + MaxU64
        BY <1>i, <2>2
      <3> HIDE DEF n
      <3>2. decrease_topic(increase_data(gStatPU), 1).topic = Wrapped(n - 1)
        BY <3>1, <1>s, TopicAnswered
      <3> QED BY <2>3, <3>2, <1>n DEF n
    <2> QED BY <2>1, <2>3, <2>4, <1>i, <1>n, <1>r DEF Wrapped
  <1>j. CASE DurationExpires
    <2>1. In(PDStages)' = In(PDStages) /\ In(PUStages)' = In(PUStages)
      BY <1>j DEF DurationExpires, scheduleSendPU, In, Where, PDStages, PUStages
    <2>2. In2(Withdrawals2) = {} /\ In2(Withdrawals2)' = Topics
      BY <1>j DEF DurationExpires, scheduleSendPU, Delegators2Idle, In2, Where, Withdrawals2
    <2>3. pd' = pd /\ pu' = pu /\ pu2 = 0 /\ pu2' = all /\ PDDebt = 0 /\ PDDebt' = all
      BY <1>j, <2>1, <2>2, FS_EmptySet DEF DurationExpires, scheduleSendPU, PDDebt
    <2>4. gStatPD'.topic = Wrapped(pd - PDDebt - all)
      BY <1>j, <1>i, <1>s, <1>n, <2>3, TopicChange DEF DurationExpires, scheduleSendPU
    <2>5. gStatPU'.topic = Wrapped(pu + pu2 + all)
      BY <1>j, <1>i, <1>s, <1>n, <2>3, TopicChange DEF DurationExpires, scheduleSendPU
    <2> QED BY <2>3, <2>4, <2>5, <1>i, <1>n, <1>r
  <1>z. CASE UNCHANGED <<stage, delegators2, durationOver, stats>>
    BY <1>z, <1>i, <1>r, StageKept, Stage2Kept DEF stats, PDDebt
  <1>1. CASE StartPA
    BY <1>1, <1>a, <1>z DEF StartPA
  <1>2. CASE check_complete \/ signalHandler \/ Report \/ UNCHANGED vars
    BY <1>2, <1>z DEF check_complete, signalHandler, Stop, Report, vars, stats
  <1>3. ASSUME NEW t \in Topics, UsePUAfterFree(t) PROVE TopicAccounting'
    BY <1>3, <1>z DEF UsePUAfterFree
  <1>4. ASSUME NEW t \in Topics, Scheduled(t) \/ Answered(t) \/ Answered2(t) \/ TimedOut(t)
        PROVE  TopicAccounting'
    BY <1>4, <1>a, <1>b, <1>c, <1>d, <1>e, <1>f, <1>g, <1>h
    DEF Scheduled, NextPA, Answered, Answered2, TimedOut
  <1> QED BY <1>1, <1>2, <1>3, <1>4, <1>b, <1>j DEF Next

\* PD's and PU's topic counts are what their handlers mean them to be, up to the
\* one that the Duration event takes from PD for every topic.
THEOREM TopicsAccounted == Spec => []TopicAccounting
  BY TypeCorrect, IdleCorrect, TopicInit, TopicNext, PTL DEF Spec

(***************************************************************************)
(* Completion.  check_complete decides from counters alone that the        *)
(* publisher is done.  With the accounting theorems it follows that it is  *)
(* right: what it takes for the end is a state in which no callback of a   *)
(* topic is outstanding.                                                   *)
(***************************************************************************)
\* Only a running process takes steps other than its report, and only the steps
\* below change who stopped it.
LEMMA StepKinds ==
    ASSUME [Next]_vars
    PROVE  \/ phase = "running" /\ UNCHANGED <<phase, stopCause>>
           \/ phase = "running" /\ phase' = "useAfterFree" /\ UNCHANGED stopCause
           \/ check_complete
           \/ signalHandler
           \/ Report
           \/ UNCHANGED vars
  <1> USE DEF process, Moves, Moves2
  <1>1. ASSUME NEW t \in Topics, Scheduled(t) \/ Answered(t) \/ Answered2(t)
        PROVE  phase = "running" /\ UNCHANGED <<phase, stopCause>>
    BY <1>1 DEF Scheduled, NextPA, sendPA, sendPAThrows, FirstPD, NextPD, sendPD,
                sendPDThrows, sendPU, sendPUThrows, sendPU2, Answered, PAData, PDDataMore, PDDataLast, PUData, Answered2, PU2Data,
                PU2Nack
  <1>2. ASSUME NEW t \in Topics, Nacked(t) \/ TimedOut(t)
        PROVE  phase = "running" /\ UNCHANGED <<phase, stopCause>>
    BY <1>2 DEF Nacked, PANack, PDNack, PUNack, TimedOut, PATimeout, onTimeout, PDTimeout,
                PUTimeout, PU2Timeout
  <1>3. ASSUME NEW t \in Topics, UsePUAfterFree(t)
        PROVE  phase = "running" /\ phase' = "useAfterFree" /\ UNCHANGED stopCause
    BY <1>3 DEF UsePUAfterFree
  <1>4. ASSUME StartPA \/ DurationExpires
        PROVE  phase = "running" /\ UNCHANGED <<phase, stopCause>>
    BY <1>4 DEF StartPA, DurationExpires
  <1> QED BY <1>1, <1>2, <1>3, <1>4 DEF Next

\* A process that runs has not been stopped.
NotStopped == phase = "running" => stopCause = "none"

\* As long as the event loop runs nobody has stopped it.
LEMMA NotStoppedCorrect == Spec => []NotStopped
  <1>1. Init => NotStopped
    BY DEF Init, NotStopped
  <1>2. NotStopped /\ [Next]_vars => NotStopped'
    <2> SUFFICES ASSUME NotStopped, [Next]_vars PROVE NotStopped'
      OBVIOUS
    <2>1. CASE check_complete \/ signalHandler \/ Report
      BY <2>1 DEF check_complete, signalHandler, Stop, Report, NotStopped
    <2>2. CASE UNCHANGED vars
      BY <2>2 DEF vars, NotStopped
    <2> QED BY <2>1, <2>2, StepKinds DEF NotStopped
  <1> QED BY <1>1, <1>2, PTL DEF Spec

\* A count of 0 means that no topic is in the stages counted.
LEMMA EmptyWhere ==
    ASSUME NEW f, NEW A, Cardinality(Where(f, A)) = 0
    PROVE  \A t \in Topics : f[t] \notin A
  BY WhereCount, FS_EmptySet DEF Where

\* What complete counters say of the topics.
LEMMA CompleteMeansAnswered ==
    ASSUME TypeOK, InterestAccounting, TopicAccounting, AllComplete
    PROVE  /\ \A t \in Topics : /\ stage[t] \notin PAOpen \cup PDOpen \cup PUOpen
                                /\ stage[t] \notin PUStages
                                /\ delegators2[t] \notin Withdrawals2
           /\ ~durationOver => \A t \in Topics : stage[t] \notin PDStages
  <1>1. /\ Cardinality(In(PAOpen)) \in Nat /\ Cardinality(In(PDOpen)) \in Nat
        /\ Cardinality(In(PDStages)) \in Nat /\ Cardinality(In(PUStages)) \in Nat
        /\ Cardinality(In2(Withdrawals2)) \in Nat /\ MaxU64 \in Nat
    BY CountsAreNat, MaxU64Assumption
  <1>2. /\ Outstanding(gStatPA) = 0 /\ Outstanding(gStatPD) = 0
        /\ gStatPD.topic = 0 /\ gStatPU.topic = 0
    BY DEF AllComplete, is_complete, Outstanding, TypeOK, Statistic
  <1>3. Cardinality(In(PAOpen)) = 0 /\ Cardinality(In(PDOpen)) = 0
    BY <1>2 DEF InterestAccounting
  <1>4. Cardinality(In(PUStages)) = 0 /\ Cardinality(In2(Withdrawals2)) = 0
    BY <1>1, <1>2 DEF TopicAccounting
  <1>5. ASSUME ~durationOver PROVE Cardinality(In(PDStages)) = 0
    BY <1>1, <1>2, <1>5 DEF TopicAccounting, Wrapped, PDDebt
  <1>6. \A t \in Topics : /\ stage[t] \notin PAOpen /\ stage[t] \notin PDOpen
                          /\ stage[t] \notin PUStages
                          /\ delegators2[t] \notin Withdrawals2
    BY <1>3, <1>4, EmptyWhere DEF In, In2
  <1>7. ASSUME ~durationOver PROVE \A t \in Topics : stage[t] \notin PDStages
    BY <1>5, <1>7, EmptyWhere DEF In
  <1> QED BY <1>6, <1>7 DEF PUStages, PUOpen

\* Stopped by check_complete, the state stays what the counters said it was.
LEMMA CompletionNext ==
    /\ TypeOK /\ InterestAccounting /\ TopicAccounting /\ NotStopped
    /\ CompletesQuiet /\ CompletesAnswered
    /\ [Next]_vars
    => CompletesQuiet' /\ CompletesAnswered'
  <1> SUFFICES ASSUME TypeOK, InterestAccounting, TopicAccounting, NotStopped,
                      CompletesQuiet, CompletesAnswered, [Next]_vars
               PROVE  CompletesQuiet' /\ CompletesAnswered'
    OBVIOUS
  <1> USE DEF CompletesQuiet, CompletesAnswered
  <1>1. CASE check_complete
    <2>1. AllComplete /\ UNCHANGED <<stage, delegators2, durationOver>>
      BY <1>1 DEF check_complete, Stop
    <2>2. In(PAOpen \cup PDOpen \cup PUOpen)' = {} /\ In2(Withdrawals2)' = {}
      BY <2>1, CompleteMeansAnswered DEF In, In2, Where
    <2>3. ASSUME ~durationOver, NEW t \in Topics
          PROVE  stage[t] \in {"paUnsent", "paNacked", "paLost", "done"}
      BY <2>1, <2>3, CompleteMeansAnswered DEF TypeOK, Stages, PAStages, PAOpen
    <2> QED BY <2>1, <2>2, <2>3
  <1>2. CASE phase = "running" /\ UNCHANGED stopCause
    BY <1>2 DEF NotStopped
  <1>3. CASE signalHandler
    BY <1>3 DEF signalHandler, Stop
  <1>4. CASE UNCHANGED <<stopCause, durationOver, stage, delegators2>>
    BY <1>4 DEF In, In2
  <1> QED BY <1>1, <1>2, <1>3, <1>4, StepKinds DEF Report, vars

\* When check_complete stops the process before the Duration event, every topic
\* has finished, was refused, or was never advertised: no PD or PU is pending,
\* armed, or scheduled, whatever the order of the callbacks.
THEOREM CompletionQuiet == Spec => []CompletesQuiet
  <1>1. Init => CompletesQuiet /\ CompletesAnswered
    BY DEF Init, CompletesQuiet, CompletesAnswered
  <1> QED BY <1>1, CompletionNext, TypeCorrect, InterestsAccounted, TopicsAccounted,
             NotStoppedCorrect, PTL DEF Spec

\* Whenever check_complete stops the process, Duration or not, every Interest has
\* been answered and every withdrawal of delegators2 has received its Data.
THEOREM CompletionAnswered == Spec => []CompletesAnswered
  <1>1. Init => CompletesQuiet /\ CompletesAnswered
    BY DEF Init, CompletesQuiet, CompletesAnswered
  <1> QED BY <1>1, CompletionNext, TypeCorrect, InterestsAccounted, TopicsAccounted,
             NotStoppedCorrect, PTL DEF Spec

---------------------------------------------------------------------------
(* What each topic of the publisher does with its rounds, sequence numbers *)
(* and stored delegators.                                                  *)


(***************************************************************************)
(* Rounds and sequence numbers.                                            *)
(***************************************************************************)

\* RoundsPublished says where a chain ends; this is where it stands at each of
\* its stages, which is what makes it inductive.
ChainRound(t) ==
    /\ round[t] <= LastRound
    /\ stage[t] \in PAStages \cup {"pdReady"} => round[t] = 0
    /\ stage[t] \in PDUnanswered => 1 <= round[t]
    /\ stage[t] = "pdTimer" => round[t] < Round
    /\ stage[t] \in PUStages \cup {"done"} => round[t] = LastRound
    /\ m_sequence[t] = FirstSequence + round[t]
                          + (IF stage[t] \in SequenceSpent THEN 1 ELSE 0)

ChainRounds == \A t \in Topics : ChainRound(t)

LEMMA LastRoundType == LastRound \in Nat /\ 1 <= LastRound /\ Round <= LastRound
  BY ConfigAssumption DEF LastRound

LEMMA RoundsInit == Init => ChainRounds
  BY ConfigAssumption, LastRoundType
  DEF Init, ChainRounds, ChainRound, PAStages, PUStages, PDUnanswered, PDOpen, SequenceSpent

\* A callback advances one topic's chain, and the Duration event may only cancel
\* a publication that is waiting.
LEMMA RoundsNext == TypeOK /\ ChainRounds /\ [Next]_vars => ChainRounds'
  <1> SUFFICES ASSUME TypeOK, ChainRounds, [Next]_vars PROVE ChainRounds'
    OBVIOUS
  <1>t. /\ stage \in [Topics -> Stages] /\ round \in [Topics -> Nat]
        /\ m_sequence \in [Topics -> Nat]
    BY DEF TypeOK
  <1>l. /\ LastRound \in Nat /\ 1 <= LastRound /\ Round <= LastRound /\ Round \in Nat
        /\ FirstSequence \in Nat /\ (LastRound = Round \/ LastRound = 1)
    BY LastRoundType, ConfigAssumption DEF LastRound
  <1>k. ASSUME NEW t \in Topics, ChainRound(t)',
               \A x \in Topics \ {t} : UNCHANGED <<stage[x], round[x], m_sequence[x]>>
        PROVE  ChainRounds'
    BY <1>k DEF ChainRounds, ChainRound
  <1>m. ASSUME NEW t \in Topics, NEW from, NEW to, Moves(t, from, to)
        PROVE  /\ stage[t] = from /\ stage'[t] = to
               /\ \A x \in Topics \ {t} : stage'[x] = stage[x]
    BY <1>m, <1>t DEF Moves
  <1>s. ASSUME NEW t \in Topics, NEW from, NEW to, Moves(t, from, to),
               UNCHANGED <<round, m_sequence>>, ChainRound(t)'
        PROVE  ChainRounds'
    BY <1>s, <1>m, <1>k
  <1> USE DEF Stages, PAStages, PDStages, PUStages, PDUnanswered, PDOpen, SequenceSpent
  <1>1. ASSUME NEW t \in Topics, sendPA(t) \/ sendPAThrows(t) PROVE ChainRounds'
    <2>1. UNCHANGED <<round, m_sequence>>
          /\ (Moves(t, "paUnsent", "paPending") \/ Moves(t, "paUnsent", "paLost"))
      BY <1>1 DEF sendPA, sendPAThrows
    <2>2. ChainRound(t)'
      BY <2>1, <1>m, <1>l DEF ChainRounds, ChainRound
    <2> QED BY <2>1, <2>2, <1>s
  <1>2. ASSUME NEW t \in Topics, FirstPD(t) \/ NextPD(t) PROVE ChainRounds'
    <2>1. PICK from \in {"pdReady", "pdTimer"} :
             \/ sendPD(t, from, IF from = "pdReady" THEN 0 ELSE round[t])
             \/ sendPDThrows(t, from)
      BY <1>2 DEF FirstPD, NextPD
    <2>2. CASE sendPD(t, from, IF from = "pdReady" THEN 0 ELSE round[t])
      <3>1. stage[t] = from /\ stage'[t] = "pdPending"
            /\ \A x \in Topics \ {t} : stage'[x] = stage[x]
        BY <2>2, <1>m DEF sendPD
      <3>2. /\ round'[t] = round[t] + 1 /\ m_sequence'[t] = m_sequence[t] + 1
            /\ \A x \in Topics \ {t} : UNCHANGED <<round[x], m_sequence[x]>>
        BY <2>2, <1>t, <3>1 DEF sendPD, ChainRounds, ChainRound
      <3>3. ChainRound(t)'
        BY <3>1, <3>2, <1>t, <1>l DEF ChainRounds, ChainRound
      <3> QED BY <3>1, <3>2, <3>3, <1>k
    <2>3. CASE sendPDThrows(t, from)
      <3>1. stage[t] = from /\ stage'[t] = "pdLost"
            /\ \A x \in Topics \ {t} : stage'[x] = stage[x]
        BY <2>3, <1>m DEF sendPDThrows
      <3>2. /\ round' = round /\ m_sequence'[t] = m_sequence[t] + 1
            /\ \A x \in Topics \ {t} : UNCHANGED <<round[x], m_sequence[x]>>
        BY <2>3, <1>t DEF sendPDThrows
      <3>3. ChainRound(t)'
        BY <3>1, <3>2, <1>t, <1>l DEF ChainRounds, ChainRound
      <3> QED BY <3>1, <3>2, <3>3, <1>k
    <2> QED BY <2>1, <2>2, <2>3
  <1>3. ASSUME NEW t \in Topics, sendPU(t) \/ sendPUThrows(t) PROVE ChainRounds'
    <2>1. stage[t] = "puReady" /\ stage'[t] \in {"puPending", "puLost"}
          /\ \A x \in Topics \ {t} : stage'[x] = stage[x]
      BY <1>3, <1>m DEF sendPU, sendPUThrows
    <2>2. /\ round' = round /\ m_sequence'[t] = m_sequence[t] + 1
          /\ \A x \in Topics \ {t} : UNCHANGED <<round[x], m_sequence[x]>>
      BY <1>3, <1>t DEF sendPU, sendPUThrows
    <2>3. ChainRound(t)'
      BY <2>1, <2>2, <1>t, <1>l DEF ChainRounds, ChainRound
    <2> QED BY <2>1, <2>2, <2>3, <1>k
  <1>4. ASSUME NEW t \in Topics, Answered(t) PROVE ChainRounds'
    <2>1. UNCHANGED <<round, m_sequence>>
      BY <1>4 DEF Answered, PAData, PDDataMore, PDDataLast, PUData
    <2>2. CASE PAData(t) \/ PUData(t)
      <3>1. Moves(t, "paPending", "pdReady") \/ Moves(t, "puPending", "done")
        BY <2>2 DEF PAData, PUData
      <3>2. ChainRound(t)'
        BY <3>1, <2>1, <1>m, <1>l DEF ChainRounds, ChainRound
      <3> QED BY <3>1, <3>2, <2>1, <1>s
    <2>3. CASE PDDataMore(t)
      <3>1. Moves(t, "pdPending", "pdTimer") /\ round[t] < Round
        BY <2>3 DEF PDDataMore, MoreRounds
      <3>2. ChainRound(t)'
        BY <3>1, <2>1, <1>m, <1>l DEF ChainRounds, ChainRound
      <3> QED BY <3>1, <3>2, <2>1, <1>s
    <2>4. CASE PDDataLast(t)
      <3>1. Moves(t, "pdPending", "puReady") /\ ~(round[t] < Round)
        BY <2>4 DEF PDDataLast, MoreRounds
      <3>2. round[t] = LastRound
        BY <3>1, <1>m, <1>l, <1>t DEF ChainRounds, ChainRound, LastRound
      <3>3. ChainRound(t)'
        BY <3>1, <3>2, <2>1, <1>m, <1>l DEF ChainRounds, ChainRound
      <3> QED BY <3>1, <3>3, <2>1, <1>s
    <2> QED BY <1>4, <2>2, <2>3, <2>4 DEF Answered
  <1>5. ASSUME NEW t \in Topics, Nacked(t) PROVE ChainRounds'
    <2>1. /\ UNCHANGED <<round, m_sequence>>
          /\ \/ Moves(t, "paPending", "paNacked") \/ Moves(t, "pdPending", "pdNacked")
             \/ Moves(t, "puPending", "puNacked")
      BY <1>5 DEF Nacked, PANack, PDNack, PUNack
    <2>2. ChainRound(t)'
      BY <2>1, <1>m, <1>l DEF ChainRounds, ChainRound
    <2> QED BY <2>1, <2>2, <1>s
  <1>6. ASSUME NEW t \in Topics, PATimeout(t) \/ PDTimeout(t) \/ PUTimeout(t)
        PROVE  ChainRounds'
    <2>1. /\ UNCHANGED <<round, m_sequence>>
          /\ \/ Moves(t, "paPending", "paPending") \/ Moves(t, "paPending", "paStranded")
             \/ Moves(t, "pdPending", "pdPending") \/ Moves(t, "pdPending", "pdStranded")
             \/ Moves(t, "puPending", "puPending") \/ Moves(t, "puPending", "puStranded")
      BY <1>6 DEF PATimeout, PDTimeout, PUTimeout, onTimeout
    <2>2. ChainRound(t)'
      BY <2>1, <1>m, <1>l DEF ChainRounds, ChainRound
    <2> QED BY <2>1, <2>2, <1>s
  <1>7. CASE DurationExpires
    <2>1. /\ UNCHANGED <<round, m_sequence>>
          /\ \A t \in Topics : \/ stage'[t] = stage[t]
                               \/ stage[t] = "pdTimer" /\ stage'[t] = "pdCancelled"
      BY <1>7, <1>t DEF DurationExpires
    <2> QED BY <2>1, <1>l DEF ChainRounds, ChainRound
  <1>8. CASE UNCHANGED <<stage, round, m_sequence>>
    BY <1>8 DEF ChainRounds, ChainRound
  <1>9. ASSUME NEW t \in Topics,
               sendPU2(t) \/ Answered2(t) \/ PU2Timeout(t) \/ UsePUAfterFree(t)
        PROVE  ChainRounds'
    BY <1>9, <1>8 DEF sendPU2, Answered2, PU2Data, PU2Nack, PU2Timeout, UsePUAfterFree
  <1>10. CASE StartPA
    BY <1>10, <1>1, <1>8 DEF StartPA
  <1>11. CASE check_complete \/ signalHandler \/ Report \/ UNCHANGED vars
    BY <1>11, <1>8 DEF check_complete, signalHandler, Stop, Report, vars
  <1> QED BY <1>1, <1>2, <1>3, <1>4, <1>5, <1>6, <1>7, <1>9, <1>10, <1>11
          DEF Next, Scheduled, NextPA, TimedOut

LEMMA RoundsCorrect == Spec => []ChainRounds
  BY RoundsInit, RoundsNext, TypeCorrect, PTL DEF Spec

\* A topic is withdrawn only after LastRound publications and uses consecutive
\* sequence numbers, for any number of rounds and any order of answers, timeouts,
\* nacks and exceptions.
THEOREM RoundsArePublished == Spec => []RoundsPublished
  <1>1. ChainRounds => RoundsPublished
    BY DEF ChainRounds, ChainRound, RoundsPublished
  <1> QED BY <1>1, RoundsCorrect, PTL

(***************************************************************************)
(* Stored delegators.                                                      *)
(***************************************************************************)

\* What is inductive says of the nacked Interests too where their delegators are:
\* gPDMap and gPUMap still hold them.
PDStored == gPDMap = {PDKey(t) : t \in In(PDUnanswered)}
PUStored == ~durationOver => gPUMap = In(PUOpen \cup {"puNacked"})

\* gPDMap changes with the stage of one topic: its key enters when the Interest
\* is sent and leaves when it is answered.  No other topic has the same key.
LEMMA PDStoredNext ==
    TypeOK /\ PDStored /\ [Next]_vars => PDStored'
  <1> SUFFICES ASSUME TypeOK, PDStored, [Next]_vars PROVE PDStored'
    OBVIOUS
  <1>t. /\ stage \in [Topics -> Stages] /\ m_sequence \in [Topics -> Nat]
    BY DEF TypeOK
  <1>d. gPDMap = {PDKey(x) : x \in {y \in Topics : stage[y] \in PDUnanswered}}
    BY DEF PDStored, In, Where
  <1>r. ASSUME gPDMap' = {PDKey(x)' : x \in {y \in Topics : stage'[y] \in PDUnanswered}}
        PROVE  PDStored'
    BY <1>r DEF PDStored, In, Where, PDKey
  <1>m. ASSUME NEW t \in Topics, NEW from, NEW to, Moves(t, from, to)
        PROVE  /\ stage[t] = from /\ stage'[t] = to
               /\ \A x \in Topics \ {t} : stage'[x] = stage[x]
    BY <1>m, <1>t DEF Moves
  <1>k. ASSUME UNCHANGED gPDMap,
               \A x \in Topics : /\ stage'[x] \in PDUnanswered <=> stage[x] \in PDUnanswered
                                 /\ \/ UNCHANGED m_sequence[x]
                                    \/ stage[x] \notin PDUnanswered
        PROVE  PDStored'
    BY <1>k, <1>d, <1>r DEF PDKey
  <1>s. ASSUME NEW t \in Topics, NEW from, NEW to, Moves(t, from, to),
               UNCHANGED <<gPDMap, m_sequence>>,
               to \in PDUnanswered <=> from \in PDUnanswered
        PROVE  PDStored'
    BY <1>s, <1>m, <1>k
  <1> USE DEF PDUnanswered, PDOpen
  <1>1. ASSUME NEW t \in Topics, sendPA(t) \/ sendPAThrows(t) PROVE PDStored'
    BY <1>1, <1>s DEF sendPA, sendPAThrows
  <1>2. ASSUME NEW t \in Topics, NEW from \in {"pdReady", "pdTimer"}, NEW r, sendPD(t, from, r)
        PROVE  PDStored'
    <2>1. stage[t] \notin PDUnanswered /\ stage'[t] \in PDUnanswered
          /\ \A x \in Topics \ {t} : stage'[x] = stage[x]
      BY <1>2, <1>m DEF sendPD
    <2>2. /\ m_sequence'[t] = m_sequence[t] + 1
          /\ \A x \in Topics \ {t} : UNCHANGED m_sequence[x]
          /\ gPDMap' = gPDMap \cup {<<t, m_sequence[t]>>}
      BY <1>2, <1>t DEF sendPD
    <2>3. PDKey(t)' = <<t, m_sequence[t]>> /\ \A x \in Topics \ {t} : PDKey(x)' = PDKey(x)
      BY <2>2, <1>t DEF PDKey
    <2> QED BY <2>1, <2>2, <2>3, <1>d, <1>r
  <1>3. ASSUME NEW t \in Topics, sendPDThrows(t, "pdReady") \/ sendPDThrows(t, "pdTimer")
                                \/ sendPU(t) \/ sendPUThrows(t)
        PROVE  PDStored'
    <2>1. /\ stage[t] \in {"pdReady", "pdTimer", "puReady"}
          /\ stage'[t] \in {"pdLost", "puPending", "puLost"}
          /\ \A x \in Topics \ {t} : stage'[x] = stage[x]
      BY <1>3, <1>m DEF sendPDThrows, sendPU, sendPUThrows
    <2>2. UNCHANGED gPDMap /\ \A x \in Topics \ {t} : UNCHANGED m_sequence[x]
      BY <1>3, <1>t DEF sendPDThrows, sendPU, sendPUThrows
    <2> QED BY <2>1, <2>2, <1>k
  <1>4. ASSUME NEW t \in Topics, PDDataMore(t) \/ PDDataLast(t) PROVE PDStored'
    <2>1. /\ stage[t] \in PDUnanswered /\ stage'[t] \notin PDUnanswered
          /\ \A x \in Topics \ {t} : stage'[x] = stage[x]
      BY <1>4, <1>m DEF PDDataMore, PDDataLast
    <2>2. UNCHANGED m_sequence /\ gPDMap' = gPDMap \ {PDKey(t)}
      BY <1>4 DEF PDDataMore, PDDataLast
    <2>3. \A x \in Topics : PDKey(x)' = PDKey(x)
                            /\ (PDKey(x) = PDKey(t) => x = t)
      BY <2>2 DEF PDKey
    <2> QED BY <2>1, <2>2, <2>3, <1>d, <1>r
  <1>5. ASSUME NEW t \in Topics, PAData(t) \/ PUData(t) \/ Nacked(t) PROVE PDStored'
    BY <1>5, <1>s DEF PAData, PUData, Nacked, PANack, PDNack, PUNack
  <1>6. ASSUME NEW t \in Topics, PATimeout(t) \/ PDTimeout(t) \/ PUTimeout(t)
        PROVE  PDStored'
    BY <1>6, <1>s DEF PATimeout, PDTimeout, PUTimeout, onTimeout
  <1>7. CASE DurationExpires
    <2>1. /\ UNCHANGED <<m_sequence, gPDMap>>
          /\ \A x \in Topics : \/ stage'[x] = stage[x]
                               \/ stage[x] = "pdTimer" /\ stage'[x] = "pdCancelled"
      BY <1>7, <1>t DEF DurationExpires
    <2> QED BY <2>1, <1>k
  <1>8. CASE UNCHANGED <<stage, m_sequence, gPDMap>>
    BY <1>8, <1>k
  <1>9. ASSUME NEW t \in Topics,
               sendPU2(t) \/ Answered2(t) \/ PU2Timeout(t) \/ UsePUAfterFree(t)
        PROVE  PDStored'
    BY <1>9, <1>8 DEF sendPU2, Answered2, PU2Data, PU2Nack, PU2Timeout, UsePUAfterFree
  <1>10. CASE StartPA
    BY <1>10, <1>1, <1>8 DEF StartPA
  <1>11. CASE check_complete \/ signalHandler \/ Report \/ UNCHANGED vars
    BY <1>11, <1>8 DEF check_complete, signalHandler, Stop, Report, vars
  <1> QED BY <1>1, <1>2, <1>3, <1>4, <1>5, <1>6, <1>7, <1>9, <1>10, <1>11
          DEF Next, Scheduled, NextPA, FirstPD, NextPD, Answered, TimedOut

\* Of the topics whose PD was not nacked: no callback of a PD Interest finds its
\* delegator destroyed, and the delegator of an answered one is gone, whatever the
\* order of answers, timers, nacks and exceptions, before and after the Duration event.
THEOREM PDDelegatorsAreStored == Spec => []PDDelegatorsStored
  <1>1. Init => PDStored
    BY DEF Init, PDStored, In, Where, PDUnanswered, PDOpen
  <1>2. PDStored => PDDelegatorsStored
    <2>1. \A t, u \in Topics : PDKey(t) = PDKey(u) => t = u
      BY DEF PDKey
    <2> QED BY <2>1 DEF PDStored, PDDelegatorsStored, PDNackedKeys, In, Where,
                        PDUnanswered, PDOpen
  <1> QED BY <1>1, <1>2, PDStoredNext, TypeCorrect, PTL DEF Spec

\* gPUMap follows the stages as gPDMap does; until the Duration event nothing else
\* erases from it.
LEMMA PUStoredNext ==
    TypeOK /\ Delegators2Idle /\ PUStored /\ [Next]_vars => PUStored'
  <1> SUFFICES ASSUME TypeOK, Delegators2Idle, PUStored, [Next]_vars
               PROVE  PUStored'
    OBVIOUS
  <1> USE DEF process, PUOpen
  <1>t. stage \in [Topics -> Stages]
    BY DEF TypeOK
  <1>d. ~durationOver => gPUMap = {x \in Topics : stage[x] \in PUOpen \cup {"puNacked"}}
    BY DEF PUStored, In, Where
  <1>r. ASSUME ~durationOver' =>
                 gPUMap' = {x \in Topics : stage'[x] \in PUOpen \cup {"puNacked"}}
        PROVE  PUStored'
    BY <1>r DEF PUStored, In, Where
  <1>m. ASSUME NEW t \in Topics, NEW from, NEW to, Moves(t, from, to)
        PROVE  /\ stage[t] = from /\ stage'[t] = to
               /\ \A x \in Topics \ {t} : stage'[x] = stage[x]
    BY <1>m, <1>t DEF Moves
  <1>s. ASSUME NEW t \in Topics, NEW from, NEW to, Moves(t, from, to),
               UNCHANGED <<gPUMap, durationOver>>,
               to \in PUOpen \cup {"puNacked"} <=> from \in PUOpen \cup {"puNacked"}
        PROVE  PUStored'
    BY <1>s, <1>m, <1>d, <1>r
  <1>1. ASSUME NEW t \in Topics, sendPA(t) \/ sendPAThrows(t), UNCHANGED durationOver
        PROVE  PUStored'
    BY <1>1, <1>s DEF sendPA, sendPAThrows
  <1>2. ASSUME NEW t \in Topics,
               \/ sendPD(t, "pdReady", 0) \/ sendPD(t, "pdTimer", round[t])
               \/ sendPDThrows(t, "pdReady") \/ sendPDThrows(t, "pdTimer")
               \/ sendPUThrows(t)
        PROVE  PUStored'
    BY <1>2, <1>s DEF sendPD, sendPDThrows, sendPUThrows
  <1>3. ASSUME NEW t \in Topics, sendPU(t) PROVE PUStored'
    BY <1>3, <1>m, <1>d, <1>r DEF sendPU
  <1>4. ASSUME NEW t \in Topics, PUData(t) PROVE PUStored'
    BY <1>4, <1>m, <1>d, <1>r DEF PUData
  <1>5. ASSUME NEW t \in Topics, PAData(t) \/ PDDataMore(t) \/ PDDataLast(t) \/ Nacked(t)
        PROVE  PUStored'
    BY <1>5, <1>s DEF PAData, PDDataMore, PDDataLast, Nacked, PANack, PDNack, PUNack
  <1>6. ASSUME NEW t \in Topics, PATimeout(t) \/ PDTimeout(t) \/ PUTimeout(t)
        PROVE  PUStored'
    BY <1>6, <1>s DEF PATimeout, PDTimeout, PUTimeout, onTimeout
  <1>7. ASSUME NEW t \in Topics, Answered2(t) \/ PU2Timeout(t) \/ sendPU2(t)
        PROVE  durationOver'
    BY <1>7 DEF Answered2, PU2Data, PU2Nack, PU2Timeout, sendPU2, Moves2, Delegators2Idle
  <1>8. CASE UNCHANGED <<stage, gPUMap, durationOver>>
    BY <1>8, <1>d, <1>r
  <1>9. CASE durationOver'
    BY <1>9, <1>r
  <1>10. CASE StartPA
    BY <1>10, <1>1, <1>8 DEF StartPA
  <1>11. CASE DurationExpires
    BY <1>11, <1>9 DEF DurationExpires
  <1>12. CASE check_complete \/ signalHandler \/ Report \/ UNCHANGED vars
    BY <1>12, <1>8 DEF check_complete, signalHandler, Stop, Report, vars
  <1>13. ASSUME NEW t \in Topics, UsePUAfterFree(t) PROVE PUStored'
    BY <1>13, <1>8 DEF UsePUAfterFree
  <1> QED BY <1>1, <1>2, <1>3, <1>4, <1>5, <1>6, <1>7, <1>9, <1>10, <1>11, <1>12, <1>13
          DEF Next, Scheduled, NextPA, FirstPD, NextPD, Answered, TimedOut

\* The same of gPUMap in a process whose Duration is not over: until then no callback
\* of a PU Interest that was not nacked runs on a destroyed delegator.
THEOREM PUDelegatorsAreStored == Spec => []PUDelegatorsStored
  <1>1. Init => PUStored
    BY DEF Init, PUStored, In, Where, PUOpen
  <1>2. PUStored => PUDelegatorsStored
    BY DEF PUStored, PUDelegatorsStored, In, Where, PUOpen
  <1> QED BY <1>1, <1>2, PUStoredNext, TypeCorrect, IdleCorrect, PTL DEF Spec

---------------------------------------------------------------------------
(* The publisher implements PublishLifecycle when it runs by rounds, and   *)
(* its report finds data to average over.                                  *)


(***************************************************************************)
(* The report.                                                             *)
(***************************************************************************)

\* Every publication that was acknowledged has been counted.
DataCounted == \A t \in Topics : 0 < Acked(t) => 0 < gStatPD.data

LEMMA DataNext == TypeOK /\ ChainRounds /\ DataCounted /\ [Next]_vars => DataCounted'
  <1> SUFFICES ASSUME TypeOK, ChainRounds, DataCounted, [Next]_vars PROVE DataCounted'
    OBVIOUS
  <1>t. /\ stage \in [Topics -> Stages] /\ round \in [Topics -> Nat]
        /\ gStatPD \in Statistic /\ gStatPD.data \in Nat
    BY DEF TypeOK, Statistic
  <1> USE DEF PDUnanswered, PDOpen
  <1>m. ASSUME NEW t \in Topics, NEW from, NEW to, Moves(t, from, to)
        PROVE  /\ stage[t] = from /\ stage'[t] = to
               /\ \A x \in Topics \ {t} : stage'[x] = stage[x]
    BY <1>m, <1>t DEF Moves
  <1>k. ASSUME \A x \in Topics : 0 < Acked(x)' => 0 < Acked(x),
               gStatPD'.data = gStatPD.data
        PROVE  DataCounted'
    BY <1>k DEF DataCounted
  <1>s. ASSUME NEW t \in Topics, NEW from, NEW to, Moves(t, from, to),
               UNCHANGED round, gStatPD'.data = gStatPD.data,
               from \in PDUnanswered => to \in PDUnanswered
        PROVE  DataCounted'
    BY <1>s, <1>m, <1>k, <1>t DEF Acked
  <1>c. ASSUME NEW s \in Statistic, NEW n \in Nat
        PROVE  /\ increase_interest(s, 1).data = s.data
               /\ increase_interest(increase_timeout(s), 1).data = s.data
               /\ increase_nack(s).data = s.data
               /\ increase_topic(s, 1).data = s.data
               /\ decrease_topic(s, n).data = s.data
               /\ increase_data(s).data = s.data + 1
               /\ decrease_topic(increase_data(s), 1).data = s.data + 1
    BY DEF Statistic, increase_interest, increase_timeout, increase_nack, increase_topic,
           decrease_topic, increase_data
  <1>1. ASSUME NEW t \in Topics, sendPA(t) \/ sendPAThrows(t) PROVE DataCounted'
    BY <1>1, <1>s DEF sendPA, sendPAThrows, stats
  <1>2. ASSUME NEW t \in Topics,
               sendPD(t, "pdReady", 0) \/ sendPD(t, "pdTimer", round[t])
        PROVE  DataCounted'
    <2>1. \A x \in Topics \ {t} : Acked(x)' = Acked(x)
      BY <1>2, <1>m, <1>t DEF sendPD, Acked
    <2>2. round'[t] = round[t] + 1 /\ stage[t] \notin PDUnanswered /\ stage'[t] \in PDUnanswered
      BY <1>2, <1>m, <1>t DEF sendPD, ChainRounds, ChainRound
    <2>3. Acked(t)' = Acked(t)
      BY <2>2, <1>t DEF Acked
    <2> QED BY <1>2, <2>1, <2>3, <1>k, <1>c, <1>t DEF sendPD
  <1>3. ASSUME NEW t \in Topics, sendPDThrows(t, "pdReady") \/ sendPDThrows(t, "pdTimer")
                                \/ sendPU(t) \/ sendPUThrows(t)
        PROVE  DataCounted'
    BY <1>3, <1>s DEF sendPDThrows, sendPU, sendPUThrows, stats
  <1>4. ASSUME NEW t \in Topics, PDDataMore(t) \/ PDDataLast(t) PROVE DataCounted'
    <2>1. gStatPD'.data = gStatPD.data + 1
      BY <1>4, <1>c, <1>t DEF PDDataMore, PDDataLast
    <2> QED BY <2>1, <1>t DEF DataCounted
  <1>5. ASSUME NEW t \in Topics, PAData(t) \/ PUData(t) \/ Nacked(t) PROVE DataCounted'
    BY <1>5, <1>s, <1>c, <1>t DEF PAData, PUData, Nacked, PANack, PDNack, PUNack
  <1>6. ASSUME NEW t \in Topics, PATimeout(t) \/ PDTimeout(t) \/ PUTimeout(t)
        PROVE  DataCounted'
    BY <1>6, <1>s, <1>c, <1>t DEF PATimeout, PDTimeout, PUTimeout, onTimeout
  <1>7. CASE DurationExpires
    <2>1. \A x \in Topics : Acked(x)' = Acked(x)
      BY <1>7, <1>t DEF DurationExpires, Acked
    <2>2. gStatPD'.data = gStatPD.data
      BY <1>7, <1>c, <1>t, TopicsCounted DEF DurationExpires
    <2> QED BY <2>1, <2>2, <1>k
  <1>8. CASE UNCHANGED <<stage, round, gStatPD>>
    BY <1>8, <1>k DEF Acked
  <1>9. ASSUME NEW t \in Topics,
               sendPU2(t) \/ Answered2(t) \/ PU2Timeout(t) \/ UsePUAfterFree(t)
        PROVE  DataCounted'
    BY <1>9, <1>8 DEF sendPU2, Answered2, PU2Data, PU2Nack, PU2Timeout, UsePUAfterFree, stats
  <1>10. CASE StartPA
    BY <1>10, <1>1, <1>8 DEF StartPA, stats
  <1>11. CASE check_complete \/ signalHandler \/ Report \/ UNCHANGED vars
    BY <1>11, <1>8 DEF check_complete, signalHandler, Stop, Report, vars, stats
  <1> QED BY <1>1, <1>2, <1>3, <1>4, <1>5, <1>6, <1>7, <1>9, <1>10, <1>11
          DEF Next, Scheduled, NextPA, FirstPD, NextPD, Answered, TimedOut

\* A process that check_complete stopped before its Duration divides by zero in its
\* report only when no advertisement was accepted: a topic that has finished has
\* had at least one publication acknowledged, and counted.
THEOREM ReportsData == Spec => []ReportHasData
  <1>1. Init => DataCounted /\ ReportHasData
    BY ConfigAssumption DEF Init, DataCounted, Acked, ReportHasData
  <1>2. /\ TypeOK /\ ChainRounds /\ DataCounted /\ CompletesQuiet /\ NotStopped
        /\ ReportHasData /\ [Next]_vars
        => ReportHasData'
    <2> SUFFICES ASSUME TypeOK, ChainRounds, DataCounted, CompletesQuiet, NotStopped,
                        ReportHasData, [Next]_vars
                 PROVE  ReportHasData'
      OBVIOUS
    <2>1. CASE Report
      <3> SUFFICES ASSUME gStatPD.data = 0, stopCause = "complete", ~durationOver,
                          NEW t \in Topics
                   PROVE  stage[t] # "done"
        BY <2>1 DEF Report, ReportHasData, CompletesQuiet
      <3> QED BY LastRoundType
              DEF DataCounted, Acked, ChainRounds, ChainRound, PDUnanswered, PDOpen
    <2>2. CASE phase' # "divideByZero"
      BY <2>2 DEF ReportHasData
    <2>3. CASE UNCHANGED vars
      BY <2>3 DEF vars, ReportHasData
    <2> QED BY <2>1, <2>2, <2>3, StepKinds
            DEF check_complete, signalHandler, Stop
  <1> QED BY <1>1, <1>2, DataNext, TypeCorrect, RoundsCorrect, CompletionQuiet,
             NotStoppedCorrect, PTL DEF Spec

(***************************************************************************)
(* The refinement.  The lifecycle's variables, as VirtualDevice gives them. *)
(***************************************************************************)
statusBar    == [t \in Topics |-> StatusOf[stage[t]]]
publishedBar == [t \in Topics |-> Acked(t)]

\* A callback of a running process takes its topic from the status of one stage to
\* that of another.
LEMMA StatusMoved ==
    ASSUME TypeOK, NotStopped, UNCHANGED stopCause,
           NEW t \in Topics, NEW from, NEW to, Moves(t, from, to)
    PROVE  Lifecycle!Becomes(t, StatusOf[from], StatusOf[to])
  <1>1. /\ stage \in [Topics -> Stages] /\ stage[t] = from
        /\ stage' = [stage EXCEPT ![t] = to] /\ phase = "running"
    BY DEF TypeOK, Moves
  <1>2. EndOf[stopCause] = "no" /\ UNCHANGED EndOf[stopCause]
    BY <1>1 DEF NotStopped, EndOf
  <1>3. statusBar[t] = StatusOf[from] /\ statusBar' = [statusBar EXCEPT ![t] = StatusOf[to]]
    BY <1>1 DEF statusBar
  <1> QED BY <1>2, <1>3 DEF Lifecycle!Becomes, statusBar

\* The callback leaves the count of acknowledged publications alone, unless it
\* is the Data of a PD.
LEMMA PublishedKept ==
    ASSUME TypeOK, UNCHANGED round, NEW t \in Topics, NEW from, NEW to, Moves(t, from, to),
           from \in PDUnanswered <=> to \in PDUnanswered
    PROVE  publishedBar' = publishedBar
  <1>1. stage \in [Topics -> Stages] /\ stage[t] = from /\ stage' = [stage EXCEPT ![t] = to]
    BY DEF TypeOK, Moves
  <1>2. \A x \in Topics : Acked(x)' = Acked(x)
    BY <1>1 DEF Acked
  <1> QED BY <1>2 DEF publishedBar

LEMMA PublishedMore ==
    ASSUME TypeOK, ChainRounds, UNCHANGED round, NEW t \in Topics, NEW to,
           Moves(t, "pdPending", to), to \notin PDUnanswered
    PROVE  /\ publishedBar' = [publishedBar EXCEPT ![t] = publishedBar[t] + 1]
           /\ publishedBar[t] + 1 = round[t]
  <1>1. /\ stage \in [Topics -> Stages] /\ stage[t] = "pdPending"
        /\ stage' = [stage EXCEPT ![t] = to] /\ round \in [Topics -> Nat]
    BY DEF TypeOK, Moves
  <1>2. \A x \in Topics \ {t} : Acked(x)' = Acked(x)
    BY <1>1 DEF Acked
  <1>3. Acked(t)' = Acked(t) + 1 /\ Acked(t) + 1 = round[t]
    BY <1>1 DEF Acked, PDUnanswered, PDOpen
  <1> QED BY <1>2, <1>3 DEF publishedBar

\* Nothing but the Duration event sets durationOver.
LEMMA OnlyDurationExpires ==
    ASSUME [Next]_vars, ~DurationExpires
    PROVE  UNCHANGED durationOver
  <1> USE DEF process
  <1>1. ASSUME NEW t \in Topics, Scheduled(t) \/ Answered(t) \/ Answered2(t)
        PROVE  UNCHANGED durationOver
    BY <1>1 DEF Scheduled, NextPA, FirstPD, NextPD, sendPD, sendPDThrows, sendPU,
                sendPUThrows, sendPU2, Answered, PAData, PDDataMore, PDDataLast, PUData,
                Answered2, PU2Data, PU2Nack
  <1>2. ASSUME NEW t \in Topics, Nacked(t) \/ TimedOut(t) \/ UsePUAfterFree(t)
        PROVE  UNCHANGED durationOver
    BY <1>2 DEF Nacked, PANack, PDNack, PUNack, TimedOut, PATimeout, PDTimeout, PUTimeout,
                PU2Timeout, UsePUAfterFree
  <1>3. CASE StartPA \/ check_complete \/ signalHandler \/ Report \/ UNCHANGED vars
    BY <1>3 DEF StartPA, check_complete, signalHandler, Stop, Report, vars
  <1> QED BY <1>1, <1>2, <1>3 DEF Next

\* Every step of the publisher is a step of the lifecycle or changes nothing in it.
LEMMA LifecycleStep ==
    ASSUME TypeOK, ChainRounds, NotStopped, InterestAccounting, TopicAccounting,
           ~durationOver, HasDuration = FALSE, [Next]_vars
    PROVE  [Lifecycle!LifecycleNext]_<<statusBar, publishedBar, EndOf[stopCause]>>
  <1> USE DEF process, PDUnanswered, PDOpen
  <1>t. /\ stage \in [Topics -> Stages] /\ round \in [Topics -> Nat]
    BY DEF TypeOK
  <1>n. ASSUME NEW t \in Topics,
               \/ Lifecycle!Advertise(t) \/ Lifecycle!Accept(t) \/ Lifecycle!Refuse(t)
               \/ Lifecycle!Finish(t) \/ Lifecycle!Publish(t) \/ Lifecycle!PublishLast(t)
               \/ Lifecycle!GetStuck(t)
        PROVE  Lifecycle!LifecycleNext
    BY <1>n DEF Lifecycle!LifecycleNext
  <1>k. ASSUME NEW t \in Topics, NEW from, NEW to, Moves(t, from, to),
               UNCHANGED <<round, stopCause>>, StatusOf[from] = StatusOf[to],
               from \in PDUnanswered <=> to \in PDUnanswered
        PROVE  UNCHANGED <<statusBar, publishedBar, EndOf[stopCause]>>
    <2>1. publishedBar' = publishedBar
      BY <1>k, PublishedKept
    <2>2. /\ stage[t] = from /\ stage' = [stage EXCEPT ![t] = to]
      BY <1>k DEF Moves
    <2>3. statusBar' = statusBar
      BY <2>2, <1>t, <1>k DEF statusBar
    <2> QED BY <1>k, <2>1, <2>3
  <1>g. ASSUME NEW t \in Topics, NEW from, NEW to, Moves(t, from, to),
               UNCHANGED <<round, stopCause>>,
               from \in PDUnanswered <=> to \in PDUnanswered
        PROVE  /\ Lifecycle!Becomes(t, StatusOf[from], StatusOf[to])
               /\ UNCHANGED publishedBar
    BY <1>g, StatusMoved, PublishedKept
  <1>1. ASSUME NEW t \in Topics, sendPA(t) \/ sendPAThrows(t), UNCHANGED stopCause
        PROVE  Lifecycle!LifecycleNext
    <2>1. CASE sendPA(t)
      BY <2>1, <1>1, <1>g, <1>n DEF sendPA, StatusOf, Lifecycle!Advertise, publishedBar
    <2>2. CASE sendPAThrows(t)
      BY <2>2, <1>1, <1>g, <1>n DEF sendPAThrows, StatusOf, Lifecycle!Refuse, publishedBar
    <2> QED BY <1>1, <2>1, <2>2
  <1>2. ASSUME NEW t \in Topics,
               sendPD(t, "pdReady", 0) \/ sendPD(t, "pdTimer", round[t])
        PROVE  UNCHANGED <<statusBar, publishedBar, EndOf[stopCause]>>
    <2>1. PICK from \in {"pdReady", "pdTimer"} :
             /\ stage[t] = from /\ stage' = [stage EXCEPT ![t] = "pdPending"]
             /\ UNCHANGED stopCause
             /\ round' = [round EXCEPT ![t] = round[t] + 1]
      BY <1>2, <1>t DEF sendPD, Moves, ChainRounds, ChainRound
    <2>2. \A x \in Topics : Acked(x)' = Acked(x)
      BY <2>1, <1>t DEF Acked
    <2>3. \A x \in Topics : StatusOf[stage[x]]' = StatusOf[stage[x]]
      BY <2>1, <1>t DEF StatusOf
    <2> QED BY <2>1, <2>2, <2>3 DEF statusBar, publishedBar
  <1>3. ASSUME NEW t \in Topics, sendPDThrows(t, "pdReady") \/ sendPDThrows(t, "pdTimer")
                                 \/ sendPUThrows(t)
        PROVE  Lifecycle!LifecycleNext
    BY <1>3, <1>g, <1>n
    DEF sendPDThrows, sendPUThrows, StatusOf, Lifecycle!GetStuck, publishedBar
  <1>4. ASSUME NEW t \in Topics, sendPU(t)
        PROVE  UNCHANGED <<statusBar, publishedBar, EndOf[stopCause]>>
    BY <1>4, <1>k DEF sendPU, StatusOf
  <1>5. ASSUME NEW t \in Topics, PAData(t) \/ PUData(t) PROVE Lifecycle!LifecycleNext
    <2>1. CASE PAData(t)
      BY <2>1, <1>g, <1>n DEF PAData, StatusOf, Lifecycle!Accept, publishedBar
    <2>2. CASE PUData(t)
      BY <2>2, <1>g, <1>n DEF PUData, StatusOf, Lifecycle!Finish, publishedBar
    <2> QED BY <1>5, <2>1, <2>2
  <1>6. ASSUME NEW t \in Topics, PDDataMore(t) PROVE Lifecycle!LifecycleNext
    <2>1. /\ Moves(t, "pdPending", "pdTimer") /\ round[t] < Round
          /\ UNCHANGED <<round, stopCause>>
      BY <1>6 DEF PDDataMore, MoreRounds
    <2>2. Lifecycle!Becomes(t, "publishing", "publishing")
      BY <2>1, StatusMoved DEF StatusOf
    <2>3. /\ publishedBar' = [publishedBar EXCEPT ![t] = publishedBar[t] + 1]
          /\ publishedBar[t] + 1 < LastRound
      BY <2>1, PublishedMore, LastRoundType, ConfigAssumption, <1>t
    <2> QED BY <2>2, <2>3, <1>n DEF Lifecycle!Publish, publishedBar
  <1>7. ASSUME NEW t \in Topics, PDDataLast(t) PROVE Lifecycle!LifecycleNext
    <2>1. /\ Moves(t, "pdPending", "puReady") /\ ~(round[t] < Round)
          /\ UNCHANGED <<round, stopCause>>
      BY <1>7 DEF PDDataLast, MoreRounds
    <2>2. Lifecycle!Becomes(t, "publishing", "withdrawing")
      BY <2>1, StatusMoved DEF StatusOf
    <2>3. round[t] = LastRound
      BY <2>1, ConfigAssumption, <1>t DEF Moves, ChainRounds, ChainRound, LastRound
    <2>4. /\ publishedBar' = [publishedBar EXCEPT ![t] = publishedBar[t] + 1]
          /\ publishedBar[t] + 1 = LastRound
      BY <2>1, <2>3, PublishedMore
    <2> QED BY <2>2, <2>4, <1>n DEF Lifecycle!PublishLast, publishedBar
  <1>8. ASSUME NEW t \in Topics, Nacked(t) PROVE Lifecycle!LifecycleNext
    <2>1. CASE PANack(t)
      BY <2>1, <1>g, <1>n DEF PANack, StatusOf, Lifecycle!Refuse, publishedBar
    <2>2. CASE PDNack(t) \/ PUNack(t)
      BY <2>2, <1>g, <1>n DEF PDNack, PUNack, StatusOf, Lifecycle!GetStuck, publishedBar
    <2> QED BY <1>8, <2>1, <2>2 DEF Nacked
  <1>9. ASSUME NEW t \in Topics, PATimeout(t) \/ PDTimeout(t) \/ PUTimeout(t)
        PROVE  \/ UNCHANGED <<statusBar, publishedBar, EndOf[stopCause]>>
               \/ Lifecycle!LifecycleNext
    <2>1. UNCHANGED <<round, stopCause>>
      BY <1>9 DEF PATimeout, PDTimeout, PUTimeout
    <2>2. CASE \/ Moves(t, "paPending", "paPending") \/ Moves(t, "pdPending", "pdPending")
               \/ Moves(t, "puPending", "puPending")
      BY <2>1, <2>2, <1>k
    <2>3. CASE \/ Moves(t, "paPending", "paStranded") \/ Moves(t, "pdPending", "pdStranded")
               \/ Moves(t, "puPending", "puStranded")
      BY <2>1, <2>3, <1>g, <1>n DEF StatusOf, Lifecycle!GetStuck, publishedBar
    <2> QED BY <1>9, <2>2, <2>3 DEF PATimeout, PDTimeout, PUTimeout, onTimeout
  <1>10. CASE check_complete
    <2>1. AllComplete /\ phase = "running" /\ UNCHANGED <<stage, round>>
          /\ stopCause' = "complete"
      BY <1>10 DEF check_complete, Stop
    <2>2. \A t \in Topics : stage[t] \in {"paUnsent", "paNacked", "paLost", "done"}
      BY <2>1, <1>t, CompleteMeansAnswered DEF Stages, PAStages, PAOpen
    <2>3. \A t \in Topics : statusBar[t] \in {"unadvertised", "refused", "finished"}
      BY <2>2 DEF statusBar, StatusOf
    <2>4. EndOf[stopCause] = "no" /\ EndOf[stopCause'] = "complete"
      BY <2>1 DEF NotStopped, EndOf
    <2>5. UNCHANGED <<statusBar, publishedBar>>
      BY <2>1 DEF statusBar, publishedBar, Acked
    <2> QED BY <2>3, <2>4, <2>5
            DEF Lifecycle!LifecycleNext, Lifecycle!Complete, statusBar, publishedBar
  <1>11. CASE signalHandler
    <2>1. phase = "running" /\ UNCHANGED <<stage, round>> /\ stopCause' = "signal"
      BY <1>11 DEF signalHandler, Stop
    <2>2. EndOf[stopCause] = "no" /\ EndOf[stopCause'] = "interrupted"
      BY <2>1 DEF NotStopped, EndOf
    <2>3. UNCHANGED <<statusBar, publishedBar>>
      BY <2>1 DEF statusBar, publishedBar, Acked
    <2> QED BY <2>2, <2>3
            DEF Lifecycle!LifecycleNext, Lifecycle!Interrupt, statusBar, publishedBar
  <1>12. CASE UNCHANGED <<stage, round, stopCause>>
    BY <1>12 DEF statusBar, publishedBar, Acked
  <1>13. ASSUME NEW t \in Topics,
                sendPU2(t) \/ Answered2(t) \/ PU2Timeout(t) \/ UsePUAfterFree(t)
         PROVE  UNCHANGED <<stage, round, stopCause>>
    BY <1>13 DEF sendPU2, Answered2, PU2Data, PU2Nack, PU2Timeout, UsePUAfterFree
  <1>14. CASE StartPA
    BY <1>14, <1>1, <1>12 DEF StartPA
  <1>15. CASE Report \/ UNCHANGED vars
    BY <1>15, <1>12 DEF Report, vars
  <1>16. ~DurationExpires
    BY DEF DurationExpires
  <1> QED BY <1>1, <1>2, <1>3, <1>4, <1>5, <1>6, <1>7, <1>8, <1>9, <1>10, <1>11, <1>12,
             <1>13, <1>14, <1>15, <1>16
          DEF Next, Scheduled, NextPA, FirstPD, NextPD, Answered, TimedOut

\* Run by rounds, the publisher keeps the promise of PublishLifecycle for any number
\* of topics and rounds: each topic publishes Readings data in turn before it is
\* withdrawn, and the process ends by itself only when no topic is under way.
THEOREM DeviceImplementsLifecycle ==
    ASSUME HasDuration = FALSE
    PROVE  Spec => ImplementsLifecycle
  <1>1. Init => ~durationOver
    BY DEF Init
  <1>2. ~durationOver /\ [Next]_vars => ~durationOver'
    BY OnlyDurationExpires DEF DurationExpires
  <1>3. Init => Lifecycle!LifecycleInit
    BY DEF Init, Lifecycle!LifecycleInit, StatusOf, EndOf, Acked, PDUnanswered, PDOpen
  <1>4. /\ TypeOK /\ ChainRounds /\ NotStopped /\ InterestAccounting /\ TopicAccounting
        /\ ~durationOver /\ [Next]_vars
        => [Lifecycle!LifecycleNext]_(Lifecycle!lifecycleVars)
    BY LifecycleStep DEF Lifecycle!lifecycleVars, statusBar, publishedBar
  <1> QED BY <1>1, <1>2, <1>3, <1>4, TypeCorrect, RoundsCorrect, NotStoppedCorrect,
             InterestsAccounted, TopicsAccounted, PTL
          DEF Spec, ImplementsLifecycle, Lifecycle!LifecycleSpec
=============================================================================
