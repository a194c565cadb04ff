---------------------------- MODULE SubPerfProofs ----------------------------
(***************************************************************************)
(* Theorems about SubPerf, for every choice of tests, topics, rounds,      *)
(* nacks, exceptions and width of int.                                     *)
(***************************************************************************)
EXTENDS SubPerf, StatisticsProofs

(***************************************************************************)
(* What a step does to one request and its Statistic.                      *)
(***************************************************************************)
Moves(k, t, to, s) ==
    /\ stage' = [stage EXCEPT ![<<k, t>>] = to]
    /\ gStat' = [gStat EXCEPT ![k] = s]

Sends(k, t, to, s) ==
    /\ stage[<<k, t>>] \in {"unsent", "waiting"}
    /\ \/ to = "pending" /\ s = increase_interest(gStat[k], 1)
       \/ to \in {"lost", "dropped"} /\ s = gStat[k]

TimesOut(k, t, to, s) ==
    /\ stage[<<k, t>>] = "pending"
    /\ \/ to = "pending" /\ s = increase_interest(increase_timeout(gStat[k]), 1)
       \/ to = "dropped" /\ s = increase_timeout(gStat[k])

Continues(k, t, to, s) ==
    stage[<<k, t>>] = "pending" /\ to = "waiting" /\ s = increase_data(gStat[k])

Finishes(k, t, to, s) ==
    /\ stage[<<k, t>>] = "pending"
    /\ \/ to = "done" /\ s = decrease_topic(increase_data(gStat[k]), 1)
       \/ to = "nacked" /\ s = decrease_topic(increase_nack(gStat[k]), 1)

Changes(k, t, to, s) ==
    /\ Moves(k, t, to, s)
    /\ Sends(k, t, to, s) \/ TimesOut(k, t, to, s) \/ Continues(k, t, to, s)
          \/ Finishes(k, t, to, s)

RequestChanges ==
    \E k \in Tests, t \in Topics, to \in Stages : \E s : Changes(k, t, to, s)

\* expressInterest, called by a send or by the handler of a timeout.
LEMMA ExpressChanges ==
    ASSUME NEW k \in Tests, NEW t \in Topics, NEW s, NEW failed \in {"lost", "dropped"},
           Express(k, t, s, failed),
           \/ stage[<<k, t>>] \in {"unsent", "waiting"} /\ s = gStat[k]
           \/ /\ stage[<<k, t>>] = "pending" /\ failed = "dropped"
              /\ s = increase_timeout(gStat[k])
    PROVE  RequestChanges
  <1>1. CASE /\ stage' = [stage EXCEPT ![<<k, t>>] = "pending"]
             /\ gStat' = [gStat EXCEPT ![k] = increase_interest(s, 1)]
    <2>1. Moves(k, t, "pending", increase_interest(s, 1))
      BY <1>1 DEF Moves
    <2>2. \/ Sends(k, t, "pending", increase_interest(s, 1))
          \/ TimesOut(k, t, "pending", increase_interest(s, 1))
      BY DEF Sends, TimesOut
    <2> QED BY <2>1, <2>2 DEF Changes, RequestChanges, Stages
  <1>2. CASE /\ stage' = [stage EXCEPT ![<<k, t>>] = failed]
             /\ gStat' = [gStat EXCEPT ![k] = s]
    <2>1. Moves(k, t, failed, s)
      BY <1>2 DEF Moves
    <2>2. Sends(k, t, failed, s) \/ TimesOut(k, t, failed, s)
      BY DEF Sends, TimesOut
    <2> QED BY <2>1, <2>2 DEF Changes, RequestChanges, Stages
  <1> QED BY <1>1, <1>2 DEF Express

LEMMA AnswerChanges ==
    ASSUME NEW k \in Tests, NEW t \in Topics, NEW to \in Stages, NEW s, Answer(k, t, to, s),
           Continues(k, t, to, s) \/ Finishes(k, t, to, s)
    PROVE  RequestChanges
  BY DEF Answer, Moves, Changes, RequestChanges

\* The steps of an ST or SM request.
LEMMA RequestStepChanges ==
    ASSUME NEW k \in Tests, NEW t \in Topics, RequestStep(k, t)
    PROVE  RequestChanges
  <1>1. CASE RequestData(k, t)
    <2>1. Answer(k, t, "done", decrease_topic(increase_data(gStat[k]), 1))
      BY <1>1 DEF RequestData
    <2>2. Finishes(k, t, "done", decrease_topic(increase_data(gStat[k]), 1))
      BY <2>1 DEF Answer, Finishes
    <2> QED BY <2>1, <2>2, AnswerChanges DEF Stages
  <1>2. CASE RequestNack(k, t)
    <2>1. Answer(k, t, "nacked", decrease_topic(increase_nack(gStat[k]), 1))
      BY <1>2 DEF RequestNack
    <2>2. Finishes(k, t, "nacked", decrease_topic(increase_nack(gStat[k]), 1))
      BY <2>1 DEF Answer, Finishes
    <2> QED BY <2>1, <2>2, AnswerChanges DEF Stages
  <1>3. CASE RequestTimeout(k, t)
    <2>1. stage[<<k, t>>] = "pending"
      BY <1>3 DEF RequestTimeout
    <2>2. CASE Express(k, t, increase_timeout(gStat[k]), "dropped")
      BY <2>1, <2>2, ExpressChanges
    <2>3. CASE /\ stage' = [stage EXCEPT ![<<k, t>>] = "dropped"]
               /\ gStat' = [gStat EXCEPT ![k] = increase_timeout(@)]
      <3>1. Moves(k, t, "dropped", increase_timeout(gStat[k]))
        BY <2>3 DEF Moves
      <3>2. TimesOut(k, t, "dropped", increase_timeout(gStat[k]))
        BY <2>1 DEF TimesOut
      <3> QED BY <3>1, <3>2 DEF Changes, RequestChanges, Stages
    <2> QED BY <1>3, <2>2, <2>3 DEF RequestTimeout
  <1> QED BY <1>1, <1>2, <1>3 DEF RequestStep

\* The steps of an SD request.
LEMMA SDStepChanges ==
    ASSUME "SD" \in Tests, NEW t \in Topics, SDStep(t)
    PROVE  RequestChanges
  <1>1. CASE sendSD(t)
    <2>1. stage[<<"SD", t>>] = "unsent" /\ Express("SD", t, gStat["SD"], "lost")
      BY <1>1 DEF sendSD, NextOfList
    <2> QED BY <2>1, ExpressChanges
  <1>2. CASE NextRound(t)
    <2>1. stage[<<"SD", t>>] = "waiting" /\ Express("SD", t, gStat["SD"], "dropped")
      BY <1>2 DEF NextRound
    <2> QED BY <2>1, ExpressChanges
  <1>3. CASE SDDataMore(t)
    <2>1. Answer("SD", t, "waiting", increase_data(gStat["SD"]))
      BY <1>3 DEF SDDataMore
    <2>2. Continues("SD", t, "waiting", increase_data(gStat["SD"]))
      BY <2>1 DEF Answer, Continues
    <2> QED BY <2>1, <2>2, AnswerChanges DEF Stages
  <1>4. CASE SDDataLast(t)
    <2>1. Answer("SD", t, "done", decrease_topic(increase_data(gStat["SD"]), 1))
      BY <1>4 DEF SDDataLast
    <2>2. Finishes("SD", t, "done", decrease_topic(increase_data(gStat["SD"]), 1))
      BY <2>1 DEF Answer, Finishes
    <2> QED BY <2>1, <2>2, AnswerChanges DEF Stages
  <1>5. CASE SDNack(t)
    <2>1. Answer("SD", t, "nacked", decrease_topic(increase_nack(gStat["SD"]), 1))
      BY <1>5 DEF SDNack
    <2>2. Finishes("SD", t, "nacked", decrease_topic(increase_nack(gStat["SD"]), 1))
      BY <2>1 DEF Answer, Finishes
    <2> QED BY <2>1, <2>2, AnswerChanges DEF Stages
  <1>6. CASE SDTimeout(t)
    <2>1. /\ stage[<<"SD", t>>] = "pending"
          /\ Express("SD", t, increase_timeout(gStat["SD"]), "dropped")
      BY <1>6 DEF SDTimeout
    <2> QED BY <2>1, ExpressChanges
  <1> QED BY <1>1, <1>2, <1>3, <1>4, <1>5, <1>6 DEF SDStep

LEMMA StepChanges ==
    ASSUME Next
    PROVE  check_complete \/ Stop \/ (RequestChanges /\ UNCHANGED stopped)
  <1>1. ASSUME NEW k \in Tests, NEW t \in Topics,
               \/ k = "ST" /\ sendST(t)
               \/ k = "SM" /\ sendSM(t)
        PROVE  RequestChanges /\ UNCHANGED stopped
    <2>1. /\ stage[<<k, t>>] = "unsent" /\ Express(k, t, gStat[k], "lost")
          /\ UNCHANGED stopped
      BY <1>1 DEF sendST, sendSM, NextOfList
    <2> QED BY <2>1, ExpressChanges
  <1>2. ASSUME NEW k \in Tests, NEW t \in Topics, RequestStep(k, t)
        PROVE  RequestChanges /\ UNCHANGED stopped
    <2>1. UNCHANGED stopped
      BY <1>2 DEF RequestStep, RequestData, RequestNack, RequestTimeout, Answer
    <2> QED BY <1>2, <2>1, RequestStepChanges
  <1>3. ASSUME "SD" \in Tests, NEW t \in Topics, SDStep(t)
        PROVE  RequestChanges /\ UNCHANGED stopped
    <2>1. UNCHANGED stopped
      BY <1>3 DEF SDStep, sendSD, NextOfList, NextRound, SDDataMore, SDDataLast, SDNack,
                  SDTimeout, Answer
    <2> QED BY <1>3, <2>1, SDStepChanges
  <1> QED BY <1>1, <1>2, <1>3 DEF Next

(***************************************************************************)
(* The counters.                                                           *)
(***************************************************************************)
Typed  == stage \in [Requests -> Stages] /\ gStat \in [Kinds -> Statistic]
Counts == Typed /\ InterestAccounting /\ TopicAccounting

\* A topic that has not come to its end is in m_topic.
LEMMA OpenCounted ==
    ASSUME Counts, NEW k \in Tests, NEW t \in Open(k)
    PROVE  /\ gStat[k] \in Statistic
           /\ gStat[k].topic \in 1 .. MaxU64
  <1>1. gStat[k] \in Statistic
    BY SubPerfAssumption DEF Counts, Typed
  <1>2. gStat[k].topic \in 0 .. MaxU64
    BY <1>1 DEF Statistic
  <1>3. IsFiniteSet(Open(k))
    BY SubPerfAssumption, FS_Subset DEF Open
  <1>4. Cardinality(Open(k)) # 0
    BY <1>3, FS_EmptySet
  <1>5. gStat[k].topic = Cardinality(Open(k))
    BY DEF Counts, TopicAccounting
  <1> QED BY <1>1, <1>2, <1>4, <1>5, MaxU64Assumption

\* What a step does to the two counts of a Statistic.
LEMMA StatisticChange ==
    ASSUME NEW s \in Statistic
    PROVE  /\ increase_interest(s, 1) \in Statistic
           /\ increase_timeout(s) \in Statistic
           /\ increase_interest(increase_timeout(s), 1) \in Statistic
           /\ increase_data(s) \in Statistic
           /\ decrease_topic(increase_data(s), 1) \in Statistic
           /\ decrease_topic(increase_nack(s), 1) \in Statistic
           /\ Outstanding(increase_interest(s, 1)) = Outstanding(s) + 1
           /\ Outstanding(increase_timeout(s)) = Outstanding(s) - 1
           /\ Outstanding(increase_interest(increase_timeout(s), 1)) = Outstanding(s)
           /\ Outstanding(increase_data(s)) = Outstanding(s) - 1
           /\ Outstanding(decrease_topic(increase_data(s), 1)) = Outstanding(s) - 1
           /\ Outstanding(decrease_topic(increase_nack(s), 1)) = Outstanding(s) - 1
           /\ Outstanding(s) \in Int
           /\ increase_interest(s, 1).topic = s.topic
           /\ increase_timeout(s).topic = s.topic
           /\ increase_interest(increase_timeout(s), 1).topic = s.topic
           /\ increase_data(s).topic = s.topic
           /\ 1 <= s.topic => /\ decrease_topic(increase_data(s), 1).topic = s.topic - 1
                              /\ decrease_topic(increase_nack(s), 1).topic = s.topic - 1
  <1>1. MaxU64 \in Nat /\ 1 <= MaxU64 /\ s.topic \in 0 .. MaxU64
    BY MaxU64Assumption DEF Statistic
  <1>2. /\ increase_data(s) \in Statistic /\ increase_nack(s) \in Statistic
        /\ increase_timeout(s) \in Statistic /\ increase_interest(s, 1) \in Statistic
    BY DEF Statistic, increase_data, increase_nack, increase_timeout, increase_interest
  <1>3. increase_interest(increase_timeout(s), 1) \in Statistic
    <2>1. \A x \in Statistic : increase_interest(x, 1) \in Statistic
      BY DEF Statistic, increase_interest
    <2> QED BY <1>2, <2>1
  <1>4. /\ decrease_topic(increase_data(s), 1) \in Statistic
        /\ decrease_topic(increase_nack(s), 1) \in Statistic
    <2>1. \A x \in Statistic : decrease_topic(x, 1) \in Statistic
      BY <1>1, StatisticClosed
    <2> QED BY <1>2, <2>1
  <1>5. /\ Outstanding(increase_interest(s, 1)) = Outstanding(s) + 1
        /\ Outstanding(increase_timeout(s)) = Outstanding(s) - 1
        /\ Outstanding(increase_interest(increase_timeout(s), 1)) = Outstanding(s)
        /\ Outstanding(increase_data(s)) = Outstanding(s) - 1
        /\ Outstanding(decrease_topic(increase_data(s), 1)) = Outstanding(s) - 1
        /\ Outstanding(decrease_topic(increase_nack(s), 1)) = Outstanding(s) - 1
        /\ Outstanding(s) \in Int
    BY DEF Outstanding, Statistic, increase_interest, increase_data, increase_nack,
           increase_timeout, decrease_topic
  <1>6. /\ increase_interest(s, 1).topic = s.topic
        /\ increase_timeout(s).topic = s.topic
        /\ increase_interest(increase_timeout(s), 1).topic = s.topic
        /\ increase_data(s).topic = s.topic /\ increase_nack(s).topic = s.topic
    BY DEF Statistic, increase_interest, increase_data, increase_nack, increase_timeout
  <1>7. 1 <= s.topic => /\ decrease_topic(increase_data(s), 1).topic = s.topic - 1
                        /\ decrease_topic(increase_nack(s), 1).topic = s.topic - 1
    BY <1>1, <1>2, <1>6 DEF decrease_topic, Statistic
  <1> QED BY <1>2, <1>3, <1>4, <1>5, <1>6, <1>7

\* One request moves: the other requests and Statistics do not.
LEMMA MoveElsewhere ==
    ASSUME Typed, NEW k \in Tests, NEW t \in Topics, NEW to \in Stages, NEW s \in Statistic,
           Moves(k, t, to, s)
    PROVE  /\ Typed'
           /\ stage'[<<k, t>>] = to /\ gStat'[k] = s
           /\ \A u \in Topics : u # t => stage'[<<k, u>>] = stage[<<k, u>>]
           /\ \A l \in Tests : l # k => /\ gStat'[l] = gStat[l]
                                        /\ \A u \in Topics : stage'[<<l, u>>] = stage[<<l, u>>]
  <1>1. <<k, t>> \in Requests /\ k \in Kinds
    BY SubPerfAssumption DEF Requests
  <1>2. \A l \in Tests, u \in Topics : <<l, u>> \in Requests
    BY DEF Requests
  <1>3. \A l \in Tests, u \in Topics : <<l, u>> = <<k, t>> <=> l = k /\ u = t
    OBVIOUS
  <1>4. Typed'
    BY <1>1 DEF Typed, Moves
  <1>5. stage'[<<k, t>>] = to /\ gStat'[k] = s
    BY <1>1 DEF Typed, Moves
  <1>6. \A l \in Tests, u \in Topics :
           ~(l = k /\ u = t) => stage'[<<l, u>>] = stage[<<l, u>>]
    BY <1>2, <1>3 DEF Typed, Moves
  <1>7. \A l \in Tests : l # k => gStat'[l] = gStat[l]
    BY SubPerfAssumption DEF Typed, Moves
  <1> QED BY <1>4, <1>5, <1>6, <1>7

\* The two sets the counts are compared with, before and after a step.
LEMMA SetsChange ==
    ASSUME Typed, NEW k \in Tests, NEW t \in Topics, NEW to \in Stages, NEW s \in Statistic,
           Moves(k, t, to, s)
    PROVE  /\ Cardinality(Pending(k)') = Cardinality(Pending(k))
                   + (IF to = "pending" THEN 1 ELSE 0)
                   - (IF stage[<<k, t>>] = "pending" THEN 1 ELSE 0)
           /\ Cardinality(Open(k)') = Cardinality(Open(k))
                   + (IF to \in {"done", "nacked"} THEN 0 ELSE 1)
                   - (IF stage[<<k, t>>] \in {"done", "nacked"} THEN 0 ELSE 1)
           /\ Cardinality(Pending(k)) \in Nat /\ Cardinality(Open(k)) \in Nat
  <1>1. /\ stage'[<<k, t>>] = to
        /\ \A u \in Topics : u # t => stage'[<<k, u>>] = stage[<<k, u>>]
    BY MoveElsewhere
  <1>2. /\ Pending(k) \subseteq Topics /\ Pending(k)' \subseteq Topics
        /\ Pending(k) \ {t} = Pending(k)' \ {t}
        /\ t \in Pending(k)' <=> to = "pending"
        /\ t \in Pending(k) <=> stage[<<k, t>>] = "pending"
    BY <1>1 DEF Pending
  <1>3. /\ Open(k) \subseteq Topics /\ Open(k)' \subseteq Topics
        /\ Open(k) \ {t} = Open(k)' \ {t}
        /\ t \in Open(k)' <=> to \notin {"done", "nacked"}
        /\ t \in Open(k) <=> stage[<<k, t>>] \notin {"done", "nacked"}
    BY <1>1 DEF Open
  <1>4. IsFiniteSet(Topics)
    BY SubPerfAssumption
  <1> DEFINE p == Pending(k)
             pp == Pending(k)'
             o == Open(k)
             oo == Open(k)'
  <1> HIDE DEF p, pp, o, oo
  <1>5. /\ Cardinality(p) \in Nat
        /\ Cardinality(pp) = Cardinality(p) + (IF t \in pp THEN 1 ELSE 0)
                                            - (IF t \in p THEN 1 ELSE 0)
    BY <1>2, <1>4, CountChanged DEF p, pp
  <1>6. /\ Cardinality(o) \in Nat
        /\ Cardinality(oo) = Cardinality(o) + (IF t \in oo THEN 1 ELSE 0)
                                            - (IF t \in o THEN 1 ELSE 0)
    BY <1>3, <1>4, CountChanged DEF o, oo
  <1> QED BY <1>2, <1>3, <1>5, <1>6 DEF p, pp, o, oo

\* A step moves both sides of both accounts by the same amount.
LEMMA ChangeCounted ==
    ASSUME Counts, NEW k \in Tests, NEW t \in Topics, NEW to \in Stages, NEW s,
           Changes(k, t, to, s)
    PROVE  Counts'
  <1> DEFINE g == gStat[k]
             from == stage[<<k, t>>]
  <1>1. g \in Statistic /\ from \in Stages
    BY SubPerfAssumption DEF Counts, Typed, Requests
  <1>2. Outstanding(g) = Cardinality(Pending(k)) /\ g.topic = Cardinality(Open(k))
    BY DEF Counts, InterestAccounting, TopicAccounting
  <1>3. /\ s \in Statistic
        /\ \/ /\ from \in {"unsent", "waiting"} /\ to = "pending"
              /\ Outstanding(s) = Outstanding(g) + 1 /\ s.topic = g.topic
           \/ /\ from \in {"unsent", "waiting"} /\ to \in {"lost", "dropped"}
              /\ Outstanding(s) = Outstanding(g) /\ s.topic = g.topic
           \/ /\ from = "pending" /\ to = "pending"
              /\ Outstanding(s) = Outstanding(g) /\ s.topic = g.topic
           \/ /\ from = "pending" /\ to \in {"dropped", "waiting"}
              /\ Outstanding(s) = Outstanding(g) - 1 /\ s.topic = g.topic
           \/ /\ from = "pending" /\ to \in {"done", "nacked"}
              /\ Outstanding(s) = Outstanding(g) - 1 /\ s.topic = g.topic - 1
    <2>1. CASE Sends(k, t, to, s)
      BY <1>1, <2>1, StatisticChange DEF Sends
    <2>2. CASE TimesOut(k, t, to, s)
      BY <1>1, <2>2, StatisticChange DEF TimesOut
    <2>3. CASE Continues(k, t, to, s)
      BY <1>1, <2>3, StatisticChange DEF Continues
    <2>4. CASE Finishes(k, t, to, s)
      <3>1. from = "pending"
        BY <2>4 DEF Finishes
      <3>2. t \in Open(k)
        BY <3>1 DEF Open
      <3>3. 1 <= g.topic
        BY <3>2, OpenCounted
      <3> QED BY <1>1, <2>4, <3>1, <3>3, StatisticChange DEF Finishes
    <2> QED BY <2>1, <2>2, <2>3, <2>4 DEF Changes
  <1>4. Moves(k, t, to, s) /\ Typed
    BY DEF Changes, Counts
  <1>5. /\ Typed' /\ gStat'[k] = s
        /\ \A l \in Tests : l # k => /\ gStat'[l] = gStat[l]
                                     /\ \A u \in Topics : stage'[<<l, u>>] = stage[<<l, u>>]
    BY <1>3, <1>4, MoveElsewhere
  <1>6. /\ Cardinality(Pending(k)') = Cardinality(Pending(k))
                   + (IF to = "pending" THEN 1 ELSE 0)
                   - (IF from = "pending" THEN 1 ELSE 0)
        /\ Cardinality(Open(k)') = Cardinality(Open(k))
                   + (IF to \in {"done", "nacked"} THEN 0 ELSE 1)
                   - (IF from \in {"done", "nacked"} THEN 0 ELSE 1)
        /\ Cardinality(Pending(k)) \in Nat /\ Cardinality(Open(k)) \in Nat
    BY <1>3, <1>4, SetsChange
  <1> HIDE DEF g, from
  <1>7. Outstanding(s) = Cardinality(Pending(k)') /\ s.topic = Cardinality(Open(k)')
    BY <1>2, <1>3, <1>6
  <1>8. ASSUME NEW l \in Tests, l # k
        PROVE  Pending(l)' = Pending(l) /\ Open(l)' = Open(l) /\ gStat'[l] = gStat[l]
    BY <1>5, <1>8 DEF Pending, Open
  <1>9. ASSUME NEW l \in Tests
        PROVE  /\ Outstanding(gStat'[l]) = Cardinality(Pending(l)')
               /\ gStat'[l].topic = Cardinality(Open(l)')
    <2>1. CASE l = k
      BY <1>5, <1>7, <2>1
    <2>2. CASE l # k
      <3>1. Pending(l)' = Pending(l) /\ Open(l)' = Open(l) /\ gStat'[l] = gStat[l]
        BY <1>8, <2>2
      <3>2. /\ Outstanding(gStat[l]) = Cardinality(Pending(l))
            /\ gStat[l].topic = Cardinality(Open(l))
        BY DEF Counts, InterestAccounting, TopicAccounting
      <3> QED BY <3>1, <3>2
    <2> QED BY <2>1, <2>2
  <1> QED BY <1>5, <1>9 DEF Counts, InterestAccounting, TopicAccounting, Outstanding

(***************************************************************************)
(* Rounds and sequences.                                                   *)
(***************************************************************************)
SD(t) == stage[<<"SD", t>>]

\* What RoundsInSequence needs to be inductive: where a topic is between two
\* rounds decides its round and what m_sequence stands at.
InSequence(t) ==
    /\ SD(t) = "unsent" => round[t] = 0
    /\ SD(t) # "unsent" => requested[t] = NextSequence(round[t])
    /\ round[t] # 0 => round[t] < SDRound
    /\ SD(t) = "waiting" => MoreRounds(round[t])
    /\ SD(t) = "done" => ~MoreRounds(round[t])
    /\ m_sequence[t] = (IF 0 < Fetch THEN 0 ELSE Drawn(t))

AllInSequence == "SD" \in Tests => \A t \in Topics : InSequence(t)

SequenceTyped ==
    /\ round \in [Topics -> Nat] /\ m_sequence \in [Topics -> Int]
    /\ requested \in [Topics -> SDSequences]

\* What getNextSequence returns is m_fetch or an int, and m_sequence stays a long.
LEMMA DrawTyped ==
    ASSUME NEW n \in Int
    PROVE  NextSequence(n) \in SDSequences /\ AfterNext(n) \in Int /\ AfterTimeout(n) \in Int
  <1> DEFINE w == 2 * (MaxInt + 1)
             k == n + MaxInt + 1
  <1>1. w \in Nat \ {0} /\ k \in Int /\ MaxInt \in Nat
    BY SequenceAssumption
  <1> HIDE DEF w, k
  <1>2. k % w \in 0 .. (w - 1)
    BY <1>1
  <1>3. ToInt(n) = (k % w) - (MaxInt + 1)
    BY DEF ToInt, k, w
  <1>4. ToInt(n) \in -(MaxInt + 1) .. MaxInt
    BY <1>1, <1>2, <1>3 DEF w
  <1>5. AfterNext(n) \in Int /\ AfterTimeout(n) \in Int
    BY DEF AfterNext, AfterTimeout
  <1> QED BY <1>4, <1>5 DEF NextSequence, SDSequences

\* A step is one of an SD request, or leaves all of them alone.
LEMMA SDStepOrNone ==
    ASSUME Typed, Next
    PROVE  \/ "SD" \in Tests /\ \E t \in Topics : SDStep(t)
           \/ /\ UNCHANGED <<round, m_sequence, requested>>
              /\ "SD" \in Tests => \A u \in Topics : SD(u)' = SD(u)
  <1>1. CASE check_complete \/ Stop
    BY <1>1 DEF check_complete, Stop, SD
  <1>2. ASSUME NEW k \in {"ST", "SM"}, k \in Tests, NEW t \in Topics,
               \/ k = "ST" /\ sendST(t)
               \/ k = "SM" /\ sendSM(t)
               \/ RequestStep(k, t)
        PROVE  /\ UNCHANGED <<round, m_sequence, requested>>
               /\ "SD" \in Tests => \A u \in Topics : SD(u)' = SD(u)
    <2>1. UNCHANGED <<round, m_sequence, requested>>
      BY <1>2 DEF sendST, sendSM, NextOfList, RequestStep, RequestData, RequestNack,
                  RequestTimeout, Answer
    <2>2. \E to : stage' = [stage EXCEPT ![<<k, t>>] = to]
      BY <1>2 DEF sendST, sendSM, NextOfList, Express, RequestStep, RequestData, RequestNack,
                  RequestTimeout, Answer
    <2>3. ASSUME "SD" \in Tests, NEW u \in Topics PROVE SD(u)' = SD(u)
      <3>1. <<"SD", u>> \in Requests /\ <<"SD", u>> # <<k, t>>
        BY <2>3, <1>2 DEF Requests
      <3> QED BY <2>2, <3>1 DEF Typed, SD
    <2> QED BY <2>1, <2>3
  <1> QED BY <1>1, <1>2 DEF Next

\* What an SD step does to the topic's request, round and sequence.
SDEffect(t) ==
    \/ /\ SD(t) = "unsent" /\ SD(t)' \in {"pending", "lost"}
       /\ round'[t] = round[t]
       /\ requested'[t] = NextSequence(m_sequence[t])
       /\ m_sequence'[t] = AfterNext(m_sequence[t])
    \/ /\ SD(t) = "waiting" /\ SD(t)' \in {"pending", "dropped"}
       /\ round'[t] = round[t] + 1
       /\ requested'[t] = NextSequence(m_sequence[t])
       /\ m_sequence'[t] = AfterNext(m_sequence[t])
    \/ /\ SD(t) = "pending" /\ SD(t)' \in {"waiting", "done"}
       /\ SD(t)' = "waiting" <=> MoreRounds(round[t])
       /\ round'[t] = round[t] /\ requested'[t] = requested[t]
       /\ m_sequence'[t] = m_sequence[t]
    \/ /\ SD(t) = "pending" /\ SD(t)' = "nacked"
       /\ round'[t] = round[t] /\ requested'[t] = requested[t]
       /\ m_sequence'[t] = AfterTimeout(m_sequence[t])
    \/ /\ SD(t) = "pending" /\ SD(t)' \in {"pending", "dropped"}
       /\ round'[t] = round[t]
       /\ requested'[t] = NextSequence(AfterTimeout(m_sequence[t]))
       /\ m_sequence'[t] = AfterNext(AfterTimeout(m_sequence[t]))

LEMMA SDStepEffect ==
    ASSUME Typed, SequenceTyped, "SD" \in Tests, NEW t \in Topics, SDStep(t)
    PROVE  /\ SequenceTyped'
           /\ SDEffect(t)
           /\ \A u \in Topics : u # t =>
                 /\ SD(u)' = SD(u) /\ round'[u] = round[u]
                 /\ requested'[u] = requested[u] /\ m_sequence'[u] = m_sequence[u]
  <1>1. /\ round[t] \in Nat /\ m_sequence[t] \in Int
        /\ \A u \in Topics : <<"SD", u>> \in Requests
        /\ \A u \in Topics : u # t => <<"SD", u>> # <<"SD", t>>
    BY DEF SequenceTyped, Requests
  <1>2. ASSUME NEW to, stage' = [stage EXCEPT ![<<"SD", t>>] = to]
        PROVE  SD(t)' = to /\ \A u \in Topics : u # t => SD(u)' = SD(u)
    BY <1>1, <1>2 DEF Typed, SD
  <1>3. ASSUME NEW n \in Int, Draw(t, n)
        PROVE  /\ requested' \in [Topics -> SDSequences] /\ m_sequence' \in [Topics -> Int]
               /\ requested'[t] = NextSequence(n) /\ m_sequence'[t] = AfterNext(n)
               /\ \A u \in Topics : u # t => /\ requested'[u] = requested[u]
                                            /\ m_sequence'[u] = m_sequence[u]
    BY <1>3, DrawTyped DEF Draw, SequenceTyped
  <1>4. ASSUME NEW s, NEW failed, Express("SD", t, s, failed)
        PROVE  /\ SD(t)' \in {"pending", failed}
               /\ \A u \in Topics : u # t => SD(u)' = SD(u)
    <2>1. \E to \in {"pending", failed} : stage' = [stage EXCEPT ![<<"SD", t>>] = to]
      BY <1>4 DEF Express
    <2> QED BY <1>2, <2>1
  <1>5. CASE sendSD(t)
    <2>1. /\ SD(t) = "unsent" /\ Express("SD", t, gStat["SD"], "lost")
          /\ Draw(t, m_sequence[t]) /\ UNCHANGED round
      BY <1>5 DEF sendSD, NextOfList, SD
    <2> QED BY <1>1, <1>3, <1>4, <2>1 DEF SDEffect, SequenceTyped
  <1>6. CASE NextRound(t)
    <2>1. /\ SD(t) = "waiting" /\ Express("SD", t, gStat["SD"], "dropped")
          /\ Draw(t, m_sequence[t]) /\ round' = [round EXCEPT ![t] = @ + 1]
      BY <1>6 DEF NextRound, SD
    <2>2. /\ round' \in [Topics -> Nat] /\ round'[t] = round[t] + 1
          /\ \A u \in Topics : u # t => round'[u] = round[u]
      BY <2>1 DEF SequenceTyped
    <2> QED BY <1>1, <1>3, <1>4, <2>1, <2>2 DEF SDEffect, SequenceTyped
  <1>7. CASE SDDataMore(t)
    BY <1>2, <1>7 DEF SDDataMore, Answer, SDEffect, SequenceTyped, SD
  <1>8. CASE SDDataLast(t)
    BY <1>2, <1>8 DEF SDDataLast, Answer, SDEffect, SequenceTyped, SD
  <1>9. CASE SDNack(t)
    <2>1. /\ SD(t) = "pending" /\ stage' = [stage EXCEPT ![<<"SD", t>>] = "nacked"]
          /\ m_sequence' = [m_sequence EXCEPT ![t] = AfterTimeout(@)]
          /\ UNCHANGED <<round, requested>>
      BY <1>9 DEF SDNack, Answer, SD
    <2>2. AfterTimeout(m_sequence[t]) \in Int
      BY <1>1, DrawTyped
    <2>3. /\ m_sequence' \in [Topics -> Int] /\ m_sequence'[t] = AfterTimeout(m_sequence[t])
          /\ \A u \in Topics : u # t => m_sequence'[u] = m_sequence[u]
      BY <2>1, <2>2 DEF SequenceTyped
    <2> QED BY <1>2, <2>1, <2>3 DEF SDEffect, SequenceTyped
  <1>10. CASE SDTimeout(t)
    <2>1. /\ SD(t) = "pending" /\ Express("SD", t, increase_timeout(gStat["SD"]), "dropped")
          /\ Draw(t, AfterTimeout(m_sequence[t])) /\ UNCHANGED round
      BY <1>10 DEF SDTimeout, SD
    <2>2. AfterTimeout(m_sequence[t]) \in Int
      BY <1>1, DrawTyped
    <2> QED BY <1>3, <1>4, <2>1, <2>2 DEF SDEffect, SequenceTyped
  <1> QED BY <1>5, <1>6, <1>7, <1>8, <1>9, <1>10 DEF SDStep

\* Each of these effects keeps a topic in sequence.
LEMMA EffectInSequence ==
    ASSUME SequenceTyped, NEW t \in Topics, InSequence(t), SDEffect(t)
    PROVE  InSequence(t)'
  <1> DEFINE n == m_sequence[t]
             r == round[t]
  <1>1. /\ n \in Int /\ r \in Nat /\ SDRound \in Int /\ Fetch \in Int
        /\ n = IF 0 < Fetch THEN 0
               ELSE r + (IF SD(t) \in {"unsent", "nacked"} THEN 0 ELSE 1)
    BY SubPerfAssumption, SequenceAssumption DEF SequenceTyped, InSequence, Drawn, SD
  <1>2. SUFFICES /\ SD(t)' # "unsent"
                 /\ requested'[t] = NextSequence(round'[t])
                 /\ round'[t] # 0 => round'[t] < SDRound
                 /\ SD(t)' = "waiting" => MoreRounds(round'[t])
                 /\ SD(t)' = "done" => ~MoreRounds(round'[t])
                 /\ m_sequence'[t] = IF 0 < Fetch THEN 0
                        ELSE round'[t] + (IF SD(t)' \in {"unsent", "nacked"} THEN 0 ELSE 1)
    BY DEF InSequence, Drawn, SD, MoreRounds
  <1>3. /\ SD(t) = "unsent" => r = 0
        /\ SD(t) # "unsent" => requested[t] = NextSequence(r)
        /\ r # 0 => r < SDRound
        /\ SD(t) = "waiting" => MoreRounds(r)
    BY DEF InSequence
  <1>4. /\ \A k \in Int : AfterNext(k) = IF 0 < Fetch THEN k ELSE k + 1
        /\ \A k \in Int : AfterTimeout(k) = IF 0 < Fetch THEN k ELSE k - 1
        /\ 0 < Fetch => \A k, l \in Int : NextSequence(k) = NextSequence(l)
        /\ \A k \in Int : MoreRounds(k) <=> k + 1 < SDRound
    BY DEF AfterNext, AfterTimeout, NextSequence, MoreRounds
  <1>5. CASE /\ SD(t) = "unsent" /\ SD(t)' \in {"pending", "lost"}
             /\ round'[t] = round[t]
             /\ requested'[t] = NextSequence(m_sequence[t])
             /\ m_sequence'[t] = AfterNext(m_sequence[t])
    BY <1>1, <1>3, <1>4, <1>5
  <1>6. CASE /\ SD(t) = "waiting" /\ SD(t)' \in {"pending", "dropped"}
             /\ round'[t] = round[t] + 1
             /\ requested'[t] = NextSequence(m_sequence[t])
             /\ m_sequence'[t] = AfterNext(m_sequence[t])
    <2>1. r + 1 < SDRound /\ r + 1 \in Int
      BY <1>1, <1>3, <1>4, <1>6
    <2>2. NextSequence(n) = NextSequence(r + 1)
      BY <1>1, <1>4, <1>6
    <2> QED BY <1>1, <1>4, <1>6, <2>1, <2>2
  <1>7. CASE /\ SD(t) = "pending" /\ SD(t)' \in {"waiting", "done"}
             /\ SD(t)' = "waiting" <=> MoreRounds(round[t])
             /\ round'[t] = round[t] /\ requested'[t] = requested[t]
             /\ m_sequence'[t] = m_sequence[t]
    BY <1>1, <1>3, <1>7
  <1>8. CASE /\ SD(t) = "pending" /\ SD(t)' = "nacked"
             /\ round'[t] = round[t] /\ requested'[t] = requested[t]
             /\ m_sequence'[t] = AfterTimeout(m_sequence[t])
    BY <1>1, <1>3, <1>4, <1>8
  <1>9. CASE /\ SD(t) = "pending" /\ SD(t)' \in {"pending", "dropped"}
             /\ round'[t] = round[t]
             /\ requested'[t] = NextSequence(AfterTimeout(m_sequence[t]))
             /\ m_sequence'[t] = AfterNext(AfterTimeout(m_sequence[t]))
    <2>1. AfterTimeout(n) = IF 0 < Fetch THEN n ELSE r
      BY <1>1, <1>4, <1>9
    <2>2. AfterTimeout(n) \in Int /\ NextSequence(AfterTimeout(n)) = NextSequence(r)
      BY <1>1, <1>4, <2>1
    <2>3. AfterNext(AfterTimeout(n)) = n
      BY <1>1, <1>4, <1>9, <2>1
    <2> QED BY <1>1, <1>3, <1>9, <2>2, <2>3
  <1> QED BY <1>5, <1>6, <1>7, <1>8, <1>9 DEF SDEffect

(***************************************************************************)
(* The invariant and the theorems.                                         *)
(***************************************************************************)
PerfInvariant ==
    /\ stopped \in {"no", "complete", "stop"}
    /\ Counts /\ CompletesWithAll
    /\ SequenceTyped /\ AllInSequence

LEMMA PerfInit == Init => PerfInvariant
  <1> SUFFICES ASSUME Init PROVE PerfInvariant
    OBVIOUS
  <1> DEFINE N == Cardinality(Topics)
             first == increase_topic(NewStatistic, N)
  <1>1. N \in Nat /\ N <= MaxU64 /\ MaxU64 \in Nat
    BY SubPerfAssumption, FS_CardinalityType, MaxU64Assumption
  <1>2. NewStatistic \in Statistic /\ NewStatistic.topic = 0 /\ Outstanding(NewStatistic) = 0
    BY <1>1 DEF NewStatistic, Statistic, Outstanding
  <1> HIDE DEF N
  <1>3. first \in Statistic /\ first.topic = N /\ Outstanding(first) = 0
    BY <1>1, <1>2 DEF NewStatistic, Statistic, Outstanding, increase_topic
  <1> HIDE DEF first
  <1>4. stage \in [Requests -> Stages]
    BY DEF Init, Stages
  <1>5. gStat \in [Kinds -> Statistic] /\ \A k \in Tests : gStat[k] = first
    BY <1>2, <1>3, SubPerfAssumption DEF Init, first, N
  <1>6. ASSUME NEW k \in Tests PROVE Pending(k) = {} /\ Open(k) = Topics
    <2>1. \A t \in Topics : stage[<<k, t>>] = "unsent"
      BY DEF Init, Requests
    <2> QED BY <2>1 DEF Pending, Open
  <1>7. Cardinality({}) = 0
    BY FS_EmptySet
  <1>8. Counts
    <2>1. InterestAccounting
      BY <1>3, <1>5, <1>6, <1>7 DEF InterestAccounting
    <2>2. TopicAccounting
      BY <1>3, <1>5, <1>6 DEF TopicAccounting, N
    <2> QED BY <1>4, <1>5, <2>1, <2>2 DEF Counts, Typed
  <1>9. SequenceTyped
    BY SequenceAssumption DEF Init, SequenceTyped, SDSequences
  <1>10. AllInSequence
    <2> SUFFICES ASSUME "SD" \in Tests, NEW t \in Topics PROVE InSequence(t)
      BY DEF AllInSequence
    <2>1. stage[<<"SD", t>>] = "unsent" /\ round[t] = 0 /\ m_sequence[t] = 0
      BY DEF Init, Requests
    <2> QED BY <2>1 DEF InSequence, SD, Drawn
  <1> QED BY <1>8, <1>9, <1>10 DEF PerfInvariant, Init, CompletesWithAll

\* Nothing happens once run() has returned.
LEMMA OnlyRunning == Next => Running
  BY DEF Next, check_complete, Stop, sendST, sendSM, NextOfList, RequestStep, RequestData,
         RequestNack, RequestTimeout, Answer, SDStep, sendSD, NextRound, SDDataMore,
         SDDataLast, SDNack, SDTimeout

LEMMA PerfNext == PerfInvariant /\ [Next]_vars => PerfInvariant'
  <1> SUFFICES ASSUME PerfInvariant, [Next]_vars PROVE PerfInvariant'
    OBVIOUS
  <1>1. CASE UNCHANGED vars
    <2>1. Counts'
      BY <1>1 DEF PerfInvariant, vars, Counts, Typed, InterestAccounting, TopicAccounting,
                  Pending, Open
    <2>2. CompletesWithAll' /\ SequenceTyped' /\ AllInSequence'
      BY <1>1 DEF PerfInvariant, vars, CompletesWithAll, Open, SequenceTyped, AllInSequence,
                  InSequence, Drawn, SD, MoreRounds, Requests
    <2> QED BY <1>1, <2>1, <2>2 DEF PerfInvariant, vars
  <1>2. CASE Next
    <2>1. SequenceTyped' /\ AllInSequence'
      <3>1. CASE "SD" \in Tests /\ \E t \in Topics : SDStep(t)
        <4>1. PICK t \in Topics : SDStep(t)
          BY <3>1
        <4>2. /\ SequenceTyped' /\ SDEffect(t)
              /\ \A u \in Topics : u # t =>
                    /\ SD(u)' = SD(u) /\ round'[u] = round[u]
                    /\ requested'[u] = requested[u] /\ m_sequence'[u] = m_sequence[u]
          BY <3>1, <4>1, SDStepEffect DEF PerfInvariant, Counts
        <4>3. InSequence(t)'
          BY <3>1, <4>2, EffectInSequence DEF PerfInvariant, AllInSequence
        <4>4. ASSUME NEW u \in Topics, u # t PROVE InSequence(u)'
          BY <3>1, <4>2, <4>4 DEF PerfInvariant, AllInSequence, InSequence, Drawn, SD, MoreRounds
        <4> QED BY <4>2, <4>3, <4>4 DEF AllInSequence
      <3>2. CASE /\ UNCHANGED <<round, m_sequence, requested>>
                 /\ "SD" \in Tests => \A u \in Topics : SD(u)' = SD(u)
        BY <3>2 DEF PerfInvariant, SequenceTyped, AllInSequence, InSequence, Drawn, SD, MoreRounds
      <3> QED BY <1>2, <3>1, <3>2, SDStepOrNone DEF PerfInvariant, Counts
    <2>2. CASE check_complete
      <3>1. UNCHANGED <<stage, gStat>> /\ stopped' = "complete"
        BY <2>2 DEF check_complete
      <3>2. Counts'
        BY <3>1 DEF PerfInvariant, Counts, Typed, InterestAccounting, TopicAccounting,
                    Pending, Open
      <3>3. ASSUME NEW k \in Tests PROVE Open(k)' = {}
        <4>1. gStat[k].topic = 0
          BY <2>2, SubPerfAssumption DEF check_complete, is_complete
        <4>2. Cardinality(Open(k)) = 0
          BY <4>1 DEF PerfInvariant, Counts, TopicAccounting
        <4>3. IsFiniteSet(Open(k))
          BY SubPerfAssumption, FS_Subset DEF Open
        <4>4. Open(k) = {}
          BY <4>2, <4>3, FS_EmptySet
        <4> QED BY <3>1, <4>4 DEF Open
      <3> QED BY <2>1, <3>1, <3>2, <3>3 DEF PerfInvariant, CompletesWithAll
    <2>3. CASE Stop
      <3>1. UNCHANGED <<stage, gStat>> /\ stopped' = "stop"
        BY <2>3 DEF Stop
      <3>2. Counts'
        BY <3>1 DEF PerfInvariant, Counts, Typed, InterestAccounting, TopicAccounting,
                    Pending, Open
      <3> QED BY <2>1, <3>1, <3>2 DEF PerfInvariant, CompletesWithAll
    <2>4. CASE RequestChanges /\ UNCHANGED stopped
      <3>1. Counts'
        BY <2>4, ChangeCounted DEF RequestChanges, PerfInvariant
      <3>2. stopped' = "no"
        BY <1>2, <2>4, OnlyRunning DEF Running
      <3> QED BY <2>1, <3>1, <3>2 DEF PerfInvariant, CompletesWithAll
    <2> QED BY <1>2, <2>2, <2>3, <2>4, StepChanges
  <1> QED BY <1>1, <1>2

LEMMA PerfInvariantAlways == Spec => []PerfInvariant
  BY PerfInit, PerfNext, PTL DEF Spec

\* Every reachable state is well typed: no count leaves the range of uint64_t, no
\* sequence that of int.
THEOREM PerfTypeCorrect == Spec => []TypeOK
  <1>1. PerfInvariant => TypeOK
    BY DEF PerfInvariant, Counts, Typed, SequenceTyped, TypeOK
  <1> QED BY <1>1, PerfInvariantAlways, PTL

\* Every Interest that sub-perf counts is answered in its books or pending, for
\* every test, however it is lost, made again, forgotten or thrown out of.
THEOREM PerfInterestsAccounted == Spec => []InterestAccounting
  <1>1. PerfInvariant => InterestAccounting
    BY DEF PerfInvariant, Counts
  <1> QED BY <1>1, PerfInvariantAlways, PTL

\* m_topic of each test is the number of topics without their last answer.
THEOREM PerfTopicsAccounted == Spec => []TopicAccounting
  <1>1. PerfInvariant => TopicAccounting
    BY DEF PerfInvariant, Counts
  <1> QED BY <1>1, PerfInvariantAlways, PTL

\* check_complete stops sub-perf only after the last answer of every topic.
THEOREM PerfCompletesWithAll == Spec => []CompletesWithAll
  <1>1. PerfInvariant => CompletesWithAll
    BY DEF PerfInvariant
  <1> QED BY <1>1, PerfInvariantAlways, PTL

\* The SD request of round r names the r-th sequence, and a topic that is done
\* has had its SDRound rounds, for every SDRound and Fetch.
THEOREM PerfRoundsInSequence == Spec => []RoundsInSequence
  <1>1. PerfInvariant => RoundsInSequence
    <2> SUFFICES ASSUME PerfInvariant, "SD" \in Tests, NEW t \in Topics
                 PROVE  /\ stage[<<"SD", t>>] # "unsent" => requested[t] = NextSequence(round[t])
                        /\ stage[<<"SD", t>>] = "done" =>
                              round[t] + 1 = (IF SDRound < 1 THEN 1 ELSE SDRound)
                        /\ m_sequence[t] = (IF 0 < Fetch THEN 0 ELSE Drawn(t))
      BY DEF RoundsInSequence
    <2>1. InSequence(t) /\ round[t] \in Nat /\ SDRound \in Int
      BY SubPerfAssumption DEF PerfInvariant, AllInSequence, SequenceTyped
    <2>2. /\ round[t] # 0 => round[t] < SDRound
          /\ stage[<<"SD", t>>] = "done" => ~(round[t] + 1 < SDRound)
      BY <2>1 DEF InSequence, SD, MoreRounds
    <2>3. stage[<<"SD", t>>] = "done" => round[t] + 1 = (IF SDRound < 1 THEN 1 ELSE SDRound)
      BY <2>1, <2>2
    <2> QED BY <2>1, <2>3 DEF InSequence, SD
  <1> QED BY <1>1, PerfInvariantAlways, PTL
=============================================================================
