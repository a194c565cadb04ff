--------------------------- MODULE StatisticsProofs ---------------------------
(***************************************************************************)
(* Lemmas about the counters, and about the number of elements of a set    *)
(* that gains or loses one, which the proofs of both programs rest on.     *)
(***************************************************************************)
EXTENDS Statistics, FiniteSets, FiniteSetTheorems, TLAPS

\* Every operation of a Statistics object yields a Statistics object; the
\* topic count stays in the range of uint64_t although it is decremented
\* below zero.
LEMMA StatisticClosed ==
    ASSUME NEW s \in Statistic, NEW val \in Nat, val <= MaxU64
    PROVE  /\ increase_interest(s, val) \in Statistic
           /\ increase_data(s) \in Statistic
           /\ increase_nack(s) \in Statistic
           /\ increase_timeout(s) \in Statistic
           /\ increase_topic(s, val) \in Statistic
           /\ decrease_topic(s, val) \in Statistic
  <1>1. s.topic \in 0 .. MaxU64 /\ MaxU64 \in Nat
    BY MaxU64Assumption DEF Statistic
  <1>2. /\ increase_interest(s, val) \in Statistic
        /\ increase_data(s) \in Statistic
        /\ increase_nack(s) \in Statistic
        /\ increase_timeout(s) \in Statistic
    BY DEF Statistic, increase_interest, increase_data, increase_nack, increase_timeout
  <1>3. increase_topic(s, val) \in Statistic
    BY <1>1 DEF Statistic, increase_topic
  <1>4. decrease_topic(s, val) \in Statistic
    BY <1>1 DEF Statistic, decrease_topic
  <1> QED BY <1>2, <1>3, <1>4

\* What each operation does to the number of unanswered Interests.
LEMMA OutstandingChange ==
    ASSUME NEW s \in Statistic, NEW val \in Nat
    PROVE  /\ Outstanding(increase_interest(s, 1)) = Outstanding(s) + 1
           /\ Outstanding(increase_data(s)) = Outstanding(s) - 1
           /\ Outstanding(increase_nack(s)) = Outstanding(s) - 1
           /\ Outstanding(increase_interest(increase_timeout(s), 1)) = Outstanding(s)
           /\ Outstanding(increase_topic(s, val)) = Outstanding(s)
           /\ Outstanding(decrease_topic(s, val)) = Outstanding(s)
           /\ Outstanding(decrease_topic(increase_data(s), val)) = Outstanding(s) - 1
           /\ Outstanding(s) \in Int
  BY DEF Outstanding, Statistic, increase_interest, increase_data, increase_nack,
         increase_timeout, increase_topic, decrease_topic

\* Two sets that agree except on x: the size of the second follows from the
\* size of the first.
LEMMA CountChanged ==
    ASSUME NEW S, IsFiniteSet(S), NEW F, F \subseteq S, NEW G, G \subseteq S,
           NEW x, F \ {x} = G \ {x}
    PROVE  /\ Cardinality(F) \in Nat
           /\ Cardinality(G) = Cardinality(F) + (IF x \in G THEN 1 ELSE 0)
                                             - (IF x \in F THEN 1 ELSE 0)
  <1>1. IsFiniteSet(F) /\ IsFiniteSet(G) /\ IsFiniteSet(F \ {x})
    BY FS_Subset
  <1>2. /\ Cardinality(F) \in Nat /\ Cardinality(G) \in Nat
        /\ Cardinality(F \ {x}) \in Nat
    BY <1>1, FS_CardinalityType
  <1>3. Cardinality(F \ {x}) = IF x \in F THEN Cardinality(F) - 1 ELSE Cardinality(F)
    BY <1>1, FS_RemoveElement
  <1>4. Cardinality(F \ {x}) = IF x \in G THEN Cardinality(G) - 1 ELSE Cardinality(G)
    BY <1>1, FS_RemoveElement
  <1> QED BY <1>2, <1>3, <1>4
=============================================================================
