----------------------------- MODULE Statistics -----------------------------
(***************************************************************************)
(* The counters both programs keep for each kind of Interest (PA, PD, PU   *)
(* in the device; ST, SM, SD in the user).  One record stands for one      *)
(* Statistics object; time stamps and the list of waiting times are left   *)
(* out, no decision of the programs reads them.                            *)
(*                                                                         *)
(* m_interest, m_data, m_nack and m_timeout are uint64_t that only grow,   *)
(* one step per message, and are Nat here.  m_topic is a uint64_t that is  *)
(* also decremented, sometimes below zero, so it keeps its width: MaxU64   *)
(* is the largest value, and arithmetic wraps.                             *)
(***************************************************************************)
EXTENDS Integers

CONSTANT MaxU64          \* 2^64 - 1 in the code, small in TLC's instances

ASSUME MaxU64Assumption == MaxU64 \in Nat \ {0}

Statistic == [interest : Nat, data : Nat, nack : Nat, timeout : Nat,
              topic : 0 .. MaxU64]

NewStatistic == [interest |-> 0, data |-> 0, nack |-> 0, timeout |-> 0,
                 topic |-> 0]

increase_interest(s, val) == [s EXCEPT !.interest = @ + val]
increase_data(s)    == [s EXCEPT !.data = @ + 1]
increase_nack(s)    == [s EXCEPT !.nack = @ + 1]
increase_timeout(s) == [s EXCEPT !.timeout = @ + 1]

increase_topic(s, val) ==
    [s EXCEPT !.topic = IF @ + val <= MaxU64 THEN @ + val
                                             ELSE @ + val - (MaxU64 + 1)]

\* Mutant of decrease_topic: a signed counter instead of a uint64_t.
decrease_topic_signed(s, val) == [s EXCEPT !.topic = @ - val]

decrease_topic(s, val) ==
    [s EXCEPT !.topic = IF val <= @ THEN @ - val
                                    ELSE (MaxU64 + 1) - (val - @)]

\* Interests counted and not yet answered, what is_complete compares with 0.
Outstanding(s) == s.interest - (s.data + s.nack + s.timeout)

\* Mutants of is_complete: one half of the test alone.
is_complete_topics(s)  == s.topic = 0
is_complete_answers(s) == s.interest = s.data + s.nack + s.timeout

\* The condition check_complete tests for each kind of Interest.
is_complete(s) ==
    /\ s.interest = s.data + s.nack + s.timeout
    /\ s.topic = 0
=============================================================================
