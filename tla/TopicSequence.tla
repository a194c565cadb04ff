---------------------------- MODULE TopicSequence ----------------------------
(***************************************************************************)
(* The sequence numbers of a subscribed topic (virtual-user/src/           *)
(* subtopic.h): what getNextSequence returns and what it and timeout do to *)
(* Topic::m_sequence.  Both subscribers use them.                          *)
(***************************************************************************)
EXTENDS Integers

CONSTANTS
    Fetch,         \* Topic::m_fetch of the topics: a sequence, or -1
    MaxInt         \* largest int (getNextSequence truncates a long to int)

ASSUME SequenceAssumption == Fetch \in Int /\ MaxInt \in Nat

ToInt(n) == ((n + MaxInt + 1) % (2 * (MaxInt + 1))) - (MaxInt + 1)

\* What getNextSequence may return: m_fetch, or an int.
SDSequences == {Fetch} \cup -(MaxInt + 1) .. MaxInt

\* Mutant of AfterTimeout: the sequence is not given back.
AfterTimeoutKeeps(n) == n

\* Mutant of NextSequence: the long is returned as it is.
NextSequenceLong(n) == IF 0 < Fetch THEN Fetch ELSE n

\* The sequence returned, and m_sequence afterwards, when m_sequence is n.
NextSequence(n)  == IF 0 < Fetch THEN Fetch ELSE ToInt(n)
AfterNext(n)     == IF 0 < Fetch THEN n ELSE n + 1
AfterTimeout(n)  == IF 0 < Fetch THEN n ELSE n - 1
=============================================================================
