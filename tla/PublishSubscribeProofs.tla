------------------------ MODULE PublishSubscribeProofs ------------------------
(***************************************************************************)
(* Theorems about the two programs together, for any number of topics,     *)
(* rounds and lost Interests.                                              *)
(***************************************************************************)
EXTENDS PublishSubscribe, TLAPS

(***************************************************************************)
(* The device: what its steps do to a topic's chain.                       *)
(***************************************************************************)
DeviceTyped ==
    /\ stage \in [Topics -> Device!Stages]
    /\ round \in [Topics -> Nat] /\ pubSequence \in [Topics -> Nat]
    /\ stored \in [Topics -> SUBSET Nat]

Advances(t, from, to, r, n) ==
    /\ stage[t] = from
    /\ stage' = [stage EXCEPT ![t] = to]
    /\ round' = [round EXCEPT ![t] = r]
    /\ pubSequence' = [pubSequence EXCEPT ![t] = n]

Publishes(t, from, r) == Advances(t, from, "pdPending", r, pubSequence[t] + 1)

Keeps(t, from, to) == Advances(t, from, to, round[t], pubSequence[t])

Advance(t) ==
    \/ Keeps(t, "paUnsent", "paPending")
    \/ Keeps(t, "paPending", "pdReady")
    \/ Publishes(t, "pdReady", 1)
    \/ Publishes(t, "pdTimer", round[t] + 1)
    \/ Keeps(t, "pdPending", "pdTimer") /\ round[t] < Round /\ Publishing(t) \in stored[t]
    \/ Keeps(t, "pdPending", "puReady") /\ ~(round[t] < Round) /\ Publishing(t) \in stored[t]
    \/ Advances(t, "puReady", "puPending", round[t], pubSequence[t] + 1)
    \/ Keeps(t, "puPending", "done")

\* A step of the device advances one chain, acknowledged only by what is stored,
\* or changes no chain: a timeout sends the same Interest again.
LEMMA DeviceAdvances ==
    ASSUME DeviceTyped, DeviceStep
    PROVE  UNCHANGED <<stage, round, pubSequence>> \/ \E t \in Topics : Advance(t)
  <1> USE DEF DeviceTyped, Advance, Advances, Publishes, Keeps, Device!Moves
  <1>1. ASSUME NEW t \in Topics, Device!sendPA(t)
        PROVE  Advance(t)
    BY <1>1 DEF Device!sendPA
  <1>2. ASSUME NEW t \in Topics, Device!Scheduled(t)
        PROVE  Advance(t) \/ UNCHANGED <<stage, round, pubSequence>>
    <2>1. CASE Device!NextPA(t)
      BY <1>1, <2>1 DEF Device!NextPA, Device!sendPAThrows
    <2>2. CASE Device!FirstPD(t)
      BY <2>2 DEF Device!FirstPD, Device!sendPD, Device!sendPDThrows
    <2>3. CASE Device!NextPD(t)
      BY <2>3 DEF Device!NextPD, Device!sendPD, Device!sendPDThrows
    <2>4. CASE Device!sendPU(t)
      BY <2>4 DEF Device!sendPU
    <2>5. CASE Device!sendPU2(t)
      BY <2>5 DEF Device!sendPU2
    <2> QED BY <1>2, <2>1, <2>2, <2>3, <2>4, <2>5 DEF Device!Scheduled, Device!sendPUThrows
  <1>3. ASSUME NEW t \in Topics, Device!TimedOut(t)
        PROVE  UNCHANGED <<stage, round, pubSequence>>
    BY <1>3 DEF Device!TimedOut, Device!PATimeout, Device!PDTimeout, Device!PUTimeout,
                Device!PU2Timeout, Device!onTimeout
  <1>4. ASSUME NEW t \in Topics, Acknowledged(t)
        PROVE  Advance(t)
    <2>1. CASE Device!PAData(t)
      BY <2>1 DEF Device!PAData
    <2>2. CASE Device!PDDataMore(t) /\ Publishing(t) \in stored[t]
      BY <2>2 DEF Device!PDDataMore, Device!MoreRounds
    <2>3. CASE Device!PDDataLast(t) /\ Publishing(t) \in stored[t]
      BY <2>3 DEF Device!PDDataLast, Device!MoreRounds
    <2>4. CASE Device!PUData(t)
      BY <2>4 DEF Device!PUData
    <2> QED BY <1>4, <2>1, <2>2, <2>3, <2>4 DEF Acknowledged
  <1>5. ASSUME DeviceRuns
        PROVE  UNCHANGED <<stage, round, pubSequence>> \/ \E t \in Topics : Advance(t)
    <2>1. CASE Device!StartPA
      BY <1>1, <2>1 DEF Device!StartPA, Device!sendPAThrows
    <2>2. CASE Device!check_complete \/ Device!signalHandler \/ Device!Report
      BY <2>2 DEF Device!check_complete, Device!signalHandler, Device!Report, Device!Stop
    <2> QED BY <1>5, <2>1, <2>2 DEF DeviceRuns
  <1> QED BY <1>2, <1>3, <1>4, <1>5 DEF DeviceStep

(***************************************************************************)
(* What the repository holds.                                              *)
(***************************************************************************)

\* HeldWhenWithdrawn is about the end of a chain; this is where chain and
\* repository stand at every stage.  Only the reading of a pending PD may be
\* missing.
ChainStands(t) ==
    /\ round[t] <= Device!LastRound
    /\ stage[t] \in {"paUnsent", "paPending", "pdReady"} => round[t] = 0
    /\ stage[t] = "pdPending" => 1 <= round[t]
    /\ stage[t] = "pdTimer" => round[t] < Round
    /\ stage[t] \in Device!PUStages \cup {"done"} => round[t] = Device!LastRound
    /\ stage[t] \in {"paUnsent", "paPending", "pdReady", "pdTimer", "pdPending"} =>
          pubSequence[t] = FirstSequence + round[t]

Holds(t) ==
    /\ stored[t] \subseteq FirstSequence .. FirstSequence + round[t] - 1
    /\ \A n \in FirstSequence .. FirstSequence + round[t] - 1 :
          \/ n \in stored[t]
          \/ stage[t] = "pdPending" /\ n = FirstSequence + round[t] - 1

DeviceInvariant == DeviceTyped /\ \A t \in Topics : ChainStands(t) /\ Holds(t)

LEMMA LastRoundType ==
    Device!LastRound \in Nat /\ 1 <= Device!LastRound /\ Round <= Device!LastRound
  BY CompositionAssumption DEF Device!LastRound

LEMMA DeviceInvariantInit == Init => DeviceInvariant
  BY CompositionAssumption, LastRoundType
  DEF Init, Device!Init, DeviceInvariant, DeviceTyped, ChainStands, Holds, Device!Stages,
      Device!PAStages, Device!PUStages

\* One topic's chain advances.
LEMMA AdvanceStands ==
    ASSUME DeviceInvariant, NEW t \in Topics, Advance(t), UNCHANGED stored
    PROVE  DeviceInvariant'
  <1>t. /\ stage \in [Topics -> Device!Stages] /\ round \in [Topics -> Nat]
        /\ pubSequence \in [Topics -> Nat] /\ stored \in [Topics -> SUBSET Nat]
        /\ FirstSequence \in Nat /\ Round \in Nat
    BY CompositionAssumption DEF DeviceInvariant, DeviceTyped
  <1>l. /\ Device!LastRound \in Nat /\ 1 <= Device!LastRound /\ Round <= Device!LastRound
        /\ Device!LastRound = Round \/ Device!LastRound = 1
    BY LastRoundType DEF Device!LastRound
  <1>h. ChainStands(t) /\ Holds(t)
    BY DEF DeviceInvariant
  <1> USE DEF Advance, Advances, Publishes, Keeps
  <1>1. PICK to \in Device!Stages, r \in Nat, n \in Nat :
           /\ stage' = [stage EXCEPT ![t] = to] /\ round' = [round EXCEPT ![t] = r]
           /\ pubSequence' = [pubSequence EXCEPT ![t] = n]
    BY <1>t DEF Device!Stages, Device!PAStages, Device!PDStages, Device!PUStages
  <1>2. DeviceTyped'
    BY <1>1, <1>t DEF DeviceTyped
  <1>3. ASSUME NEW x \in Topics, x # t
        PROVE  ChainStands(x)' /\ Holds(x)'
    <2>1. stage'[x] = stage[x] /\ round'[x] = round[x] /\ pubSequence'[x] = pubSequence[x]
      BY <1>1, <1>3, <1>t
    <2>2. ChainStands(x) /\ Holds(x)
      BY DEF DeviceInvariant
    <2> QED BY <2>1, <2>2 DEF ChainStands, Holds
  <1>4. stage'[t] = to /\ round'[t] = r /\ pubSequence'[t] = n
    BY <1>1, <1>t
  <1>5. ChainStands(t)'
    BY <1>h, <1>4, <1>t, <1>l DEF ChainStands, Device!PUStages
  <1>6. Holds(t)'
    <2>1. CASE Publishes(t, "pdReady", 1) \/ Publishes(t, "pdTimer", round[t] + 1)
      <3>1. r = round[t] + 1 /\ to = "pdPending" /\ stage[t] # "pdPending"
        BY <2>1, <1>h, <1>4, <1>t DEF ChainStands
      <3>2. ASSUME NEW k \in FirstSequence .. FirstSequence + r - 1
            PROVE  \/ k \in stored[t]
                   \/ k = FirstSequence + r - 1
        <4>1. k = FirstSequence + r - 1 \/ k \in FirstSequence .. FirstSequence + round[t] - 1
          BY <3>1, <3>2, <1>t
        <4> QED BY <4>1, <3>1, <1>h DEF Holds
      <3>3. stored[t] \subseteq FirstSequence .. FirstSequence + r - 1
        BY <3>1, <1>h, <1>t DEF Holds
      <3> QED BY <3>1, <3>2, <3>3, <1>4 DEF Holds
    <2>2. CASE /\ Keeps(t, "pdPending", "pdTimer") \/ Keeps(t, "pdPending", "puReady")
               /\ Publishing(t) \in stored[t]
      <3>1. Publishing(t) = FirstSequence + round[t] - 1
        BY <2>2, <1>h, <1>t DEF ChainStands, Publishing, Device!PDKey
      <3> QED BY <2>2, <3>1, <1>h, <1>4, <1>t DEF Holds
    <2>3. CASE stage[t] # "pdPending" /\ r = round[t]
      BY <2>3, <1>h, <1>4, <1>t DEF Holds
    <2> QED BY <2>1, <2>2, <2>3, <1>4, <1>t
  <1> QED BY <1>2, <1>3, <1>5, <1>6 DEF DeviceInvariant

LEMMA DeviceInvariantNext == DeviceInvariant /\ [Next]_vars => DeviceInvariant'
  <1> SUFFICES ASSUME DeviceInvariant, [Next]_vars PROVE DeviceInvariant'
    OBVIOUS
  <1>1. ASSUME UNCHANGED <<stage, round, pubSequence, stored>>
        PROVE  DeviceInvariant'
    BY <1>1 DEF DeviceInvariant, DeviceTyped, ChainStands, Holds
  <1>2. CASE DeviceStep
    <2>1. UNCHANGED stored
      BY <1>2 DEF DeviceStep, service
    <2>2. UNCHANGED <<stage, round, pubSequence>> \/ \E t \in Topics : Advance(t)
      BY <1>2, DeviceAdvances DEF DeviceInvariant
    <2> QED BY <1>1, <2>1, <2>2, AdvanceStands
  <1>3. CASE UserStep
    BY <1>1, <1>3 DEF UserStep, device, service
  <1>4. ASSUME NEW t \in Topics, Store(t)
        PROVE  DeviceInvariant'
    <2>1. /\ stored' = [stored EXCEPT ![t] = @ \cup {FirstSequence + round[t] - 1}]
          /\ stage[t] = "pdPending" /\ 1 <= round[t]
          /\ FirstSequence \in Nat /\ round[t] \in Nat
          /\ UNCHANGED <<stage, round, pubSequence>>
      <3>1. /\ FirstSequence \in Nat /\ round[t] \in Nat /\ pubSequence[t] \in Nat
            /\ ChainStands(t)
        BY CompositionAssumption DEF DeviceInvariant, DeviceTyped
      <3>2. Publishing(t) = pubSequence[t] - 1
        BY DEF Publishing, Device!PDKey
      <3>3. stage[t] = "pdPending" /\ UNCHANGED <<stage, round, pubSequence>>
        BY <1>4 DEF Store, device
      <3>4. Publishing(t) = FirstSequence + round[t] - 1 /\ 1 <= round[t]
        BY <3>1, <3>2, <3>3 DEF ChainStands
      <3> QED BY <1>4, <3>1, <3>3, <3>4 DEF Store
    <2>2. DeviceTyped'
      BY <2>1 DEF DeviceInvariant, DeviceTyped
    <2>3. ASSUME NEW x \in Topics
          PROVE  ChainStands(x)' /\ Holds(x)'
      <3>1. ChainStands(x) /\ Holds(x) /\ stored[x] \subseteq Nat
        BY DEF DeviceInvariant, DeviceTyped
      <3>2. ChainStands(x)'
        BY <2>1, <3>1 DEF ChainStands
      <3>3. CASE x = t
        <4>1. stored'[x] = stored[x] \cup {FirstSequence + round[x] - 1}
          BY <2>1, <3>3 DEF DeviceInvariant, DeviceTyped
        <4> QED BY <2>1, <3>1, <3>2, <3>3, <4>1 DEF Holds
      <3>4. CASE x # t
        <4>1. stored'[x] = stored[x]
          BY <2>1, <3>4 DEF DeviceInvariant, DeviceTyped
        <4> QED BY <2>1, <3>1, <3>2, <4>1 DEF Holds
      <3> QED BY <3>3, <3>4
    <2> QED BY <2>2, <2>3 DEF DeviceInvariant
  <1>5. CASE ServiceStep
    BY <1>1, <1>4, <1>5 DEF ServiceStep, Advertise, Withdraw, device
  <1>6. CASE UNCHANGED vars
    BY <1>1, <1>6 DEF vars, device, service
  <1> QED BY <1>2, <1>3, <1>5, <1>6 DEF Next

LEMMA DeviceInvariantAlways == Spec => []DeviceInvariant
  BY DeviceInvariantInit, DeviceInvariantNext, PTL DEF Spec

\* Whatever Interests and acknowledgements of the device are lost, the repository
\* holds exactly the readings of a topic's rounds once the topic is withdrawn.
THEOREM ReadingsHeld == Spec => []HeldWhenWithdrawn
  <1>1. DeviceInvariant => HeldWhenWithdrawn
    <2> SUFFICES ASSUME DeviceInvariant, NEW t \in Topics,
                        stage[t] \in Device!PUStages \cup {"done"}
                 PROVE  stored[t] = FirstSequence .. FirstSequence + Device!LastRound - 1
      BY DEF HeldWhenWithdrawn
    <2>1. round[t] = Device!LastRound /\ stage[t] # "pdPending"
      BY DEF DeviceInvariant, ChainStands, Device!PUStages
    <2> QED BY <2>1 DEF DeviceInvariant, Holds
  <1> QED BY <1>1, DeviceInvariantAlways, PTL

(***************************************************************************)
(* The user: what its steps do to its chains.                              *)
(***************************************************************************)
\* The sequences fit the user's int.
Fits == Fetch <= 0 /\ MaxSequence <= MaxInt /\ FirstSequence + Device!LastRound <= MaxInt

ChainTypes == [state : User!ChainStates, topic : Topics \cup {"none"},
               source : {Repository, "none"}, seq : Int]

UserTyped ==
    /\ chain \in [User!ChainIds -> ChainTypes]
    /\ subSequence \in [Topics -> Int]
    /\ received \in [Topics -> SUBSET Int]

\* Chain c requests for t what getNextSequence makes of n.
Requests(c, t, n) ==
    /\ chain' = [chain EXCEPT ![c] = [state |-> "pending", topic |-> t,
                                      source |-> Repository, seq |-> User!NextSequence(n)]]
    /\ subSequence' = [subSequence EXCEPT ![t] = n + 1]
    /\ UNCHANGED received

Becomes(c, to) ==
    /\ chain[c].state = "pending" /\ chain[c].topic \in Topics
    /\ chain' = [chain EXCEPT ![c].state = to]

Starts(c, t, n) == chain[c].state = "unborn" /\ Requests(c, t, n)

Starting(t, n) ==
    \/ n = subSequence[t]
    \/ stored[t] # {} /\ n = (IF Max(stored[t]) < 1 THEN 1 ELSE Max(stored[t]))

Resends(c) ==
    /\ chain[c].state \in {"next", "retry"} /\ chain[c].topic \in Topics
    /\ Requests(c, chain[c].topic, subSequence[chain[c].topic])

Loses(c) ==
    /\ Becomes(c, "retry")
    /\ subSequence' = [subSequence EXCEPT ![chain[c].topic] = @ - 1]
    /\ UNCHANGED received

Receives(c) ==
    /\ Becomes(c, "next") /\ subSequence[chain[c].topic] < MaxSequence
    /\ received' = [received EXCEPT ![chain[c].topic] = @ \cup {chain[c].seq}]
    /\ UNCHANGED subSequence

\* Where the chains that are born belong.
ChainsBorn == \A c \in User!ChainIds :
    chain[c].state # "unborn" => chain[c].topic \in Topics /\ chain[c].source = Repository

\* What the user's steps do to chains and what is received.
LEMMA UserMoves ==
    ASSUME Fits, UserTyped, ChainsBorn, UserStep
    PROVE  \/ UNCHANGED <<chain, subSequence, received>>
           \/ \E c \in User!ChainIds, t \in Topics : \E n :
                 Starting(t, n) /\ Starts(c, t, n)
           \/ \E c \in User!ChainIds : Resends(c) \/ Loses(c) \/ Receives(c)
  <1>f. ~(0 < Fetch)
    BY CompositionAssumption DEF Fits
  <1>n. ASSUME NEW n
        PROVE  User!AfterNext(n) = n + 1 /\ User!AfterTimeout(n) = n - 1
    BY <1>f DEF User!AfterNext, User!AfterTimeout
  <1>e. ASSUME NEW c \in User!ChainIds, NEW t \in Topics, NEW n,
               User!ExpressSD(c, t, Repository, n), UNCHANGED received
        PROVE  Requests(c, t, n)
    BY <1>e, <1>n DEF User!ExpressSD, Requests
  <1>s. ASSUME NEW t \in Topics, NEW n, Starting(t, n),
               User!StartChain(t, Repository, n), UNCHANGED received
        PROVE  \E c \in User!ChainIds : Starting(t, n) /\ Starts(c, t, n)
    BY <1>s, <1>e DEF User!StartChain, User!UnbornChain, Starts
  <1>1. ASSUME (UserRuns \/ UserTimesOut \/ User!Stop) /\ UNCHANGED received
        PROVE  \/ UNCHANGED <<chain, subSequence, received>>
               \/ \E c \in User!ChainIds : Resends(c) \/ Loses(c)
    <2>1. ASSUME NEW c \in User!ChainIds, User!sendSD(c)
          PROVE  Resends(c)
      <3>1. chain[c].state \in {"next", "retry"}
        BY <2>1 DEF User!sendSD
      <3>2. chain[c].topic \in Topics /\ chain[c].source = Repository
        BY <3>1 DEF ChainsBorn
      <3> QED BY <1>1, <1>e, <2>1, <3>1, <3>2 DEF User!sendSD, Resends
    <2>2. ASSUME NEW c \in User!ChainIds, User!SDTimeout(c)
          PROVE  Loses(c)
      <3>1. chain[c].state = "pending" /\ chain' = [chain EXCEPT ![c].state = "retry"]
        BY <2>2 DEF User!SDTimeout, User!SDAnswer
      <3>2. chain[c].topic \in Topics
        BY <3>1 DEF ChainsBorn
      <3>3. subSequence' = [subSequence EXCEPT ![chain[c].topic] = @ - 1]
        BY <2>2, <1>n DEF User!SDTimeout
      <3> QED BY <1>1, <3>1, <3>2, <3>3 DEF Loses, Becomes
    <2>3. ASSUME \/ User!StartST \/ User!Stop
                 \/ \E t \in Topics : Scheduled(t) \/ User!STTimeout(t)
                                      \/ User!SMTimeout(t, Repository)
          PROVE  UNCHANGED <<chain, subSequence>>
      BY <2>3 DEF User!StartST, User!Stop, Scheduled, User!scheduleSendST, User!ResendST,
                  User!ResendSM, User!sendST, User!STTimeout, User!SMTimeout
    <2> QED BY <1>1, <2>1, <2>2, <2>3 DEF UserRuns, UserTimesOut
  <1>2. ASSUME NEW t \in Topics, Listed(t) \/ LastSequence(t), UNCHANGED received
        PROVE  \/ UNCHANGED <<chain, subSequence, received>>
               \/ \E c \in User!ChainIds : \E n : Starting(t, n) /\ Starts(c, t, n)
    <2>1. CASE Listed(t)
      BY <1>2, <2>1 DEF Listed, User!STData
    <2>2. CASE stored[t] # {} /\ User!SMDataOK(t, Repository, Max(stored[t]))
      BY <1>2, <1>s, <2>2 DEF User!SMDataOK, Starting
    <2>3. CASE User!SMDataNotFound(t, Repository)
      BY <1>2, <1>s, <2>3 DEF User!SMDataNotFound, Starting
    <2> QED BY <1>2, <2>1, <2>2, <2>3 DEF LastSequence
  <1>3. ASSUME NEW c \in User!ChainIds, Deliver(c)
        PROVE  Receives(c)
    <2>1. chain[c].state = "pending" /\ chain' = [chain EXCEPT ![c].state = "next"]
      BY <1>3 DEF Deliver, User!SDData, User!SDAnswer
    <2>2. chain[c].topic \in Topics
      BY <2>1 DEF ChainsBorn
    <2> QED BY <1>3, <2>1, <2>2 DEF Deliver, User!SDData, Receives, Becomes
  <1> QED BY <1>1, <1>2, <1>3 DEF UserStep

(***************************************************************************)
(* What the user receives.                                                 *)
(***************************************************************************)

\* Where the only chain of a topic stands: m_sequence is the sequence after the
\* one pending or received, and what has been received is an interval that ends
\* where the chain asks on.
InOrder(t, c) ==
    /\ chain[c].state \in {"pending", "next", "retry"}
    /\ chain[c].seq \in 0 .. MaxInt
    /\ subSequence[t] = chain[c].seq + (IF chain[c].state = "retry" THEN 0 ELSE 1)
    /\ chain[c].state = "next" => subSequence[t] <= MaxInt
    /\ \/ received[t] = {} /\ chain[c].state # "next"
       \/ \E a \in Nat :
             LET b == IF chain[c].state = "next" THEN chain[c].seq ELSE chain[c].seq - 1
             IN  a <= b /\ received[t] = a .. b

NotStarted(t) == subSequence[t] = 0 /\ received[t] = {}

TopicInOrder(t) ==
    /\ ChainsOf(t) = {} => NotStarted(t)
    /\ \A c \in User!ChainIds : ChainsOf(t) = {c} => InOrder(t, c)

UserInvariant == UserTyped /\ ChainsBorn /\ \A t \in Topics : TopicInOrder(t)

\* getNextSequence returns the sequence as long as it fits an int.
LEMMA NextFits ==
    ASSUME Fits, NEW n \in Int
    PROVE  /\ User!NextSequence(n) \in Int
           /\ n \in 0 .. MaxInt => User!NextSequence(n) = n
  <1> DEFINE w == 2 * (MaxInt + 1)
             k == n + MaxInt + 1
  <1>1. w \in Nat \ {0} /\ k \in Int /\ MaxInt \in Nat
    BY CompositionAssumption
  <1>2. User!NextSequence(n) = (k % w) - (MaxInt + 1)
    BY CompositionAssumption DEF Fits, User!NextSequence, User!ToInt
  <1>w. w = 2 * (MaxInt + 1) /\ k = n + MaxInt + 1
    OBVIOUS
  <1> HIDE DEF w, k
  <1>3. k % w \in 0 .. (w - 1)
    BY <1>1
  <1>4. k \in 0 .. (w - 1) => k % w = k
    BY <1>1
  <1>5. n \in 0 .. MaxInt => k \in 0 .. (w - 1)
    BY <1>1, <1>w
  <1> QED BY <1>1, <1>2, <1>3, <1>4, <1>5, <1>w

\* The largest element of an interval, and of what the repository holds.
LEMMA MaxIs ==
    ASSUME NEW S, S \subseteq Int, NEW m \in S, \A n \in S : n <= m
    PROVE  Max(S) = m
  <1>1. \A n \in S : m >= n
    OBVIOUS
  <1>2. Max(S) \in S /\ \A n \in S : Max(S) >= n
    BY <1>1 DEF Max
  <1> DEFINE x == Max(S)
  <1>3. x \in Int /\ m \in Int /\ x >= m /\ m >= x
    BY <1>1, <1>2
  <1> HIDE DEF x
  <1>4. x = m
    BY <1>3
  <1> QED BY <1>4 DEF x

LEMMA MinIs ==
    ASSUME NEW S, S \subseteq Int, NEW m \in S, \A n \in S : m <= n
    PROVE  Min(S) = m
  <1>1. Min(S) \in S /\ \A n \in S : Min(S) <= n
    BY DEF Min
  <1> DEFINE x == Min(S)
  <1>2. x \in Int /\ m \in Int /\ x <= m /\ m <= x
    BY <1>1
  <1> HIDE DEF x
  <1>3. x = m
    BY <1>2
  <1> QED BY <1>3 DEF x

LEMMA LastStored ==
    ASSUME DeviceInvariant, NEW t \in Topics, stored[t] # {}
    PROVE  Max(stored[t]) \in Nat /\ Max(stored[t]) < FirstSequence + Device!LastRound
  <1>1. /\ round[t] \in Nat /\ round[t] <= Device!LastRound /\ FirstSequence \in Nat
        /\ Device!LastRound \in Nat /\ stored[t] \subseteq Int
    BY CompositionAssumption, LastRoundType DEF DeviceInvariant, DeviceTyped, ChainStands
  <1>2. Holds(t)
    BY DEF DeviceInvariant
  <1> DEFINE l == FirstSequence + round[t] - 1
  <1>3. stored[t] \subseteq FirstSequence .. l
    BY <1>2 DEF Holds
  <1>4. CASE l \in stored[t]
    <2>1. Max(stored[t]) = l
      BY <1>1, <1>3, <1>4, MaxIs
    <2> QED BY <1>1, <1>3, <1>4, <2>1
  <1>5. CASE l \notin stored[t]
    <2>1. \A n \in stored[t] : n <= l - 1
      BY <1>1, <1>3, <1>5
    <2>2. l - 1 \in FirstSequence .. l
      BY <1>1, <1>3, <2>1
    <2>3. l - 1 \in stored[t]
      BY <1>1, <1>2, <2>2 DEF Holds
    <2>4. Max(stored[t]) = l - 1
      BY <1>1, <2>1, <2>3, MaxIs
    <2> QED BY <1>1, <1>3, <2>3, <2>4
  <1> QED BY <1>4, <1>5

LEMMA UserInvariantInit == Init => UserInvariant
  <1> SUFFICES ASSUME Init PROVE UserInvariant
    OBVIOUS
  <1>1. /\ chain = [c \in User!ChainIds |-> User!UnbornChain]
        /\ subSequence = [t \in Topics |-> 0] /\ received = [t \in Topics |-> {}]
    BY DEF Init, User!Init
  <1>2. \A c \in User!ChainIds : chain[c].state = "unborn"
    BY <1>1 DEF User!UnbornChain
  <1>3. UserTyped
    BY <1>1 DEF UserTyped, ChainTypes, User!UnbornChain, User!ChainStates
  <1>4. ASSUME NEW t \in Topics
        PROVE  TopicInOrder(t)
    BY <1>1, <1>2 DEF TopicInOrder, NotStarted, ChainsOf
  <1> QED BY <1>2, <1>3, <1>4 DEF UserInvariant, ChainsBorn

\* A step of one chain leaves the other topics alone.
LEMMA ChainElsewhere ==
    ASSUME UserInvariant, NEW c \in User!ChainIds, NEW t \in Topics, NEW r \in ChainTypes,
           chain' = [chain EXCEPT ![c] = r], r.topic = t, r.state # "unborn",
           r.source = Repository,
           chain[c].state # "unborn" => chain[c].topic = t,
           NEW n \in Int, subSequence' = [subSequence EXCEPT ![t] = n],
           NEW R \in SUBSET Int, received' = [received EXCEPT ![t] = R]
    PROVE  /\ UserTyped' /\ ChainsBorn'
           /\ ChainsOf(t)' = ChainsOf(t) \cup {c}
           /\ \A x \in Topics \ {t} : TopicInOrder(x)'
  <1>t. /\ chain \in [User!ChainIds -> ChainTypes]
        /\ subSequence \in [Topics -> Int] /\ received \in [Topics -> SUBSET Int]
    BY DEF UserInvariant, UserTyped
  <1>1. chain'[c] = r /\ \A d \in User!ChainIds \ {c} : chain'[d] = chain[d]
    BY <1>t
  <1>2. UserTyped' /\ subSequence'[t] = n /\ received'[t] = R
    BY <1>t DEF UserTyped
  <1>3. ChainsBorn'
    BY <1>1 DEF UserInvariant, ChainsBorn
  <1>4. ChainsOf(t)' = ChainsOf(t) \cup {c}
    BY <1>1 DEF ChainsOf
  <1>5. ASSUME NEW x \in Topics \ {t}
        PROVE  TopicInOrder(x)'
    <2>1. ChainsOf(x)' = ChainsOf(x) /\ c \notin ChainsOf(x)
      BY <1>1 DEF ChainsOf
    <2>2. subSequence'[x] = subSequence[x] /\ received'[x] = received[x]
      BY <1>t
    <2>3. \A d \in User!ChainIds : ChainsOf(x) = {d} => chain'[d] = chain[d]
      BY <1>1, <2>1
    <2>4. ChainsOf(x) = {} => NotStarted(x)'
      BY <2>2 DEF UserInvariant, TopicInOrder, NotStarted
    <2>5. ASSUME NEW d \in User!ChainIds, ChainsOf(x) = {d}
          PROVE  InOrder(x, d)'
      <3>1. InOrder(x, d)
        BY <2>5 DEF UserInvariant, TopicInOrder
      <3>2. chain'[d] = chain[d]
        BY <2>3, <2>5
      <3> QED BY <2>2, <3>1, <3>2 DEF InOrder
    <2> QED BY <2>1, <2>4, <2>5 DEF TopicInOrder
  <1> QED BY <1>1, <1>2, <1>3, <1>4, <1>5

\* A chain requests: it starts, or goes on from where it stands.
LEMMA RequestsInOrder ==
    ASSUME Fits, UserInvariant, NEW c \in User!ChainIds, NEW t \in Topics, NEW n \in Int,
           Requests(c, t, n),
           chain[c].state # "unborn" => chain[c].topic = t,
           \/ chain[c].state = "unborn" /\ (ChainsOf(t) = {} => n \in 0 .. MaxInt)
           \/ chain[c].state \in {"next", "retry"} /\ n = subSequence[t]
    PROVE  UserInvariant'
  <1>t. /\ chain \in [User!ChainIds -> ChainTypes]
        /\ subSequence \in [Topics -> Int] /\ received \in [Topics -> SUBSET Int]
    BY DEF UserInvariant, UserTyped
  <1>1. [state |-> "pending", topic |-> t, source |-> Repository,
         seq |-> User!NextSequence(n)] \in ChainTypes
    BY NextFits DEF ChainTypes, User!ChainStates
  <1>r. PICK r \in ChainTypes : r = [state |-> "pending", topic |-> t, source |-> Repository,
                                     seq |-> User!NextSequence(n)]
    BY <1>1
  <1>m. PICK m \in Int, R \in SUBSET Int : m = n + 1 /\ R = received[t]
    BY <1>t
  <1>2. /\ chain' = [chain EXCEPT ![c] = r]
        /\ subSequence' = [subSequence EXCEPT ![t] = m]
        /\ received' = [received EXCEPT ![t] = R]
        /\ r.state = "pending" /\ r.topic = t /\ r.source = Repository
        /\ r.seq = User!NextSequence(n)
    BY <1>r, <1>m, <1>t DEF Requests
  <1>e. /\ UserTyped' /\ ChainsBorn'
        /\ chain'[c] = r /\ subSequence'[t] = m /\ received'[t] = R
        /\ ChainsOf(t)' = ChainsOf(t) \cup {c}
        /\ \A x \in Topics \ {t} : TopicInOrder(x)'
    <2>1. r.state # "unborn"
      BY <1>2
    <2>2. /\ UserTyped' /\ ChainsBorn' /\ ChainsOf(t)' = ChainsOf(t) \cup {c}
          /\ \A x \in Topics \ {t} : TopicInOrder(x)'
      BY <1>2, <2>1, ChainElsewhere
    <2>3. chain'[c] = r /\ subSequence'[t] = m /\ received'[t] = R
      BY <1>2, <1>t
    <2> QED BY <2>2, <2>3
  <1>3. /\ UserTyped' /\ ChainsBorn'
        /\ chain'[c] = r /\ subSequence'[t] = n + 1 /\ received'[t] = received[t]
        /\ ChainsOf(t)' = ChainsOf(t) \cup {c}
        /\ \A x \in Topics \ {t} : TopicInOrder(x)'
    BY <1>e, <1>m
  <1>4. ASSUME NEW d \in User!ChainIds, ChainsOf(t)' = {d}
        PROVE  InOrder(t, d)'
    <2>1. d = c
      BY <1>3, <1>4
    <2>2. CASE chain[c].state = "unborn" /\ (ChainsOf(t) = {} => n \in 0 .. MaxInt)
      <3>1. ChainsOf(t) = {}
        BY <1>3, <1>4, <2>1, <2>2 DEF ChainsOf
      <3>2. received[t] = {} /\ n \in 0 .. MaxInt
        BY <2>2, <3>1 DEF UserInvariant, TopicInOrder, NotStarted
      <3>3. chain'[c].state = "pending" /\ chain'[c].seq = n
        BY <1>3, <1>2, <3>2, NextFits
      <3> QED BY <1>3, <2>1, <3>2, <3>3 DEF InOrder
    <2>3. CASE chain[c].state \in {"next", "retry"} /\ n = subSequence[t]
      <3>1. ChainsOf(t) = {c}
        BY <1>3, <1>4, <2>1, <2>3 DEF ChainsOf
      <3>2. InOrder(t, c)
        BY <3>1 DEF UserInvariant, TopicInOrder
      <3>3. n \in 0 .. MaxInt
        BY <2>3, <3>2, CompositionAssumption DEF InOrder
      <3>4. chain'[c].state = "pending" /\ chain'[c].seq = n
        BY <1>3, <1>2, <3>3, NextFits
      <3>5. n - 1 = (IF chain[c].state = "next" THEN chain[c].seq ELSE chain[c].seq - 1)
        BY <2>3, <3>2 DEF InOrder
      <3>6. received'[t] = {} \/ \E a \in Nat : a <= n - 1 /\ received'[t] = a .. n - 1
        BY <1>3, <3>2, <3>5 DEF InOrder
      <3> QED BY <1>3, <2>1, <3>3, <3>4, <3>6 DEF InOrder
    <2> QED BY <2>2, <2>3
  <1>5. TopicInOrder(t)'
    BY <1>3, <1>4 DEF TopicInOrder
  <1> QED BY <1>3, <1>5 DEF UserInvariant

\* A chain's request is lost, or answered with data.
LEMMA AnswersInOrder ==
    ASSUME Fits, UserInvariant, NEW c \in User!ChainIds, Loses(c) \/ Receives(c)
    PROVE  UserInvariant'
  <1>t. /\ chain \in [User!ChainIds -> ChainTypes]
        /\ subSequence \in [Topics -> Int] /\ received \in [Topics -> SUBSET Int]
    BY DEF UserInvariant, UserTyped
  <1>b. chain[c].state = "pending" /\ chain[c].topic \in Topics /\ chain[c].source = Repository
    BY DEF Loses, Receives, Becomes, UserInvariant, ChainsBorn
  <1>m. PICK t \in Topics, q \in Int, to \in {"retry", "next"} :
           /\ t = chain[c].topic /\ q = chain[c].seq
           /\ to = (IF Loses(c) THEN "retry" ELSE "next")
    BY <1>t, <1>b DEF ChainTypes
  <1>r. PICK r \in ChainTypes : r = [state |-> to, topic |-> t, source |-> Repository, seq |-> q]
    BY <1>m DEF ChainTypes, User!ChainStates
  <1>p. r = [chain[c] EXCEPT !.state = to]
    BY <1>b, <1>m, <1>r, <1>t DEF ChainTypes
  <1>1. chain' = [chain EXCEPT ![c] = r]
    <2>1. chain' = [chain EXCEPT ![c].state = to]
      BY <1>m DEF Loses, Receives, Becomes
    <2>2. chain' = [chain EXCEPT ![c] = [chain[c] EXCEPT !.state = to]]
      BY <2>1, <1>t
    <2> QED BY <2>2, <1>p
  <1>n. PICK m \in Int, R \in SUBSET Int :
           /\ m = (IF to = "retry" THEN subSequence[t] - 1 ELSE subSequence[t])
           /\ R = (IF to = "retry" THEN received[t] ELSE received[t] \cup {q})
    <2>1. /\ (IF to = "retry" THEN subSequence[t] - 1 ELSE subSequence[t]) \in Int
          /\ (IF to = "retry" THEN received[t] ELSE received[t] \cup {q}) \in SUBSET Int
      BY <1>t
    <2> QED BY <2>1
  <1>2. subSequence' = [subSequence EXCEPT ![t] = m] /\ received' = [received EXCEPT ![t] = R]
    <2>1. CASE to = "retry"
      <3>1. Loses(c) /\ m = subSequence[t] - 1 /\ R = received[t]
        BY <1>m, <1>n, <2>1
      <3>2. subSequence' = [subSequence EXCEPT ![t] = @ - 1] /\ received' = received
        BY <1>m, <3>1 DEF Loses
      <3> QED BY <1>t, <3>1, <3>2
    <2>2. CASE to = "next"
      <3>1. Receives(c) /\ m = subSequence[t] /\ R = received[t] \cup {q}
        BY <1>m, <1>n, <2>2
      <3>2. subSequence' = subSequence /\ received' = [received EXCEPT ![t] = @ \cup {q}]
        BY <1>m, <3>1 DEF Receives
      <3> QED BY <1>t, <3>1, <3>2
    <2> QED BY <2>1, <2>2
  <1>3. /\ UserTyped' /\ ChainsBorn' /\ ChainsOf(t)' = ChainsOf(t) \cup {c}
        /\ \A x \in Topics \ {t} : TopicInOrder(x)'
    <2>1. /\ r.state # "unborn" /\ r.topic = t /\ r.source = Repository
          /\ chain[c].state # "unborn" => chain[c].topic = t
      BY <1>m, <1>r
    <2> QED BY <1>1, <1>2, <2>1, ChainElsewhere
  <1>4. chain'[c] = r /\ subSequence'[t] = m /\ received'[t] = R
    BY <1>1, <1>2, <1>t
  <1>5. ASSUME NEW d \in User!ChainIds, ChainsOf(t)' = {d}
        PROVE  InOrder(t, d)'
    <2>1. d = c /\ ChainsOf(t) = {c}
      BY <1>3, <1>5, <1>b, <1>m DEF ChainsOf
    <2>2. InOrder(t, c)
      BY <2>1 DEF UserInvariant, TopicInOrder
    <2>3. q \in 0 .. MaxInt /\ subSequence[t] = q + 1 /\ MaxInt \in Nat
      BY <1>b, <1>m, <2>2, CompositionAssumption DEF InOrder
    <2>4. received[t] = {} \/ \E a \in Nat : a <= q - 1 /\ received[t] = a .. q - 1
      BY <1>b, <1>m, <2>2 DEF InOrder
    <2>5. CASE to = "retry"
      <3>1. m = q /\ R = received[t]
        BY <1>n, <2>3, <2>5
      <3>2. r.state = "retry" /\ r.seq = q
        BY <1>r, <2>5
      <3> QED BY <1>4, <2>1, <2>3, <2>4, <3>1, <3>2 DEF InOrder
    <2>6. CASE to = "next"
      <3>1. m = q + 1 /\ R = received[t] \cup {q}
        BY <1>n, <2>3, <2>6
      <3>2. r.state = "next" /\ r.seq = q
        BY <1>r, <2>6
      <3>3. q + 1 <= MaxInt
        <4>1. Receives(c)
          BY <1>m, <2>6
        <4> QED BY <4>1, <1>m, <2>3, CompositionAssumption DEF Receives, Fits
      <3>4. \E a \in Nat : a <= q /\ R = a .. q
        <4>1. CASE received[t] = {}
          <5>1. R = q .. q
            BY <3>1, <4>1, <2>3
          <5> QED BY <5>1, <2>3
        <4>2. ASSUME NEW a \in Nat, a <= q - 1, received[t] = a .. q - 1
              PROVE  a <= q /\ R = a .. q
          BY <3>1, <4>2, <2>3
        <4> QED BY <2>4, <4>1, <4>2
      <3> QED BY <1>4, <2>1, <2>3, <3>1, <3>2, <3>3, <3>4 DEF InOrder
    <2> QED BY <2>5, <2>6
  <1>6. TopicInOrder(t)'
    BY <1>3, <1>5 DEF TopicInOrder
  <1> QED BY <1>3, <1>6 DEF UserInvariant

LEMMA UserInvariantNext ==
    Fits /\ DeviceInvariant /\ UserInvariant /\ [Next]_vars => UserInvariant'
  <1> SUFFICES ASSUME Fits, DeviceInvariant, UserInvariant, [Next]_vars PROVE UserInvariant'
    OBVIOUS
  <1>1. ASSUME UNCHANGED <<chain, subSequence, received>>
        PROVE  UserInvariant'
    BY <1>1 DEF UserInvariant, UserTyped, ChainsBorn, TopicInOrder, NotStarted, InOrder, ChainsOf
  <1>2. ASSUME NEW c \in User!ChainIds, NEW t \in Topics, NEW n, Starting(t, n), Starts(c, t, n)
        PROVE  UserInvariant'
    <2>1. n \in Int /\ (ChainsOf(t) = {} => n \in 0 .. MaxInt)
      <3>1. CASE n = subSequence[t]
        BY <3>1, CompositionAssumption
        DEF UserInvariant, UserTyped, TopicInOrder, NotStarted
      <3>2. CASE stored[t] # {} /\ n = (IF Max(stored[t]) < 1 THEN 1 ELSE Max(stored[t]))
        <4>1. Max(stored[t]) \in Nat /\ Max(stored[t]) < FirstSequence + Device!LastRound
          BY <3>2, LastStored
        <4>2. FirstSequence + Device!LastRound <= MaxInt
          BY DEF Fits
        <4> QED BY <3>2, <4>1, <4>2, CompositionAssumption, LastRoundType
      <3> QED BY <1>2, <3>1, <3>2 DEF Starting
    <2> QED BY <1>2, <2>1, RequestsInOrder DEF Starts
  <1>3. ASSUME NEW c \in User!ChainIds, Resends(c)
        PROVE  UserInvariant'
    <2>1. PICK t \in Topics, n \in Int : t = chain[c].topic /\ n = subSequence[t]
      BY <1>3 DEF Resends, UserInvariant, UserTyped
    <2>2. Requests(c, t, n) /\ chain[c].state \in {"next", "retry"}
      BY <1>3, <2>1 DEF Resends
    <2> QED BY <2>1, <2>2, RequestsInOrder
  <1>4. CASE UserStep
    BY <1>1, <1>2, <1>3, <1>4, UserMoves, AnswersInOrder DEF UserInvariant
  <1>5. CASE DeviceStep \/ ServiceStep \/ UNCHANGED vars
    BY <1>1, <1>5
    DEF DeviceStep, ServiceStep, Advertise, Store, Withdraw, vars, user
  <1> QED BY <1>4, <1>5 DEF Next

\* As long as its sequences fit an int, a user with one chain for a topic receives
\* the device's readings without a gap, and asks for the one after.
THEOREM ReadingsUnbroken == ASSUME Fits PROVE Spec => []ReceivedUnbroken
  <1>1. UserInvariant => ReceivedUnbroken
    <2> SUFFICES ASSUME UserInvariant, NEW t \in Topics, OneChain(t), received[t] # {}
                 PROVE  /\ received[t] = Min(received[t]) .. Max(received[t])
                        /\ \A c \in ChainsOf(t) :
                              chain[c].state = "pending" =>
                                  chain[c].seq = Max(received[t]) + 1
      BY DEF ReceivedUnbroken
    <2>1. PICK c \in User!ChainIds : ChainsOf(t) = {c}
      BY DEF OneChain
    <2>2. InOrder(t, c)
      BY <2>1 DEF UserInvariant, TopicInOrder
    <2>3. PICK a \in Nat, b \in Int :
             /\ b = (IF chain[c].state = "next" THEN chain[c].seq ELSE chain[c].seq - 1)
             /\ a <= b /\ received[t] = a .. b
      BY <2>2, CompositionAssumption DEF InOrder
    <2>4. /\ received[t] \subseteq Int /\ a \in received[t] /\ b \in received[t]
          /\ \A n \in received[t] : a <= n /\ n <= b
      BY <2>3
    <2>5. Max(received[t]) = b /\ Min(received[t]) = a
      BY <2>4, MaxIs, MinIs
    <2>6. chain[c].state = "pending" => chain[c].seq = b + 1
      BY <2>2, <2>3, CompositionAssumption DEF InOrder
    <2> QED BY <2>1, <2>3, <2>4, <2>5, <2>6
  <1>2. Fits /\ [](DeviceInvariant) /\ Spec => []UserInvariant
    BY UserInvariantInit, UserInvariantNext, PTL DEF Spec
  <1> QED BY <1>1, <1>2, DeviceInvariantAlways, PTL
=============================================================================
