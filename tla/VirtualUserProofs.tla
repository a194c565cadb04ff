-------------------------- MODULE VirtualUserProofs --------------------------
(***************************************************************************)
(* Theorems about VirtualUser, for every set of topics and sources, every  *)
(* kind of reply, nack and exception and every width of int.               *)
(***************************************************************************)
EXTENDS VirtualUser, StatisticsProofs

\* The conversion of a long to an int yields an int, and changes none that fits.
LEMMA ToIntFits ==
    ASSUME NEW n \in Int
    PROVE  /\ ToInt(n) \in -(MaxInt + 1) .. MaxInt
           /\ n \in -(MaxInt + 1) .. MaxInt => ToInt(n) = n
  <1> DEFINE w == 2 * (MaxInt + 1)
             k == n + MaxInt + 1
  <1>1. w \in Nat \ {0} /\ k \in Int /\ MaxInt \in Nat
    BY UserAssumption, SequenceAssumption
  <1> HIDE DEF w, k
  <1>2. k % w \in 0 .. (w - 1)
    BY <1>1
  <1>3. k \in 0 .. (w - 1) => k % w = k
    BY <1>1
  <1>4. ToInt(n) = (k % w) - (MaxInt + 1)
    BY DEF ToInt, k, w
  <1>5. ToInt(n) \in -(MaxInt + 1) .. MaxInt
    BY <1>1, <1>2, <1>4 DEF w
  <1>6. n \in -(MaxInt + 1) .. MaxInt => ToInt(n) = n
    BY <1>1, <1>3, <1>4 DEF w, k
  <1> QED BY <1>5, <1>6

(***************************************************************************)
(* Type correctness.                                                       *)
(***************************************************************************)

\* A request that getNextSequence numbers is a member of Chains.
LEMMA ChainTyped ==
    ASSUME NEW t \in Topics, NEW s \in Sources, NEW n \in Int,
           NEW state \in {"pending", "lost"}
    PROVE  /\ [state |-> state, topic |-> t, source |-> s, seq |-> NextSequence(n)] \in Chains
           /\ AfterNext(n) \in Int /\ AfterTimeout(n) \in Int
  <1>1. NextSequence(n) \in SDSequences
    BY ToIntFits, UserAssumption, SequenceAssumption DEF NextSequence, SDSequences
  <1>2. AfterNext(n) \in Int /\ AfterTimeout(n) \in Int
    BY UserAssumption, SequenceAssumption DEF AfterNext, AfterTimeout
  <1> QED BY <1>1, <1>2 DEF Chains, ChainStates

\* sendSD keeps the types, whichever chain it is called for.
LEMMA TypeExpressSD ==
    ASSUME TypeOK, NEW c \in ChainIds, NEW t \in Topics, NEW s \in Sources, NEW n \in Int,
           ExpressSD(c, t, s, n)
    PROVE  /\ chain' \in [ChainIds -> {UnbornChain} \cup Chains]
           /\ m_sequence' \in [Topics -> Int] /\ gStatSD' \in Statistic
  <1>1. PICK state \in {"pending", "lost"} :
           /\ chain' = [chain EXCEPT ![c] = [state |-> state, topic |-> t,
                                             source |-> s, seq |-> NextSequence(n)]]
           /\ \/ state = "pending" /\ gStatSD' = increase_interest(gStatSD, 1)
              \/ state = "lost" /\ UNCHANGED gStatSD
    BY DEF ExpressSD
  <1>2. chain' \in [ChainIds -> {UnbornChain} \cup Chains]
    BY <1>1, ChainTyped DEF TypeOK
  <1>3. m_sequence' \in [Topics -> Int]
    BY ChainTyped DEF ExpressSD, TypeOK
  <1>4. gStatSD' \in Statistic
    BY <1>1 DEF TypeOK, Statistic, increase_interest
  <1> QED BY <1>2, <1>3, <1>4

\* The program starts in a state of the model: every variable has its type.
LEMMA UserTypeInit == Init => TypeOK
  <1>1. NewStatistic \in Statistic
    BY MaxU64Assumption DEF NewStatistic, Statistic
  <1> SUFFICES ASSUME Init PROVE TypeOK
    OBVIOUS
  <1>2. st \in [Topics -> RequestStages] /\ sm \in [Topics \X Sources -> RequestStages]
    BY DEF Init, RequestStages
  <1>3. chain \in [ChainIds -> {UnbornChain} \cup Chains] /\ m_sequence \in [Topics -> Int]
    BY DEF Init
  <1> QED BY <1>1, <1>2, <1>3 DEF Init, TypeOK

LEMMA UserTypeNext == TypeOK /\ [Next]_vars => TypeOK'
  <1> SUFFICES ASSUME TypeOK, [Next]_vars PROVE TypeOK'
    OBVIOUS
  <1>s. \A x \in Statistic, n \in Nat :
           /\ increase_interest(x, n) \in Statistic
           /\ increase_data(x) \in Statistic
           /\ increase_nack(x) \in Statistic
           /\ increase_timeout(x) \in Statistic
    BY DEF Statistic, increase_interest, increase_data, increase_nack, increase_timeout
  <1>a. ASSUME NEW t \in Topics, NEW from, NEW failed \in RequestStages,
               sendST(t, from, failed), started' \in BOOLEAN
        PROVE  TypeOK'
    BY <1>a, <1>s DEF sendST, TypeOK, RequestStages
  <1>r. "lost" \in RequestStages /\ "dropped" \in RequestStages
    BY DEF RequestStages
  <1>1. CASE StartST
    <2>1. ASSUME NEW t \in Topics, sendST(t, "unsent", "lost") PROVE TypeOK'
      <3>1. started' \in BOOLEAN
        BY <1>1 DEF StartST
      <3> QED BY <1>a, <1>r, <2>1, <3>1
    <2>2. CASE Topics = {} /\ UNCHANGED <<running, st, sm, chain, m_sequence,
                                          gStatST, gStatSM, gStatSD>>
      BY <1>1, <2>2 DEF StartST, TypeOK
    <2> QED BY <1>1, <2>1, <2>2 DEF StartST
  <1>2. CASE Stop
    BY <1>2 DEF Stop, TypeOK
  <1>3. ASSUME NEW t \in Topics, STStep(t) PROVE TypeOK'
    <2>1. CASE scheduleSendST(t) \/ ResendST(t)
      BY <1>a, <1>r, <2>1 DEF scheduleSendST, ResendST, TypeOK
    <2>2. CASE STTimeout(t) \/ STNack(t)
      BY <1>s, <2>2 DEF STTimeout, STNack, TypeOK, RequestStages
    <2>3. ASSUME NEW listed \in SUBSET Sources, STData(t, listed) PROVE TypeOK'
      <3>1. Cardinality(listed) \in Nat
        BY UserAssumption, FS_Subset, FS_CardinalityType
      <3>2. sm' \in [Topics \X Sources -> RequestStages]
        BY <2>3 DEF STData, TypeOK, RequestStages
      <3> QED BY <1>s, <2>3, <3>1, <3>2 DEF STData, TypeOK, RequestStages
    <2> QED BY <1>3, <2>1, <2>2, <2>3 DEF STStep
  <1>4. ASSUME NEW t \in Topics, NEW s \in Sources, SMStep(t, s) PROVE TypeOK'
    <2>1. CASE ResendSM(t, s) \/ SMTimeout(t, s) \/ SMNack(t, s)
      <3>1. \E to \in RequestStages : sm' = [sm EXCEPT ![<<t, s>>] = to]
        BY <2>1 DEF ResendSM, SMTimeout, SMNack, RequestStages
      <3>2. sm' \in [Topics \X Sources -> RequestStages]
        BY <3>1 DEF TypeOK
      <3>3. gStatSM' \in Statistic
        BY <1>s, <2>1 DEF ResendSM, SMTimeout, SMNack, TypeOK
      <3> QED BY <2>1, <3>2, <3>3 DEF ResendSM, SMTimeout, SMNack, TypeOK
    <2>2. CASE SMDataMalformed(t, s)
      BY <1>s, <2>2 DEF SMDataMalformed, SMReply, TypeOK, RequestStages
    <2>3. ASSUME NEW to \in {"answered", "scheduled"}, SMReply(t, s, to),
                 NEW n \in Int, StartChain(t, s, n)
          PROVE  TypeOK'
      <3>1. PICK c \in ChainIds : ExpressSD(c, t, s, n)
        BY <2>3 DEF StartChain
      <3>2. /\ chain' \in [ChainIds -> {UnbornChain} \cup Chains]
            /\ m_sequence' \in [Topics -> Int] /\ gStatSD' \in Statistic
        BY <3>1, TypeExpressSD
      <3> QED BY <1>s, <2>3, <3>2 DEF SMReply, TypeOK, RequestStages
    <2>4. m_sequence[t] \in Int /\ LastSequences \subseteq Int
      BY UserAssumption, SequenceAssumption DEF TypeOK
    <2>5. CASE SMDataNotFound(t, s) \/ SMDataOther(t, s)
      BY <2>3, <2>4, <2>5 DEF SMDataNotFound, SMDataOther
    <2>6. ASSUME NEW lst \in LastSequences, SMDataOK(t, s, lst) PROVE TypeOK'
      <3>1. (IF lst < 1 THEN 1 ELSE lst) \in Int
        BY <2>4
      <3> QED BY <2>3, <2>6, <3>1 DEF SMDataOK
    <2> QED BY <1>4, <2>1, <2>2, <2>5, <2>6 DEF SMStep
  <1>5. ASSUME NEW c \in ChainIds, SDStep(c) PROVE TypeOK'
    <2>1. ASSUME chain[c].state # "unborn" PROVE chain[c] \in Chains
      BY <2>1 DEF TypeOK, UnbornChain
    <2>2. CASE sendSD(c)
      <3>1. /\ chain[c].topic \in Topics /\ chain[c].source \in Sources
            /\ m_sequence[chain[c].topic] \in Int
        BY <2>1, <2>2 DEF sendSD, Chains, TypeOK
      <3>2. /\ chain' \in [ChainIds -> {UnbornChain} \cup Chains]
            /\ m_sequence' \in [Topics -> Int] /\ gStatSD' \in Statistic
        BY <2>2, <3>1, TypeExpressSD DEF sendSD
      <3> QED BY <2>2, <3>2 DEF sendSD, TypeOK
    <2>3. ASSUME NEW to \in {"next", "retry", "nacked"}, SDAnswer(c, to)
          PROVE  /\ chain' \in [ChainIds -> {UnbornChain} \cup Chains]
                 /\ chain[c].topic \in Topics
      BY <2>1, <2>3 DEF SDAnswer, Chains, ChainStates, TypeOK
    <2>4. CASE SDData(c)
      BY <1>s, <2>3, <2>4 DEF SDData, SDAnswer, TypeOK
    <2>5. ASSUME NEW t \in Topics PROVE AfterTimeout(m_sequence[t]) \in Int
      BY UserAssumption, SequenceAssumption DEF AfterTimeout, TypeOK
    <2>6. CASE SDTimeout(c)
      BY <1>s, <2>3, <2>5, <2>6 DEF SDTimeout, SDAnswer, TypeOK
    <2>7. CASE SDNack(c)
      BY <1>s, <2>3, <2>5, <2>7 DEF SDNack, SDAnswer, TypeOK
    <2> QED BY <1>5, <2>2, <2>4, <2>6, <2>7 DEF SDStep
  <1>6. CASE UNCHANGED vars
    BY <1>6 DEF vars, TypeOK
  <1> QED BY <1>1, <1>2, <1>3, <1>4, <1>5, <1>6 DEF Next

\* Every variable keeps its type; in particular a sequence requested is what
\* m_fetch or an int can hold, however often m_sequence is counted up and down.
THEOREM UserTypeCorrect == Spec => []TypeOK
  BY UserTypeInit, UserTypeNext, PTL DEF Spec

(***************************************************************************)
(* Interest accounting.  It is inductive together with the order of the    *)
(* requests: no source of a topic is asked before the topic's ST reply has *)
(* come, so that the sendSMs of that reply are all new.                    *)
(***************************************************************************)
NotAskedYet ==
    \A t \in Topics, s \in Sources : st[t] # "answered" => sm[<<t, s>>] = "unsent"

Accounted == InterestAccounting /\ NotAskedYet

\* g is f except at x.
ChangesAt(f, g, x) == DOMAIN g = DOMAIN f /\ \A y \in DOMAIN f \ {x} : g[y] = f[y]

\* What a request that changes its stage does to the number of pending ones.
LEMMA PendingMoved ==
    ASSUME NEW D, IsFiniteSet(D), NEW f, NEW g, DOMAIN f = D, NEW x \in D,
           ChangesAt(f, g, x)
    PROVE  /\ Cardinality(Pending(f)) \in Nat
           /\ Cardinality(Pending(g)) = Cardinality(Pending(f))
                 + (IF g[x] = "pending" THEN 1 ELSE 0) - (IF f[x] = "pending" THEN 1 ELSE 0)
  <1> DEFINE F == Pending(f)
             G == Pending(g)
  <1>1. F \subseteq D /\ G \subseteq D /\ F \ {x} = G \ {x}
    BY DEF Pending, ChangesAt
  <1>2. x \in F <=> f[x] = "pending"
    BY DEF Pending
  <1>3. x \in G <=> g[x] = "pending"
    BY DEF Pending, ChangesAt
  <1> HIDE DEF F, G
  <1>4. /\ Cardinality(F) \in Nat
        /\ Cardinality(G) = Cardinality(F) + (IF x \in G THEN 1 ELSE 0)
                                          - (IF x \in F THEN 1 ELSE 0)
    BY ONLY IsFiniteSet(D), <1>1, CountChanged
  <1> QED BY <1>2, <1>3, <1>4 DEF F, G

\* The same of the chains, when sendSD or an answer gives chain c a new record.
LEMMA ChainMoved ==
    ASSUME NEW c \in ChainIds, \A d \in ChainIds \ {c} : chain'[d] = chain[d]
    PROVE  /\ Cardinality(SDPending) \in Nat
           /\ Cardinality(SDPending') = Cardinality(SDPending)
                 + (IF chain'[c].state = "pending" THEN 1 ELSE 0)
                 - (IF chain[c].state = "pending" THEN 1 ELSE 0)
  <1>1. IsFiniteSet(ChainIds)
    BY UserAssumption, FS_Interval DEF ChainIds
  <1>2. /\ SDPending \subseteq ChainIds /\ SDPending' \subseteq ChainIds
        /\ SDPending \ {c} = SDPending' \ {c}
        /\ c \in SDPending <=> chain[c].state = "pending"
        /\ c \in SDPending' <=> chain'[c].state = "pending"
    BY DEF SDPending
  <1> QED BY <1>1, <1>2, CountChanged

\* An ST reply adds one pending SM request for every source it lists.
LEMMA ListedPending ==
    ASSUME TypeOK, NotAskedYet, NEW t \in Topics, NEW listed \in SUBSET Sources,
           STData(t, listed)
    PROVE  /\ Cardinality(listed) \in Nat
           /\ Cardinality(Pending(sm')) = Cardinality(Pending(sm)) + Cardinality(listed)
  <1>1. IsFiniteSet(listed) /\ IsFiniteSet({t}) /\ Cardinality({t}) = 1
    BY UserAssumption, FS_Subset, FS_Singleton
  <1>2. Cardinality(listed) \in Nat
    BY <1>1, FS_CardinalityType
  <1>3. /\ IsFiniteSet({t} \X listed)
        /\ Cardinality({t} \X listed) = Cardinality(listed)
    BY <1>1, <1>2, FS_Product
  <1>4. IsFiniteSet(Pending(sm)) /\ Cardinality(Pending(sm)) \in Nat
    <2>1. IsFiniteSet(Topics \X Sources) /\ Pending(sm) \subseteq Topics \X Sources
      BY UserAssumption, FS_Product DEF TypeOK, Pending
    <2> QED BY <2>1, FS_Subset, FS_CardinalityType
  <1>5. Pending(sm) \cap ({t} \X listed) = {}
    BY DEF STData, NotAskedYet, Pending, TypeOK
  <1>6. Pending(sm') = Pending(sm) \cup ({t} \X listed)
    BY DEF STData, Pending, TypeOK
  <1>7. Cardinality(Pending(sm')) =
            Cardinality(Pending(sm)) + Cardinality({t} \X listed) - Cardinality({})
    BY <1>3, <1>4, <1>5, <1>6, FS_Union
  <1> QED BY <1>2, <1>3, <1>4, <1>7, FS_EmptySet

LEMMA AccountedInit == Init => Accounted
  <1> SUFFICES ASSUME Init PROVE Accounted
    OBVIOUS
  <1>1. Pending(st) = {} /\ Pending(sm) = {} /\ SDPending = {}
    BY DEF Init, Pending, SDPending, UnbornChain
  <1>2. Outstanding(NewStatistic) = 0
    BY DEF Outstanding, NewStatistic
  <1> QED BY <1>1, <1>2, FS_EmptySet DEF Init, Accounted, InterestAccounting, NotAskedYet

\* Only the ST step of the topic itself touches st, and it touches sm only when
\* its Data comes.
LEMMA NotAskedStep == TypeOK /\ NotAskedYet /\ [Next]_vars => NotAskedYet'
  <1> SUFFICES ASSUME TypeOK, NotAskedYet, [Next]_vars PROVE NotAskedYet'
    OBVIOUS
  <1>1. ASSUME UNCHANGED sm, UNCHANGED st \/ \E t \in Topics, to \in RequestStages :
                  st[t] # "answered" /\ st' = [st EXCEPT ![t] = to]
        PROVE  NotAskedYet'
    BY <1>1 DEF NotAskedYet, TypeOK
  <1>2. ASSUME UNCHANGED st, NEW t \in Topics, NEW s \in Sources, NEW to,
               sm[<<t, s>>] # "unsent", sm' = [sm EXCEPT ![<<t, s>>] = to]
        PROVE  NotAskedYet'
    BY <1>2 DEF NotAskedYet, TypeOK
  <1>3. ASSUME NEW t \in Topics, NEW from \in {"unsent", "scheduled"},
               NEW failed \in RequestStages, sendST(t, from, failed)
        PROVE  NotAskedYet'
    BY <1>1, <1>3 DEF sendST, RequestStages
  <1>r. "lost" \in RequestStages /\ "dropped" \in RequestStages
    BY DEF RequestStages
  <1>4. CASE StartST
    BY <1>1, <1>3, <1>4, <1>r DEF StartST
  <1>5. CASE Stop \/ UNCHANGED vars
    BY <1>1, <1>5 DEF Stop, vars
  <1>6. ASSUME NEW t \in Topics, STStep(t) PROVE NotAskedYet'
    <2>1. CASE scheduleSendST(t) \/ ResendST(t)
      BY <1>3, <1>r, <2>1 DEF scheduleSendST, ResendST
    <2>2. CASE STTimeout(t) \/ STNack(t)
      BY <1>1, <2>2 DEF STTimeout, STNack, RequestStages
    <2>3. ASSUME NEW listed \in SUBSET Sources, STData(t, listed) PROVE NotAskedYet'
      BY <2>3 DEF STData, NotAskedYet, TypeOK
    <2> QED BY <1>6, <2>1, <2>2, <2>3 DEF STStep
  <1>7. ASSUME NEW t \in Topics, NEW s \in Sources, SMStep(t, s) PROVE NotAskedYet'
    <2>1. CASE ResendSM(t, s) \/ SMTimeout(t, s) \/ SMNack(t, s)
      BY <1>2, <2>1 DEF ResendSM, SMTimeout, SMNack
    <2>2. ASSUME NEW to, SMReply(t, s, to) PROVE NotAskedYet'
      BY <1>2, <2>2 DEF SMReply
    <2> QED BY <1>7, <2>1, <2>2
            DEF SMStep, SMDataOK, SMDataNotFound, SMDataOther, SMDataMalformed
  <1>8. ASSUME NEW c \in ChainIds, SDStep(c) PROVE NotAskedYet'
    BY <1>1, <1>8 DEF SDStep, sendSD, SDData, SDTimeout, SDNack, SDAnswer
  <1> QED BY <1>4, <1>5, <1>6, <1>7, <1>8 DEF Next

\* What sendSD does to the number of pending chains and to the books of SD.
LEMMA ExpressAccounted ==
    ASSUME TypeOK, NEW c \in ChainIds, NEW t, NEW s, NEW n, ExpressSD(c, t, s, n),
           chain[c].state # "pending", Outstanding(gStatSD) = Cardinality(SDPending)
    PROVE  Outstanding(gStatSD') = Cardinality(SDPending')
  <1>1. PICK state \in {"pending", "lost"} :
           /\ chain' = [chain EXCEPT ![c] = [state |-> state, topic |-> t,
                                             source |-> s, seq |-> NextSequence(n)]]
           /\ \/ state = "pending" /\ gStatSD' = increase_interest(gStatSD, 1)
              \/ state = "lost" /\ UNCHANGED gStatSD
    BY DEF ExpressSD
  <1>2. /\ Cardinality(SDPending) \in Nat
        /\ Cardinality(SDPending') =
              Cardinality(SDPending) + (IF state = "pending" THEN 1 ELSE 0)
    <2>1. chain'[c].state = state /\ \A d \in ChainIds \ {c} : chain'[d] = chain[d]
      BY <1>1 DEF TypeOK
    <2> QED BY <2>1, ChainMoved
  <1>3. Outstanding(increase_interest(gStatSD, 1)) = Outstanding(gStatSD) + 1
    BY OutstandingChange DEF TypeOK
  <1> QED BY <1>1, <1>2, <1>3

LEMMA AccountedNext == TypeOK /\ Accounted /\ [Next]_vars => Accounted'
  <1> SUFFICES ASSUME TypeOK, Accounted, [Next]_vars PROVE InterestAccounting'
    BY NotAskedStep DEF Accounted
  <1> DEFINE Books == /\ Outstanding(gStatST') = Cardinality(Pending(st'))
                      /\ Outstanding(gStatSM') = Cardinality(Pending(sm'))
                      /\ Outstanding(gStatSD') = Cardinality(SDPending')
  <1> SUFFICES Books
    BY DEF InterestAccounting, Outstanding, Pending
  <1>o. \A x \in Statistic :
           /\ Outstanding(increase_interest(x, 1)) = Outstanding(x) + 1
           /\ Outstanding(increase_data(x)) = Outstanding(x) - 1
           /\ Outstanding(increase_nack(x)) = Outstanding(x) - 1
           /\ Outstanding(increase_timeout(x)) = Outstanding(x) - 1
    BY DEF Outstanding, Statistic, increase_interest, increase_data, increase_nack,
           increase_timeout
  <1>b. /\ Outstanding(gStatST) = Cardinality(Pending(st))
        /\ Outstanding(gStatSM) = Cardinality(Pending(sm))
        /\ Outstanding(gStatSD) = Cardinality(SDPending)
        /\ gStatST \in Statistic /\ gStatSM \in Statistic /\ gStatSD \in Statistic
    BY DEF Accounted, InterestAccounting, TypeOK
  <1>t. ASSUME NEW t \in Topics, ChangesAt(st, st', t)
        PROVE  /\ Cardinality(Pending(st)) \in Nat
               /\ st[t] = "pending" /\ st'[t] # "pending" =>
                      Cardinality(Pending(st')) = Cardinality(Pending(st)) - 1
               /\ st[t] # "pending" /\ st'[t] = "pending" =>
                      Cardinality(Pending(st')) = Cardinality(Pending(st)) + 1
               /\ st[t] # "pending" /\ st'[t] # "pending" =>
                      Cardinality(Pending(st')) = Cardinality(Pending(st))
    <2>1. IsFiniteSet(Topics) /\ DOMAIN st = Topics
      BY UserAssumption, SequenceAssumption DEF TypeOK
    <2> QED BY <1>t, <2>1, PendingMoved
  <1>m. ASSUME NEW t \in Topics, NEW s \in Sources, ChangesAt(sm, sm', <<t, s>>)
        PROVE  /\ Cardinality(Pending(sm)) \in Nat
               /\ sm[<<t, s>>] = "pending" /\ sm'[<<t, s>>] # "pending" =>
                      Cardinality(Pending(sm')) = Cardinality(Pending(sm)) - 1
               /\ sm[<<t, s>>] # "pending" /\ sm'[<<t, s>>] = "pending" =>
                      Cardinality(Pending(sm')) = Cardinality(Pending(sm)) + 1
               /\ sm[<<t, s>>] # "pending" /\ sm'[<<t, s>>] # "pending" =>
                      Cardinality(Pending(sm')) = Cardinality(Pending(sm))
    <2>1. /\ IsFiniteSet(Topics \X Sources) /\ <<t, s>> \in Topics \X Sources
          /\ DOMAIN sm = Topics \X Sources
      BY UserAssumption, FS_Product DEF TypeOK
    <2>2. /\ Cardinality(Pending(sm)) \in Nat
          /\ Cardinality(Pending(sm')) = Cardinality(Pending(sm))
                + (IF sm'[<<t, s>>] = "pending" THEN 1 ELSE 0)
                - (IF sm[<<t, s>>] = "pending" THEN 1 ELSE 0)
      BY <1>m, <2>1, PendingMoved
    <2> QED BY <2>2
  <1>c. UNCHANGED chain => SDPending' = SDPending
    BY DEF SDPending
  <1>0. CASE UNCHANGED vars
    BY <1>0, <1>b, <1>c DEF vars
  <1>1. ASSUME NEW t \in Topics, NEW from \in {"unsent", "scheduled"},
               NEW failed \in {"lost", "dropped"}, sendST(t, from, failed)
        PROVE  Books
    <2>1. UNCHANGED <<sm, chain, gStatSM, gStatSD>> /\ st[t] = from
      BY <1>1 DEF sendST
    <2>2. CASE st' = [st EXCEPT ![t] = "pending"] /\ gStatST' = increase_interest(gStatST, 1)
      <3>1. ChangesAt(st, st', t) /\ st'[t] = "pending"
        BY <2>2 DEF ChangesAt, TypeOK
      <3>2. Outstanding(gStatST') = Cardinality(Pending(st'))
        BY <1>b, <1>o, <1>t, <2>1, <2>2, <3>1
      <3> QED BY <1>b, <1>c, <2>1, <3>2
    <2>3. CASE st' = [st EXCEPT ![t] = failed] /\ UNCHANGED gStatST
      <3>1. ChangesAt(st, st', t) /\ st'[t] = failed
        BY <2>3 DEF ChangesAt, TypeOK
      <3>2. Outstanding(gStatST') = Cardinality(Pending(st'))
        BY <1>b, <1>t, <2>1, <2>3, <3>1
      <3> QED BY <1>b, <1>c, <2>1, <3>2
    <2> QED BY <1>1, <2>2, <2>3 DEF sendST
  <1>2. CASE StartST
    BY <1>0, <1>1, <1>2, <1>b, <1>c DEF StartST
  <1>3. CASE Stop
    BY <1>3, <1>b, <1>c DEF Stop
  <1>4. ASSUME NEW t \in Topics, STStep(t) PROVE Books
    <2>1. CASE scheduleSendST(t) \/ ResendST(t)
      BY <1>1, <2>1 DEF scheduleSendST, ResendST
    <2>2. CASE STTimeout(t)
      <3>1. ChangesAt(st, st', t) /\ st'[t] = "scheduled" /\ st[t] = "pending"
        BY <2>2 DEF STTimeout, ChangesAt, TypeOK
      <3>2. Outstanding(gStatST') = Cardinality(Pending(st'))
        BY <1>b, <1>o, <1>t, <2>2, <3>1 DEF STTimeout
      <3> QED BY <1>b, <1>c, <2>2, <3>2 DEF STTimeout
    <2>3. CASE STNack(t)
      <3>1. ChangesAt(st, st', t) /\ st'[t] = "nacked" /\ st[t] = "pending"
        BY <2>3 DEF STNack, ChangesAt, TypeOK
      <3>2. Outstanding(gStatST') = Cardinality(Pending(st'))
        BY <1>b, <1>o, <1>t, <2>3, <3>1 DEF STNack
      <3> QED BY <1>b, <1>c, <2>3, <3>2 DEF STNack
    <2>4. ASSUME NEW listed \in SUBSET Sources, STData(t, listed) PROVE Books
      <3>1. /\ Cardinality(listed) \in Nat
            /\ Cardinality(Pending(sm')) = Cardinality(Pending(sm)) + Cardinality(listed)
        BY <2>4, ListedPending DEF Accounted
      <3>2. /\ st[t] = "pending" /\ st' = [st EXCEPT ![t] = "answered"]
            /\ gStatST' = increase_data(gStatST)
            /\ gStatSM' = increase_interest(gStatSM, Cardinality(listed))
            /\ UNCHANGED <<chain, gStatSD>>
        BY <2>4 DEF STData
      <3>3. Outstanding(gStatSM') = Outstanding(gStatSM) + Cardinality(listed)
        BY <1>b, <3>1, <3>2 DEF Outstanding, Statistic, increase_interest
      <3>4. Outstanding(gStatST') = Cardinality(Pending(st'))
        <4>1. ChangesAt(st, st', t) /\ st'[t] = "answered"
          BY <3>2 DEF ChangesAt, TypeOK
        <4> QED BY <1>b, <1>o, <1>t, <3>2, <4>1
      <3> QED BY <1>b, <1>c, <3>1, <3>2, <3>3, <3>4
    <2> QED BY <1>4, <2>1, <2>2, <2>3, <2>4 DEF STStep
  <1>5. ASSUME NEW t \in Topics, NEW s \in Sources, SMStep(t, s) PROVE Books
    <2>1. CASE ResendSM(t, s)
      <3>1. ChangesAt(sm, sm', <<t, s>>) /\ sm[<<t, s>>] = "scheduled"
        BY <2>1 DEF ResendSM, ChangesAt, TypeOK
      <3>2. \/ sm'[<<t, s>>] = "pending" /\ gStatSM' = increase_interest(gStatSM, 1)
            \/ sm'[<<t, s>>] = "dropped" /\ UNCHANGED gStatSM
        BY <2>1 DEF ResendSM, TypeOK
      <3>3. Outstanding(gStatSM') = Cardinality(Pending(sm'))
        BY <1>b, <1>m, <1>o, <3>1, <3>2
      <3> QED BY <1>b, <1>c, <2>1, <3>3 DEF ResendSM
    <2>2. CASE SMTimeout(t, s)
      <3>1. /\ ChangesAt(sm, sm', <<t, s>>) /\ sm'[<<t, s>>] = "scheduled"
            /\ sm[<<t, s>>] = "pending"
        BY <2>2 DEF SMTimeout, ChangesAt, TypeOK
      <3>2. Outstanding(gStatSM') = Cardinality(Pending(sm'))
        BY <1>b, <1>m, <1>o, <2>2, <3>1 DEF SMTimeout
      <3> QED BY <1>b, <1>c, <2>2, <3>2 DEF SMTimeout
    <2>3. CASE SMNack(t, s)
      <3>1. /\ ChangesAt(sm, sm', <<t, s>>) /\ sm'[<<t, s>>] = "nacked"
            /\ sm[<<t, s>>] = "pending"
        BY <2>3 DEF SMNack, ChangesAt, TypeOK
      <3>2. Outstanding(gStatSM') = Cardinality(Pending(sm'))
        BY <1>b, <1>m, <1>o, <2>3, <3>1 DEF SMNack
      <3> QED BY <1>b, <1>c, <2>3, <3>2 DEF SMNack
    <2>4. ASSUME NEW to \in {"answered", "scheduled"}, SMReply(t, s, to),
                 Outstanding(gStatSD') = Cardinality(SDPending')
          PROVE  Books
      <3>1. /\ ChangesAt(sm, sm', <<t, s>>) /\ sm'[<<t, s>>] # "pending"
            /\ sm[<<t, s>>] = "pending"
        BY <2>4 DEF SMReply, ChangesAt, TypeOK
      <3>2. Outstanding(gStatSM') = Cardinality(Pending(sm'))
        BY <1>b, <1>m, <1>o, <2>4, <3>1 DEF SMReply
      <3> QED BY <1>b, <2>4, <3>2 DEF SMReply
    <2>5. ASSUME NEW n, StartChain(t, s, n)
          PROVE  Outstanding(gStatSD') = Cardinality(SDPending')
      <3>1. PICK c \in ChainIds : chain[c] = UnbornChain /\ ExpressSD(c, t, s, n)
        BY <2>5 DEF StartChain
      <3>2. chain[c].state # "pending"
        BY <3>1 DEF UnbornChain
      <3> QED BY <1>b, <3>1, <3>2, ExpressAccounted
    <2>6. CASE SMDataMalformed(t, s)
      BY <1>b, <1>c, <2>4, <2>6 DEF SMDataMalformed
    <2>7. CASE SMDataNotFound(t, s) \/ SMDataOther(t, s)
      BY <2>4, <2>5, <2>7 DEF SMDataNotFound, SMDataOther
    <2>8. ASSUME NEW lst \in LastSequences, SMDataOK(t, s, lst) PROVE Books
      BY <2>4, <2>5, <2>8 DEF SMDataOK
    <2> QED BY <1>5, <2>1, <2>2, <2>3, <2>6, <2>7, <2>8 DEF SMStep
  <1>6. ASSUME NEW c \in ChainIds, SDStep(c) PROVE Books
    <2>1. CASE sendSD(c)
      <3>1. /\ chain[c].state # "pending" /\ UNCHANGED <<st, sm, gStatST, gStatSM>>
            /\ ExpressSD(c, chain[c].topic, chain[c].source, m_sequence[chain[c].topic])
        BY <2>1 DEF sendSD
      <3>2. Outstanding(gStatSD') = Cardinality(SDPending')
        BY <1>b, <3>1, ExpressAccounted
      <3> QED BY <1>b, <3>1, <3>2
    <2>2. ASSUME NEW to \in {"next", "retry", "nacked"}, SDAnswer(c, to)
          PROVE  /\ Cardinality(SDPending) \in Nat
                 /\ Cardinality(SDPending') = Cardinality(SDPending) - 1
                 /\ UNCHANGED <<st, sm, gStatST, gStatSM>>
      <3>1. /\ chain' = [chain EXCEPT ![c].state = to] /\ chain[c].state = "pending"
            /\ UNCHANGED <<st, sm, gStatST, gStatSM>>
        BY <2>2 DEF SDAnswer
      <3>2. chain'[c].state = to /\ \A d \in ChainIds \ {c} : chain'[d] = chain[d]
        BY <3>1 DEF TypeOK, Chains, UnbornChain
      <3> QED BY <3>1, <3>2, ChainMoved
    <2>3. CASE SDData(c)
      BY <1>b, <1>o, <2>2, <2>3 DEF SDData
    <2>4. CASE SDTimeout(c)
      BY <1>b, <1>o, <2>2, <2>4 DEF SDTimeout
    <2>5. CASE SDNack(c)
      BY <1>b, <1>o, <2>2, <2>5 DEF SDNack
    <2> QED BY <1>6, <2>1, <2>3, <2>4, <2>5 DEF SDStep
  <1> QED BY <1>0, <1>2, <1>3, <1>4, <1>5, <1>6 DEF Next

\* The books of ST, SM and SD balance after every callback: for any number of
\* topics and of sources a reply lists, with every kind of reply, nack and
\* exception, an Interest counted is answered, timed out or still awaited.
THEOREM UserInterestsAccounted == Spec => []InterestAccounting
  <1>1. Init => TypeOK /\ Accounted
    BY UserTypeInit, AccountedInit
  <1>2. TypeOK /\ Accounted /\ [Next]_vars => TypeOK' /\ Accounted'
    BY UserTypeNext, AccountedNext
  <1>3. TypeOK /\ Accounted => InterestAccounting
    BY DEF Accounted
  <1> QED BY <1>1, <1>2, <1>3, PTL DEF Spec

(***************************************************************************)
(* The sequence the chains of a topic share.                               *)
(***************************************************************************)

Born(c) == chain[c] # UnbornChain

One(holds) == IF holds THEN 1 ELSE 0

\* Chain c, of topic t, gets a new record; no other chain does.
Renewed(c, t) ==
    /\ \A d \in ChainIds \ {c} : chain'[d] = chain[d]
    /\ Born(c) => chain[c].topic = t
    /\ Born(c)' /\ chain'[c].topic = t

\* What that does to the number of chains of the topic, and of pending ones.
Recounted(c, t) ==
    LET P == Cardinality(PendingOf(t))
        B == Cardinality(ChainsOf(t))
    IN  /\ P \in Nat /\ B \in Nat /\ P <= B
        /\ Cardinality(PendingOf(t)') =
              P + One(chain'[c].state = "pending") - One(chain[c].state = "pending")
        /\ Cardinality(ChainsOf(t)') = B + One(~Born(c))

LEMMA ChainsRecounted ==
    ASSUME NEW c \in ChainIds, NEW t \in Topics, Renewed(c, t)
    PROVE  Recounted(c, t)
  <1>1. IsFiniteSet(ChainIds)
    BY UserAssumption, FS_Interval DEF ChainIds
  <1>2. /\ ChainsOf(t) \subseteq ChainIds /\ ChainsOf(t)' \subseteq ChainIds
        /\ ChainsOf(t) \ {c} = ChainsOf(t)' \ {c}
        /\ c \in ChainsOf(t) <=> Born(c)
        /\ c \in ChainsOf(t)'
    BY DEF ChainsOf, Renewed, Born
  <1>3. /\ PendingOf(t) \subseteq ChainsOf(t)
        /\ PendingOf(t) \subseteq ChainIds /\ PendingOf(t)' \subseteq ChainIds
        /\ PendingOf(t) \ {c} = PendingOf(t)' \ {c}
        /\ c \in PendingOf(t) <=> chain[c].state = "pending"
        /\ c \in PendingOf(t)' <=> chain'[c].state = "pending"
    BY DEF PendingOf, ChainsOf, Renewed, Born, UnbornChain
  <1>4. /\ Cardinality(ChainsOf(t)) \in Nat
        /\ Cardinality(ChainsOf(t)') = Cardinality(ChainsOf(t)) + One(~Born(c))
    <2>1. /\ Cardinality(ChainsOf(t)) \in Nat
          /\ Cardinality(ChainsOf(t)') = Cardinality(ChainsOf(t))
                + (IF c \in ChainsOf(t)' THEN 1 ELSE 0) - (IF c \in ChainsOf(t) THEN 1 ELSE 0)
      BY <1>1, <1>2, CountChanged
    <2> QED BY <1>2, <2>1 DEF One
  <1>5. /\ Cardinality(PendingOf(t)) \in Nat
        /\ Cardinality(PendingOf(t)') = Cardinality(PendingOf(t))
              + One(chain'[c].state = "pending") - One(chain[c].state = "pending")
    <2>1. /\ Cardinality(PendingOf(t)) \in Nat
          /\ Cardinality(PendingOf(t)') = Cardinality(PendingOf(t))
                + (IF c \in PendingOf(t)' THEN 1 ELSE 0) - (IF c \in PendingOf(t) THEN 1 ELSE 0)
      BY <1>1, <1>3, CountChanged
    <2> QED BY <1>3, <2>1 DEF One
  <1>6. Cardinality(PendingOf(t)) <= Cardinality(ChainsOf(t))
    <2>1. IsFiniteSet(ChainsOf(t))
      BY <1>1, <1>2, FS_Subset
    <2> QED BY <1>3, <2>1, FS_Subset
  <1> QED BY <1>4, <1>5, <1>6 DEF Recounted

\* m_sequence less the pending requests does not fall, except that an OK reply
\* sets the topic's m_sequence to 1 at least and draws from it for a new chain.
LEMMA FloorKept ==
    ASSUME TypeOK, Fetch <= 0, SequenceFloor, NEW c \in ChainIds, NEW t \in Topics,
           Renewed(c, t), NEW m \in Int, m_sequence' = [m_sequence EXCEPT ![t] = m],
           \/ m - One(chain'[c].state = "pending") >=
                  m_sequence[t] - One(chain[c].state = "pending")
           \/ ~Born(c) /\ m >= 2
    PROVE  SequenceFloor'
  <1> SUFFICES ASSUME NEW u \in Topics
               PROVE  \/ Cardinality(PendingOf(u)') <= m_sequence'[u]
                      \/ Cardinality(PendingOf(u)') + 2
                             <= m_sequence'[u] + Cardinality(ChainsOf(u)')
    BY DEF SequenceFloor, PendingOf, ChainsOf
  <1>1. \/ Cardinality(PendingOf(u)) <= m_sequence[u]
        \/ Cardinality(PendingOf(u)) + 2 <= m_sequence[u] + Cardinality(ChainsOf(u))
    BY DEF SequenceFloor
  <1>2. CASE u # t
    <2>1. ChainsOf(u)' = ChainsOf(u) /\ PendingOf(u)' = PendingOf(u)
      BY <1>2 DEF ChainsOf, PendingOf, Renewed, Born
    <2>2. m_sequence'[u] = m_sequence[u]
      BY <1>2 DEF TypeOK
    <2> QED BY <1>1, <2>1, <2>2
  <1>3. CASE u = t
    <2> DEFINE P == Cardinality(PendingOf(t))
               B == Cardinality(ChainsOf(t))
               Q == Cardinality(PendingOf(t)')
               C == Cardinality(ChainsOf(t)')
               n == m_sequence[t]
               now == One(chain'[c].state = "pending")
               was == One(chain[c].state = "pending")
               new == One(~Born(c))
    <2>1. /\ P \in Nat /\ B \in Nat /\ P <= B
          /\ Q = P + now - was /\ C = B + new
      BY ChainsRecounted DEF Recounted
    <2>2. n \in Int /\ m_sequence'[t] = m
      BY DEF TypeOK
    <2>3. now \in 0 .. 1 /\ was \in 0 .. 1 /\ new \in 0 .. 1
      BY DEF One
    <2>4. m - now >= n - was \/ (new = 1 /\ was = 0 /\ m >= 2)
      BY DEF One, Born, UnbornChain
    <2>5. P <= n \/ P + 2 <= n + B
      BY <1>1, <1>3
    <2> HIDE DEF P, B, Q, C, n, now, was, new
    <2>6. Q <= m \/ Q + 2 <= m + C
      BY <2>1, <2>2, <2>3, <2>4, <2>5
    <2> QED BY <1>3, <2>2, <2>6 DEF Q, C
  <1> QED BY <1>2, <1>3

\* sendSD for chain c of topic t, which is waiting to send or newly born.
LEMMA ExpressFloor ==
    ASSUME TypeOK, Fetch <= 0, SequenceFloor, NEW c \in ChainIds, NEW t \in Topics,
           NEW s \in Sources, NEW n \in Int, ExpressSD(c, t, s, n),
           chain[c].state # "pending", Born(c) => chain[c].topic = t,
           n = m_sequence[t] \/ (~Born(c) /\ 1 <= n)
    PROVE  SequenceFloor'
  <1>1. PICK state \in {"pending", "lost"} :
           chain' = [chain EXCEPT ![c] = [state |-> state, topic |-> t,
                                          source |-> s, seq |-> NextSequence(n)]]
    BY DEF ExpressSD
  <1>2. Renewed(c, t)
    <2>1. chain'[c] = [state |-> state, topic |-> t, source |-> s, seq |-> NextSequence(n)]
      BY <1>1 DEF TypeOK
    <2>2. chain'[c].topic = t /\ chain'[c].state # "unborn"
      BY <2>1
    <2>3. \A d \in ChainIds \ {c} : chain'[d] = chain[d]
      BY <1>1 DEF TypeOK
    <2> QED BY <2>2, <2>3 DEF Renewed, Born, UnbornChain
  <1> DEFINE m == n + 1
  <1>3. m_sequence' = [m_sequence EXCEPT ![t] = m] /\ m \in Int
    <2>1. AfterNext(n) = m
      BY SequenceAssumption DEF AfterNext
    <2> HIDE DEF m
    <2>2. m_sequence' = [m_sequence EXCEPT ![t] = m]
      BY <2>1 DEF ExpressSD
    <2> QED BY <2>2 DEF m
  <1>4. \/ m - One(chain'[c].state = "pending")
               >= m_sequence[t] - One(chain[c].state = "pending")
        \/ ~Born(c) /\ m >= 2
    <2>1. One(chain[c].state = "pending") = 0 /\ One(chain'[c].state = "pending") \in 0 .. 1
      BY DEF One
    <2>2. m_sequence[t] \in Int
      BY DEF TypeOK
    <2> HIDE DEF One
    <2> QED BY <2>1, <2>2
  <1> HIDE DEF m
  <1> QED BY <1>2, <1>3, <1>4, FloorKept

\* Data, Timeout or Nack of chain c's request.
LEMMA AnswerFloor ==
    ASSUME TypeOK, Fetch <= 0, SequenceFloor, NEW c \in ChainIds,
           NEW to \in {"next", "retry", "nacked"}, SDAnswer(c, to),
           \/ UNCHANGED m_sequence
           \/ m_sequence' = [m_sequence EXCEPT ![chain[c].topic] = AfterTimeout(@)]
    PROVE  SequenceFloor'
  <1> DEFINE t == chain[c].topic
  <1>1. chain[c] \in Chains /\ Born(c) /\ t \in Topics
    BY DEF SDAnswer, TypeOK, UnbornChain, Chains, Born
  <1>2. chain'[c] = [chain[c] EXCEPT !.state = to] /\ \A d \in ChainIds \ {c} : chain'[d] = chain[d]
    BY DEF SDAnswer, TypeOK
  <1>3. Renewed(c, t) /\ chain'[c].state = to
    BY <1>1, <1>2 DEF Renewed, Born, UnbornChain, Chains
  <1>4. m_sequence[t] \in Int
    BY <1>1 DEF TypeOK
  <1>5. PICK m \in {m_sequence[t], m_sequence[t] - 1} : m_sequence' = [m_sequence EXCEPT ![t] = m]
    BY <1>1, SequenceAssumption DEF AfterTimeout, TypeOK
  <1>6. m \in Int /\ m - One(chain'[c].state = "pending")
                         >= m_sequence[t] - One(chain[c].state = "pending")
    BY <1>3, <1>4, <1>5 DEF One, SDAnswer
  <1> HIDE DEF t
  <1> QED BY <1>1, <1>3, <1>5, <1>6, FloorKept

LEMMA FloorNext == TypeOK /\ SequenceFloor /\ [Next]_vars => SequenceFloor'
  <1> SUFFICES ASSUME TypeOK, SequenceFloor, [Next]_vars, Fetch <= 0 PROVE SequenceFloor'
    BY DEF SequenceFloor
  <1>u. ASSUME UNCHANGED <<chain, m_sequence>> PROVE SequenceFloor'
    BY <1>u DEF SequenceFloor, PendingOf, ChainsOf
  <1>1. CASE StartST \/ Stop \/ UNCHANGED vars
    BY <1>1, <1>u DEF StartST, sendST, Stop, vars
  <1>2. ASSUME NEW t \in Topics, STStep(t) PROVE SequenceFloor'
    BY <1>2, <1>u DEF STStep, scheduleSendST, ResendST, sendST, STTimeout, STNack, STData
  <1>3. ASSUME NEW t \in Topics, NEW s \in Sources, SMStep(t, s) PROVE SequenceFloor'
    <2>1. CASE ResendSM(t, s) \/ SMTimeout(t, s) \/ SMNack(t, s) \/ SMDataMalformed(t, s)
      BY <2>1, <1>u DEF ResendSM, SMTimeout, SMNack, SMDataMalformed
    <2>2. ASSUME NEW n \in Int, StartChain(t, s, n), n = m_sequence[t] \/ 1 <= n
          PROVE  SequenceFloor'
      <3>1. PICK c \in ChainIds : chain[c] = UnbornChain /\ ExpressSD(c, t, s, n)
        BY <2>2 DEF StartChain
      <3>2. ~Born(c) /\ chain[c].state # "pending"
        BY <3>1 DEF Born, UnbornChain
      <3> QED BY <2>2, <3>1, <3>2, ExpressFloor
    <2>3. m_sequence[t] \in Int /\ LastSequences \subseteq Int
      BY UserAssumption DEF TypeOK
    <2>4. CASE SMDataNotFound(t, s) \/ SMDataOther(t, s)
      BY <2>2, <2>3, <2>4 DEF SMDataNotFound, SMDataOther
    <2>5. ASSUME NEW lst \in LastSequences, SMDataOK(t, s, lst) PROVE SequenceFloor'
      <3> DEFINE n == IF lst < 1 THEN 1 ELSE lst
      <3>1. n \in Int /\ 1 <= n /\ StartChain(t, s, n)
        BY <2>3, <2>5 DEF SMDataOK
      <3> HIDE DEF n
      <3> QED BY <2>2, <3>1
    <2> QED BY <1>3, <2>1, <2>4, <2>5 DEF SMStep
  <1>4. ASSUME NEW c \in ChainIds, SDStep(c) PROVE SequenceFloor'
    <2>1. CASE sendSD(c)
      <3>1. /\ Born(c) /\ chain[c].topic \in Topics /\ chain[c].source \in Sources
            /\ m_sequence[chain[c].topic] \in Int /\ chain[c].state # "pending"
            /\ ExpressSD(c, chain[c].topic, chain[c].source, m_sequence[chain[c].topic])
        BY <2>1 DEF sendSD, TypeOK, UnbornChain, Chains, Born
      <3> QED BY <3>1, ExpressFloor
    <2>2. CASE SDData(c)
      BY <2>2, AnswerFloor DEF SDData
    <2>3. CASE SDTimeout(c) \/ SDNack(c)
      BY <2>3, AnswerFloor DEF SDTimeout, SDNack
    <2> QED BY <1>4, <2>1, <2>2, <2>3 DEF SDStep
  <1> QED BY <1>1, <1>2, <1>3, <1>4 DEF Next

\* Whatever SM replies, timeouts and nacks do to the sequence a topic's chains
\* share, it falls below 0 by no more than there are chains beyond the second.
THEOREM SequenceHasFloor == Spec => []SequenceFloor
  <1>1. Init => SequenceFloor
    <2>1. ASSUME Init, NEW t \in Topics PROVE PendingOf(t) = {} /\ m_sequence[t] = 0
      BY <2>1 DEF Init, PendingOf, ChainsOf
    <2> QED BY <2>1, FS_EmptySet DEF SequenceFloor
  <1> QED BY <1>1, FloorNext, UserTypeCorrect, PTL DEF Spec

---------------------------------------------------------------------------
(* With one source per topic, whose SM replies are all OK, a subscriber    *)
(* requests a topic's sequences one after the other: for any number of     *)
(* topics, lost requests, nacks and exceptions, as long as no sequence     *)
(* outgrows an int.                                                        *)


OneSource ==
    /\ \A r, s \in Sources : r = s
    /\ OddReplies = {}
    /\ Fetch <= 0
    /\ 1 <= MaxInt /\ MaxSequence <= MaxInt
    /\ \A lst \in LastSequences : lst <= MaxInt

(***************************************************************************)
(* SequenceInStep alone is not inductive: a second chain of a topic would  *)
(* move its m_sequence.  There is none, because a chain is born when its   *)
(* source's SM is answered, which happens once.                            *)
(***************************************************************************)
OneChain == \A c, d \in ChainIds :
    Born(c) /\ Born(d) /\ chain[c].topic = chain[d].topic => c = d

BornAnswered == \A c \in ChainIds :
    Born(c) => sm[<<chain[c].topic, chain[c].source>>] = "answered"

SequencesFit == \A c \in ChainIds :
    Born(c) => /\ chain[c].seq \in 1 .. MaxInt
               /\ chain[c].state = "next" => chain[c].seq < MaxInt

InStep == SequenceInStep /\ OneChain /\ BornAnswered /\ SequencesFit

\* The record of a chain that is born has the types of Chains, one that is not
\* has no live state.
LEMMA BornTyped ==
    ASSUME TypeOK, NEW c \in ChainIds
    PROVE  /\ Born(c) => chain[c] \in Chains
           /\ chain[c].state \in {"pending", "next", "retry"} => Born(c)
  BY DEF TypeOK, Born, UnbornChain

LEMMA InStepInit == Init => InStep
  BY DEF Init, InStep, SequenceInStep, OneChain, BornAnswered, SequencesFit, Born

\* A step that gives chain c the record r, of a topic no other chain has, and
\* leaves the m_sequence of the other topics alone, has to be looked at for c only.
LEMMA OnlyChain ==
    ASSUME TypeOK, InStep, NEW c \in ChainIds, NEW r \in Chains,
           chain' = [chain EXCEPT ![c] = r],
           \A d \in ChainIds \ {c} : Born(d) => chain[d].topic # r.topic,
           \A t \in Topics \ {r.topic} : m_sequence'[t] = m_sequence[t],
           \A d \in ChainIds \ {c} : Born(d) =>
               sm'[<<chain[d].topic, chain[d].source>>]
                   = sm[<<chain[d].topic, chain[d].source>>],
           sm'[<<r.topic, r.source>>] = "answered",
           r.seq \in 1 .. MaxInt,
           r.state = "next" => r.seq < MaxInt,
           m_sequence'[r.topic] =
               r.seq + (IF r.state \in {"pending", "next", "lost"} THEN 1 ELSE 0)
    PROVE  InStep'
  <1>1. /\ chain'[c] = r /\ r # UnbornChain
        /\ \A d \in ChainIds \ {c} : chain'[d] = chain[d]
    BY DEF TypeOK, Chains, UnbornChain
  <1>2. \A d \in ChainIds \ {c} : Born(d) => chain[d].topic \in Topics
    BY BornTyped DEF Chains
  <1>3. SequenceInStep'
    BY <1>1, <1>2 DEF InStep, SequenceInStep, Born
  <1>4. OneChain'
    BY <1>1 DEF InStep, OneChain, Born
  <1>5. BornAnswered'
    BY <1>1 DEF InStep, BornAnswered, Born
  <1>6. SequencesFit'
    BY <1>1 DEF InStep, SequencesFit, Born
  <1> QED BY <1>3, <1>4, <1>5, <1>6 DEF InStep

\* sendSD for chain c, with a sequence that fits an int.
LEMMA ExpressInStep ==
    ASSUME OneSource, TypeOK, InStep, NEW c \in ChainIds, NEW t \in Topics,
           NEW s \in Sources, NEW n \in 1 .. MaxInt, ExpressSD(c, t, s, n),
           \A d \in ChainIds \ {c} : Born(d) => chain[d].topic # t,
           \A d \in ChainIds \ {c} : Born(d) =>
               sm'[<<chain[d].topic, chain[d].source>>]
                   = sm[<<chain[d].topic, chain[d].source>>],
           sm'[<<t, s>>] = "answered"
    PROVE  InStep' /\ chain'[c].seq = n
  <1>1. n \in Int /\ NextSequence(n) = n /\ AfterNext(n) = n + 1
    BY ToIntFits, UserAssumption, SequenceAssumption DEF OneSource, NextSequence, AfterNext
  <1>2. PICK state \in {"pending", "lost"} :
           chain' = [chain EXCEPT ![c] = [state |-> state, topic |-> t,
                                          source |-> s, seq |-> n]]
    BY <1>1 DEF ExpressSD
  <1> DEFINE r == [state |-> state, topic |-> t, source |-> s, seq |-> n]
  <1>3. r \in Chains
    BY <1>1, ChainTyped
  <1>4. /\ r.state \in {"pending", "lost"} /\ r.topic = t /\ r.source = s /\ r.seq = n
        /\ chain' = [chain EXCEPT ![c] = r]
    BY <1>2
  <1>5. m_sequence'[t] = n + 1 /\ \A u \in Topics \ {t} : m_sequence'[u] = m_sequence[u]
    BY <1>1 DEF ExpressSD, TypeOK
  <1> HIDE DEF r
  <1>6. InStep'
    BY <1>3, <1>4, <1>5, OnlyChain
  <1> QED BY <1>4, <1>6 DEF TypeOK

\* The answer to chain c's request.
LEMMA AnswerInStep ==
    ASSUME TypeOK, InStep, NEW c \in ChainIds, NEW to \in {"next", "retry", "nacked"},
           SDAnswer(c, to),
           to = "next" => chain[c].seq < MaxInt,
           m_sequence' = [m_sequence EXCEPT ![chain[c].topic] =
                              chain[c].seq + (IF to = "next" THEN 1 ELSE 0)]
    PROVE  InStep'
  <1> DEFINE r == [chain[c] EXCEPT !.state = to]
  <1>1. Born(c) /\ chain[c] \in Chains /\ UNCHANGED sm
    BY BornTyped DEF SDAnswer
  <1>2. /\ r \in Chains /\ r.state = to /\ r.topic = chain[c].topic
        /\ r.source = chain[c].source /\ r.seq = chain[c].seq /\ r.topic \in Topics
    BY <1>1 DEF Chains, ChainStates
  <1>3. chain' = [chain EXCEPT ![c] = r]
    BY DEF SDAnswer
  <1>4. /\ m_sequence'[r.topic] = r.seq + (IF to = "next" THEN 1 ELSE 0)
        /\ \A t \in Topics \ {r.topic} : m_sequence'[t] = m_sequence[t]
    BY <1>2 DEF TypeOK
  <1>5. /\ \A d \in ChainIds \ {c} : Born(d) => chain[d].topic # r.topic
        /\ sm[<<r.topic, r.source>>] = "answered" /\ r.seq \in 1 .. MaxInt
    BY <1>1, <1>2 DEF InStep, OneChain, BornAnswered, SequencesFit
  <1> HIDE DEF r
  <1> QED BY <1>1, <1>2, <1>3, <1>4, <1>5, OnlyChain

\* A step that changes neither chain, nor m_sequence, nor an answered SM request.
LEMMA ElsewhereInStep ==
    ASSUME InStep, TypeOK, UNCHANGED <<chain, m_sequence>>,
           \A p \in Topics \X Sources : sm[p] = "answered" => sm'[p] = "answered"
    PROVE  InStep'
  <1>1. \A c \in ChainIds : Born(c) => <<chain[c].topic, chain[c].source>> \in Topics \X Sources
    BY BornTyped DEF Chains
  <1> QED BY <1>1 DEF InStep, SequenceInStep, OneChain, BornAnswered, SequencesFit, Born

\* The chain that the OK reply of source s starts is the first of its topic.
LEMMA StartInStep ==
    ASSUME OneSource, TypeOK, InStep, NEW t \in Topics, NEW s \in Sources,
           NEW lst \in LastSequences, SMDataOK(t, s, lst)
    PROVE  InStep'
  <1> DEFINE n == IF lst < 1 THEN 1 ELSE lst
  <1>1. n \in 1 .. MaxInt
    BY UserAssumption, SequenceAssumption DEF OneSource
  <1>2. PICK c \in ChainIds : chain[c] = UnbornChain /\ ExpressSD(c, t, s, n)
    BY DEF SMDataOK, StartChain
  <1>3. sm[<<t, s>>] = "pending" /\ sm' = [sm EXCEPT ![<<t, s>>] = "answered"]
    BY DEF SMDataOK, SMReply
  <1>4. \A d \in ChainIds : Born(d) => chain[d].topic # t
    <2> SUFFICES ASSUME NEW d \in ChainIds, Born(d), chain[d].topic = t PROVE FALSE
      OBVIOUS
    <2>1. chain[d].source = s
      BY BornTyped DEF Chains, OneSource
    <2> QED BY <1>3, <2>1 DEF InStep, BornAnswered
  <1>5. \A d \in ChainIds : Born(d) =>
            sm'[<<chain[d].topic, chain[d].source>>] = sm[<<chain[d].topic, chain[d].source>>]
    <2> SUFFICES ASSUME NEW d \in ChainIds, Born(d)
                 PROVE  sm'[<<chain[d].topic, chain[d].source>>]
                            = sm[<<chain[d].topic, chain[d].source>>]
      OBVIOUS
    <2>1. <<chain[d].topic, chain[d].source>> \in Topics \X Sources
      BY BornTyped DEF Chains
    <2> QED BY <1>3, <1>4, <2>1 DEF TypeOK
  <1>6. sm'[<<t, s>>] = "answered"
    BY <1>3 DEF TypeOK
  <1> HIDE DEF n
  <1> QED BY <1>1, <1>2, <1>4, <1>5, <1>6, ExpressInStep

\* sendSD for a chain that has received its Data or timed out.
LEMMA ContinueInStep ==
    ASSUME OneSource, TypeOK, InStep, NEW c \in ChainIds, sendSD(c)
    PROVE  /\ InStep'
           /\ chain[c].state = "next"  => chain'[c].seq = chain[c].seq + 1
           /\ chain[c].state = "retry" => chain'[c].seq = chain[c].seq
  <1> DEFINE t == chain[c].topic
             s == chain[c].source
             n == m_sequence[t]
  <1>1. Born(c) /\ t \in Topics /\ s \in Sources /\ chain[c].state \in {"next", "retry"}
    BY BornTyped DEF sendSD, Chains
  <1>2. n = chain[c].seq + (IF chain[c].state = "next" THEN 1 ELSE 0)
    BY <1>1 DEF InStep, SequenceInStep, Born
  <1>3. n \in 1 .. MaxInt
    BY <1>1, <1>2, UserAssumption, SequenceAssumption DEF InStep, SequencesFit
  <1>4. /\ \A d \in ChainIds \ {c} : Born(d) => chain[d].topic # t
        /\ sm[<<t, s>>] = "answered"
    BY <1>1 DEF InStep, OneChain, BornAnswered
  <1>5. ExpressSD(c, t, s, n) /\ UNCHANGED sm
    BY DEF sendSD
  <1>6. InStep' /\ chain'[c].seq = n
    <2> HIDE DEF t, s, n
    <2> QED BY <1>1, <1>3, <1>4, <1>5, ExpressInStep
  <1>7. /\ chain[c].state = "next"  => n = chain[c].seq + 1
        /\ chain[c].state = "retry" => n = chain[c].seq
    <2>1. chain[c].seq \in Int
      BY <1>1, UserAssumption, SequenceAssumption DEF InStep, SequencesFit
    <2> QED BY <1>2, <2>1
  <1> QED BY <1>6, <1>7

LEMMA InStepNext == OneSource /\ TypeOK /\ NotAskedYet /\ InStep /\ [Next]_vars => InStep'
  <1> SUFFICES ASSUME OneSource, TypeOK, NotAskedYet, InStep, [Next]_vars PROVE InStep'
    OBVIOUS
  <1>1. CASE StartST \/ Stop \/ UNCHANGED vars
    BY <1>1, ElsewhereInStep DEF StartST, sendST, Stop, vars
  <1>2. ASSUME NEW t \in Topics, STStep(t) PROVE InStep'
    <2>1. CASE scheduleSendST(t) \/ ResendST(t) \/ STTimeout(t) \/ STNack(t)
      BY <2>1, ElsewhereInStep DEF scheduleSendST, ResendST, sendST, STTimeout, STNack
    <2>2. ASSUME NEW listed \in SUBSET Sources, STData(t, listed) PROVE InStep'
      <3>1. st[t] # "answered" /\ UNCHANGED <<chain, m_sequence>>
        BY <2>2 DEF STData
      <3>2. \A p \in Topics \X Sources : sm[p] = "answered" => p[1] # t
        BY <3>1 DEF NotAskedYet
      <3>3. \A p \in Topics \X Sources : sm[p] = "answered" => sm'[p] = "answered"
        BY <2>2, <3>2 DEF STData
      <3> QED BY <3>1, <3>3, ElsewhereInStep
    <2> QED BY <1>2, <2>1, <2>2 DEF STStep
  <1>3. ASSUME NEW t \in Topics, NEW s \in Sources, SMStep(t, s) PROVE InStep'
    <2>1. CASE ResendSM(t, s) \/ SMTimeout(t, s) \/ SMNack(t, s)
      <3>1. /\ UNCHANGED <<chain, m_sequence>> /\ sm[<<t, s>>] # "answered"
            /\ \E to : sm' = [sm EXCEPT ![<<t, s>>] = to]
        BY <2>1 DEF ResendSM, SMTimeout, SMNack
      <3>2. \A p \in Topics \X Sources : sm[p] = "answered" => sm'[p] = "answered"
        BY <3>1 DEF TypeOK
      <3> QED BY <3>1, <3>2, ElsewhereInStep
    <2>2. ASSUME NEW lst \in LastSequences, SMDataOK(t, s, lst) PROVE InStep'
      BY <2>2, StartInStep
    <2> QED BY <1>3, <2>1, <2>2
            DEF SMStep, SMDataNotFound, SMDataOther, SMDataMalformed, OneSource
  <1>4. ASSUME NEW c \in ChainIds, SDStep(c) PROVE InStep'
    <2>1. CASE sendSD(c)
      BY <2>1, ContinueInStep
    <2>2. ASSUME NEW to, SDAnswer(c, to)
          PROVE  /\ Born(c) /\ chain[c].topic \in Topics /\ chain[c].seq \in 1 .. MaxInt
                 /\ m_sequence[chain[c].topic] = chain[c].seq + 1
                 /\ MaxInt \in Nat /\ MaxSequence \in Nat /\ MaxSequence <= MaxInt
      BY <2>2, BornTyped, UserAssumption, SequenceAssumption
         DEF SDAnswer, InStep, SequenceInStep, SequencesFit, Chains, OneSource, Born
    <2>3. CASE SDData(c)
      <3>1. m_sequence[chain[c].topic] < MaxSequence /\ SDAnswer(c, "next") /\ UNCHANGED m_sequence
        BY <2>3 DEF SDData
      <3>2. chain[c].seq < MaxInt
        BY <2>2, <3>1
      <3>3. m_sequence' = [m_sequence EXCEPT ![chain[c].topic] = chain[c].seq + 1]
        BY <2>2, <3>1 DEF TypeOK
      <3> QED BY <3>1, <3>2, <3>3, AnswerInStep
    <2>4. ASSUME NEW to \in {"retry", "nacked"}, SDAnswer(c, to),
                 m_sequence' = [m_sequence EXCEPT ![chain[c].topic] = AfterTimeout(@)]
          PROVE  InStep'
      <3>1. AfterTimeout(m_sequence[chain[c].topic]) = chain[c].seq
        BY <2>2, <2>4, UserAssumption, SequenceAssumption DEF AfterTimeout, OneSource
      <3>2. m_sequence' = [m_sequence EXCEPT ![chain[c].topic] = chain[c].seq]
        BY <2>4, <3>1
      <3>3. chain[c].seq = chain[c].seq + (IF to = "next" THEN 1 ELSE 0)
        BY <2>2, <2>4
      <3> QED BY <2>4, <3>2, <3>3, AnswerInStep
    <2>5. CASE SDTimeout(c) \/ SDNack(c)
      BY <2>4, <2>5 DEF SDTimeout, SDNack
    <2> QED BY <1>4, <2>1, <2>3, <2>5 DEF SDStep
  <1> QED BY <1>1, <1>2, <1>3, <1>4 DEF Next

\* The inductive invariant.
OrderInv == TypeOK /\ NotAskedYet /\ InStep

LEMMA OrderInvariant == ASSUME OneSource PROVE Spec => []OrderInv
  <1>1. Init => OrderInv
    BY UserTypeInit, AccountedInit, InStepInit DEF OrderInv, Accounted
  <1>2. OrderInv /\ [Next]_vars => OrderInv'
    BY UserTypeNext, NotAskedStep, InStepNext DEF OrderInv
  <1> QED BY <1>1, <1>2, PTL DEF Spec

\* m_sequence never drifts from the request that is pending or was last answered,
\* over any sequence of Data, Timeouts, Nacks and exceptions.
THEOREM SequencesInStep == ASSUME OneSource PROVE Spec => []SequenceInStep
  <1>1. OrderInv => SequenceInStep
    BY DEF OrderInv, InStep
  <1> QED BY <1>1, OrderInvariant, PTL

\* A chain requests the sequence after the one it has received, and the same one
\* again after a timeout, in every step of every behaviour.
LEMMA RequestsNext ==
    OneSource /\ OrderInv /\ [Next]_vars =>
        \A c \in ChainIds :
            chain'[c].state = "pending" =>
                /\ chain[c].state = "next"  => chain'[c].seq = chain[c].seq + 1
                /\ chain[c].state = "retry" => chain'[c].seq = chain[c].seq
  <1> SUFFICES ASSUME OneSource, OrderInv, [Next]_vars, NEW c \in ChainIds,
                      chain'[c].state = "pending", chain[c].state \in {"next", "retry"}
               PROVE  sendSD(c)
    BY ContinueInStep DEF OrderInv
  <1>1. chain'[c] # chain[c] /\ chain[c] # UnbornChain
    BY DEF UnbornChain
  <1>2. ~ UNCHANGED chain
    BY <1>1
  <1>3. ASSUME NEW d \in ChainIds, NEW t, NEW s, NEW n, chain[d] = UnbornChain,
               ExpressSD(d, t, s, n)
        PROVE  FALSE
    BY <1>1, <1>3 DEF ExpressSD, OrderInv, TypeOK
  <1>4. ~ StartST /\ ~ Stop /\ ~ UNCHANGED vars
    BY <1>2 DEF StartST, sendST, Stop, vars
  <1>5. ASSUME NEW t \in Topics, STStep(t) PROVE FALSE
    BY <1>2, <1>5 DEF STStep, scheduleSendST, ResendST, sendST, STTimeout, STNack, STData
  <1>6. ASSUME NEW t \in Topics, NEW s \in Sources, SMStep(t, s) PROVE FALSE
    <2>1. ASSUME NEW n, StartChain(t, s, n) PROVE FALSE
      BY <1>3, <2>1 DEF StartChain
    <2> QED BY <1>2, <1>6, <2>1 DEF SMStep, ResendSM, SMTimeout, SMNack, SMDataMalformed,
                                    SMDataNotFound, SMDataOther, SMDataOK
  <1>7. PICK d \in ChainIds : SDStep(d)
    BY <1>4, <1>5, <1>6 DEF Next
  <1>8. c = d
    BY <1>1, <1>7 DEF SDStep, sendSD, SDData, SDTimeout, SDNack, SDAnswer, ExpressSD,
                      OrderInv, TypeOK
  <1> QED BY <1>7, <1>8 DEF SDStep, SDData, SDTimeout, SDNack, SDAnswer

\* Nothing is skipped and nothing requested twice.
THEOREM ChainsInOrder == ASSUME OneSource PROVE Spec => ChainInOrder
  <1>1. OrderInv /\ [Next]_vars =>
            [\A c \in ChainIds :
                chain'[c].state = "pending" =>
                    /\ chain[c].state = "next"  => chain'[c].seq = chain[c].seq + 1
                    /\ chain[c].state = "retry" => chain'[c].seq = chain[c].seq]_vars
    BY RequestsNext
  <1> QED BY <1>1, OrderInvariant, PTL DEF Spec, ChainInOrder
=============================================================================
