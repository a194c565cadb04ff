-------------------------- MODULE PublishSubscribe --------------------------
(***************************************************************************)
(* The two programs together, as they are run: a device and a user that    *)
(* know nothing of each other, and between them the service (a repository  *)
(* of PSDCN, not part of this code) that takes in what the device says     *)
(* (PA, PD, PU) and answers what the user asks (ST, SM, SD).               *)
(*                                                                         *)
(* Every step of the device and of the user is one of VirtualDevice and    *)
(* VirtualUser.  The service restricts which answers can come: an          *)
(* acknowledgement only for what has arrived, a reply only with what is    *)
(* stored; what is stored outlives the PU.  An Interest that times out may *)
(* have arrived or not.  A topic has one repository here.                  *)
(***************************************************************************)
EXTENDS Integers, FiniteSets, FiniteSetsExt

CONSTANTS
    Topics,          \* gTopicmap of both programs: the user asks for all
    Round,           \* the device's cfg_round
    FirstSequence,   \* m_sequence of a topic in the device, at first
    Fetch, MaxInt,   \* the user's m_fetch and largest int
    DeviceTimeouts,  \* bounds on the timeouts of a behaviour
    UserTimeouts,
    MaxChains,       \* bounds of VirtualUser
    MaxSequence,
    MaxU64

ASSUME CompositionAssumption ==
    /\ IsFiniteSet(Topics) /\ 2 * Cardinality(Topics) <= MaxU64
    /\ Round \in Nat /\ FirstSequence \in Nat
    /\ Fetch \in Int /\ MaxInt \in Nat
    /\ MaxChains \in Nat /\ MaxSequence \in Nat

VARIABLES
    phase, stopCause, paStarted, durationOver, stage, round, pubSequence,
    delegators2, gPDMap, gPUMap, gStatPA, gStatPD, gStatPU,    \* the device
    running, started, st, sm, chain, subSequence,
    gStatST, gStatSM, gStatSD,                                 \* the user
    advertised,  \* the topics the service lists
    stored,      \* per topic: the sequences the repository holds
    received     \* per topic: the sequences the user has had (history)

device  == <<phase, stopCause, paStarted, durationOver, stage, round, pubSequence,
             delegators2, gPDMap, gPUMap, gStatPA, gStatPD, gStatPU>>
user    == <<running, started, st, sm, chain, subSequence, gStatST, gStatSM, gStatSD>>
service == <<advertised, stored>>
vars    == <<device, user, service, received>>

Repository == "rn"

Device == INSTANCE VirtualDevice
    WITH HasDuration <- FALSE, NackKinds <- {}, Throwing <- {},
         MaxTimeouts <- DeviceTimeouts, m_sequence <- pubSequence

User == INSTANCE VirtualUser
    WITH Sources <- {Repository}, LastSequences <- {}, OddReplies <- {"NOT_FOUND"},
         NackKinds <- {}, Throwing <- {}, MaxTimeouts <- UserTimeouts,
         m_sequence <- subSequence

Init ==
    /\ Device!Init /\ User!Init
    /\ advertised = {} /\ stored = [t \in Topics |-> {}]
    /\ received = [t \in Topics |-> {}]

(***************************************************************************)
(* What reaches the service.                                               *)
(***************************************************************************)
\* The sequence the pending PD of t names.
Publishing(t) == Device!PDKey(t)[2]

Advertise(t) ==
    /\ stage[t] = "paPending" /\ t \notin advertised
    /\ advertised' = advertised \cup {t}
    /\ UNCHANGED <<device, user, stored, received>>

Store(t) ==
    /\ stage[t] = "pdPending" /\ Publishing(t) \notin stored[t]
    /\ stored' = [stored EXCEPT ![t] = @ \cup {Publishing(t)}]
    /\ UNCHANGED <<device, user, advertised, received>>

Withdraw(t) ==
    /\ stage[t] = "puPending" /\ t \in advertised
    /\ advertised' = advertised \ {t}
    /\ UNCHANGED <<device, user, stored, received>>

(***************************************************************************)
(* The device: what it does by itself, and the answers it can get.         *)
(***************************************************************************)
Acknowledged(t) ==
    \/ Device!PAData(t) /\ t \in advertised
    \/ (Device!PDDataMore(t) \/ Device!PDDataLast(t)) /\ Publishing(t) \in stored[t]
    \/ Device!PUData(t) /\ t \notin advertised

DeviceRuns ==
    Device!StartPA \/ Device!check_complete \/ Device!signalHandler \/ Device!Report

DeviceStep ==
    /\ \/ DeviceRuns
       \/ \E t \in Topics : Device!Scheduled(t) \/ Device!TimedOut(t) \/ Acknowledged(t)
    /\ UNCHANGED <<user, service, received>>

(***************************************************************************)
(* The user: likewise.                                                     *)
(***************************************************************************)
\* The service lists the repository for a topic it knows, and no source for
\* another; nobody asks it again.
Listed(t) == User!STData(t, IF t \in advertised THEN {Repository} ELSE {})

\* The last sequence stored, or NOT_FOUND.
LastSequence(t) ==
    \/ stored[t] # {} /\ User!SMDataOK(t, Repository, Max(stored[t]))
    \/ stored[t] = {} /\ User!SMDataNotFound(t, Repository)

Deliver(c) ==
    /\ User!SDData(c) /\ chain[c].seq \in stored[chain[c].topic]
    /\ received' = [received EXCEPT ![chain[c].topic] = @ \cup {chain[c].seq}]

Scheduled(t) ==
    User!scheduleSendST(t) \/ User!ResendST(t) \/ User!ResendSM(t, Repository)

UserRuns ==
    \/ User!StartST
    \/ \E t \in Topics : Scheduled(t)
    \/ \E c \in User!ChainIds : User!sendSD(c)

UserTimesOut ==
    \/ \E t \in Topics : User!STTimeout(t) \/ User!SMTimeout(t, Repository)
    \/ \E c \in User!ChainIds : User!SDTimeout(c)

UserStep ==
    /\ \/ (UserRuns \/ UserTimesOut \/ User!Stop) /\ UNCHANGED received
       \/ (\E t \in Topics : Listed(t) \/ LastSequence(t)) /\ UNCHANGED received
       \/ \E c \in User!ChainIds : Deliver(c)
    /\ UNCHANGED <<device, service>>

ServiceStep == \E t \in Topics : Advertise(t) \/ Store(t) \/ Withdraw(t)

Next == DeviceStep \/ UserStep \/ ServiceStep

Spec == Init /\ [][Next]_vars

\* Both event loops run every due event; after finitely many timeouts Interests
\* arrive and are answered.
Fairness ==
    /\ \A t \in Topics :
          /\ WF_vars(Device!Scheduled(t) /\ UNCHANGED <<user, service, received>>)
          /\ WF_vars(Acknowledged(t) /\ UNCHANGED <<user, service, received>>)
          /\ WF_vars(Advertise(t)) /\ WF_vars(Store(t)) /\ WF_vars(Withdraw(t))
          /\ WF_vars(Scheduled(t) /\ UNCHANGED <<device, service, received>>)
          /\ WF_vars((Listed(t) \/ LastSequence(t)) /\ UNCHANGED <<device, service, received>>)
    /\ WF_vars((Device!StartPA \/ Device!check_complete \/ Device!Report)
                  /\ UNCHANGED <<user, service, received>>)
    /\ \A c \in User!ChainIds :
          /\ WF_vars(User!sendSD(c) /\ UNCHANGED <<device, service, received>>)
          /\ WF_vars(Deliver(c) /\ UNCHANGED <<device, service>>)

FairSpec == Spec /\ Fairness

(***************************************************************************)
(* Properties.                                                             *)
(***************************************************************************)
ChainsOf(t) == {c \in User!ChainIds : chain[c].state # "unborn" /\ chain[c].topic = t}
OneChain(t) == \E c \in User!ChainIds : ChainsOf(t) = {c}

\* When a topic is withdrawn the repository holds exactly the readings of its
\* rounds, numbered from FirstSequence on: what the device counts as published
\* has arrived, lost Interests and lost acknowledgements notwithstanding.
HeldWhenWithdrawn ==
    \A t \in Topics :
        stage[t] \in Device!PUStages \cup {"done"} =>
            stored[t] = FirstSequence .. FirstSequence + Device!LastRound - 1

\* What a user with one chain for the topic has received is an unbroken run of
\* what the device published, and it asks for the reading after it, never more
\* than one ahead of the device.
ReceivedUnbroken ==
    \A t \in Topics :
        OneChain(t) /\ received[t] # {} =>
            /\ received[t] = Min(received[t]) .. Max(received[t])
            /\ \A c \in ChainsOf(t) :
                  chain[c].state = "pending" => chain[c].seq = Max(received[t]) + 1

\* No reading is missed: once the topic's one chain has come to request a
\* sequence, it receives every reading from there on that is ever stored, however
\* the two programs' timeouts interleave, and although it asks for readings the
\* device has yet to take; unless the user is stopped or an SM reply of NOT_FOUND
\* has started a second chain.
Awaits(t, n) == \E c \in ChainsOf(t) : chain[c].state = "pending" /\ chain[c].seq <= n

NoReadingMissed ==
    \A t \in Topics, n \in FirstSequence .. FirstSequence + Device!LastRound - 1 :
        n \in stored[t] /\ Awaits(t, n) ~> n \in received[t] \/ ~running \/ ~OneChain(t)
=============================================================================
