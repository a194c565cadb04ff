--------------------------- MODULE PublishLifecycle ---------------------------
(***************************************************************************)
(* What the publisher promises, topic by topic, without events, Interests  *)
(* or counters: each topic is advertised, publishes exactly Readings data  *)
(* in turn and withdraws; a refusal ends the topic where it is.  The       *)
(* process ends by itself only when no topic is under way, and nothing     *)
(* happens to a topic after the end.  VirtualDevice implements this when   *)
(* it is run by rounds (no Duration).                                      *)
(***************************************************************************)
EXTENDS Naturals

CONSTANTS Topics,
          Readings     \* how many data a topic publishes, at least one

VARIABLES
    status,     \* per topic
    published,  \* per topic: publications acknowledged with Data
    ended       \* "no", "complete" or "interrupted"

lifecycleVars == <<status, published, ended>>

\* unadvertised: not tried yet; refused: its advertisement was nacked or could not
\* be sent; stuck: a later Interest was nacked, or one could not be sent (again).
Status == {"unadvertised", "advertising", "publishing", "withdrawing",
           "finished", "refused", "stuck"}

LifecycleInit ==
    /\ status = [t \in Topics |-> "unadvertised"]
    /\ published = [t \in Topics |-> 0]
    /\ ended = "no"

Becomes(t, from, to) ==
    /\ ended = "no"
    /\ status[t] = from
    /\ status' = [status EXCEPT ![t] = to]
    /\ UNCHANGED ended

Advertise(t) == Becomes(t, "unadvertised", "advertising") /\ UNCHANGED published
Accept(t)    == Becomes(t, "advertising", "publishing") /\ UNCHANGED published
Finish(t)    == Becomes(t, "withdrawing", "finished") /\ UNCHANGED published

Refuse(t) ==
    /\ \/ Becomes(t, "unadvertised", "refused")
       \/ Becomes(t, "advertising", "refused")
    /\ UNCHANGED published

Publish(t) ==
    /\ published[t] + 1 < Readings
    /\ Becomes(t, "publishing", "publishing")
    /\ published' = [published EXCEPT ![t] = @ + 1]

PublishLast(t) ==
    /\ published[t] + 1 = Readings
    /\ Becomes(t, "publishing", "withdrawing")
    /\ published' = [published EXCEPT ![t] = @ + 1]

GetStuck(t) ==
    /\ \/ Becomes(t, "advertising", "stuck")
       \/ Becomes(t, "publishing", "stuck")
       \/ Becomes(t, "withdrawing", "stuck")
    /\ UNCHANGED published

Complete ==
    /\ ended = "no"
    /\ \A t \in Topics : status[t] \in {"unadvertised", "refused", "finished"}
    /\ ended' = "complete"
    /\ UNCHANGED <<status, published>>

Interrupt ==
    /\ ended = "no"
    /\ ended' = "interrupted"
    /\ UNCHANGED <<status, published>>

LifecycleNext ==
    \/ Complete \/ Interrupt
    \/ \E t \in Topics : \/ Advertise(t) \/ Accept(t) \/ Refuse(t) \/ Finish(t)
                         \/ Publish(t) \/ PublishLast(t) \/ GetStuck(t)

LifecycleSpec == LifecycleInit /\ [][LifecycleNext]_lifecycleVars
=============================================================================
