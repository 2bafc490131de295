------------------------------- MODULE Outbox -------------------------------
(***************************************************************************)
(* What the queue and the worker promise about outgoing webhooks, without  *)
(* runners, leases or crashes: a message that was queued stays until its   *)
(* endpoint has accepted it or is no longer configured, and it is accepted *)
(* a bounded number of times, possibly again after it is settled.          *)
(***************************************************************************)
EXTENDS Naturals

CONSTANTS
    Messages,   \* the messages, one for each endpoint and change
    To,         \* the endpoint each message is for
    Configs,    \* the sets of endpoints a process may be configured with
    MaxReceive  \* how often a message can be taken from the queue

VARIABLES
    state,      \* of each message: "new", "pending" or "settled"
    arrived,    \* how often its endpoint has accepted it
    configured  \* the endpoints of the running process

vars == <<state, arrived, configured>>

Init ==
    /\ state   = [m \in Messages |-> "new"]
    /\ arrived = [m \in Messages |-> 0]
    /\ configured \in Configs

Enqueue(m) ==
    /\ state[m] = "new"
    /\ To[m] \in configured
    /\ state' = [state EXCEPT ![m] = "pending"]
    /\ UNCHANGED <<arrived, configured>>

Arrive(m) ==
    /\ state[m] # "new"
    /\ arrived[m] < MaxReceive
    /\ arrived' = [arrived EXCEPT ![m] = @ + 1]
    /\ UNCHANGED <<state, configured>>

Settle(m) ==
    /\ state[m] = "pending"
    /\ arrived[m] > 0 \/ To[m] \notin configured
    /\ state' = [state EXCEPT ![m] = "settled"]
    /\ UNCHANGED <<arrived, configured>>

Reconfigure ==
    /\ configured' \in Configs
    /\ UNCHANGED <<state, arrived>>

Next ==
    \/ \E m \in Messages : Enqueue(m) \/ Arrive(m) \/ Settle(m)
    \/ Reconfigure

Spec == Init /\ [][Next]_vars
=============================================================================
