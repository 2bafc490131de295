------------------------------ MODULE Delivery ------------------------------
(***************************************************************************)
(* From the queue to the endpoints: the goqite queue and its runner as     *)
(* main sets them up, the worker's handler, endpoints that answer, refuse  *)
(* or never answer, and the process dying and coming back, perhaps with    *)
(* other endpoints in its configuration.                                   *)
(*                                                                         *)
(* Queue and runner are a library: Receive leases a message and counts,    *)
(* the runner extends the lease while the handler runs and deletes the     *)
(* message when the handler returns no error. Nothing is assumed of the    *)
(* order in which messages are received.                                   *)
(***************************************************************************)
EXTENDS Naturals, FiniteSets

CONSTANTS
    Messages,   \* the messages, one for each endpoint and change
    To,         \* the URL each message is for
    Configs,    \* the sets of URLs a process may be configured with
    Down,       \* the URLs behind which nothing ever answers
    Runners,    \* the jobs that may run at once (Limit)
    MaxReceive, \* how often a message can be received
    MaxFaults,  \* bound on failures and crashes
    NoMessage   \* a runner without a job

ASSUME DeliveryAssumption ==
    /\ NoMessage \notin Messages
    /\ Configs # {} /\ IsFiniteSet(Runners)
    /\ MaxReceive \in Nat \ {0} /\ MaxFaults \in Nat

VARIABLES
    queued,     \* the messages in the table of the queue
    received,   \* how often each was received
    leased,     \* those that are leased, until their timeout
    up,         \* is the process running?
    configured, \* the URLs of its configuration
    job,        \* the message each runner handles
    pc,         \* where its handler is
    late,       \* the requests under way whose sender is gone
    accepted,   \* how often each message was accepted by its endpoint
    faults      \* the failures and crashes so far

queue    == <<queued, received, leased>>
process  == <<up, configured>>
runner   == <<job, pc>>
endpoint == <<late, accepted>>
vars     == <<queue, process, runner, endpoint, faults>>

-----------------------------------------------------------------------------
Fault   == faults < MaxFaults /\ faults' = faults + 1
NoFault == faults' = faults

\* A failure that costs an attempt: with nothing behind the URL the normal
\* case, else one of the bounded faults.
FailureOf(m) == IF To[m] \in Down THEN NoFault ELSE Fault

Handled(m) == \E r \in Runners : job[r] = m

\* The runners whose request for m is under way and can still arrive.
Sending(m) == {r \in Runners : job[r] = m /\ pc[r] = "sending" /\ To[m] \notin Down}

Goes(r, from, to) == pc[r] = from /\ pc' = [pc EXCEPT ![r] = to]

\* The handler has returned and, if without an error, the deletion is done.
Ends(r) ==
    /\ job' = [job EXCEPT ![r] = NoMessage]
    /\ pc'  = [pc EXCEPT ![r] = "idle"]

-----------------------------------------------------------------------------
Init ==
    /\ queued = {} /\ leased = {}
    /\ received = [m \in Messages |-> 0]
    /\ up = TRUE
    /\ configured \in Configs
    /\ job = [r \in Runners |-> NoMessage]
    /\ pc  = [r \in Runners |-> "idle"]
    /\ late     = [m \in Messages |-> 0]
    /\ accepted = [m \in Messages |-> 0]
    /\ faults = 0

\* NotifyPlanUpdated queues a message for an endpoint of the configuration.
Enqueue(m) ==
    /\ up
    /\ To[m] \in configured
    /\ m \notin queued /\ received[m] = 0
    /\ queued' = queued \cup {m}
    /\ UNCHANGED <<received, leased, process, runner, endpoint, faults>>

\* As a bug would have it: attempts are not limited.
ReceiveUnlimited(r, m) ==
    /\ up
    /\ m \in queued \ leased
    /\ Goes(r, "idle", "handling")
    /\ job'      = [job EXCEPT ![r] = m]
    /\ received' = [received EXCEPT ![m] = @ + 1]
    /\ leased'   = leased \cup {m}
    /\ UNCHANGED <<queued, process, endpoint, faults>>

Receive(r, m) ==
    /\ up
    /\ m \in queued \ leased
    /\ received[m] < MaxReceive
    /\ Goes(r, "idle", "handling")
    /\ job'      = [job EXCEPT ![r] = m]
    /\ received' = [received EXCEPT ![m] = @ + 1]
    /\ leased'   = leased \cup {m}
    /\ UNCHANGED <<queued, process, endpoint, faults>>

\* As a bug would have it: an unknown endpoint is an error.
HandleUnknownFails(r) ==
    /\ pc[r] = "handling"
    /\ IF To[job[r]] \in configured
       THEN Goes(r, "handling", "sending") /\ UNCHANGED job
       ELSE Ends(r)
    /\ UNCHANGED <<queue, process, endpoint, faults>>

\* Handle: a message for an endpoint that is not configured is skipped with no
\* error, any other one is signed and sent off.
Handle(r) ==
    /\ Goes(r, "handling", IF To[job[r]] \in configured THEN "sending" ELSE "skipped")
    /\ UNCHANGED <<queue, process, job, endpoint, faults>>

\* The request arrives and the endpoint answers 2xx.
Accept(r) ==
    /\ Goes(r, "sending", "accepted")
    /\ To[job[r]] \notin Down
    /\ accepted' = [accepted EXCEPT ![job[r]] = @ + 1]
    /\ UNCHANGED <<queue, process, job, late, faults>>

\* As a bug would have it: any answer is a success, whatever its status.
RefuseUnseen(r) ==
    /\ Goes(r, "sending", "accepted")
    /\ FailureOf(job[r])
    /\ UNCHANGED <<queue, process, job, endpoint>>

\* No connection, or another status than 2xx: the message stays leased.
Refuse(r) ==
    /\ pc[r] = "sending"
    /\ Ends(r)
    /\ FailureOf(job[r])
    /\ UNCHANGED <<queue, process, endpoint>>

\* As a bug would have it: the client has no timeout.
TimesOutNever(r) ==
    /\ pc[r] = "accepted"
    /\ FailureOf(job[r])
    /\ Ends(r)
    /\ UNCHANGED <<queue, process, endpoint>>

\* The client's 15 seconds are over, or its connection breaks, before the
\* endpoint has taken the request or before the answer is here.
TimesOut(r) ==
    /\ pc[r] \in {"sending", "accepted"}
    /\ late' = IF r \in Sending(job[r]) THEN [late EXCEPT ![job[r]] = @ + 1] ELSE late
    /\ FailureOf(job[r])
    /\ Ends(r)
    /\ UNCHANGED <<queue, process, accepted>>

\* A request whose sender has given up is taken all the same.
ArriveLate(m) ==
    /\ late[m] > 0
    /\ late'     = [late EXCEPT ![m] = @ - 1]
    /\ accepted' = [accepted EXCEPT ![m] = @ + 1]
    /\ UNCHANGED <<queue, process, runner, faults>>

\* The handler has returned nil: the runner deletes the message.
Delete(r) ==
    /\ pc[r] \in {"skipped", "accepted"}
    /\ queued' = queued \ {job[r]}
    /\ leased' = leased \ {job[r]}
    /\ Ends(r)
    /\ UNCHANGED <<received, process, endpoint, faults>>

DeleteFails(r) ==
    /\ pc[r] \in {"skipped", "accepted"}
    /\ Ends(r)
    /\ Fault
    /\ UNCHANGED <<queue, process, endpoint>>

\* Timeout: with its handler still running only if the extension fails.
LeaseEnds(m) ==
    /\ m \in leased
    /\ leased' = leased \ {m}
    /\ IF Handled(m) THEN Fault ELSE NoFault
    /\ UNCHANGED <<queued, received, process, runner, endpoint>>

\* The requests that are under way may still arrive.
Crash ==
    /\ up /\ Fault
    /\ up' = FALSE
    /\ late' = [m \in Messages |-> late[m] + Cardinality(Sending(m))]
    /\ job' = [r \in Runners |-> NoMessage]
    /\ pc'  = [r \in Runners |-> "idle"]
    /\ UNCHANGED <<queue, configured, accepted>>

Restart ==
    /\ ~up
    /\ up' = TRUE
    /\ configured' \in Configs
    /\ UNCHANGED <<queue, runner, endpoint, faults>>

-----------------------------------------------------------------------------
Step(r) ==
    \/ Handle(r) \/ Accept(r) \/ Refuse(r) \/ TimesOut(r)
    \/ Delete(r) \/ DeleteFails(r)

\* There is no other message, each queued one was received as often as it can
\* be, and nothing is under way.
AllDone ==
    /\ up /\ leased = {}
    /\ \A m \in Messages :
          /\ late[m] = 0
          /\ m \in queued => received[m] = MaxReceive
          /\ (m \notin queued /\ received[m] = 0) => To[m] \notin configured
    /\ \A r \in Runners : pc[r] = "idle"
    /\ UNCHANGED vars

Next ==
    \/ \E m \in Messages : Enqueue(m) \/ ArriveLate(m) \/ LeaseEnds(m)
    \/ \E r \in Runners, m \in Messages : Receive(r, m)
    \/ \E r \in Runners : Step(r)
    \/ Crash \/ Restart
    \/ AllDone

Spec == Init /\ [][Next]_vars

ReceiveSome(r) == \E m \in Messages : Receive(r, m)

\* An endpoint answers, or the client's timeout ends the wait for it.
Respond(r) ==
    /\ pc[r] = "sending"
    /\ Accept(r) \/ (To[job[r]] \in Down /\ TimesOut(r))

Fairness ==
    /\ \A r \in Runners : /\ WF_vars(ReceiveSome(r)) /\ WF_vars(Handle(r))
                          /\ WF_vars(Respond(r))     /\ WF_vars(Delete(r))
    /\ \A m \in Messages : WF_vars(~Handled(m) /\ LeaseEnds(m))
    /\ WF_vars(Restart)

FairSpec == Spec /\ Fairness

-----------------------------------------------------------------------------
(* Properties                                                              *)

\* Every variable has its type: a message is received at most MaxReceive
\* times, only queued messages are leased, a runner has a message exactly
\* while its handler runs, and nothing runs in a process that is down.
TypeOK ==
    /\ queued \subseteq Messages
    /\ received \in [Messages -> 0..MaxReceive]
    /\ leased \subseteq queued
    /\ up \in BOOLEAN /\ configured \in Configs
    /\ job \in [Runners -> Messages \cup {NoMessage}]
    /\ pc \in [Runners -> {"idle", "handling", "sending", "skipped", "accepted"}]
    /\ \A r \in Runners : job[r] = NoMessage <=> pc[r] = "idle"
    /\ ~up => \A r \in Runners : pc[r] = "idle"
    /\ late \in [Messages -> Nat] /\ accepted \in [Messages -> Nat]
    /\ faults \in 0..MaxFaults

\* "One message is enqueued per endpoint for independent retry handling"
\* (webhooks/service.go): a message to an endpoint that works is given up, left
\* in the queue and never received again, only after as many failures as there
\* are attempts; neither the messages of other endpoints, nor a changed
\* configuration, nor requests that run twice use up its attempts.
GivenUpOnlyAfterFaults ==
    \A m \in queued :
        (received[m] = MaxReceive /\ ~Handled(m) /\ To[m] \notin Down)
            => faults >= MaxReceive

\* A message to an endpoint that works and stays configured is accepted by it
\* in the end, however many endpoints never answer and hold runners meanwhile,
\* unless failures and crashes are as many as the attempts.
MessagesArrive ==
    \A m \in Messages :
        (To[m] \notin Down /\ \A c \in Configs : To[m] \in c) =>
            (m \in queued ~> (accepted[m] > 0 \/ faults >= MaxReceive))

\* Queue, worker and restarts keep the promise of Outbox: nothing leaves the
\* queue before its endpoint has accepted it, unless that is not configured
\* any more, and no endpoint accepts a message more often than it was received.
StateOf(m) == CASE m \in queued -> "pending"
                [] m \notin queued /\ received[m] = 0 -> "new"
                [] m \notin queued /\ received[m] > 0 -> "settled"

Promise == INSTANCE Outbox WITH
    state <- [m \in Messages |-> StateOf(m)], arrived <- accepted

ImplementsOutbox == Promise!Spec
=============================================================================
