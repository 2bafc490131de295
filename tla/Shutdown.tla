------------------------------ MODULE Shutdown ------------------------------
(***************************************************************************)
(* The end of the process, second by second: main's goroutine in           *)
(* WaitForShutdown, the goroutine that listens, the handlers of HTTP       *)
(* requests, the jobs of the webhook runner, which share the context       *)
(* ongoingCtx with the handlers, and a load balancer that polls /healthz   *)
(* and routes requests while the last poll said 200.                       *)
(*                                                                         *)
(* Time passes in Tick, and only when nobody has anything to do at the     *)
(* present second: sleeps and timeouts end on time, requests take as long  *)
(* as they need. A request whose context is cancelled returns at once.     *)
(***************************************************************************)
EXTENDS Naturals, Middleware

CONSTANTS
    DrainDelay,     \* readinessDrainDelay
    ShutdownPeriod, \* shutdownPeriod
    HardPeriod,     \* shutdownHardPeriod
    PollEvery,      \* at most so many seconds between two polls
    DeleteTime,     \* the runner has so long to delete a message it delivered
    Requests,       \* the requests the balancer routes
    Durations,      \* the seconds a request may need
    Jobs            \* the webhook jobs

ASSUME ShutdownAssumption ==
    /\ {DrainDelay, ShutdownPeriod, HardPeriod, PollEvery, DeleteTime} \subseteq Nat
    /\ Durations \subseteq Nat
    /\ PollEvery < DrainDelay
    /\ DeleteTime < HardPeriod

VARIABLES
    phase,      \* where main is
    timer,      \* what is left of its sleep or timeout
    elapsed,    \* the seconds since the signal
    draining,   \* isShuttingDown
    listener,   \* of the server: "new", "open" or "closed"
    cancelled,  \* is ongoingCtx cancelled?
    killed,     \* has a second signal, or os.Exit, ended the process?
    database,   \* does the database answer a ping?
    routing,    \* does the balancer route requests to this process?
    polled,     \* the seconds since its last poll
    request,    \* where each request is
    needs,      \* the seconds it needs in all
    left,       \* and from now on
    job,        \* where each job is
    deleting    \* the seconds its deletion still has

main     == <<phase, timer, draining, cancelled, killed>>
balancer == <<routing, polled>>
requests == <<request, needs, left>>
jobs     == <<job, deleting>>
vars     == <<main, elapsed, listener, database, balancer, requests, jobs>>

Alive == phase # "exited"

Running(h) == request[h] = "running"

\* The request of a job is on its way, or the job is not over.
Posting(j) == job[j] \in {"sending", "taken"}
Working(j) == Posting(j) \/ job[j] = "delivered"

Init ==
    /\ phase = "waiting" /\ timer = 0 /\ elapsed = 0
    /\ draining = FALSE /\ cancelled = FALSE /\ killed = FALSE
    /\ listener = "new"
    /\ database = TRUE
    /\ routing = FALSE /\ polled = 0
    /\ request = [h \in Requests |-> "none"]
    /\ needs   = [h \in Requests |-> 0]
    /\ left    = [h \in Requests |-> 0]
    /\ job      = [j \in Jobs |-> "none"]
    /\ deleting = [j \in Jobs |-> 0]

-----------------------------------------------------------------------------
(* The server and main                                                     *)

\* ListenAndServe in its own goroutine, before Shutdown is called.
Listen ==
    /\ Alive /\ listener = "new"
    /\ listener' = "open"
    /\ UNCHANGED <<main, elapsed, database, balancer, requests, jobs>>

\* What the end of the process leaves of requests and jobs.
CutOff ==
    /\ request' = [h \in Requests |-> IF Running(h) THEN "cut" ELSE request[h]]
    /\ UNCHANGED <<needs, left, jobs>>

\* The address cannot be had: os.Exit(1).
ListenFails ==
    /\ Alive /\ listener = "new"
    /\ phase' = "exited" /\ killed' = TRUE
    /\ CutOff
    /\ UNCHANGED <<timer, elapsed, draining, listener, cancelled, database, balancer>>

\* As a bug would have it: the health check changes only after the delay.
SignalUnannounced ==
    /\ phase = "waiting"
    /\ phase' = "draining" /\ timer' = DrainDelay
    /\ UNCHANGED <<draining, elapsed, listener, cancelled, killed, database, balancer,
                   requests, jobs>>

\* SIGINT or SIGTERM: isShuttingDown is set and main sleeps.
Signal ==
    /\ phase = "waiting"
    /\ phase' = "draining" /\ timer' = DrainDelay
    /\ draining' = TRUE
    /\ UNCHANGED <<elapsed, listener, cancelled, killed, database, balancer, requests, jobs>>

\* After rootCancel a second signal has its default effect.
SecondSignal ==
    /\ Alive /\ phase # "waiting"
    /\ phase' = "exited" /\ killed' = TRUE
    /\ CutOff
    /\ UNCHANGED <<timer, elapsed, draining, listener, cancelled, database, balancer>>

\* As a bug would have it: the handlers' context ends when Shutdown starts.
DrainedAndCancelled ==
    /\ phase = "draining" /\ timer = 0
    /\ phase' = "stopping" /\ timer' = ShutdownPeriod
    /\ listener' = "closed" /\ cancelled' = TRUE
    /\ UNCHANGED <<elapsed, draining, killed, database, balancer, requests, jobs>>

\* server.Shutdown closes the listener, also one that is not open yet.
Drained ==
    /\ phase = "draining" /\ timer = 0
    /\ phase' = "stopping" /\ timer' = ShutdownPeriod
    /\ listener' = "closed"
    /\ UNCHANGED <<elapsed, draining, cancelled, killed, database, balancer, requests, jobs>>

\* As a bug would have it: Shutdown has no timeout.
NobodyRuns == ~\E h \in Requests : Running(h)

\* As a bug would have it: it waits for the runner's jobs instead.
NobodyRunsAJob == ~\E j \in Jobs : Working(j)

\* No request runs, or the context of Shutdown is over.
ShutdownIsOver == timer = 0 \/ ~\E h \in Requests : Running(h)

\* Shutdown returns, and ongoingCancel is called.
ShutdownReturns ==
    /\ phase = "stopping"
    /\ ShutdownIsOver
    /\ phase' = "cancelled" /\ timer' = HardPeriod
    /\ cancelled' = TRUE
    /\ UNCHANGED <<elapsed, draining, listener, killed, database, balancer, requests, jobs>>

\* As a bug would have it: main returns right after ongoingCancel.
ExitAtOnce ==
    /\ phase = "cancelled"
    /\ phase' = "exited"
    /\ CutOff
    /\ UNCHANGED <<timer, elapsed, draining, listener, cancelled, killed, database, balancer>>

Exit ==
    /\ phase = "cancelled" /\ timer = 0
    /\ phase' = "exited"
    /\ CutOff
    /\ UNCHANGED <<timer, elapsed, draining, listener, cancelled, killed, database, balancer>>

-----------------------------------------------------------------------------
(* The balancer and the handlers                                           *)

DatabaseChanges ==
    /\ Alive
    /\ database' = ~database
    /\ UNCHANGED <<main, elapsed, listener, balancer, requests, jobs>>

\* The balancer's request for the health check carries no key.
Probe == [method |-> "GET", path |-> HealthPath, key |-> "none",
          proxied |-> FALSE, input |-> "valid"]

\* A poll is answered 200; without a listener it is not answered.
Healthy ==
    /\ listener = "open"
    /\ Refusal(Probe) = 0
    /\ HealthStatus(draining, database) = 200

Poll ==
    /\ Alive
    /\ routing' = Healthy
    /\ polled' = 0
    /\ UNCHANGED <<main, elapsed, listener, database, requests, jobs>>

Route(h, seconds) ==
    /\ Alive /\ routing
    /\ request[h] = "none"
    /\ request' = [request EXCEPT ![h] = IF listener = "open" THEN "running" ELSE "refused"]
    /\ needs' = [needs EXCEPT ![h] = seconds]
    /\ left'  = [left EXCEPT ![h] = seconds]
    /\ UNCHANGED <<main, elapsed, listener, database, balancer, jobs>>

Answer(h) ==
    /\ Alive /\ Running(h)
    /\ left[h] = 0
    /\ request' = [request EXCEPT ![h] = "answered"]
    /\ UNCHANGED <<main, elapsed, listener, database, balancer, needs, left, jobs>>

\* The request's context is cancelled: what it waits for returns an error.
GiveUp(h) ==
    /\ Alive /\ Running(h)
    /\ cancelled
    /\ request' = [request EXCEPT ![h] = "cut"]
    /\ UNCHANGED <<main, elapsed, listener, database, balancer, needs, left, jobs>>

-----------------------------------------------------------------------------
(* The runner's jobs                                                       *)

SetJob(j, from, to) ==
    /\ Alive
    /\ job[j] \in from /\ job' = [job EXCEPT ![j] = to]
    /\ UNCHANGED <<main, elapsed, listener, database, balancer, requests>>

\* The runner receives messages until its context is cancelled, and those that
\* are left in the queue again when their lease is over.
StartJob(j) ==
    /\ ~cancelled
    /\ SetJob(j, {"none", "unanswered", "undeleted"}, "sending")
    /\ UNCHANGED deleting

\* The endpoint has the message, which the worker does not know yet.
JobTaken(j) ==
    /\ SetJob(j, {"sending"}, "taken")
    /\ UNCHANGED deleting

\* Do returns a 2xx answer, possibly in the moment of the cancellation.
JobAnswered(j) ==
    /\ SetJob(j, {"taken"}, "delivered")
    /\ deleting' = [deleting EXCEPT ![j] = DeleteTime]

\* Any other answer: the message stays in the queue.
JobFails(j) ==
    /\ SetJob(j, {"sending"}, "none")
    /\ UNCHANGED deleting

\* Do returns an error: the context is cancelled, the client's timeout is over
\* or the connection is lost, before or after the endpoint has taken the
\* message. It stays in the queue.
JobUnanswered(j) ==
    /\ SetJob(j, {"sending", "taken"}, "unanswered")
    /\ UNCHANGED deleting

\* The deletion has a context, and a timeout, of its own.
JobDeleted(j) ==
    /\ database
    /\ SetJob(j, {"delivered"}, "none")
    /\ deleting' = [deleting EXCEPT ![j] = 0]

\* It fails or runs into its timeout: the message stays in the queue.
JobUndeleted(j) ==
    /\ SetJob(j, {"delivered"}, "undeleted")
    /\ deleting' = [deleting EXCEPT ![j] = 0]

-----------------------------------------------------------------------------
Less(n) == IF n > 0 THEN n - 1 ELSE 0

\* A sleep of main or the wait for its server is over.
MainIsDue ==
    \/ phase \in {"draining", "cancelled"} /\ timer = 0
    \/ phase = "stopping" /\ ShutdownIsOver

\* A second passes, unless somebody is due before it does.
Tick ==
    /\ Alive
    /\ ~MainIsDue
    /\ polled < PollEvery
    /\ \A h \in Requests : Running(h) => left[h] > 0 /\ ~cancelled
    /\ \A j \in Jobs : /\ Posting(j) => ~cancelled
                       /\ job[j] = "delivered" => deleting[j] > 0
    /\ timer'    = Less(timer)
    /\ elapsed'  = IF phase = "waiting" THEN 0 ELSE elapsed + 1
    /\ polled'   = polled + 1
    /\ left'     = [h \in Requests |-> Less(left[h])]
    /\ deleting' = [j \in Jobs |-> Less(deleting[j])]
    /\ UNCHANGED <<phase, draining, cancelled, killed, listener, database, routing,
                   request, needs, job>>

Exited == phase = "exited" /\ UNCHANGED vars

Wait == Signal \/ Drained \/ ShutdownReturns \/ Exit

Handler(h) == Answer(h) \/ GiveUp(h) \/ \E d \in Durations : Route(h, d)

Job(j) ==
    \/ StartJob(j)
    \/ JobTaken(j) \/ JobAnswered(j) \/ JobFails(j) \/ JobUnanswered(j)
    \/ JobDeleted(j) \/ JobUndeleted(j)

Next ==
    \/ Wait \/ SecondSignal \/ Listen \/ ListenFails
    \/ DatabaseChanges \/ Poll
    \/ \E h \in Requests : Handler(h)
    \/ \E j \in Jobs : Job(j)
    \/ Tick \/ Exited

Spec == Init /\ [][Next]_vars

\* Time passes and whoever is due acts; signals and requests need not come.
Fairness ==
    /\ WF_vars(Tick) /\ WF_vars(polled = PollEvery /\ Poll)
    /\ WF_vars(Drained) /\ WF_vars(ShutdownReturns) /\ WF_vars(Exit)
    /\ \A h \in Requests : WF_vars(Answer(h) \/ GiveUp(h))
    /\ \A j \in Jobs : /\ WF_vars(cancelled /\ JobUnanswered(j))
                       /\ WF_vars(JobDeleted(j) \/ JobUndeleted(j))

FairSpec == Spec /\ Fairness

-----------------------------------------------------------------------------
(* Properties                                                              *)

Timeouts == 0..DrainDelay + ShutdownPeriod + HardPeriod

\* Every variable has its type; the phases of main, the flag of the health
\* check, the listener and the context change together.
TypeOK ==
    /\ phase \in {"waiting", "draining", "stopping", "cancelled", "exited"}
    /\ timer \in Timeouts /\ elapsed \in Nat
    /\ killed \in BOOLEAN /\ database \in BOOLEAN
    /\ routing \in BOOLEAN /\ polled \in 0..PollEvery
    /\ listener \in {"new", "open", "closed"}
    /\ request \in [Requests -> {"none", "running", "answered", "cut", "refused"}]
    /\ needs \in [Requests -> Nat] /\ left \in [Requests -> Nat]
    /\ job \in [Jobs -> {"none", "sending", "taken", "delivered",
                      "unanswered", "undeleted"}]
    /\ deleting \in [Jobs -> 0..DeleteTime]
    /\ phase = "waiting" => ~draining
    /\ phase \in {"draining", "stopping", "cancelled"} => draining
    /\ phase \in {"waiting", "draining"} => listener # "closed" /\ ~cancelled
    /\ phase \in {"stopping", "cancelled"} => listener = "closed"
    /\ phase \in {"stopping", "cancelled"} => (cancelled <=> phase = "cancelled")

\* "Readiness drain - wait for load balancers to stop sending traffic"
\* (graceful_shutdown.go): a balancer that polls more often than the delay
\* never routes a request to a listener that is closed, wherever between its
\* polls the signal comes.
NoRequestRefused == \A h \in Requests : request[h] # "refused"

\* "Graceful shutdown - stop accepting new connections, wait for handlers"
\* (graceful_shutdown.go): a request that needs less than the shutdown period
\* is answered with its context intact, even one that came in the last second
\* of the drain, unless a second signal kills the process.
ShortRequestsAnswered ==
    \A h \in Requests :
        (request[h] = "cut" /\ ~killed) => needs[h] >= ShutdownPeriod

\* The runner is not waited for, but there is time "for operations to finish
\* after context cancellation" (graceful_shutdown.go): a graceful stop cuts no
\* job off. None has its request under way or its deletion unfinished when the
\* process ends, one answered in the moment of the cancellation included. What
\* an endpoint has taken may still be in the queue, to be sent again by the
\* next process, but then its answer was lost or its deletion has failed.
NoJobCutOff ==
    (phase = "exited" /\ ~killed) => ~\E j \in Jobs : Working(j)

\* From the signal to the end no more than the three periods pass.
ExitInTime == Alive => elapsed <= DrainDelay + ShutdownPeriod + HardPeriod

=============================================================================
