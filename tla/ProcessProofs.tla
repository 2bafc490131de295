--------------------------- MODULE ProcessProofs ----------------------------
(***************************************************************************)
(* Proofs about the life of the process: its end, for all periods in the   *)
(* order that ShutdownAssumption states and any number of requests and     *)
(* jobs, and its start, for any number of failures.                        *)
(*                                                                         *)
(* The inductive invariant Inv says how much time each party has used of   *)
(* what main has granted: the balancer's last poll is as old as the drain  *)
(* if it still routes, a request that runs has had the part of the         *)
(* shutdown period that is over, a deletion has had the part of the hard   *)
(* period that is over, and main has spent the periods before its phase.   *)
(***************************************************************************)
EXTENDS Process, TLAPS

Total == DrainDelay + ShutdownPeriod + HardPeriod

\* While the balancer routes here, its last poll is older than the signal.
RoutingInv ==
    /\ routing /\ phase \in {"waiting", "draining"} => listener = "open"
    /\ routing /\ phase = "draining" => polled + timer >= DrainDelay
    /\ phase \in {"stopping", "cancelled"} => ~routing
    /\ \A h \in Requests : request[h] # "refused"

\* What a running request has had, and what it was cut after.
RequestInv ==
    \A h \in Requests :
        /\ Running(h) => left[h] <= needs[h]
        /\ Running(h) /\ phase = "stopping" =>
               left[h] + ShutdownPeriod <= needs[h] + timer
        /\ Running(h) /\ phase = "cancelled" => needs[h] >= ShutdownPeriod
        /\ request[h] = "cut" /\ ~killed => needs[h] >= ShutdownPeriod

\* A request under way ends in the moment of the cancellation; what a deletion
\* still has then, in the hard period and after it.
JobInv ==
    \A j \in Jobs :
        /\ Posting(j) /\ phase = "cancelled" => timer = HardPeriod
        /\ job[j] = "delivered" /\ phase = "cancelled" =>
               deleting[j] + HardPeriod <= DeleteTime + timer
        /\ phase = "exited" /\ ~killed => ~Working(j)

\* What main has spent.
TimeInv ==
    /\ phase = "waiting"   => elapsed = 0
    /\ phase = "draining"  => elapsed + timer <= DrainDelay
    /\ phase = "stopping"  => elapsed + timer <= DrainDelay + ShutdownPeriod
    /\ phase = "cancelled" => elapsed + timer <= Total

Inv == TypeOK /\ RoutingInv /\ RequestInv /\ JobInv /\ TimeInv

-----------------------------------------------------------------------------
\* The periods are natural numbers in the order of the code.
LEMMA PeriodsType ==
    /\ DrainDelay \in Nat /\ ShutdownPeriod \in Nat /\ HardPeriod \in Nat
    /\ PollEvery \in Nat /\ DeleteTime \in Nat
    /\ PollEvery < DrainDelay /\ DeleteTime < HardPeriod
    /\ Durations \subseteq Nat
BY ShutdownAssumption DEF ShutdownAssumption

\* A poll that is answered 200 was answered before the signal.
LEMMA HealthyMeans == Healthy => listener = "open" /\ ~draining
BY DEF Healthy, HealthStatus

\* One second less of what is left.
LEMMA LessType == \A n \in Nat : /\ Less(n) \in Nat /\ Less(n) <= n
                                 /\ n > 0 => Less(n) = n - 1
BY DEF Less

LEMMA InitInv == Init => Inv
<1> SUFFICES ASSUME Init PROVE Inv
  OBVIOUS
<1>1. TypeOK
  <2>1. timer \in Timeouts /\ polled \in 0..PollEvery /\ elapsed \in Nat
    BY PeriodsType DEF Init, Timeouts
  <2>2. job \in [Jobs -> {"none", "sending", "taken", "delivered", "unanswered", "undeleted"}]
    BY DEF Init
  <2>3. deleting \in [Jobs -> 0..DeleteTime]
    BY PeriodsType DEF Init
  <2>4. /\ request \in [Requests -> {"none", "running", "answered", "cut", "refused"}]
        /\ needs \in [Requests -> Nat] /\ left \in [Requests -> Nat]
    BY DEF Init
  <2>5. QED
    BY <2>1, <2>2, <2>3, <2>4 DEF Init, TypeOK
<1>2. RoutingInv
  BY DEF Init, RoutingInv
<1>3. RequestInv
  BY DEF Init, RequestInv, Running
<1>4. JobInv
  BY DEF Init, JobInv, Posting, Working
<1>5. TimeInv
  BY DEF Init, TimeInv
<1>6. QED
  BY <1>1, <1>2, <1>3, <1>4, <1>5 DEF Inv

-----------------------------------------------------------------------------
(* One lemma per action: it keeps the invariant.                            *)

LEMMA ListenStep ==
  ASSUME Inv, Listen
  PROVE  Inv'
<1>1. TypeOK'
  BY PeriodsType DEF Inv, TypeOK, Timeouts, Alive, Listen, vars, main, balancer, requests, jobs
<1>2. RoutingInv'
  BY PeriodsType DEF Inv, TypeOK, RoutingInv, Timeouts, Alive, Listen, vars, main, balancer, requests, jobs
<1>3. RequestInv'
  BY PeriodsType DEF Inv, TypeOK, RequestInv, RoutingInv, Running, Timeouts, Alive, Listen, vars, main, balancer, requests, jobs
<1>4. JobInv'
  BY PeriodsType DEF Inv, TypeOK, JobInv, Posting, Working, Timeouts, Alive, Listen, vars, main, balancer, requests, jobs
<1>5. TimeInv'
  BY PeriodsType DEF Inv, TypeOK, TimeInv, Total, Timeouts, Alive, Listen, vars, main, balancer, requests, jobs
<1>6. QED
  BY <1>1, <1>2, <1>3, <1>4, <1>5 DEF Inv

LEMMA ListenFailsStep ==
  ASSUME Inv, ListenFails
  PROVE  Inv'
<1>1. TypeOK'
  BY PeriodsType DEF Inv, TypeOK, Timeouts, Alive, ListenFails, CutOff, vars, main, balancer, requests, jobs
<1>2. RoutingInv'
  BY PeriodsType DEF Inv, TypeOK, RoutingInv, Timeouts, Alive, ListenFails, CutOff, vars, main, balancer, requests, jobs
<1>3. RequestInv'
  BY PeriodsType DEF Inv, TypeOK, RequestInv, RoutingInv, Running, Timeouts, Alive, ListenFails, CutOff, vars, main, balancer, requests, jobs
<1>4. JobInv'
  BY PeriodsType DEF Inv, TypeOK, JobInv, Posting, Working, Timeouts, Alive, ListenFails, CutOff, vars, main, balancer, requests, jobs
<1>5. TimeInv'
  BY PeriodsType DEF Inv, TypeOK, TimeInv, Total, Timeouts, Alive, ListenFails, CutOff, vars, main, balancer, requests, jobs
<1>6. QED
  BY <1>1, <1>2, <1>3, <1>4, <1>5 DEF Inv

LEMMA SignalStep ==
  ASSUME Inv, Signal
  PROVE  Inv'
<1>1. TypeOK'
  BY PeriodsType DEF Inv, TypeOK, Timeouts, Alive, Signal, vars, main, balancer, requests, jobs
<1>2. RoutingInv'
  BY PeriodsType DEF Inv, TypeOK, RoutingInv, Timeouts, Alive, Signal, vars, main, balancer, requests, jobs
<1>3. RequestInv'
  BY PeriodsType DEF Inv, TypeOK, RequestInv, RoutingInv, Running, Timeouts, Alive, Signal, vars, main, balancer, requests, jobs
<1>4. JobInv'
  BY PeriodsType DEF Inv, TypeOK, JobInv, Posting, Working, Timeouts, Alive, Signal, vars, main, balancer, requests, jobs
<1>5. TimeInv'
  BY PeriodsType DEF Inv, TypeOK, TimeInv, Total, Timeouts, Alive, Signal, vars, main, balancer, requests, jobs
<1>6. QED
  BY <1>1, <1>2, <1>3, <1>4, <1>5 DEF Inv

LEMMA SecondSignalStep ==
  ASSUME Inv, SecondSignal
  PROVE  Inv'
<1>1. TypeOK'
  BY PeriodsType DEF Inv, TypeOK, Timeouts, Alive, SecondSignal, CutOff, vars, main, balancer, requests, jobs
<1>2. RoutingInv'
  BY PeriodsType DEF Inv, TypeOK, RoutingInv, Timeouts, Alive, SecondSignal, CutOff, vars, main, balancer, requests, jobs
<1>3. RequestInv'
  BY PeriodsType DEF Inv, TypeOK, RequestInv, RoutingInv, Running, Timeouts, Alive, SecondSignal, CutOff, vars, main, balancer, requests, jobs
<1>4. JobInv'
  BY PeriodsType DEF Inv, TypeOK, JobInv, Posting, Working, Timeouts, Alive, SecondSignal, CutOff, vars, main, balancer, requests, jobs
<1>5. TimeInv'
  BY PeriodsType DEF Inv, TypeOK, TimeInv, Total, Timeouts, Alive, SecondSignal, CutOff, vars, main, balancer, requests, jobs
<1>6. QED
  BY <1>1, <1>2, <1>3, <1>4, <1>5 DEF Inv

LEMMA DrainedStep ==
  ASSUME Inv, Drained
  PROVE  Inv'
<1>1. TypeOK'
  BY PeriodsType DEF Inv, TypeOK, Timeouts, Alive, Drained, vars, main, balancer, requests, jobs
<1>2. RoutingInv'
  BY PeriodsType DEF Inv, TypeOK, RoutingInv, Timeouts, Alive, Drained, vars, main, balancer, requests, jobs
<1>3. RequestInv'
  BY PeriodsType DEF Inv, TypeOK, RequestInv, RoutingInv, Running, Timeouts, Alive, Drained, vars, main, balancer, requests, jobs
<1>4. JobInv'
  BY PeriodsType DEF Inv, TypeOK, JobInv, Posting, Working, Timeouts, Alive, Drained, vars, main, balancer, requests, jobs
<1>5. TimeInv'
  BY PeriodsType DEF Inv, TypeOK, TimeInv, Total, Timeouts, Alive, Drained, vars, main, balancer, requests, jobs
<1>6. QED
  BY <1>1, <1>2, <1>3, <1>4, <1>5 DEF Inv

LEMMA ShutdownReturnsStep ==
  ASSUME Inv, ShutdownReturns
  PROVE  Inv'
<1>1. TypeOK'
  BY PeriodsType DEF Inv, TypeOK, Timeouts, Alive, ShutdownReturns, ShutdownIsOver, vars, main, balancer, requests, jobs
<1>2. RoutingInv'
  BY PeriodsType DEF Inv, TypeOK, RoutingInv, Timeouts, Alive, ShutdownReturns, ShutdownIsOver, vars, main, balancer, requests, jobs
<1>3. RequestInv'
  BY PeriodsType DEF Inv, TypeOK, RequestInv, RoutingInv, Running, Timeouts, Alive, ShutdownReturns, ShutdownIsOver, vars, main, balancer, requests, jobs
<1>4. JobInv'
  BY PeriodsType DEF Inv, TypeOK, JobInv, Posting, Working, Timeouts, Alive, ShutdownReturns, ShutdownIsOver, vars, main, balancer, requests, jobs
<1>5. TimeInv'
  BY PeriodsType DEF Inv, TypeOK, TimeInv, Total, Timeouts, Alive, ShutdownReturns, ShutdownIsOver, vars, main, balancer, requests, jobs
<1>6. QED
  BY <1>1, <1>2, <1>3, <1>4, <1>5 DEF Inv

LEMMA ExitStep ==
  ASSUME Inv, Exit
  PROVE  Inv'
<1>1. TypeOK'
  BY PeriodsType DEF Inv, TypeOK, Timeouts, Alive, Exit, CutOff, vars, main, balancer, requests, jobs
<1>2. RoutingInv'
  BY PeriodsType DEF Inv, TypeOK, RoutingInv, Timeouts, Alive, Exit, CutOff, vars, main, balancer, requests, jobs
<1>3. RequestInv'
  BY PeriodsType DEF Inv, TypeOK, RequestInv, RoutingInv, Running, Timeouts, Alive, Exit, CutOff, vars, main, balancer, requests, jobs
<1>4. JobInv'
  BY PeriodsType DEF Inv, TypeOK, JobInv, Posting, Working, Timeouts, Alive, Exit, CutOff, vars, main, balancer, requests, jobs
<1>5. TimeInv'
  BY PeriodsType DEF Inv, TypeOK, TimeInv, Total, Timeouts, Alive, Exit, CutOff, vars, main, balancer, requests, jobs
<1>6. QED
  BY <1>1, <1>2, <1>3, <1>4, <1>5 DEF Inv

LEMMA DatabaseChangesStep ==
  ASSUME Inv, DatabaseChanges
  PROVE  Inv'
<1>1. TypeOK'
  BY PeriodsType DEF Inv, TypeOK, Timeouts, Alive, DatabaseChanges, vars, main, balancer, requests, jobs
<1>2. RoutingInv'
  BY PeriodsType DEF Inv, TypeOK, RoutingInv, Timeouts, Alive, DatabaseChanges, vars, main, balancer, requests, jobs
<1>3. RequestInv'
  BY PeriodsType DEF Inv, TypeOK, RequestInv, RoutingInv, Running, Timeouts, Alive, DatabaseChanges, vars, main, balancer, requests, jobs
<1>4. JobInv'
  BY PeriodsType DEF Inv, TypeOK, JobInv, Posting, Working, Timeouts, Alive, DatabaseChanges, vars, main, balancer, requests, jobs
<1>5. TimeInv'
  BY PeriodsType DEF Inv, TypeOK, TimeInv, Total, Timeouts, Alive, DatabaseChanges, vars, main, balancer, requests, jobs
<1>6. QED
  BY <1>1, <1>2, <1>3, <1>4, <1>5 DEF Inv

LEMMA PollStep ==
  ASSUME Inv, Poll
  PROVE  Inv'
<1>1. TypeOK'
  <2>1. routing' \in BOOLEAN
    BY DEF Poll, Healthy
  <2>2. QED
    BY <2>1, PeriodsType DEF Inv, TypeOK, Timeouts, Poll, main, requests, jobs
<1>2. RoutingInv'
  BY PeriodsType, HealthyMeans DEF Inv, TypeOK, RoutingInv, Timeouts, Alive, Poll, vars, main, balancer, requests, jobs
<1>3. RequestInv'
  BY PeriodsType, HealthyMeans DEF Inv, TypeOK, RequestInv, RoutingInv, Running, Timeouts, Alive, Poll, vars, main, balancer, requests, jobs
<1>4. JobInv'
  BY PeriodsType, HealthyMeans DEF Inv, TypeOK, JobInv, Posting, Working, Timeouts, Alive, Poll, vars, main, balancer, requests, jobs
<1>5. TimeInv'
  BY PeriodsType, HealthyMeans DEF Inv, TypeOK, TimeInv, Total, Timeouts, Alive, Poll, vars, main, balancer, requests, jobs
<1>6. QED
  BY <1>1, <1>2, <1>3, <1>4, <1>5 DEF Inv

LEMMA RouteStep ==
  ASSUME Inv, NEW h \in Requests, NEW d \in Durations, Route(h, d)
  PROVE  Inv'
<1>1. TypeOK'
  BY PeriodsType DEF Inv, TypeOK, Timeouts, Alive, Route, vars, main, balancer, requests, jobs
<1>2. RoutingInv'
  BY PeriodsType DEF Inv, TypeOK, RoutingInv, Timeouts, Alive, Route, vars, main, balancer, requests, jobs
<1>3. RequestInv'
  BY PeriodsType DEF Inv, TypeOK, RequestInv, RoutingInv, Running, Timeouts, Alive, Route, vars, main, balancer, requests, jobs
<1>4. JobInv'
  BY PeriodsType DEF Inv, TypeOK, JobInv, Posting, Working, Timeouts, Alive, Route, vars, main, balancer, requests, jobs
<1>5. TimeInv'
  BY PeriodsType DEF Inv, TypeOK, TimeInv, Total, Timeouts, Alive, Route, vars, main, balancer, requests, jobs
<1>6. QED
  BY <1>1, <1>2, <1>3, <1>4, <1>5 DEF Inv

LEMMA AnswerStep ==
  ASSUME Inv, NEW h \in Requests, Answer(h)
  PROVE  Inv'
<1>1. TypeOK'
  BY PeriodsType DEF Inv, TypeOK, Timeouts, Alive, Answer, vars, main, balancer, requests, jobs
<1>2. RoutingInv'
  BY PeriodsType DEF Inv, TypeOK, RoutingInv, Timeouts, Alive, Answer, vars, main, balancer, requests, jobs
<1>3. RequestInv'
  BY PeriodsType DEF Inv, TypeOK, RequestInv, RoutingInv, Running, Timeouts, Alive, Answer, vars, main, balancer, requests, jobs
<1>4. JobInv'
  BY PeriodsType DEF Inv, TypeOK, JobInv, Posting, Working, Timeouts, Alive, Answer, vars, main, balancer, requests, jobs
<1>5. TimeInv'
  BY PeriodsType DEF Inv, TypeOK, TimeInv, Total, Timeouts, Alive, Answer, vars, main, balancer, requests, jobs
<1>6. QED
  BY <1>1, <1>2, <1>3, <1>4, <1>5 DEF Inv

LEMMA GiveUpStep ==
  ASSUME Inv, NEW h \in Requests, GiveUp(h)
  PROVE  Inv'
<1>1. TypeOK'
  BY PeriodsType DEF Inv, TypeOK, Timeouts, Alive, GiveUp, vars, main, balancer, requests, jobs
<1>2. RoutingInv'
  BY PeriodsType DEF Inv, TypeOK, RoutingInv, Timeouts, Alive, GiveUp, vars, main, balancer, requests, jobs
<1>3. RequestInv'
  BY PeriodsType DEF Inv, TypeOK, RequestInv, RoutingInv, Running, Timeouts, Alive, GiveUp, vars, main, balancer, requests, jobs
<1>4. JobInv'
  BY PeriodsType DEF Inv, TypeOK, JobInv, Posting, Working, Timeouts, Alive, GiveUp, vars, main, balancer, requests, jobs
<1>5. TimeInv'
  BY PeriodsType DEF Inv, TypeOK, TimeInv, Total, Timeouts, Alive, GiveUp, vars, main, balancer, requests, jobs
<1>6. QED
  BY <1>1, <1>2, <1>3, <1>4, <1>5 DEF Inv

LEMMA StartJobStep ==
  ASSUME Inv, NEW j \in Jobs, StartJob(j)
  PROVE  Inv'
<1>1. TypeOK'
  BY PeriodsType DEF Inv, TypeOK, Timeouts, Alive, StartJob, SetJob, vars, main, balancer, requests, jobs
<1>2. RoutingInv'
  BY PeriodsType DEF Inv, TypeOK, RoutingInv, Timeouts, Alive, StartJob, SetJob, vars, main, balancer, requests, jobs
<1>3. RequestInv'
  BY PeriodsType DEF Inv, TypeOK, RequestInv, RoutingInv, Running, Timeouts, Alive, StartJob, SetJob, vars, main, balancer, requests, jobs
<1>4. JobInv'
  BY PeriodsType DEF Inv, TypeOK, JobInv, Posting, Working, Timeouts, Alive, StartJob, SetJob, vars, main, balancer, requests, jobs
<1>5. TimeInv'
  BY PeriodsType DEF Inv, TypeOK, TimeInv, Total, Timeouts, Alive, StartJob, SetJob, vars, main, balancer, requests, jobs
<1>6. QED
  BY <1>1, <1>2, <1>3, <1>4, <1>5 DEF Inv

LEMMA JobTakenStep ==
  ASSUME Inv, NEW j \in Jobs, JobTaken(j)
  PROVE  Inv'
<1>1. TypeOK'
  BY PeriodsType DEF Inv, TypeOK, Timeouts, Alive, JobTaken, SetJob, vars, main, balancer, requests, jobs
<1>2. RoutingInv'
  BY PeriodsType DEF Inv, TypeOK, RoutingInv, Timeouts, Alive, JobTaken, SetJob, vars, main, balancer, requests, jobs
<1>3. RequestInv'
  BY PeriodsType DEF Inv, TypeOK, RequestInv, RoutingInv, Running, Timeouts, Alive, JobTaken, SetJob, vars, main, balancer, requests, jobs
<1>4. JobInv'
  BY PeriodsType DEF Inv, TypeOK, JobInv, Posting, Working, Timeouts, Alive, JobTaken, SetJob, vars, main, balancer, requests, jobs
<1>5. TimeInv'
  BY PeriodsType DEF Inv, TypeOK, TimeInv, Total, Timeouts, Alive, JobTaken, SetJob, vars, main, balancer, requests, jobs
<1>6. QED
  BY <1>1, <1>2, <1>3, <1>4, <1>5 DEF Inv

LEMMA JobAnsweredStep ==
  ASSUME Inv, NEW j \in Jobs, JobAnswered(j)
  PROVE  Inv'
<1>1. TypeOK'
  BY PeriodsType DEF Inv, TypeOK, Timeouts, Alive, JobAnswered, SetJob, vars, main, balancer, requests, jobs
<1>2. RoutingInv'
  BY PeriodsType DEF Inv, TypeOK, RoutingInv, Timeouts, Alive, JobAnswered, SetJob, vars, main, balancer, requests, jobs
<1>3. RequestInv'
  BY PeriodsType DEF Inv, TypeOK, RequestInv, RoutingInv, Running, Timeouts, Alive, JobAnswered, SetJob, vars, main, balancer, requests, jobs
<1>4. JobInv'
  BY PeriodsType DEF Inv, TypeOK, JobInv, Posting, Working, Timeouts, Alive, JobAnswered, SetJob, vars, main, balancer, requests, jobs
<1>5. TimeInv'
  BY PeriodsType DEF Inv, TypeOK, TimeInv, Total, Timeouts, Alive, JobAnswered, SetJob, vars, main, balancer, requests, jobs
<1>6. QED
  BY <1>1, <1>2, <1>3, <1>4, <1>5 DEF Inv

LEMMA JobFailsStep ==
  ASSUME Inv, NEW j \in Jobs, JobFails(j)
  PROVE  Inv'
<1>1. TypeOK'
  BY PeriodsType DEF Inv, TypeOK, Timeouts, Alive, JobFails, SetJob, vars, main, balancer, requests, jobs
<1>2. RoutingInv'
  BY PeriodsType DEF Inv, TypeOK, RoutingInv, Timeouts, Alive, JobFails, SetJob, vars, main, balancer, requests, jobs
<1>3. RequestInv'
  BY PeriodsType DEF Inv, TypeOK, RequestInv, RoutingInv, Running, Timeouts, Alive, JobFails, SetJob, vars, main, balancer, requests, jobs
<1>4. JobInv'
  BY PeriodsType DEF Inv, TypeOK, JobInv, Posting, Working, Timeouts, Alive, JobFails, SetJob, vars, main, balancer, requests, jobs
<1>5. TimeInv'
  BY PeriodsType DEF Inv, TypeOK, TimeInv, Total, Timeouts, Alive, JobFails, SetJob, vars, main, balancer, requests, jobs
<1>6. QED
  BY <1>1, <1>2, <1>3, <1>4, <1>5 DEF Inv

LEMMA JobUnansweredStep ==
  ASSUME Inv, NEW j \in Jobs, JobUnanswered(j)
  PROVE  Inv'
<1>1. TypeOK'
  BY PeriodsType DEF Inv, TypeOK, Timeouts, Alive, JobUnanswered, SetJob, vars, main, balancer, requests, jobs
<1>2. RoutingInv'
  BY PeriodsType DEF Inv, TypeOK, RoutingInv, Timeouts, Alive, JobUnanswered, SetJob, vars, main, balancer, requests, jobs
<1>3. RequestInv'
  BY PeriodsType DEF Inv, TypeOK, RequestInv, RoutingInv, Running, Timeouts, Alive, JobUnanswered, SetJob, vars, main, balancer, requests, jobs
<1>4. JobInv'
  BY PeriodsType DEF Inv, TypeOK, JobInv, Posting, Working, Timeouts, Alive, JobUnanswered, SetJob, vars, main, balancer, requests, jobs
<1>5. TimeInv'
  BY PeriodsType DEF Inv, TypeOK, TimeInv, Total, Timeouts, Alive, JobUnanswered, SetJob, vars, main, balancer, requests, jobs
<1>6. QED
  BY <1>1, <1>2, <1>3, <1>4, <1>5 DEF Inv

LEMMA JobDeletedStep ==
  ASSUME Inv, NEW j \in Jobs, JobDeleted(j)
  PROVE  Inv'
<1>1. TypeOK'
  BY PeriodsType DEF Inv, TypeOK, Timeouts, Alive, JobDeleted, SetJob, vars, main, balancer, requests, jobs
<1>2. RoutingInv'
  BY PeriodsType DEF Inv, TypeOK, RoutingInv, Timeouts, Alive, JobDeleted, SetJob, vars, main, balancer, requests, jobs
<1>3. RequestInv'
  BY PeriodsType DEF Inv, TypeOK, RequestInv, RoutingInv, Running, Timeouts, Alive, JobDeleted, SetJob, vars, main, balancer, requests, jobs
<1>4. JobInv'
  BY PeriodsType DEF Inv, TypeOK, JobInv, Posting, Working, Timeouts, Alive, JobDeleted, SetJob, vars, main, balancer, requests, jobs
<1>5. TimeInv'
  BY PeriodsType DEF Inv, TypeOK, TimeInv, Total, Timeouts, Alive, JobDeleted, SetJob, vars, main, balancer, requests, jobs
<1>6. QED
  BY <1>1, <1>2, <1>3, <1>4, <1>5 DEF Inv

LEMMA JobUndeletedStep ==
  ASSUME Inv, NEW j \in Jobs, JobUndeleted(j)
  PROVE  Inv'
<1>1. TypeOK'
  BY PeriodsType DEF Inv, TypeOK, Timeouts, Alive, JobUndeleted, SetJob, vars, main, balancer, requests, jobs
<1>2. RoutingInv'
  BY PeriodsType DEF Inv, TypeOK, RoutingInv, Timeouts, Alive, JobUndeleted, SetJob, vars, main, balancer, requests, jobs
<1>3. RequestInv'
  BY PeriodsType DEF Inv, TypeOK, RequestInv, RoutingInv, Running, Timeouts, Alive, JobUndeleted, SetJob, vars, main, balancer, requests, jobs
<1>4. JobInv'
  BY PeriodsType DEF Inv, TypeOK, JobInv, Posting, Working, Timeouts, Alive, JobUndeleted, SetJob, vars, main, balancer, requests, jobs
<1>5. TimeInv'
  BY PeriodsType DEF Inv, TypeOK, TimeInv, Total, Timeouts, Alive, JobUndeleted, SetJob, vars, main, balancer, requests, jobs
<1>6. QED
  BY <1>1, <1>2, <1>3, <1>4, <1>5 DEF Inv

LEMMA TickStep ==
  ASSUME Inv, Tick
  PROVE  Inv'
<1>1. TypeOK'
  BY PeriodsType, LessType DEF Inv, TypeOK, Timeouts, Alive, Tick, MainIsDue, ShutdownIsOver, vars, main, balancer, requests, jobs
<1>2. RoutingInv'
  BY PeriodsType, LessType DEF Inv, TypeOK, RoutingInv, Timeouts, Alive, Tick, MainIsDue, ShutdownIsOver, vars, main, balancer, requests, jobs
<1>3. RequestInv'
  BY PeriodsType, LessType DEF Inv, TypeOK, RequestInv, RoutingInv, Running, Timeouts, Alive, Tick, MainIsDue, ShutdownIsOver, vars, main, balancer, requests, jobs
<1>4. JobInv'
  BY PeriodsType, LessType DEF Inv, TypeOK, JobInv, Posting, Working, Timeouts, Alive, Tick, MainIsDue, ShutdownIsOver, vars, main, balancer, requests, jobs
<1>5. TimeInv'
  BY PeriodsType, LessType DEF Inv, TypeOK, TimeInv, Total, Timeouts, Alive, Tick, MainIsDue, ShutdownIsOver, vars, main, balancer, requests, jobs
<1>6. QED
  BY <1>1, <1>2, <1>3, <1>4, <1>5 DEF Inv

-----------------------------------------------------------------------------
(* The theorems                                                             *)

LEMMA NextInv == Inv /\ [Next]_vars => Inv'
<1> SUFFICES ASSUME Inv, [Next]_vars PROVE Inv'
  OBVIOUS
<1>1. CASE Wait
  BY <1>1, SignalStep, DrainedStep, ShutdownReturnsStep, ExitStep DEF Wait
<1>2. CASE SecondSignal \/ Listen \/ ListenFails
  BY <1>2, SecondSignalStep, ListenStep, ListenFailsStep
<1>3. CASE DatabaseChanges \/ Poll
  BY <1>3, DatabaseChangesStep, PollStep
<1>4. ASSUME NEW h \in Requests, Handler(h) PROVE Inv'
  BY <1>4, RouteStep, AnswerStep, GiveUpStep DEF Handler
<1>5. ASSUME NEW j \in Jobs, Job(j) PROVE Inv'
  BY <1>5, StartJobStep, JobTakenStep, JobAnsweredStep, JobFailsStep, JobUnansweredStep,
     JobDeletedStep, JobUndeletedStep DEF Job
<1>6. CASE Tick
  BY <1>6, TickStep
<1>7. CASE Exited \/ UNCHANGED vars
  <2>1. UNCHANGED vars
    BY <1>7 DEF Exited
  <2>2. TypeOK'
    BY <2>1 DEF Inv, TypeOK, vars, main, balancer, requests, jobs
  <2>3. RoutingInv' /\ RequestInv' /\ JobInv' /\ TimeInv'
    BY <2>1 DEF Inv, RoutingInv, RequestInv, JobInv, TimeInv, Running, Posting, Working,
                vars, main, balancer, requests, jobs
  <2>4. QED
    BY <2>2, <2>3 DEF Inv
<1>8. QED
  BY <1>1, <1>2, <1>3, <1>4, <1>5, <1>6, <1>7 DEF Next

(* The invariant of the end holds in every behaviour of Shutdown.           *)
THEOREM Invariance == Spec => []Inv
<1>1. QED
  BY InitInv, NextInv, PTL DEF Spec

\* What the process does from its first line is, for the variables of the end,
\* what Shutdown describes: the start leaves them alone.
LEMMA ProcessImplementsShutdown == ProcessSpec => Spec
<1>1. ProcessInit => Init
  BY DEF ProcessInit
<1>2. [ProcessNext]_life => [Next]_vars
  <2> SUFFICES ASSUME [ProcessNext]_life PROVE [Next]_vars
    OBVIOUS
  <2>1. CASE UNCHANGED life
    BY <2>1 DEF life
  <2>2. CASE StartStep \/ StartFails
    BY <2>2 DEF StartStep, StartFails, SubscribeForShutdown, LoadConfig, LoadConfigFails,
          MigrationBegins, MigrationEnds, MigrationFails, NothingToMigrate,
          MigrationRefused, Connect, ConnectFails, Serve, LoadSubscriptionsFails,
          Dies, Reaches
  <2>3. CASE SignalArrives \/ Kill \/ Respawn
    BY <2>3 DEF SignalArrives, Kill, Respawn, Dies, Reaches
  <2>4. CASE DatabaseChanges
    BY <2>4 DEF Next
  <2>5. CASE Serving(Served)
    BY <2>5 DEF Serving, Served, Next, Wait
  <2>6. QED
    BY <2>1, <2>2, <2>3, <2>4, <2>5 DEF ProcessNext, Stopped
<1>3. QED
  BY <1>1, <1>2, PTL DEF ProcessSpec, Spec

(* Every variable of the end of the process keeps its type.                 *)
THEOREM TypeCorrect == ProcessSpec => []TypeOK
<1>1. Inv => TypeOK
  BY DEF Inv
<1>2. QED
  BY <1>1, Invariance, ProcessImplementsShutdown, PTL

(* However long the periods are, if the balancer polls more often than the  *)
(* drain lasts, it never routes a request to a closed listener.             *)
THEOREM NobodyRefused == ProcessSpec => []NoRequestRefused
<1>1. Inv => NoRequestRefused
  BY DEF Inv, RoutingInv, NoRequestRefused
<1>2. QED
  BY <1>1, Invariance, ProcessImplementsShutdown, PTL

(* A request is cut only after it has had the whole shutdown period, or by  *)
(* a second signal.                                                         *)
THEOREM ShortAnswered == ProcessSpec => []ShortRequestsAnswered
<1>1. Inv => ShortRequestsAnswered
  BY DEF Inv, RequestInv, ShortRequestsAnswered
<1>2. QED
  BY <1>1, Invariance, ProcessImplementsShutdown, PTL

(* The hard period is long enough for every deletion, and the cancellation  *)
(* ends every request: a graceful stop cuts no job off.                     *)
THEOREM JobsEnd == ProcessSpec => []NoJobCutOff
<1>1. Inv => NoJobCutOff
  BY DEF Inv, JobInv, NoJobCutOff
<1>2. QED
  BY <1>1, Invariance, ProcessImplementsShutdown, PTL

(* The process does not live longer after the signal than its periods.      *)
THEOREM EndsInTime == ProcessSpec => []ExitInTime
<1>1. Inv => ExitInTime
  BY PeriodsType DEF Inv, TypeOK, Timeouts, TimeInv, Total, ExitInTime, Alive
<1>2. QED
  BY <1>1, Invariance, ProcessImplementsShutdown, PTL

-----------------------------------------------------------------------------
(* The start                                                                *)

\* A context that is done has seen a signal.
StartInv == ProcessTypeOK /\ (rootCtx = "done" => signalled)

LEMMA StartStepInv ==
  ASSUME StartInv, StartStep \/ StartFails
  PROVE  StartInv'
<1> USE FaultsAssumption DEF StartInv, ProcessTypeOK, Reaches, Dies
<1>1. CASE SubscribeForShutdown \/ LoadConfig
  BY <1>1 DEF SubscribeForShutdown, LoadConfig, vars, main
<1>2. CASE MigrationBegins \/ MigrationEnds \/ NothingToMigrate
  BY <1>2 DEF MigrationBegins, MigrationEnds, NothingToMigrate, vars, main
<1>3. CASE Connect \/ Serve
  BY <1>3 DEF Connect, Serve, vars, main
<1>4. CASE StartFails
  BY <1>4 DEF StartFails, LoadConfigFails, MigrationFails, MigrationRefused, ConnectFails,
              LoadSubscriptionsFails, OutageOrFault, Fault, vars, main
<1>5. QED
  BY <1>1, <1>2, <1>3, <1>4 DEF StartStep

LEMMA SupervisorInv ==
  ASSUME StartInv, SignalArrives \/ Kill \/ Respawn
  PROVE  StartInv'
<1>1. CASE SignalArrives
  BY <1>1 DEF StartInv, ProcessTypeOK, SignalArrives, vars, main
<1>2. CASE Kill \/ Respawn
  BY <1>2, FaultsAssumption DEF StartInv, ProcessTypeOK, Kill, Respawn, Dies, Reaches,
                                Fault, vars, main
<1>3. QED
  BY <1>1, <1>2

LEMMA ServingInv ==
  ASSUME StartInv, Serving(Served)
  PROVE  StartInv'
<1>1. stage = "serving" /\ UNCHANGED start
  BY DEF Serving
<1>2. (phase # "waiting" => signalled \/ killed)'
  <2>1. phase' # "waiting" => phase # "waiting" \/ signalled \/ killed'
    BY DEF Serving, Served, StartInv, Wakes, Drained, ShutdownReturns, Exit, SecondSignal,
           Listen, ListenFails, Poll, Handler, Route, Answer, GiveUp, Job, SetJob,
           StartJob, JobTaken, JobAnswered, JobFails, JobUnanswered, JobDeleted, JobUndeleted,
           Tick, Exited, vars, main
  <2>2. killed => killed'
    BY DEF Serving, Served, Signal, Drained, ShutdownReturns, Exit, SecondSignal,
           Listen, ListenFails, Poll, Handler, Route, Answer, GiveUp, Job, SetJob,
           StartJob, JobTaken, JobAnswered, JobFails, JobUnanswered, JobDeleted, JobUndeleted,
           Tick, Exited, vars, main
  <2>3. QED
    BY <1>1, <2>1, <2>2 DEF StartInv, ProcessTypeOK, start
<1>3. QED
  BY <1>1, <1>2 DEF StartInv, ProcessTypeOK, start

(* The start keeps the types, and its context is done only after a signal.  *)
THEOREM StartInvariance == ProcessSpec => []StartInv
<1>1. ProcessInit => StartInv
  <2> SUFFICES ASSUME ProcessInit PROVE StartInv
    OBVIOUS
  <2>1. /\ stage = "booting" /\ rootCtx = "none" /\ signalled = FALSE
        /\ schema = "absent" /\ faults = 0
        /\ phase = "waiting" /\ listener = "new"
    BY DEF ProcessInit, Init
  <2>2. 0 \in 0..MaxFaults
    BY FaultsAssumption
  <2>3. QED
    BY <2>1, <2>2 DEF StartInv, ProcessTypeOK
<1>2. StartInv /\ [ProcessNext]_life => StartInv'
  <2> SUFFICES ASSUME StartInv, [ProcessNext]_life PROVE StartInv'
    OBVIOUS
  <2>1. CASE UNCHANGED life
    BY <2>1 DEF StartInv, ProcessTypeOK, life, start, vars, main
  <2>2. CASE DatabaseChanges /\ UNCHANGED start
    BY <2>2 DEF StartInv, ProcessTypeOK, DatabaseChanges, start, main
  <2>3. QED
    BY <2>1, <2>2, StartStepInv, SupervisorInv, ServingInv DEF ProcessNext, Stopped
<1>3. QED
  BY <1>1, <1>2, PTL DEF ProcessSpec

(* Only a process with a current schema and a context for signals serves.   *)
THEOREM StartTypeCorrect == ProcessSpec => []ProcessTypeOK
<1>1. StartInv => ProcessTypeOK
  BY DEF StartInv
<1>2. QED
  BY <1>1, StartInvariance, PTL

(* No signal, whenever it comes, cuts a migration in the middle.            *)
THEOREM MigrationSafe == ProcessSpec => MigrationOutlivesSignals
<1>1. StartInv /\ [ProcessNext]_life =>
        [stage = "migrating" /\ stage' = "down" => ~database \/ faults' > faults]_life
  <2> SUFFICES ASSUME StartInv, ProcessNext, stage = "migrating", stage' = "down"
               PROVE  ~database \/ faults' > faults
    BY DEF life
  <2>1. rootCtx # "none" /\ faults \in Nat
    BY FaultsAssumption DEF StartInv, ProcessTypeOK
  <2>2. CASE MigrationFails
    BY <2>1, <2>2 DEF MigrationFails, OutageOrFault, Fault
  <2>3. CASE Kill
    BY <2>1, <2>3 DEF Kill, Fault
  <2>4. ~(StartStep \/ Respawn \/ Serving(Served) \/ (Stopped /\ UNCHANGED life)
            \/ (DatabaseChanges /\ UNCHANGED start) \/ SignalArrives)
    BY <2>1 DEF StartStep, SubscribeForShutdown, LoadConfig, MigrationBegins, MigrationEnds,
                NothingToMigrate, Connect, Serve, Reaches, Respawn, Serving, Stopped,
                start, SignalArrives
  <2>5. ~(LoadConfigFails \/ MigrationRefused \/ ConnectFails \/ LoadSubscriptionsFails)
    BY DEF LoadConfigFails, MigrationRefused, ConnectFails, LoadSubscriptionsFails,
           Dies, Reaches
  <2>6. QED
    BY <2>2, <2>3, <2>4, <2>5 DEF ProcessNext, StartFails
<1>2. QED
  BY <1>1, StartInvariance, PTL DEF ProcessSpec, MigrationOutlivesSignals
=============================================================================
