--------------------------- MODULE DeliveryProofs ---------------------------
(***************************************************************************)
(* The queue and the worker keep the promise of Outbox, for any messages,  *)
(* endpoints, configurations, runners, attempts and faults, and a message  *)
(* to an endpoint that works is given up only after that many faults.      *)
(***************************************************************************)
EXTENDS Delivery, FiniteSetTheorems, TLAPS

\* The runners whose attempt at m may still be accepted.
Active(m) == {r \in Runners : job[r] = m /\ pc[r] \in {"handling", "sending"}}

\* Each receipt of a message is accepted at most once: by now, by a request
\* that is still under way, or by a runner.
Budget ==
    \A m \in Messages : accepted[m] + late[m] + Cardinality(Active(m)) <= received[m]

\* What a runner that is about to delete its message relies on.
Reasons ==
    \A r \in Runners :
        /\ pc[r] = "accepted" => accepted[job[r]] > 0
        /\ pc[r] = "skipped"  => To[job[r]] \notin configured
        /\ pc[r] # "idle"     => received[job[r]] > 0

\* The receipts of a message to an endpoint that works were lost by faults,
\* but for the one a lease is still held for.
Attempts ==
    \A m \in queued : To[m] \notin Down =>
        received[m] <= faults + (IF m \in leased /\ Handled(m) THEN 1 ELSE 0)

IInv == TypeOK /\ Budget /\ Reasons /\ Attempts

-----------------------------------------------------------------------------
(* Types                                                                   *)

LEMMA InitType == Init => TypeOK
BY DeliveryAssumption DEF Init, TypeOK

LEMMA SendingCount ==
    ASSUME NEW m
    PROVE  Cardinality(Sending(m)) \in Nat
<1>1. Sending(m) \in SUBSET Runners
    BY DEF Sending
<1> QED BY <1>1, DeliveryAssumption, FS_Subset, FS_CardinalityType

\* What every step of a runner with a message does to the runner.
LEMMA RunnerHasMessage ==
    ASSUME TypeOK, NEW r \in Runners, pc[r] # "idle"
    PROVE  job[r] \in Messages /\ up
BY DEF TypeOK

LEMMA StepType ==
    ASSUME TypeOK, NEW r \in Runners, Step(r)
    PROVE  TypeOK'
<1> USE DeliveryAssumption DEF TypeOK, queue, process, runner, endpoint, Goes, Ends
<1>1. CASE Handle(r)
    BY <1>1 DEF Handle
<1>2. CASE Accept(r)
    BY <1>2 DEF Accept
<1>3. ASSUME FailureOf(job[r]) \/ Fault PROVE faults' \in 0..MaxFaults
    BY <1>3 DEF FailureOf, Fault, NoFault
<1>4. CASE Refuse(r)
    BY <1>3, <1>4 DEF Refuse
<1>5. CASE TimesOut(r)
    <2>1. late' \in [Messages -> Nat]
        BY <1>5 DEF TimesOut
    <2> QED BY <1>3, <1>5, <2>1 DEF TimesOut
<1>6. CASE Delete(r)
    BY <1>6 DEF Delete
<1>7. CASE DeleteFails(r)
    BY <1>3, <1>7 DEF DeleteFails
<1> QED BY <1>1, <1>2, <1>4, <1>5, <1>6, <1>7 DEF Step

LEMMA NextType == TypeOK /\ [Next]_vars => TypeOK'
<1> SUFFICES ASSUME TypeOK, [Next]_vars PROVE TypeOK'
    OBVIOUS
<1> USE DeliveryAssumption DEF TypeOK, queue, process, runner, endpoint
<1>1. CASE UNCHANGED vars
    BY <1>1 DEF vars
<1>2. ASSUME NEW m \in Messages, Enqueue(m) PROVE TypeOK'
    BY <1>2 DEF Enqueue
<1>3. ASSUME NEW m \in Messages, ArriveLate(m) PROVE TypeOK'
    BY <1>3 DEF ArriveLate
<1>4. ASSUME NEW m \in Messages, LeaseEnds(m) PROVE TypeOK'
    BY <1>4 DEF LeaseEnds, Fault, NoFault
<1>5. ASSUME NEW r \in Runners, NEW m \in Messages, Receive(r, m) PROVE TypeOK'
    BY <1>5 DEF Receive, Goes
<1>6. ASSUME NEW r \in Runners, Step(r) PROVE TypeOK'
    BY <1>6, StepType
<1>7. CASE Crash
    <2>1. late' \in [Messages -> Nat]
        BY <1>7, SendingCount DEF Crash
    <2>2. /\ faults' \in 0..MaxFaults /\ up' = FALSE
          /\ UNCHANGED <<queued, received, leased, configured, accepted>>
        BY <1>7 DEF Crash, Fault
    <2>3. job' = [r \in Runners |-> NoMessage] /\ pc' = [r \in Runners |-> "idle"]
        BY <1>7 DEF Crash
    <2>4. /\ job' \in [Runners -> Messages \cup {NoMessage}]
          /\ pc' \in [Runners -> {"idle", "handling", "sending", "skipped", "accepted"}]
          /\ \A r \in Runners : job'[r] = NoMessage /\ pc'[r] = "idle"
        BY <2>3
    <2> QED BY <2>1, <2>2, <2>4
<1>8. CASE Restart
    BY <1>8 DEF Restart
<1>9. CASE AllDone
    BY <1>9 DEF AllDone, vars
<1> QED BY <1>1, <1>2, <1>3, <1>4, <1>5, <1>6, <1>7, <1>8, <1>9 DEF Next

\* TypeOK holds in every reachable state: no message is received more than
\* MaxReceive times and nothing runs in a process that is down.
THEOREM TypeCorrect == Spec => []TypeOK
BY InitType, NextType, PTL DEF Spec

-----------------------------------------------------------------------------
(* Receipts and acceptances                                                *)

LEMMA ActiveCount ==
    ASSUME NEW m
    PROVE  /\ IsFiniteSet(Active(m)) /\ Cardinality(Active(m)) \in Nat
           /\ Cardinality(Active(m)') \in Nat
<1>1. Active(m) \in SUBSET Runners /\ Active(m)' \in SUBSET Runners
    BY DEF Active
<1> QED BY <1>1, DeliveryAssumption, FS_Subset, FS_CardinalityType

LEMMA FewerActive ==
    ASSUME NEW m, Active(m)' \subseteq Active(m)
    PROVE  Cardinality(Active(m)') <= Cardinality(Active(m))
BY ActiveCount, FS_Subset

LEMMA OneLessActive ==
    ASSUME NEW m, NEW r \in Active(m), Active(m)' \subseteq Active(m) \ {r}
    PROVE  Cardinality(Active(m)') + 1 <= Cardinality(Active(m))
<1>1. /\ IsFiniteSet(Active(m) \ {r})
      /\ Cardinality(Active(m) \ {r}) = Cardinality(Active(m)) - 1
    BY ActiveCount, FS_RemoveElement
<1>2. Cardinality(Active(m)') <= Cardinality(Active(m) \ {r})
    BY <1>1, FS_Subset
<1> QED BY <1>1, <1>2, ActiveCount

LEMMA OneMoreActive ==
    ASSUME NEW m, NEW r, Active(m)' \subseteq Active(m) \cup {r}
    PROVE  Cardinality(Active(m)') <= Cardinality(Active(m)) + 1
<1> DEFINE T == Active(m) \cup {r}
<1>1. /\ IsFiniteSet(T)
      /\ Cardinality(T) = IF r \in Active(m) THEN Cardinality(Active(m))
                                            ELSE Cardinality(Active(m)) + 1
    <2>1. IsFiniteSet(Active(m))
        BY ActiveCount
    <2> QED BY <2>1, FS_AddElement
<1>2. Active(m)' \in SUBSET T
    OBVIOUS
<1> HIDE DEF T
<1>3. Cardinality(Active(m)') <= Cardinality(T)
    BY <1>1, <1>2, FS_Subset
<1> QED BY <1>1, <1>3, ActiveCount

\* A runner that does not go to "handling" leaves the other runners alone.
LEMMA StepActive ==
    ASSUME TypeOK, NEW r \in Runners, Step(r), NEW m
    PROVE  Active(m)' \subseteq Active(m)
<1> USE DEF TypeOK, Goes, Ends, runner, Active
<1>1. CASE Handle(r)
    BY <1>1 DEF Handle
<1>2. CASE Accept(r)
    BY <1>2 DEF Accept
<1>3. CASE Refuse(r)
    BY <1>3 DEF Refuse
<1>4. CASE TimesOut(r)
    BY <1>4 DEF TimesOut
<1>5. CASE Delete(r)
    BY <1>5 DEF Delete
<1>6. CASE DeleteFails(r)
    BY <1>6 DEF DeleteFails
<1> QED BY <1>1, <1>2, <1>3, <1>4, <1>5, <1>6 DEF Step

\* A request that is accepted, or sent off without its sender, is no longer
\* an attempt of a runner.
LEMMA SentBudget ==
    ASSUME TypeOK, Budget, NEW r \in Runners,
           Accept(r) \/ (TimesOut(r) /\ r \in Sending(job[r]))
    PROVE  Budget'
<1> PICK m \in Messages : m = job[r]
    BY DEF TypeOK, Accept, Goes, Sending
<1>1. r \in Active(m)
    BY DEF TypeOK, Accept, Goes, Sending, Active
<1>2. Active(m)' \subseteq Active(m) \ {r}
    BY DEF TypeOK, Accept, TimesOut, Goes, Ends, Active
<1>3. Cardinality(Active(m)') + 1 <= Cardinality(Active(m))
    BY <1>1, <1>2, OneLessActive
<1>4. \A n : Cardinality(Active(n)') <= Cardinality(Active(n))
    BY StepActive, FewerActive DEF Step
<1>5. received' = received
    BY DEF Accept, TimesOut, queue
<1>6. /\ accepted'[m] + late'[m] = accepted[m] + late[m] + 1
      /\ \A n \in Messages \ {m} : accepted'[n] = accepted[n] /\ late'[n] = late[n]
    BY <1>1 DEF Accept, TimesOut, TypeOK
<1>7. TypeOK'
    BY StepType DEF Step
<1>8. ASSUME NEW n \in Messages
      PROVE  accepted'[n] + late'[n] + Cardinality(Active(n)') <= received'[n]
    <2>1. accepted[n] + late[n] + Cardinality(Active(n)) <= received[n]
        BY DEF Budget
    <2>2. /\ accepted[n] \in Nat /\ late[n] \in Nat /\ received[n] \in Nat
          /\ accepted'[n] \in Nat /\ late'[n] \in Nat
          /\ Cardinality(Active(n)) \in Nat /\ Cardinality(Active(n)') \in Nat
        BY <1>7, ActiveCount DEF TypeOK
    <2>3. CASE n = m
        BY <1>3, <1>5, <1>6, <2>1, <2>2, <2>3
    <2>4. CASE n # m
        BY <1>4, <1>5, <1>6, <2>1, <2>2, <2>4
    <2> QED BY <2>3, <2>4
<1> QED BY <1>8 DEF Budget

LEMMA QuietBudget ==
    ASSUME TypeOK, Budget, TypeOK',
           UNCHANGED <<received, late, accepted>>,
           \A m : Active(m)' \subseteq Active(m)
    PROVE  Budget'
<1> SUFFICES ASSUME NEW m \in Messages
             PROVE  accepted[m] + late[m] + Cardinality(Active(m)') <= received[m]
    BY DEF Budget
<1>1. Cardinality(Active(m)') <= Cardinality(Active(m))
    BY FewerActive
<1>2. accepted[m] + late[m] + Cardinality(Active(m)) <= received[m]
    BY DEF Budget
<1>3. accepted[m] \in Nat /\ late[m] \in Nat /\ received[m] \in Nat
    BY DEF TypeOK
<1> QED BY <1>1, <1>2, <1>3, ActiveCount

LEMMA StepBudget ==
    ASSUME TypeOK, Budget, NEW r \in Runners, Step(r)
    PROVE  Budget'
<1>1. CASE Accept(r) \/ (TimesOut(r) /\ r \in Sending(job[r]))
    BY <1>1, SentBudget
<1>2. CASE ~(Accept(r) \/ (TimesOut(r) /\ r \in Sending(job[r])))
    <2>1. UNCHANGED <<received, late, accepted>>
        BY <1>2 DEF Step, Handle, Refuse, TimesOut, Delete, DeleteFails, queue, endpoint
    <2> QED BY <2>1, QuietBudget, StepType, StepActive
<1> QED BY <1>1, <1>2

LEMMA ReceiveBudget ==
    ASSUME TypeOK, Budget, NEW r \in Runners, NEW m \in Messages, Receive(r, m)
    PROVE  Budget'
<1> SUFFICES ASSUME NEW n \in Messages
             PROVE  accepted[n] + late[n] + Cardinality(Active(n)') <= received'[n]
    BY DEF Budget, Receive, endpoint
<1>1. accepted[n] + late[n] + Cardinality(Active(n)) <= received[n]
    BY DEF Budget
<1>2. /\ accepted[n] \in Nat /\ late[n] \in Nat /\ received[n] \in Nat
      /\ received'[n] = IF n = m THEN received[n] + 1 ELSE received[n]
    BY DEF TypeOK, Receive
<1>3. CASE n = m
    <2>1. Active(n)' \subseteq Active(n) \cup {r}
        BY DEF TypeOK, Receive, Goes, Active
    <2> QED BY <1>1, <1>2, <1>3, <2>1, OneMoreActive, ActiveCount
<1>4. CASE n # m
    <2>1. Active(n)' \subseteq Active(n)
        BY <1>4 DEF TypeOK, Receive, Goes, Active
    <2> QED BY <1>1, <1>2, <1>4, <2>1, FewerActive, ActiveCount
<1> QED BY <1>3, <1>4

\* The requests of a process that dies become late ones.
LEMMA CrashBudget ==
    ASSUME TypeOK, Budget, Crash
    PROVE  Budget'
<1> SUFFICES ASSUME NEW m \in Messages
             PROVE  accepted[m] + late'[m] + Cardinality(Active(m)') <= received[m]
    BY DEF Budget, Crash, queue
<1>1. accepted[m] + late[m] + Cardinality(Active(m)) <= received[m]
    BY DEF Budget
<1>2. accepted[m] \in Nat /\ late[m] \in Nat /\ received[m] \in Nat
    BY DEF TypeOK
<1>3. late'[m] = late[m] + Cardinality(Sending(m))
    BY DEF Crash
<1>4. Active(m)' = {}
    BY DEF Crash, Active
<1>5. Cardinality(Active(m)') = 0
    BY <1>4, FS_EmptySet
<1>6. Cardinality(Sending(m)) <= Cardinality(Active(m))
    <2>1. Sending(m) \in SUBSET Active(m)
        BY DEF Sending, Active
    <2> QED BY <2>1, ActiveCount, FS_Subset
<1> QED BY <1>1, <1>2, <1>3, <1>5, <1>6, SendingCount, ActiveCount

LEMMA NextBudget == TypeOK /\ Budget /\ [Next]_vars => Budget'
<1> SUFFICES ASSUME TypeOK, Budget, [Next]_vars PROVE Budget'
    OBVIOUS
<1>1. TypeOK'
    BY NextType
<1>2. ASSUME UNCHANGED <<runner, received, endpoint>> PROVE Budget'
    BY <1>1, <1>2, QuietBudget DEF runner, endpoint, Active
<1>3. ASSUME NEW m \in Messages, Enqueue(m) \/ LeaseEnds(m) PROVE Budget'
    BY <1>2, <1>3 DEF Enqueue, LeaseEnds
<1>4. ASSUME NEW m \in Messages, ArriveLate(m) PROVE Budget'
    <2>1. \A n : Active(n)' = Active(n)
        BY <1>4 DEF ArriveLate, runner, Active
    <2>2. /\ \A n \in Messages : accepted'[n] + late'[n] = accepted[n] + late[n]
          /\ received' = received
        BY <1>4 DEF ArriveLate, TypeOK, queue
    <2> QED BY <2>1, <2>2 DEF Budget
<1>5. ASSUME NEW r \in Runners, NEW m \in Messages, Receive(r, m) PROVE Budget'
    BY <1>5, ReceiveBudget
<1>6. ASSUME NEW r \in Runners, Step(r) PROVE Budget'
    BY <1>6, StepBudget
<1>7. CASE Crash
    BY <1>7, CrashBudget
<1>8. CASE Restart \/ AllDone \/ UNCHANGED vars
    BY <1>2, <1>8 DEF Restart, AllDone, vars, queue
<1> QED BY <1>3, <1>4, <1>5, <1>6, <1>7, <1>8 DEF Next

-----------------------------------------------------------------------------
(* Reasons and attempts                                                    *)

LEMMA NextReasons == TypeOK /\ Reasons /\ [Next]_vars => Reasons'
<1> SUFFICES ASSUME TypeOK, Reasons, [Next]_vars, NEW r \in Runners
             PROVE  /\ pc'[r] = "accepted" => accepted'[job'[r]] > 0
                    /\ pc'[r] = "skipped" => To[job'[r]] \notin configured'
                    /\ pc'[r] # "idle" => received'[job'[r]] > 0
    BY DEF Reasons
<1> USE DEF TypeOK, Reasons, queue, process, runner, endpoint, Goes, Ends
<1>1. CASE UNCHANGED vars
    BY <1>1 DEF vars
<1>2. ASSUME NEW m \in Messages, Enqueue(m) \/ ArriveLate(m) \/ LeaseEnds(m)
      PROVE  /\ UNCHANGED <<job, pc, configured, received>>
             /\ \A n \in Messages : accepted'[n] >= accepted[n]
    BY <1>2 DEF Enqueue, ArriveLate, LeaseEnds
<1>3. ASSUME NEW s \in Runners, NEW m \in Messages, Receive(s, m)
      PROVE  /\ UNCHANGED <<configured, accepted>>
             /\ job' = [job EXCEPT ![s] = m] /\ pc' = [pc EXCEPT ![s] = "handling"]
             /\ \A n \in Messages : received'[n] >= received[n]
             /\ received'[m] > 0
    BY <1>3 DEF Receive
<1>4. ASSUME NEW s \in Runners, Step(s)
      PROVE  /\ UNCHANGED <<configured, received>>
             /\ \A n \in Messages : accepted'[n] >= accepted[n]
             /\ r # s => job'[r] = job[r] /\ pc'[r] = pc[r]
             /\ pc'[s] = "accepted" => accepted'[job'[s]] > 0
             /\ pc'[s] = "skipped" => To[job'[s]] \notin configured
             /\ pc'[s] # "idle" => job'[s] = job[s] /\ pc[s] # "idle"
    <2>1. CASE Handle(s)
        BY <2>1 DEF Handle
    <2>2. CASE Accept(s)
        BY <2>2 DEF Accept
    <2>3. CASE Refuse(s) \/ TimesOut(s) \/ Delete(s) \/ DeleteFails(s)
        BY <2>3 DEF Refuse, TimesOut, Delete, DeleteFails
    <2> QED BY <1>4, <2>1, <2>2, <2>3 DEF Step
<1>5. CASE Crash
    BY <1>5 DEF Crash
<1>6. CASE Restart
    BY <1>6 DEF Restart
<1>7. CASE AllDone
    BY <1>7 DEF AllDone, vars
<1>8. ASSUME NEW s \in Runners, pc[s] # "idle"
      PROVE  job[s] \in Messages
    BY <1>8
<1>9. CASE \E m \in Messages : Enqueue(m) \/ ArriveLate(m) \/ LeaseEnds(m)
    <2>1. /\ UNCHANGED <<job, pc, configured, received>>
          /\ \A n \in Messages : accepted'[n] >= accepted[n]
        BY <1>2, <1>9
    <2>2. \A n \in Messages : accepted[n] \in Nat /\ accepted'[n] \in Nat
        BY NextType
    <2> QED BY <1>8, <2>1, <2>2
<1>10. CASE \E s \in Runners, m \in Messages : Receive(s, m)
    <2> PICK s \in Runners, m \in Messages : Receive(s, m)
        BY <1>10
    <2>1. CASE r = s
        BY <1>3, <2>1
    <2>2. CASE r # s
        <3>1. job'[r] = job[r] /\ pc'[r] = pc[r]
            BY <1>3, <2>2
        <3>2. \A n \in Messages : received[n] \in Nat /\ received'[n] \in Nat
            BY NextType
        <3> QED BY <1>3, <1>8, <3>1, <3>2
    <2> QED BY <2>1, <2>2
<1>11. CASE \E s \in Runners : Step(s)
    <2> PICK s \in Runners : Step(s)
        BY <1>11
    <2>1. CASE r = s
        BY <1>4, <2>1
    <2>2. CASE r # s
        <3>1. \A n \in Messages : accepted[n] \in Nat /\ accepted'[n] \in Nat
            BY NextType
        <3> QED BY <1>4, <1>8, <2>2, <3>1
    <2> QED BY <2>1, <2>2
<1> QED BY <1>1, <1>5, <1>6, <1>7, <1>9, <1>10, <1>11 DEF Next

LEMMA NextAttempts == TypeOK /\ Reasons /\ Attempts /\ [Next]_vars => Attempts'
<1> SUFFICES ASSUME TypeOK, Reasons, Attempts, [Next]_vars,
                    NEW m \in queued', To[m] \notin Down
             PROVE  received'[m] <= faults' + (IF m \in leased' /\ Handled(m)' THEN 1 ELSE 0)
    BY DEF Attempts
<1>1. TypeOK'
    BY NextType
<1>2. /\ m \in Messages
      /\ received[m] \in Nat /\ faults \in Nat /\ received'[m] \in Nat /\ faults' \in Nat
    BY <1>1, DeliveryAssumption DEF TypeOK
<1>3. m \in queued => received[m] <= faults + (IF m \in leased /\ Handled(m) THEN 1 ELSE 0)
    BY DEF Attempts
<1>4. ASSUME m \in queued, received'[m] = received[m], faults' = faults,
             (m \in leased /\ Handled(m)) => (m \in leased' /\ Handled(m)')
      PROVE  received'[m] <= faults' + (IF m \in leased' /\ Handled(m)' THEN 1 ELSE 0)
    BY <1>2, <1>3, <1>4
<1>5. ASSUME m \in queued, received'[m] = received[m], faults' = faults + 1
      PROVE  received'[m] <= faults' + (IF m \in leased' /\ Handled(m)' THEN 1 ELSE 0)
    BY <1>2, <1>3, <1>5
<1>6. CASE UNCHANGED vars
    BY <1>4, <1>6 DEF vars, queue, runner, Handled
<1>7. ASSUME NEW n \in Messages, Enqueue(n)
      PROVE  received'[m] <= faults' + (IF m \in leased' /\ Handled(m)' THEN 1 ELSE 0)
    <2>1. CASE m \in queued
        BY <1>4, <1>7, <2>1 DEF Enqueue, runner, Handled
    <2>2. CASE m \notin queued
        BY <1>2, <1>7, <2>2 DEF Enqueue
    <2> QED BY <2>1, <2>2
<1>8. ASSUME NEW n \in Messages, ArriveLate(n)
      PROVE  received'[m] <= faults' + (IF m \in leased' /\ Handled(m)' THEN 1 ELSE 0)
    BY <1>4, <1>8 DEF ArriveLate, queue, runner, Handled
<1>9. ASSUME NEW n \in Messages, LeaseEnds(n)
      PROVE  received'[m] <= faults' + (IF m \in leased' /\ Handled(m)' THEN 1 ELSE 0)
    <2>1. UNCHANGED <<queued, received>> /\ Handled(m)' = Handled(m)
        BY <1>9 DEF LeaseEnds, runner, Handled
    <2>2. CASE Handled(n)
        BY <1>5, <1>9, <2>1, <2>2 DEF LeaseEnds, Fault
    <2>3. CASE ~Handled(n)
        <3>1. faults' = faults /\ leased' = leased \ {n}
            BY <1>9, <2>3 DEF LeaseEnds, NoFault
        <3> QED BY <1>4, <2>1, <2>3, <3>1
    <2> QED BY <2>2, <2>3
<1>10. ASSUME NEW r \in Runners, NEW n \in Messages, Receive(r, n)
       PROVE  received'[m] <= faults' + (IF m \in leased' /\ Handled(m)' THEN 1 ELSE 0)
    <2>1. CASE m = n
        <3>1. m \in leased' /\ Handled(m)'
            BY <1>10, <2>1 DEF Receive, Handled, TypeOK
        <3>2. m \in queued /\ m \notin leased /\ received'[m] = received[m] + 1 /\ faults' = faults
            BY <1>2, <1>10, <2>1 DEF Receive, TypeOK
        <3> QED BY <1>2, <1>3, <3>1, <3>2
    <2>2. CASE m # n
        <3>1. /\ m \in queued /\ received'[m] = received[m] /\ faults' = faults
              /\ m \in leased => m \in leased'
            BY <1>10, <2>2 DEF Receive, TypeOK
        <3>2. Handled(m) => Handled(m)'
            <4> SUFFICES ASSUME NEW s \in Runners, job[s] = m PROVE job'[s] = m
                BY DEF Handled
            <4>1. s # r
                BY <1>2, <1>10, DeliveryAssumption DEF Receive, Goes, TypeOK
            <4> QED BY <1>10, <4>1 DEF Receive, TypeOK
        <3> QED BY <1>4, <3>1, <3>2
    <2> QED BY <2>1, <2>2
<1>11. ASSUME NEW r \in Runners, Step(r)
       PROVE  received'[m] <= faults' + (IF m \in leased' /\ Handled(m)' THEN 1 ELSE 0)
    <2>1. m \in queued /\ received'[m] = received[m]
        BY <1>11 DEF Step, Handle, Accept, Refuse, TimesOut, Delete, DeleteFails, queue
    <2>2. ASSUME job' = [job EXCEPT ![r] = NoMessage], m # job[r], Handled(m)
          PROVE  Handled(m)'
        BY <2>2 DEF Handled, TypeOK
    <2>3. CASE Handle(r) \/ Accept(r)
        BY <1>4, <2>1, <2>3 DEF Handle, Accept, queue, Handled
    <2>4. CASE Refuse(r) \/ TimesOut(r)
        <3>1. CASE m = job[r]
            BY <1>5, <2>1, <2>4, <3>1 DEF Refuse, TimesOut, FailureOf, Fault
        <3>2. CASE m # job[r]
            <4>1. /\ job' = [job EXCEPT ![r] = NoMessage] /\ leased' = leased
                  /\ faults' = faults \/ faults' = faults + 1
                BY <2>4 DEF Refuse, TimesOut, Ends, queue, FailureOf, Fault, NoFault
            <4> QED BY <1>4, <1>5, <2>1, <2>2, <3>2, <4>1
        <3> QED BY <3>1, <3>2
    <2>5. CASE Delete(r)
        <3>1. /\ m # job[r] /\ job' = [job EXCEPT ![r] = NoMessage]
              /\ leased' = leased \ {job[r]} /\ faults' = faults
            BY <2>5 DEF Delete, Ends
        <3> QED BY <1>4, <2>1, <2>2, <3>1
    <2>6. CASE DeleteFails(r)
        BY <1>5, <2>1, <2>6 DEF DeleteFails, Fault
    <2> QED BY <1>11, <2>3, <2>4, <2>5, <2>6 DEF Step
<1>12. CASE Crash
    BY <1>5, <1>12 DEF Crash, Fault, queue
<1>13. CASE Restart
    BY <1>4, <1>13 DEF Restart, queue, runner, Handled
<1>14. CASE AllDone
    BY <1>6, <1>14 DEF AllDone
<1> QED BY <1>6, <1>7, <1>8, <1>9, <1>10, <1>11, <1>12, <1>13, <1>14 DEF Next

THEOREM Invariance == Spec => []IInv
<1>1. Init => IInv
    <2> SUFFICES ASSUME Init PROVE Budget /\ Reasons /\ Attempts
        BY InitType DEF IInv
    <2>1. \A m : Active(m) = {}
        BY DEF Init, Active
    <2>2. Budget
        BY <2>1, FS_EmptySet DEF Init, Budget
    <2> QED BY <2>2 DEF Init, Reasons, Attempts
<1>2. IInv /\ [Next]_vars => IInv'
    BY NextType, NextBudget, NextReasons, NextAttempts DEF IInv
<1> QED BY <1>1, <1>2, PTL DEF Spec

\* Messages to endpoints that work are given up only after MaxReceive faults,
\* however many runners, endpoints that never answer and restarts there are.
THEOREM GivenUpAfterFaults == Spec => []GivenUpOnlyAfterFaults
<1>1. IInv => GivenUpOnlyAfterFaults
    <2> SUFFICES ASSUME IInv, NEW m \in queued,
                        received[m] = MaxReceive, ~Handled(m), To[m] \notin Down
                 PROVE  faults >= MaxReceive
        BY DEF GivenUpOnlyAfterFaults
    <2>1. received[m] <= faults + 0
        BY DEF IInv, Attempts
    <2> QED BY <2>1, DeliveryAssumption DEF IInv, TypeOK
<1> QED BY <1>1, Invariance, PTL

-----------------------------------------------------------------------------
(* The promise                                                             *)

States == [m \in Messages |-> StateOf(m)]

LEMMA OtherStatesKept ==
    ASSUME NEW m, received' = received,
           queued' = queued \cup {m} \/ queued' = queued \ {m}
    PROVE  \A n \in Messages \ {m} : StateOf(n)' = StateOf(n)
<1> SUFFICES ASSUME NEW n \in Messages, n # m
             PROVE  StateOf(n)' = StateOf(n)
    OBVIOUS
<1>1. (n \in queued') = (n \in queued) /\ received'[n] = received[n]
    OBVIOUS
<1> QED BY <1>1 DEF StateOf

LEMMA StateKept ==
    ASSUME UNCHANGED <<queued, received>>
    PROVE  States' = States
BY DEF States, StateOf

\* Deleting a message settles it, unless another runner has done so before.
LEMMA DeleteImplements ==
    ASSUME IInv, NEW r \in Runners, Delete(r)
    PROVE  Promise!Settle(job[r]) \/ UNCHANGED <<States, accepted, configured>>
<1> PICK m \in Messages : m = job[r]
    BY DEF IInv, TypeOK, Delete
<1>1. /\ received' = received /\ accepted' = accepted /\ configured' = configured
      /\ queued' = queued \ {m}
    BY DEF Delete, process, endpoint
<1>2. CASE m \notin queued
    <2>1. queued' = queued
        BY <1>1, <1>2
    <2> QED BY <1>1, <2>1, StateKept
<1>3. CASE m \in queued
    <2>1. received[m] > 0 /\ (accepted[m] > 0 \/ To[m] \notin configured)
        BY DEF IInv, Reasons, Delete
    <2>2. StateOf(m) = "pending" /\ StateOf(m)' = "settled"
        <3>1. received[m] \in Nat
            BY DEF IInv, TypeOK
        <3> QED BY <1>1, <1>3, <2>1, <3>1 DEF StateOf
    <2>3. \A n \in Messages \ {m} : StateOf(n)' = StateOf(n)
        BY <1>1, OtherStatesKept
    <2>4. States[m] = "pending" /\ States' = [States EXCEPT ![m] = "settled"]
        BY <2>2, <2>3 DEF States
    <2> QED BY <1>1, <2>1, <2>4 DEF Promise!Settle, States
<1> QED BY <1>2, <1>3

\* An acceptance, in time or late, is one the promise allows.
LEMMA AcceptImplements ==
    ASSUME IInv, NEW m \in Messages, TypeOK', Budget',
           accepted' = [accepted EXCEPT ![m] = @ + 1],
           UNCHANGED <<queued, received, configured>>
    PROVE  Promise!Arrive(m)
<1>1. accepted'[m] = accepted[m] + 1
    BY DEF IInv, TypeOK
<1>2. accepted'[m] <= received[m]
    <2>1. accepted'[m] + late'[m] + Cardinality(Active(m)') <= received[m]
        BY DEF Budget
    <2> QED BY <2>1, ActiveCount DEF TypeOK
<1>3. accepted[m] \in Nat /\ received[m] \in 0..MaxReceive
    BY DEF IInv, TypeOK
<1>4. accepted[m] < MaxReceive /\ received[m] > 0
    BY <1>1, <1>2, <1>3, DeliveryAssumption
<1>5. States[m] # "new"
    BY <1>3, <1>4 DEF States, StateOf
<1> QED BY <1>4, <1>5, StateKept DEF Promise!Arrive, States

LEMMA EnqueueImplements ==
    ASSUME IInv, NEW m \in Messages, Enqueue(m)
    PROVE  Promise!Enqueue(m)
<1>1. /\ queued' = queued \cup {m} /\ received' = received
      /\ m \notin queued /\ received[m] = 0
      /\ To[m] \in configured
      /\ UNCHANGED <<accepted, configured>>
    BY DEF Enqueue, process, endpoint
<1>2. StateOf(m) = "new" /\ StateOf(m)' = "pending"
    BY <1>1 DEF StateOf
<1>3. \A n \in Messages \ {m} : StateOf(n)' = StateOf(n)
    BY <1>1, OtherStatesKept
<1>4. States[m] = "new" /\ States' = [States EXCEPT ![m] = "pending"]
    BY <1>2, <1>3 DEF States
<1> QED BY <1>1, <1>4 DEF Promise!Enqueue, States

\* A message stays pending when it is received.
LEMMA ReceiveImplements ==
    ASSUME IInv, NEW r \in Runners, NEW m \in Messages, Receive(r, m)
    PROVE  UNCHANGED <<States, accepted, configured>>
<1>1. /\ queued' = queued /\ m \in queued
      /\ UNCHANGED <<accepted, configured>>
      /\ \A n \in Messages \ {m} : received'[n] = received[n]
    BY DEF Receive, process, endpoint, IInv, TypeOK
<1>2. \A n \in Messages : StateOf(n)' = StateOf(n)
    BY <1>1 DEF StateOf
<1> QED BY <1>1, <1>2 DEF States

\* The queue and the worker implement Outbox: nothing leaves the queue before
\* its endpoint has accepted it or is not configured any more, and a message
\* is accepted at most MaxReceive times, with crashes, lost leases and late
\* requests.
THEOREM Refinement == Spec => ImplementsOutbox
<1>1. Init => Promise!Init
    <2> SUFFICES ASSUME Init PROVE Promise!Init
        OBVIOUS
    <2>1. \A m \in Messages : StateOf(m) = "new"
        BY DEF Init, StateOf
    <2> QED BY <2>1 DEF Init, Promise!Init
<1>2. IInv /\ IInv' /\ [Next]_vars => [Promise!Next]_(Promise!vars)
    <2> SUFFICES ASSUME IInv, IInv', [Next]_vars
                 PROVE  Promise!Next \/ UNCHANGED <<States, accepted, configured>>
        BY DEF Promise!vars, States
    <2>1. ASSUME UNCHANGED <<queue, configured, accepted>>
          PROVE  UNCHANGED <<States, accepted, configured>>
        BY <2>1, StateKept DEF queue
    <2>2. ASSUME NEW m \in Messages, Enqueue(m) PROVE Promise!Next
        BY <2>2, EnqueueImplements DEF Promise!Next
    <2>3. ASSUME NEW m \in Messages, ArriveLate(m) PROVE Promise!Next
        <3>1. Promise!Arrive(m)
            BY <2>3, AcceptImplements DEF ArriveLate, IInv, queue, process
        <3> QED BY <3>1 DEF Promise!Next
    <2>4. ASSUME NEW m \in Messages, LeaseEnds(m)
          PROVE  UNCHANGED <<States, accepted, configured>>
        BY <2>4, StateKept DEF LeaseEnds, process, endpoint
    <2>5. ASSUME NEW r \in Runners, NEW m \in Messages, Receive(r, m)
          PROVE  UNCHANGED <<States, accepted, configured>>
        BY <2>5, ReceiveImplements
    <2>6. ASSUME NEW r \in Runners, Step(r)
          PROVE  Promise!Next \/ UNCHANGED <<States, accepted, configured>>
        <3> PICK m : m = job[r]
            OBVIOUS
        <3>1. CASE Accept(r)
            <4>1. m \in Messages
                BY <3>1 DEF IInv, TypeOK, Accept, Goes
            <4>2. Promise!Arrive(m)
                BY <3>1, <4>1, AcceptImplements DEF Accept, IInv, queue, process
            <4> QED BY <4>1, <4>2 DEF Promise!Next
        <3>2. CASE Delete(r)
            <4>1. job[r] \in Messages
                BY <3>2 DEF IInv, TypeOK, Delete
            <4> QED BY <3>2, <4>1, DeleteImplements DEF Promise!Next
        <3>3. CASE Handle(r) \/ Refuse(r) \/ TimesOut(r) \/ DeleteFails(r)
            BY <2>1, <3>3 DEF Handle, Refuse, TimesOut, DeleteFails, process, endpoint
        <3> QED BY <2>6, <3>1, <3>2, <3>3 DEF Step
    <2>7. CASE Crash
        BY <2>1, <2>7 DEF Crash
    <2>8. CASE Restart
        <3>1. Promise!Reconfigure
            BY <2>8, StateKept DEF Restart, Promise!Reconfigure, queue, endpoint, States
        <3> QED BY <3>1 DEF Promise!Next
    <2>9. CASE AllDone \/ UNCHANGED vars
        BY <2>1, <2>9 DEF AllDone, vars, process, endpoint
    <2> QED BY <2>2, <2>3, <2>4, <2>5, <2>6, <2>7, <2>8, <2>9 DEF Next
<1> QED BY <1>1, <1>2, Invariance, PTL DEF Spec, ImplementsOutbox, Promise!Spec
=============================================================================
