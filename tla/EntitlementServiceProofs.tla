---------------------- MODULE EntitlementServiceProofs ----------------------
(***************************************************************************)
(* The locked entitlement service implements the atomic one, for every     *)
(* configuration and any number of goroutines. The inductive invariant     *)
(* says who holds the lock at which statement, and what a reader between   *)
(* its two reads and a writer between its two writes may rely on.          *)
(***************************************************************************)
EXTENDS EntitlementService, CatalogProofs, FiniteSetTheorems

InWriteLock == {"deleting", "adding", "counting", "unlocking"}

\* A client that runs has made a call, of the kind its place is for.
CallsFit ==
    \A c \in Clients :
        /\ pc[c] # "idle" => call[c] \in Calls
        /\ pc[c] \in {"reading", "enforcing", "leaving"} => call[c].op \in Reads
        /\ pc[c] = "enforcing" => call[c].op = "CheckFeature"
        /\ pc[c] \in InWriteLock => call[c].op \in Changes
        /\ pc[c] = "adding" => call[c].op = "activateUser"

\* The write lock is held by the one client inside, and once that has begun
\* to write there is no reader.
LockHeld ==
    /\ \A c \in Clients : pc[c] \in InWriteLock <=> writer = c
    /\ readers # {} => writer = Nothing \/ pc[writer] = "deleting"
    /\ \A c \in readers : pc[c] \in {"reading", "enforcing", "leaving"}
    /\ \A c \in parked : pc[c] = "reading" /\ c \notin readers
    /\ \A c \in Clients : pc[c] \in {"enforcing", "leaving"} => c \in readers

\* The plan a CheckFeature has read is still the user's.
ReadIsCurrent ==
    \A c \in Clients :
        pc[c] = "enforcing" => seen[c] = UserPlan(conf, roles[call[c].user])

\* Between deletion and addition the user has no role.
NothingLeftToDelete ==
    \A c \in Clients : pc[c] = "adding" => roles[call[c].user] = {}

IInv == TypeOK /\ CallsFit /\ LockHeld /\ AtMostOneRole /\ ReadIsCurrent /\ NothingLeftToDelete

LEMMA ConfType == TypeOK => conf \in Configurations
BY ServiceAssumption DEF TypeOK

LEMMA CallTypes ==
    ASSUME NEW k \in Calls
    PROVE  /\ k.user \in Users
           /\ k.op = "activateUser" => k.product \in Products
           /\ k.op \in Reads \cup Changes
BY DEF Calls, Reads, Changes

LEMMA CountsType ==
    ASSUME NEW r \in [Users -> SUBSET PlanIds]
    PROVE  SubscriptionCountsByPlan(r) \in [ConfiguredPlans -> Nat]
<1> SUFFICES ASSUME NEW plan \in ConfiguredPlans
             PROVE  Cardinality(UsersForRole(r, plan)) \in Nat
    BY DEF SubscriptionCountsByPlan
<1>1. UsersForRole(r, plan) \in SUBSET Users
    BY DEF UsersForRole
<1>2. Cardinality(UsersForRole(r, plan)) \in Nat
    BY <1>1, ServiceAssumption, FS_Subset, FS_CardinalityType
<1> QED BY <1>2

-----------------------------------------------------------------------------
(* The inductive invariant.                                                 *)

LEMMA InitIInv == Init => IInv
<1> SUFFICES ASSUME Init PROVE IInv
    OBVIOUS
<1>1. PICK userProducts \in [Users -> Products \cup {Nothing}] :
          roles = LoadedRoles(userProducts)
    BY DEF Init
<1>2. conf \in Configurations
    BY ServiceAssumption DEF Init
<1>3. ASSUME NEW u \in Users, userProducts[u] \in Products
      PROVE  {ResolvePlanFromProduct(conf, userProducts[u])} \ {NoPlan} \in SUBSET PlanIds
    BY <1>2, ResolveType
<1>4. roles \in [Users -> SUBSET PlanIds] /\ AtMostOneRole
    BY <1>1, <1>3 DEF LoadedRoles, AtMostOneRole
<1>5. gauge \in [ConfiguredPlans -> Nat]
    BY <1>4, CountsType DEF Init
<1>6. TypeOK
    BY <1>4, <1>5 DEF Init, TypeOK
<1>7. CallsFit /\ LockHeld /\ ReadIsCurrent /\ NothingLeftToDelete
    BY ServiceAssumption
       DEF Init, CallsFit, LockHeld, ReadIsCurrent, NothingLeftToDelete, InWriteLock
<1> QED BY <1>4, <1>6, <1>7 DEF IInv

LEMMA CallStep == ASSUME IInv, NEW c \in Clients, Call(c) PROVE IInv'
<1> USE DEF IInv, Call, Moves, lock
<1>1. TypeOK'
    BY DEF TypeOK, ConfiguredPlans
<1>2. CallsFit'
    BY DEF TypeOK, CallsFit, InWriteLock
<1>3. LockHeld'
    BY DEF TypeOK, LockHeld, InWriteLock
<1>4. AtMostOneRole'
    BY DEF AtMostOneRole
<1>5. ReadIsCurrent' /\ NothingLeftToDelete'
    BY DEF TypeOK, ReadIsCurrent, NothingLeftToDelete
<1> QED BY <1>1, <1>2, <1>3, <1>4, <1>5

LEMMA RLockStep == ASSUME IInv, NEW c \in Clients, RLock(c) PROVE IInv'
<1> USE DEF IInv, RLock, Moves
<1>1. TypeOK'
    BY DEF TypeOK, ConfiguredPlans
<1>2. CallsFit'
    BY DEF TypeOK, CallsFit, InWriteLock
<1>3. LockHeld'
    BY DEF TypeOK, LockHeld, InWriteLock
<1>4. AtMostOneRole'
    BY DEF AtMostOneRole
<1>5. ReadIsCurrent' /\ NothingLeftToDelete'
    BY DEF TypeOK, ReadIsCurrent, NothingLeftToDelete
<1> QED BY <1>1, <1>2, <1>3, <1>4, <1>5

LEMMA ReadPlanStep == ASSUME IInv, NEW c \in Clients, ReadPlan(c) PROVE IInv'
<1> USE DEF IInv, ReadPlan, Moves, lock
<1>1. call[c] \in Calls /\ call[c].user \in Users /\ call[c].op \in Reads
    BY CallTypes DEF TypeOK, CallsFit
<1>2. UserPlan(conf, roles[call[c].user]) \in PlanIds \cup {NoPlan}
    BY <1>1, ConfType, UserPlanType DEF TypeOK
<1>3. TypeOK'
    BY <1>2 DEF TypeOK, ConfiguredPlans
<1>4. CallsFit'
    BY DEF TypeOK, CallsFit, InWriteLock
<1>5. LockHeld'
    <2>1. PICK to \in {"enforcing", "leaving"} :
              pc[c] = "reading" /\ pc' = [pc EXCEPT ![c] = to]
        OBVIOUS
    <2>2. c \in readers /\ UNCHANGED <<readers, parked, writer>>
        OBVIOUS
    <2> HIDE DEF ReadPlan
    <2>3. pc' = [d \in Clients |-> IF d = c THEN to ELSE pc[d]]
        BY <2>1 DEF TypeOK
    <2>4. \A d \in Clients : pc'[d] \in InWriteLock <=> writer' = d
        BY <2>1, <2>2, <2>3 DEF LockHeld, InWriteLock
    <2>5. readers' # {} => writer' = Nothing \/ pc'[writer'] = "deleting"
        BY <2>1, <2>2, <2>3 DEF TypeOK, LockHeld, InWriteLock
    <2>6. /\ \A d \in readers' : pc'[d] \in {"reading", "enforcing", "leaving"}
          /\ \A d \in Clients : pc'[d] \in {"enforcing", "leaving"} => d \in readers'
        BY <2>1, <2>2, <2>3 DEF TypeOK, LockHeld
    <2>7. \A d \in parked' : pc'[d] = "reading" /\ d \notin readers'
        BY <2>1, <2>2, <2>3 DEF TypeOK, LockHeld
    <2> QED BY <2>4, <2>5, <2>6, <2>7 DEF LockHeld
<1>6. AtMostOneRole'
    BY DEF AtMostOneRole
<1>7. ReadIsCurrent' /\ NothingLeftToDelete'
    <2>1. /\ UNCHANGED <<conf, roles, call>>
          /\ \A d \in Clients \ {c} : pc'[d] = pc[d] /\ seen'[d] = seen[d]
          /\ pc'[c] # "adding"
          /\ pc'[c] = "enforcing" => seen'[c] = UserPlan(conf, roles[call[c].user])
        BY DEF TypeOK
    <2> HIDE DEF ReadPlan
    <2>2. ReadIsCurrent'
        BY <2>1 DEF ReadIsCurrent
    <2>3. NothingLeftToDelete'
        BY <2>1 DEF NothingLeftToDelete
    <2> QED BY <2>2, <2>3
<1> QED BY <1>3, <1>4, <1>5, <1>6, <1>7

LEMMA EnforceStep == ASSUME IInv, NEW c \in Clients, EnforceRules(c) PROVE IInv'
<1> USE DEF IInv, EnforceRules, Moves, lock
<1>1. TypeOK'
    BY DEF TypeOK, ConfiguredPlans
<1>2. CallsFit'
    BY DEF TypeOK, CallsFit, InWriteLock
<1>3. LockHeld'
    BY DEF TypeOK, LockHeld, InWriteLock
<1>4. AtMostOneRole'
    BY DEF AtMostOneRole
<1>5. ReadIsCurrent' /\ NothingLeftToDelete'
    BY DEF TypeOK, ReadIsCurrent, NothingLeftToDelete
<1> QED BY <1>1, <1>2, <1>3, <1>4, <1>5

LEMMA RUnlockStep == ASSUME IInv, NEW c \in Clients, RUnlock(c) PROVE IInv'
<1> USE DEF IInv, RUnlock, Moves
<1>1. TypeOK'
    BY DEF TypeOK, ConfiguredPlans
<1>2. CallsFit'
    BY DEF TypeOK, CallsFit, InWriteLock
<1>3. LockHeld'
    BY DEF TypeOK, LockHeld, InWriteLock
<1>4. AtMostOneRole'
    BY DEF AtMostOneRole
<1>5. ReadIsCurrent' /\ NothingLeftToDelete'
    BY DEF TypeOK, ReadIsCurrent, NothingLeftToDelete
<1> QED BY <1>1, <1>2, <1>3, <1>4, <1>5

LEMMA LockStep == ASSUME IInv, NEW c \in Clients, Lock(c) PROVE IInv'
<1> USE DEF IInv, Lock, Moves
<1>1. TypeOK'
    BY DEF TypeOK, ConfiguredPlans
<1>2. CallsFit'
    BY DEF TypeOK, CallsFit, InWriteLock
<1>3. LockHeld'
    BY ServiceAssumption DEF TypeOK, LockHeld, InWriteLock
<1>4. AtMostOneRole'
    BY DEF AtMostOneRole
<1>5. ReadIsCurrent' /\ NothingLeftToDelete'
    BY DEF TypeOK, ReadIsCurrent, NothingLeftToDelete
<1> QED BY <1>1, <1>2, <1>3, <1>4, <1>5

LEMMA DeleteRolesStep == ASSUME IInv, NEW c \in Clients, DeleteRoles(c) PROVE IInv'
<1> USE DEF IInv, DeleteRoles, Moves, lock
<1>1. PICK to \in {"adding", "counting"} :
          /\ pc[c] = "deleting" /\ pc' = [pc EXCEPT ![c] = to]
          /\ to = "adding" <=> call[c].op = "activateUser"
    OBVIOUS
<1>2. call[c] \in Calls /\ call[c].user \in Users
    BY CallTypes DEF TypeOK, CallsFit
<1>3. /\ roles' \in [Users -> SUBSET PlanIds]
      /\ \A u \in Users : roles'[u] \in {{}, roles[u]}
      /\ roles'[call[c].user] = {}
    BY <1>2 DEF DeleteRolesForUser, TypeOK
<1>4. UNCHANGED <<conf, gauge, readers, parked, writer, call, seen>> /\ readers = {}
    OBVIOUS
<1> HIDE DEF DeleteRoles
<1>5. TypeOK'
    BY <1>1, <1>3, <1>4 DEF TypeOK, ConfiguredPlans
<1>6. CallsFit'
    BY <1>1, <1>4 DEF TypeOK, CallsFit, InWriteLock
<1>7. LockHeld'
    BY <1>1, <1>4, ServiceAssumption DEF TypeOK, LockHeld, InWriteLock
<1>8. AtMostOneRole'
    BY <1>3 DEF AtMostOneRole
<1>9. ReadIsCurrent'
    BY <1>1, <1>4 DEF TypeOK, LockHeld, ReadIsCurrent
<1>10. NothingLeftToDelete'
    BY <1>1, <1>3, <1>4 DEF TypeOK, LockHeld, NothingLeftToDelete, InWriteLock
<1> QED BY <1>5, <1>6, <1>7, <1>8, <1>9, <1>10

LEMMA AddGroupingStep == ASSUME IInv, NEW c \in Clients, AddGrouping(c) PROVE IInv'
<1> USE DEF IInv
<1> DEFINE user == call[c].user
           plan == ResolvePlanFromProduct(conf, call[c].product)
<1>1. /\ pc[c] = "adding" /\ call[c] \in Calls /\ user \in Users
      /\ roles[user] = {} /\ writer = c /\ readers = {}
    BY CallTypes, ServiceAssumption
       DEF AddGrouping, Moves, TypeOK, CallsFit, LockHeld, NothingLeftToDelete, InWriteLock
<1>2. plan \in PlanIds \cup {NoPlan}
    BY ConfType, ResolveType
<1>3. PICK to \in {"unlocking", "counting"} : pc' = [pc EXCEPT ![c] = to]
    BY DEF AddGrouping, Moves
<1>4. UNCHANGED <<conf, gauge, readers, parked, writer, call, seen>>
    BY DEF AddGrouping, lock
<1>5. roles' = roles \/ (plan \in PlanIds /\ roles' = [roles EXCEPT ![user] = {plan}])
    BY <1>1, <1>2 DEF AddGrouping, TypeOK
<1> HIDE DEF user, plan
<1>6. TypeOK'
    BY <1>1, <1>3, <1>4, <1>5 DEF TypeOK, ConfiguredPlans
<1>7. CallsFit'
    BY <1>1, <1>3, <1>4 DEF TypeOK, CallsFit, InWriteLock
<1>8. LockHeld'
    BY <1>1, <1>3, <1>4, ServiceAssumption DEF TypeOK, LockHeld, InWriteLock
<1>9. AtMostOneRole'
    BY <1>1, <1>5 DEF AtMostOneRole, TypeOK
<1>10. ReadIsCurrent'
    BY <1>1, <1>3, <1>4 DEF TypeOK, LockHeld, ReadIsCurrent
<1>11. NothingLeftToDelete'
    BY <1>1, <1>3, <1>4 DEF TypeOK, LockHeld, NothingLeftToDelete, InWriteLock
<1> QED BY <1>6, <1>7, <1>8, <1>9, <1>10, <1>11

LEMMA MetricsStep ==
    ASSUME IInv, NEW c \in Clients, UpdateSubscriptionMetrics(c) PROVE IInv'
<1> USE DEF IInv, UpdateSubscriptionMetrics, Moves, lock
<1>1. TypeOK'
    <2>1. gauge' \in [ConfiguredPlans -> Nat]
        BY CountsType DEF TypeOK
    <2>2. ConfiguredPlans' = ConfiguredPlans
        BY DEF ConfiguredPlans
    <2> QED BY <2>1, <2>2 DEF TypeOK
<1>2. CallsFit'
    BY DEF TypeOK, CallsFit, InWriteLock
<1>3. LockHeld'
    BY ServiceAssumption DEF TypeOK, LockHeld, InWriteLock
<1>4. AtMostOneRole'
    BY DEF AtMostOneRole
<1>5. ReadIsCurrent' /\ NothingLeftToDelete'
    BY DEF TypeOK, ReadIsCurrent, NothingLeftToDelete
<1> QED BY <1>1, <1>2, <1>3, <1>4, <1>5

LEMMA UnlockStep == ASSUME IInv, NEW c \in Clients, Unlock(c) PROVE IInv'
<1> USE DEF IInv, Unlock, Moves
<1>1. TypeOK'
    BY DEF TypeOK, ConfiguredPlans
<1>2. CallsFit'
    BY DEF TypeOK, CallsFit, InWriteLock
<1>3. LockHeld'
    BY ServiceAssumption DEF TypeOK, LockHeld, InWriteLock
<1>4. AtMostOneRole'
    BY DEF AtMostOneRole
<1>5. ReadIsCurrent' /\ NothingLeftToDelete'
    BY DEF TypeOK, ReadIsCurrent, NothingLeftToDelete
<1> QED BY <1>1, <1>2, <1>3, <1>4, <1>5

LEMMA ReturnStep == ASSUME IInv, NEW c \in Clients, Return(c) PROVE IInv'
<1> USE DEF IInv, Return, Moves, lock
<1>1. TypeOK'
    BY DEF TypeOK, ConfiguredPlans
<1>2. CallsFit'
    BY DEF TypeOK, CallsFit, InWriteLock
<1>3. LockHeld'
    BY ServiceAssumption DEF TypeOK, LockHeld, InWriteLock
<1>4. AtMostOneRole'
    BY DEF AtMostOneRole
<1>5. ReadIsCurrent' /\ NothingLeftToDelete'
    BY DEF TypeOK, ReadIsCurrent, NothingLeftToDelete
<1> QED BY <1>1, <1>2, <1>3, <1>4, <1>5

THEOREM Invariance == Spec => []IInv
<1>1. IInv /\ [Next]_vars => IInv'
    <2> SUFFICES ASSUME IInv, [Next]_vars PROVE IInv'
        OBVIOUS
    <2>1. CASE UNCHANGED vars
        <3> USE <2>1 DEF vars, lock, IInv
        <3>1. TypeOK'
            BY DEF TypeOK, ConfiguredPlans
        <3>2. CallsFit' /\ LockHeld'
            BY DEF CallsFit, LockHeld, InWriteLock
        <3>3. AtMostOneRole' /\ ReadIsCurrent' /\ NothingLeftToDelete'
            BY DEF AtMostOneRole, ReadIsCurrent, NothingLeftToDelete
        <3> QED BY <3>1, <3>2, <3>3
    <2>2. CASE Next
        BY <2>2, CallStep, RLockStep, ReadPlanStep, EnforceStep, RUnlockStep, LockStep,
           DeleteRolesStep, AddGroupingStep, MetricsStep, UnlockStep, ReturnStep
           DEF Next, ReaderStep, WriterStep
    <2> QED BY <2>1, <2>2
<1> QED BY InitIInv, <1>1, PTL DEF Spec

(* Every variable keeps its type.                                           *)
THEOREM TypeCorrect == Spec => []TypeOK
<1>1. IInv => TypeOK
    BY DEF IInv
<1> QED BY <1>1, Invariance, PTL

(* No user ever holds two plans.                                            *)
THEOREM OneRole == Spec => []AtMostOneRole
<1>1. IInv => AtMostOneRole
    BY DEF IInv
<1> QED BY <1>1, Invariance, PTL

-----------------------------------------------------------------------------
(* The lock never jams.                                                     *)

\* A client about to read is inside or parked, and nobody is parked but behind
\* a writer, whose Unlock will let them in.
Waits ==
    /\ \A c \in Clients : pc[c] = "reading" => c \in readers \cup parked
    /\ parked # {} => writer # Nothing

LEMMA InitWaits == Init => Waits
BY DEF Init, Waits

LEMMA LockStepsKeepWaits ==
    ASSUME IInv, Waits, NEW c \in Clients, RLock(c) \/ RUnlock(c) \/ Lock(c) \/ Unlock(c)
    PROVE  Waits'
<1> USE ServiceAssumption DEF IInv, TypeOK, Waits, Moves
<1>1. CASE RLock(c)
    BY <1>1 DEF RLock
<1>2. CASE RUnlock(c)
    BY <1>2 DEF RUnlock
<1>3. CASE Lock(c)
    BY <1>3 DEF Lock
<1>4. CASE Unlock(c)
    BY <1>4 DEF Unlock
<1> QED BY <1>1, <1>2, <1>3, <1>4

\* The steps that leave the lock alone also begin no read.
LEMMA OtherStepsKeepWaits ==
    ASSUME IInv, Waits, UNCHANGED lock,
           \A c \in Clients : pc'[c] = "reading" => pc[c] = "reading"
    PROVE  Waits'
BY DEF Waits, lock

LEMMA NoReadBegins ==
    ASSUME IInv, NEW c \in Clients,
           \/ Call(c) \/ ReadPlan(c) \/ EnforceRules(c) \/ DeleteRoles(c)
           \/ AddGrouping(c) \/ UpdateSubscriptionMetrics(c) \/ Return(c)
    PROVE  /\ UNCHANGED lock
           /\ \A d \in Clients : pc'[d] = "reading" => pc[d] = "reading"
<1>1. pc = [d \in Clients |-> pc[d]]
    BY DEF IInv, TypeOK
<1>2. CASE Call(c) \/ Return(c)
    BY <1>1, <1>2 DEF Call, Return, Moves
<1>3. CASE ReadPlan(c)
    BY <1>1, <1>3 DEF ReadPlan, Moves
<1>4. CASE EnforceRules(c) \/ UpdateSubscriptionMetrics(c)
    BY <1>1, <1>4 DEF EnforceRules, UpdateSubscriptionMetrics, Moves
<1>5. CASE DeleteRoles(c)
    BY <1>1, <1>5 DEF DeleteRoles, Moves
<1>6. CASE AddGrouping(c)
    BY <1>1, <1>6 DEF AddGrouping, Moves
<1> QED BY <1>2, <1>3, <1>4, <1>5, <1>6

LEMMA WaitsInvariant == Spec => []Waits
<1>1. IInv /\ Waits /\ [Next]_vars => Waits'
    <2> SUFFICES ASSUME IInv, Waits, [Next]_vars PROVE Waits'
        OBVIOUS
    <2>1. CASE UNCHANGED vars
        BY <2>1 DEF vars, lock, Waits
    <2>2. CASE Next
        BY <2>2, LockStepsKeepWaits, OtherStepsKeepWaits, NoReadBegins
           DEF Next, ReaderStep, WriterStep
    <2> QED BY <2>1, <2>2
<1> QED BY InitWaits, <1>1, Invariance, PTL DEF Spec

\* What the next statement of a client inside a call waits for: a write lock
\* for the one that holds it or has announced itself (Lock), its announcer for
\* the readers inside (DeleteRoles), a parked reader for the announcer
\* (ReadPlan). Every other statement runs at once.
CanStep(c) ==
    CASE pc[c] = "locking"  -> call[c].op \in Changes => writer = Nothing
      [] pc[c] = "reading"  -> c \in readers
      [] pc[c] = "deleting" -> readers = {}
      [] OTHER              -> TRUE

SomebodyCanStep ==
    (\E c \in Clients : pc[c] # "idle")
        => \E c \in Clients : pc[c] # "idle" /\ CanStep(c)

LEMMA ReadersGoOn ==
    ASSUME IInv, NEW r \in readers
    PROVE  r \in Clients /\ pc[r] # "idle" /\ CanStep(r)
BY DEF IInv, TypeOK, LockHeld, CanStep

\* The writer goes on, or waits for a reader that does.
LEMMA WriterGoesOn ==
    ASSUME IInv, writer # Nothing
    PROVE  \E c \in Clients : pc[c] # "idle" /\ CanStep(c)
<1>1. writer \in Clients /\ pc[writer] \in InWriteLock
    BY DEF IInv, TypeOK, LockHeld
<1>2. CASE pc[writer] = "deleting" /\ readers # {}
    BY <1>2, ReadersGoOn
<1>3. CASE ~(pc[writer] = "deleting" /\ readers # {})
    BY <1>1, <1>3 DEF CanStep, InWriteLock
<1> QED BY <1>2, <1>3

(* No set of calls waits for one another: while a call is under way, some  *)
(* call under way can take its next step. The waits are those of Go's      *)
(* RWMutex, with readers parked behind a writer that waits for readers:    *)
(* the cycle cannot close because every reader inside goes on to RUnlock   *)
(* without asking for the lock again.                                      *)
THEOREM LockNeverJams == Spec => []SomebodyCanStep
<1>1. IInv /\ Waits => SomebodyCanStep
    <2> SUFFICES ASSUME IInv, Waits, NEW c \in Clients, pc[c] # "idle"
                 PROVE  \E d \in Clients : pc[d] # "idle" /\ CanStep(d)
        BY DEF SomebodyCanStep
    <2>1. CASE writer # Nothing
        BY <2>1, WriterGoesOn
    <2>2. CASE writer = Nothing
        <3>1. pc[c] # "deleting"
            BY <2>2, ServiceAssumption DEF IInv, LockHeld, InWriteLock
        <3>2. pc[c] = "reading" => c \in readers
            BY <2>2 DEF Waits
        <3>3. CanStep(c)
            BY <2>2, <3>1, <3>2 DEF CanStep
        <3> QED BY <3>3
    <2> QED BY <2>1, <2>2
<1> QED BY <1>1, Invariance, WaitsInvariant, PTL

-----------------------------------------------------------------------------
(* The gauge.                                                               *)

Count(plan) == Cardinality(UsersForRole(roles, plan))

AllMapped == \A p \in Products : ResolvePlanFromProduct(conf, p) # NoPlan

WriterIsAt(places) == writer # Nothing /\ pc[writer] \in places

\* The gauge counts too much from the deletion on, and too little only between
\* the addition and the refresh.
GaugeInv ==
    \A plan \in ConfiguredPlans :
        /\ ~WriterIsAt({"counting"}) => gauge[plan] >= Count(plan)
        /\ AllMapped /\ ~WriterIsAt({"adding", "counting"}) => gauge[plan] = Count(plan)

LEMMA InitGauge == Init => GaugeInv
<1> SUFFICES ASSUME Init PROVE GaugeInv
    OBVIOUS
<1>1. TypeOK
    BY InitIInv DEF IInv
<1>2. \A plan \in ConfiguredPlans : gauge[plan] = Count(plan) /\ gauge[plan] \in Nat
    BY <1>1 DEF Init, TypeOK, SubscriptionCountsByPlan, Count
<1> QED BY <1>2 DEF GaugeInv

\* Steps that write neither roles nor gauge, of clients outside the lock.
LEMMA QuietGauge ==
    ASSUME IInv, GaugeInv, NEW c \in Clients,
           Call(c) \/ ReaderStep(c) \/ Lock(c) \/ Unlock(c) \/ Return(c)
    PROVE  GaugeInv'
<1>1. UNCHANGED <<conf, roles, gauge>>
    BY DEF Call, ReaderStep, RLock, ReadPlan, EnforceRules, RUnlock, Lock, Unlock, Return
<1>2. ASSUME NEW places \in SUBSET {"adding", "counting"}
      PROVE  WriterIsAt(places)' <=> WriterIsAt(places)
    <2>1. CASE Lock(c)
        BY <2>1, ServiceAssumption DEF Lock, Moves, IInv, TypeOK, WriterIsAt
    <2>2. CASE Unlock(c)
        BY <2>2 DEF Unlock, Moves, IInv, TypeOK, LockHeld, InWriteLock, WriterIsAt
    <2>3. CASE Call(c) \/ ReaderStep(c) \/ Return(c)
        <3>1. writer' = writer /\ writer # c
            BY <2>3, ServiceAssumption
               DEF Call, ReaderStep, RLock, ReadPlan, EnforceRules, RUnlock, Return, Moves,
                   lock, IInv, TypeOK, LockHeld, InWriteLock
        <3>2. \A d \in Clients \ {c} : pc'[d] = pc[d]
            BY <2>3 DEF Call, ReaderStep, RLock, ReadPlan, EnforceRules, RUnlock, Return,
                        Moves, IInv, TypeOK
        <3> QED BY <3>1, <3>2 DEF IInv, TypeOK, WriterIsAt
    <2> QED BY <2>1, <2>2, <2>3
<1> QED BY <1>1, <1>2 DEF GaugeInv, ConfiguredPlans, AllMapped, Count

\* The writer's place after a step of its own.
LEMMA WriterMoves ==
    ASSUME IInv, NEW c \in Clients, NEW from \in InWriteLock, NEW to \in InWriteLock,
           Moves(c, from, to), UNCHANGED writer, NEW places
    PROVE  /\ WriterIsAt(places) <=> from \in places
           /\ WriterIsAt(places)' <=> to \in places
BY ServiceAssumption DEF IInv, TypeOK, LockHeld, Moves, WriterIsAt, InWriteLock

\* Deletion makes no count greater.
LEMMA DeleteGauge ==
    ASSUME IInv, GaugeInv, NEW c \in Clients, DeleteRoles(c)
    PROVE  GaugeInv'
<1>1. PICK to \in {"adding", "counting"} : Moves(c, "deleting", to)
    BY DEF DeleteRoles
<1>2. /\ ~WriterIsAt({"counting"}) /\ WriterIsAt({"adding", "counting"})'
      /\ UNCHANGED <<conf, gauge>>
    BY <1>1, WriterMoves DEF DeleteRoles, lock, InWriteLock
<1>3. ASSUME NEW plan \in ConfiguredPlans PROVE Count(plan)' <= gauge[plan]
    <2>1. UsersForRole(roles', plan) \subseteq UsersForRole(roles, plan)
        BY DEF DeleteRoles, DeleteRolesForUser, UsersForRole
    <2>2. UsersForRole(roles, plan) \subseteq Users /\ IsFiniteSet(Users)
        BY ServiceAssumption DEF UsersForRole
    <2>3. IsFiniteSet(UsersForRole(roles, plan))
        BY <2>2, FS_Subset
    <2>4. /\ IsFiniteSet(UsersForRole(roles', plan))
          /\ Cardinality(UsersForRole(roles', plan)) <= Cardinality(UsersForRole(roles, plan))
        BY <2>1, <2>3, FS_Subset
    <2>5. /\ Cardinality(UsersForRole(roles', plan)) \in Nat
          /\ Cardinality(UsersForRole(roles, plan)) \in Nat
          /\ gauge[plan] \in Nat
        BY <2>3, <2>4, FS_CardinalityType DEF IInv, TypeOK
    <2>6. gauge[plan] >= Cardinality(UsersForRole(roles, plan))
        BY <1>2 DEF GaugeInv, Count
    <2> QED BY <2>4, <2>5, <2>6 DEF Count, UsersForRole
<1>4. ASSUME NEW plan \in ConfiguredPlans PROVE Count(plan)' \in Nat /\ gauge[plan] \in Nat
    <2>1. UsersForRole(roles, plan)' \subseteq Users /\ IsFiniteSet(Users)
        BY ServiceAssumption DEF UsersForRole
    <2>2. Count(plan)' \in Nat
        BY <2>1, FS_Subset, FS_CardinalityType DEF Count
    <2> QED BY <2>2 DEF IInv, TypeOK
<1> QED BY <1>2, <1>3, <1>4 DEF GaugeInv, ConfiguredPlans

\* Only a product that is mapped to no plan skips the refresh.
LEMMA AddGauge ==
    ASSUME IInv, GaugeInv, NEW c \in Clients, AddGrouping(c)
    PROVE  GaugeInv'
<1> DEFINE plan == ResolvePlanFromProduct(conf, call[c].product)
<1>1. UNCHANGED <<conf, gauge, writer>>
    BY DEF AddGrouping, lock
<1>2. CASE plan = NoPlan
    <2>1. Moves(c, "adding", "unlocking") /\ UNCHANGED roles
        BY <1>2 DEF AddGrouping
    <2>2. ~WriterIsAt({"counting"})
        BY <1>1, <2>1, WriterMoves DEF InWriteLock
    <2>3. ~AllMapped
        <3>1. call[c] \in Calls /\ call[c].op = "activateUser"
            BY <2>1 DEF Moves, IInv, CallsFit
        <3>2. call[c].product \in Products
            BY <3>1, CallTypes
        <3> QED BY <1>2, <3>2 DEF AllMapped
    <2> QED BY <1>1, <2>1, <2>2, <2>3 DEF GaugeInv, ConfiguredPlans, AllMapped, Count
<1>3. CASE plan # NoPlan
    <2>1. Moves(c, "adding", "counting")
        BY <1>3 DEF AddGrouping
    <2>2. WriterIsAt({"counting"})' /\ WriterIsAt({"adding", "counting"})'
        BY <1>1, <2>1, WriterMoves DEF InWriteLock
    <2> QED BY <2>2 DEF GaugeInv
<1> QED BY <1>2, <1>3

LEMMA MetricsGauge ==
    ASSUME IInv, GaugeInv, NEW c \in Clients, UpdateSubscriptionMetrics(c)
    PROVE  GaugeInv'
<1>1. /\ gauge' = SubscriptionCountsByPlan(roles)
      /\ UNCHANGED <<conf, roles>>
    BY DEF UpdateSubscriptionMetrics
<1>2. SubscriptionCountsByPlan(roles) \in [ConfiguredPlans -> Nat]
    BY CountsType DEF IInv, TypeOK
<1>3. ASSUME NEW plan \in ConfiguredPlans
      PROVE  gauge'[plan] = Count(plan) /\ gauge'[plan] \in Nat
    BY <1>1, <1>2 DEF SubscriptionCountsByPlan, Count
<1> QED BY <1>1, <1>3 DEF GaugeInv, ConfiguredPlans, Count

(* At rest the gauge never undercounts a plan, and where every product is   *)
(* mapped to one it is exact.                                               *)
THEOREM GaugeBounds == Spec => []GaugeAtRest
<1>1. IInv /\ GaugeInv /\ [Next]_vars => GaugeInv'
    <2> SUFFICES ASSUME IInv, GaugeInv, [Next]_vars PROVE GaugeInv'
        OBVIOUS
    <2>1. CASE UNCHANGED vars
        BY <2>1 DEF vars, lock, GaugeInv, ConfiguredPlans, AllMapped, Count, WriterIsAt
    <2>2. CASE Next
        BY <2>2, QuietGauge, DeleteGauge, AddGauge, MetricsGauge DEF Next, WriterStep
    <2> QED BY <2>1, <2>2
<1>2. IInv /\ GaugeInv => GaugeAtRest
    BY DEF GaugeInv, GaugeAtRest, WriterIsAt, AllMapped, Count
<1> QED BY <1>1, <1>2, InitGauge, Invariance, PTL DEF Spec

-----------------------------------------------------------------------------
(* Refinement. The atomic specification has the catalog's operators under   *)
(* names of its own, API!UserPlan for UserPlan and so on.                   *)

LEMMA SameLookups ==
    ASSUME NEW cf, NEW x
    PROVE  /\ API!ResolvePlanFromProduct(cf, x) = ResolvePlanFromProduct(cf, x)
           /\ API!PlanFeatures(cf, x) = PlanFeatures(cf, x)
           /\ API!UserPlan(cf, x) = UserPlan(cf, x)
<1>1. /\ API!MappingPositions(cf, x) = MappingPositions(cf, x)
      /\ API!PlanPositions(cf, x) = PlanPositions(cf, x)
    BY DEF API!MappingPositions, MappingPositions, API!PlanPositions, PlanPositions
<1>2. \A S : API!Max(S) = Max(S)
    BY DEF API!Max, Max
<1>3. API!ResolvePlanFromProduct(cf, x) = ResolvePlanFromProduct(cf, x)
    BY <1>1, <1>2, Zenon DEF API!ResolvePlanFromProduct, ResolvePlanFromProduct
<1>4. API!PlanFeatures(cf, x) = PlanFeatures(cf, x)
    BY <1>1, <1>2, Zenon
       DEF API!PlanFeatures, PlanFeatures, API!IsConfigured, IsConfigured
<1>5. API!UserPlan(cf, x) = UserPlan(cf, x)
    BY DEF API!UserPlan, UserPlan
<1> QED BY <1>3, <1>4, <1>5

LEMMA SameChecks ==
    ASSUME NEW cf, NEW r, NEW f
    PROVE  API!CheckFeature(cf, r, f) = CheckFeature(cf, r, f)
<1>1. API!Policies(cf) = Policies(cf)
    BY DEF API!Policies, Policies
<1>2. API!Enforce(cf, r, f) = Enforce(cf, r, f)
    BY <1>1 DEF API!Enforce, Enforce
<1>3. ASSUME NEW plan, NEW e
      PROVE  API!AllowedFor(cf, plan, e, f) = AllowedFor(cf, plan, e, f)
    BY SameLookups, Zenon DEF API!AllowedFor, AllowedFor
<1>4. ASSUME NEW plan, NEW a
      PROVE  API!ReasonFor(cf, plan, a) = ReasonFor(cf, plan, a)
    BY DEF API!ReasonFor, ReasonFor
<1>5. ASSUME NEW plan, NEW e
      PROVE  API!CheckResult(cf, plan, e, f) = CheckResult(cf, plan, e, f)
    BY <1>3, <1>4, Zenon DEF API!CheckResult, CheckResult
<1> QED BY <1>2, <1>5, SameLookups, Zenon DEF API!CheckFeature, CheckFeature

Phases == [c \in Clients |-> PhaseOf(pc[c])]

LEMMA PhaseStep ==
    ASSUME TypeOK, NEW c \in Clients, NEW to, pc' = [pc EXCEPT ![c] = to]
    PROVE  Phases' = [Phases EXCEPT ![c] = PhaseOf(to)]
BY DEF TypeOK, Phases

LEMMA PhaseValues ==
    /\ PhaseOf("idle") = "idle"
    /\ \A p \in {"locking", "reading", "enforcing", "deleting"} : PhaseOf(p) = "called"
    /\ \A p \in {"leaving", "adding", "counting", "unlocking", "returning"} :
           PhaseOf(p) = "done"
BY DEF PhaseOf

\* A step within one phase leaves the phases as they are.
LEMMA PhaseKept ==
    ASSUME TypeOK, NEW c \in Clients, NEW to, pc' = [pc EXCEPT ![c] = to],
           PhaseOf(to) = PhaseOf(pc[c])
    PROVE  Phases' = Phases
BY DEF TypeOK, Phases

\* A step of a client that is neither before nor after it the writer between
\* deletion and addition leaves the assignment as the roles have it.
LEMMA AssignedKept ==
    ASSUME IInv, UNCHANGED <<conf, roles>>,
           NEW c \in Clients, NEW to, pc' = [pc EXCEPT ![c] = to],
           pc[c] # "adding", to # "adding",
           \A d \in Clients \ {c} : call'[d] = call[d],
           writer' = writer \/ (writer = Nothing /\ writer' = c) \/ (writer = c /\ writer' = Nothing)
    PROVE  AssignedPlans' = AssignedPlans
<1>1. ASSUME NEW u \in Users
      PROVE  /\ Adding(u)' <=> Adding(u)
             /\ Adding(u) => call'[writer'].product = call[writer].product
    BY ServiceAssumption DEF IInv, TypeOK, Adding
<1> QED BY <1>1 DEF AssignedPlans

\* Where no change is half done, the assignment is what casbin holds.
LEMMA AssignedRoles ==
    ASSUME IInv, NEW u \in Users, ~Adding(u)
    PROVE  API!RolesFor(AssignedPlans[u]) = roles[u]
<1>1. roles[u] \subseteq PlanIds /\ \A p, q \in roles[u] : p = q
    BY DEF IInv, TypeOK, AtMostOneRole
<1>2. AssignedPlans[u] = PlanHeld(roles[u])
    BY DEF AssignedPlans
<1>3. CASE roles[u] = {}
    BY <1>2, <1>3 DEF PlanHeld, API!RolesFor
<1>4. CASE roles[u] # {}
    <2>1. PlanHeld(roles[u]) \in roles[u]
        BY <1>4 DEF PlanHeld
    <2>2. roles[u] = {PlanHeld(roles[u])} /\ PlanHeld(roles[u]) # NoPlan
        BY <1>1, <2>1, NoPlanAssumption
    <2> QED BY <1>2, <2>2 DEF API!RolesFor
<1> QED BY <1>3, <1>4

\* A client that reads sees no change half done.
LEMMA ReadersSeeNoGap ==
    ASSUME IInv, NEW c \in readers, NEW u \in Users
    PROVE  ~Adding(u)
BY DEF IInv, LockHeld, Adding

Stutters == UNCHANGED <<conf, AssignedPlans, Phases, call, reply>>

LEMMA StutterStep == Stutters => UNCHANGED API!vars
BY DEF Stutters, Phases, API!vars

\* Steps that change neither the roles nor the phase of their client.
LEMMA QuietSteps ==
    ASSUME IInv, NEW c \in Clients,
           \/ RLock(c) \/ (ReadPlan(c) /\ call[c].op = "CheckFeature") \/ RUnlock(c)
           \/ Lock(c) \/ UpdateSubscriptionMetrics(c) \/ Unlock(c)
    PROVE  Stutters
<1>1. PICK to \in {"reading", "enforcing", "deleting", "returning", "unlocking"} :
          /\ pc' = [pc EXCEPT ![c] = to]
          /\ PhaseOf(to) = PhaseOf(pc[c])
          /\ pc[c] # "adding"
    BY PhaseValues DEF RLock, ReadPlan, RUnlock, Lock, UpdateSubscriptionMetrics, Unlock, Moves
<1>2. UNCHANGED <<conf, roles, call, reply>>
    BY DEF RLock, ReadPlan, RUnlock, Lock, UpdateSubscriptionMetrics, Unlock
<1>3. writer' = writer \/ (writer = Nothing /\ writer' = c) \/ (writer = c /\ writer' = Nothing)
    <2>1. CASE Unlock(c)
        BY <2>1 DEF Unlock, Moves, IInv, LockHeld, InWriteLock
    <2>2. CASE ~Unlock(c)
        BY <2>2 DEF RLock, ReadPlan, RUnlock, Lock, UpdateSubscriptionMetrics, lock
    <2> QED BY <2>1, <2>2
<1>4. AssignedPlans' = AssignedPlans
    BY <1>1, <1>2, <1>3, AssignedKept
<1>5. Phases' = Phases
    BY <1>1, PhaseKept DEF IInv
<1> QED BY <1>2, <1>4, <1>5 DEF Stutters

LEMMA Answers ==
    ASSUME NEW k
    PROVE  LET r == API!RolesFor(AssignedPlans[k.user])
           IN  /\ k.op = "CheckFeature" => API!Answer(k) = CheckFeature(conf, r, k.feature)
               /\ k.op = "GetUserPlan" => API!Answer(k) = UserPlan(conf, r)
               /\ k.op = "GetUserFeatures" =>
                      API!Answer(k) = PlanFeatures(conf, UserPlan(conf, r))
               /\ k.op \in Changes => API!Answer(k) = "ok"
<1> DEFINE r == API!RolesFor(AssignedPlans[k.user])
<1> HIDE DEF r
<1>1. API!Answer(k) =
        CASE k.op = "CheckFeature"    -> API!CheckFeature(conf, r, k.feature)
          [] k.op = "GetUserPlan"     -> API!UserPlan(conf, r)
          [] k.op = "GetUserFeatures" -> API!UserFeatures(conf, r)
          [] k.op \in Changes         -> "ok"
    BY DEF API!Answer, r, API!Changes, Changes
<1>2. API!UserFeatures(conf, r) = PlanFeatures(conf, UserPlan(conf, r))
    BY SameLookups DEF API!UserFeatures
<1>3. API!UserPlan(conf, r) = UserPlan(conf, r)
    BY SameLookups
<1>4. API!CheckFeature(conf, r, k.feature) = CheckFeature(conf, r, k.feature)
    BY SameChecks
<1>5. /\ k.op = "CheckFeature" => API!Answer(k) = CheckFeature(conf, r, k.feature)
      /\ k.op = "GetUserPlan" => API!Answer(k) = UserPlan(conf, r)
      /\ k.op = "GetUserFeatures" =>
             API!Answer(k) = PlanFeatures(conf, UserPlan(conf, r))
      /\ k.op \in Changes => API!Answer(k) = "ok"
    BY <1>1, <1>2, <1>3, <1>4 DEF Changes
<1> QED BY <1>5 DEF r

LEMMA CallImplements ==
    ASSUME IInv, NEW c \in Clients, Call(c)
    PROVE  API!Invoke(c)
<1>1. /\ UNCHANGED <<conf, roles, writer, reply>> /\ TypeOK
      /\ pc[c] = "idle" /\ pc' = [pc EXCEPT ![c] = "locking"]
      /\ \E k \in Calls : call' = [call EXCEPT ![c] = k]
      /\ \A d \in Clients \ {c} : call'[d] = call[d]
    BY DEF Call, Moves, lock, IInv, TypeOK
<1>2. AssignedPlans' = AssignedPlans
    BY <1>1, AssignedKept
<1>3. Phases' = [Phases EXCEPT ![c] = PhaseOf("locking")] /\ Phases[c] = PhaseOf("idle")
    BY <1>1, PhaseStep DEF Phases
<1>4. API!Calls = Calls
    BY DEF API!Calls, Calls
<1> QED BY <1>1, <1>2, <1>3, <1>4, PhaseValues DEF API!Invoke, Phases

LEMMA ReturnImplements ==
    ASSUME IInv, NEW c \in Clients, Return(c)
    PROVE  API!Return(c)
<1>1. /\ UNCHANGED <<conf, roles, writer>> /\ TypeOK
      /\ pc[c] = "returning" /\ pc' = [pc EXCEPT ![c] = "idle"]
      /\ call'  = [call EXCEPT ![c] = Nothing]
      /\ reply' = [reply EXCEPT ![c] = Nothing]
      /\ \A d \in Clients \ {c} : call'[d] = call[d]
    BY DEF Return, Moves, lock, IInv, TypeOK
<1>2. AssignedPlans' = AssignedPlans
    BY <1>1, AssignedKept
<1>3. Phases' = [Phases EXCEPT ![c] = PhaseOf("idle")] /\ Phases[c] = PhaseOf("returning")
    BY <1>1, PhaseStep DEF Phases
<1> QED BY <1>1, <1>2, <1>3, PhaseValues DEF API!Return, Phases

\* A reader's call takes effect at its last read.
LEMMA ReadImplements ==
    ASSUME IInv, NEW c \in Clients,
           \/ ReadPlan(c) /\ call[c].op # "CheckFeature"
           \/ EnforceRules(c)
    PROVE  API!Perform(c)
<1> DEFINE k == call[c]
<1>1. /\ c \in readers /\ k \in Calls /\ k.user \in Users /\ k.op \in Reads
      /\ pc[c] \in {"reading", "enforcing"} /\ pc' = [pc EXCEPT ![c] = "leaving"]
    BY CallTypes DEF ReadPlan, EnforceRules, Moves, IInv, LockHeld, CallsFit
<1>2. UNCHANGED <<conf, roles, writer, call>>
    BY DEF ReadPlan, EnforceRules, lock
<1>3. AssignedPlans' = AssignedPlans
    BY <1>1, <1>2, AssignedKept
<1>4. Phases[c] = "called" /\ Phases' = [Phases EXCEPT ![c] = "done"]
    <2>1. Phases' = [Phases EXCEPT ![c] = PhaseOf("leaving")] /\ Phases[c] = PhaseOf(pc[c])
        BY <1>1, PhaseStep DEF Phases, IInv
    <2> QED BY <1>1, <2>1, PhaseValues
<1>5. API!RolesFor(AssignedPlans[k.user]) = roles[k.user]
    BY <1>1, AssignedRoles, ReadersSeeNoGap
<1>6. reply' = [reply EXCEPT ![c] = API!Answer(k)]
    <2>1. CASE EnforceRules(c)
        <3>1. k.op = "CheckFeature" /\ seen[c] = UserPlan(conf, roles[k.user])
            BY <2>1 DEF EnforceRules, Moves, IInv, CallsFit, ReadIsCurrent
        <3>2. API!Answer(k) = CheckFeature(conf, roles[k.user], k.feature)
            BY <1>5, <3>1, Answers
        <3> QED BY <2>1, <3>1, <3>2 DEF EnforceRules, CheckFeature
    <2>2. CASE ReadPlan(c) /\ k.op = "GetUserPlan"
        <3>1. API!Answer(k) = UserPlan(conf, roles[k.user])
            BY <1>5, <2>2, Answers
        <3> QED BY <2>2, <3>1 DEF ReadPlan
    <2>3. CASE ReadPlan(c) /\ k.op = "GetUserFeatures"
        <3>1. API!Answer(k) = PlanFeatures(conf, UserPlan(conf, roles[k.user]))
            BY <1>5, <2>3, Answers
        <3> QED BY <2>3, <3>1 DEF ReadPlan
    <2> QED BY <1>1, <2>1, <2>2, <2>3 DEF Reads
<1>7. k.op \notin API!Changes
    BY <1>1 DEF Reads, API!Changes
<1> QED BY <1>2, <1>3, <1>4, <1>6, <1>7 DEF API!Perform, Phases

\* A change takes effect when the roles are deleted: until the new role is
\* added the writer's own state says which it will be.
LEMMA DeleteImplements ==
    ASSUME IInv, NEW c \in Clients, DeleteRoles(c)
    PROVE  API!Perform(c)
<1> DEFINE k == call[c]
           to == IF k.op = "activateUser" THEN "adding" ELSE "counting"
<1>1. /\ k \in Calls /\ k.user \in Users /\ k.op \in Changes /\ writer = c
      /\ pc[c] = "deleting" /\ pc' = [pc EXCEPT ![c] = to] /\ pc'[c] = to
      /\ UNCHANGED <<conf, writer, call>>
      /\ roles' = DeleteRolesForUser(roles, k.user)
      /\ reply' = [reply EXCEPT ![c] = "ok"]
    BY CallTypes DEF DeleteRoles, Moves, lock, IInv, TypeOK, LockHeld, CallsFit, InWriteLock
<1>2. API!Answer(k) = "ok"
    BY <1>1, Answers
<1>3. Phases' = [Phases EXCEPT ![c] = PhaseOf(to)] /\ Phases[c] = PhaseOf("deleting")
    BY <1>1, PhaseStep DEF Phases, IInv
<1>4. Phases[c] = "called" /\ Phases' = [Phases EXCEPT ![c] = "done"]
    BY <1>3, PhaseValues
<1>5. ASSUME NEW u \in Users
      PROVE  AssignedPlans'[u] =
               CASE u = k.user                    -> API!PlanAsked(k)
                 [] u # k.user /\ k.user = NoUser -> NoPlan
                 [] u # k.user /\ k.user # NoUser -> AssignedPlans[u]
    <2>1. c # Nothing /\ ~Adding(u) /\ (Adding(u)' <=> (k.op = "activateUser" /\ u = k.user))
        BY <1>1, ServiceAssumption DEF Adding
    <2>2. AssignedPlans'[u] = IF Adding(u)' THEN ResolvePlanFromProduct(conf, k.product)
                                            ELSE PlanHeld(roles'[u])
        BY <1>1 DEF AssignedPlans
    <2>3. AssignedPlans[u] = PlanHeld(roles[u])
        BY <2>1 DEF AssignedPlans
    <2>4. roles'[u] = IF k.user \in {u, NoUser} THEN {} ELSE roles[u]
        BY <1>1 DEF DeleteRolesForUser
    <2>5. API!PlanAsked(k) = IF k.op = "activateUser"
                             THEN ResolvePlanFromProduct(conf, k.product) ELSE NoPlan
        BY SameLookups, Zenon DEF API!PlanAsked
    <2>6. PlanHeld({}) = NoPlan
        BY DEF PlanHeld
    <2>7. CASE u = k.user
        <3>1. AssignedPlans'[u] = API!PlanAsked(k)
            BY <2>1, <2>2, <2>4, <2>5, <2>6, <2>7
        <3> QED BY <3>1, <2>7
    <2>8. CASE u # k.user /\ k.user = NoUser
        <3>1. AssignedPlans'[u] = NoPlan
            BY <2>1, <2>2, <2>4, <2>6, <2>8
        <3> QED BY <3>1, <2>8
    <2>9. CASE u # k.user /\ k.user # NoUser
        <3>1. AssignedPlans'[u] = AssignedPlans[u]
            BY <2>1, <2>2, <2>3, <2>4, <2>9
        <3> QED BY <3>1, <2>9
    <2> QED BY <2>7, <2>8, <2>9
<1>6. AssignedPlans' = API!Reassigned(k)
    <2>1. AssignedPlans' = [u \in Users |-> AssignedPlans'[u]]
        BY DEF AssignedPlans
    <2> QED BY <1>5, <2>1 DEF API!Reassigned
<1>7. k.op \in API!Changes
    BY <1>1 DEF Changes, API!Changes
<1> QED BY <1>1, <1>2, <1>4, <1>6, <1>7 DEF API!Perform, Phases

LEMMA AddStutters ==
    ASSUME IInv, NEW c \in Clients, AddGrouping(c)
    PROVE  Stutters
<1> DEFINE k == call[c]
           plan == ResolvePlanFromProduct(conf, k.product)
<1>1. /\ k \in Calls /\ k.user \in Users /\ writer = c /\ c # Nothing
      /\ pc[c] = "adding" /\ roles[k.user] = {}
      /\ UNCHANGED <<conf, writer, call, reply>>
    BY CallTypes, ServiceAssumption
       DEF AddGrouping, Moves, lock, IInv, TypeOK, LockHeld, CallsFit, InWriteLock,
           NothingLeftToDelete
<1>2. PICK to \in {"unlocking", "counting"} : pc' = [pc EXCEPT ![c] = to] /\ pc'[c] = to
    BY DEF AddGrouping, Moves, IInv, TypeOK
<1>3. Phases' = Phases
    BY <1>1, <1>2, PhaseKept, PhaseValues DEF IInv
<1>4. \A u \in Users : roles'[u] = IF u = k.user THEN {plan} \ {NoPlan} ELSE roles[u]
    <2>1. roles' = IF plan = NoPlan THEN roles ELSE [roles EXCEPT ![k.user] = @ \cup {plan}]
        BY DEF AddGrouping
    <2>2. DOMAIN roles = Users
        BY DEF IInv, TypeOK
    <2> HIDE DEF plan, k
    <2>3. CASE plan = NoPlan
        BY <1>1, <2>1, <2>3
    <2>4. CASE plan # NoPlan
        <3>1. roles' = [roles EXCEPT ![k.user] = {plan}]
            BY <1>1, <2>1, <2>4
        <3>2. {plan} \ {NoPlan} = {plan}
            BY <2>4
        <3> QED BY <2>2, <3>1, <3>2
    <2> QED BY <2>3, <2>4
<1>5. ASSUME NEW u \in Users PROVE AssignedPlans'[u] = AssignedPlans[u]
    <2>1. ~Adding(u)' /\ (Adding(u) <=> u = k.user)
        BY <1>1, <1>2 DEF Adding
    <2>2. AssignedPlans'[u] = PlanHeld(roles'[u])
        BY <2>1 DEF AssignedPlans
    <2>3. AssignedPlans[u] = IF u = k.user THEN plan ELSE PlanHeld(roles[u])
        BY <1>1, <2>1 DEF AssignedPlans
    <2>4. PlanHeld({plan} \ {NoPlan}) = plan
        BY DEF PlanHeld
    <2> QED BY <1>4, <2>2, <2>3, <2>4
<1>6. AssignedPlans' = AssignedPlans
    BY <1>5 DEF AssignedPlans
<1> QED BY <1>1, <1>3, <1>6 DEF Stutters

(* Requests see every change of a plan at one instant: no interleaving of   *)
(* readers and writers behind the lock shows a user without the plan being  *)
(* replaced, or a verdict and a plan of different moments.                  *)
THEOREM Refinement == Spec => ImplementsAPI
<1>1. Init => API!Init
    <2> SUFFICES ASSUME Init PROVE API!Init
        OBVIOUS
    <2>1. IInv
        BY InitIInv
    <2>2. \A u \in Users : ~Adding(u) /\ PlanHeld(roles[u]) \in PlanIds \cup {NoPlan}
        BY <2>1 DEF Init, Adding, PlanHeld, IInv, TypeOK
    <2>3. AssignedPlans \in [Users -> API!PlansAssignable]
        BY <2>2 DEF AssignedPlans, API!PlansAssignable
    <2>4. [c \in Clients |-> PhaseOf(pc[c])] = [c \in Clients |-> "idle"]
        BY PhaseValues DEF Init
    <2> QED BY <2>3, <2>4 DEF Init, API!Init
<1>2. IInv /\ [Next]_vars => [API!Next]_(API!vars)
    <2> SUFFICES ASSUME IInv, [Next]_vars PROVE [API!Next]_(API!vars)
        OBVIOUS
    <2>1. CASE UNCHANGED vars
        <3>1. AssignedPlans' = AssignedPlans /\ Phases' = Phases
            BY <2>1 DEF vars, lock, AssignedPlans, Adding, Phases
        <3> QED BY <2>1, <3>1, StutterStep DEF vars, Stutters
    <2>2. ASSUME NEW c \in Clients,
                 Call(c) \/ ReaderStep(c) \/ Lock(c) \/ WriterStep(c) \/ Return(c)
          PROVE  Stutters \/ API!Invoke(c) \/ API!Perform(c) \/ API!Return(c)
        BY <2>2, QuietSteps, CallImplements, ReturnImplements, ReadImplements,
           DeleteImplements, AddStutters DEF ReaderStep, WriterStep
    <2>3. CASE Next
        BY <2>2, <2>3, StutterStep DEF Next, API!Next
    <2> QED BY <2>1, <2>3
<1> QED BY <1>1, <1>2, Invariance, PTL DEF Spec, ImplementsAPI, API!Spec
=============================================================================
