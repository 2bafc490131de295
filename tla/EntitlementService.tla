------------------------- MODULE EntitlementService -------------------------
(***************************************************************************)
(* entitlements.Service as the request goroutines run it: the casbin       *)
(* grouping policy behind a sync.RWMutex, and the gauge of subscriptions   *)
(* by plan. A reader takes the read lock and reads the plan and then the   *)
(* enforcer; a writer takes the write lock and, one step after the other,  *)
(* deletes the user's roles, adds the new one and refreshes the gauge.     *)
(*                                                                         *)
(* The lock is Go's: a writer that has announced itself keeps new readers  *)
(* out (they park), waits for the readers inside to leave, and lets the    *)
(* parked ones in when it unlocks. That is why no method that holds the    *)
(* read lock may take it again.                                            *)
(***************************************************************************)
EXTENDS Catalog

CONSTANTS
    Users,      \* the user ids that subscriptions and checks mention
    NoUser,     \* the empty user id, that of a webhook without one
    Clients,    \* the goroutines that call the service
    Configs,    \* the configurations the service may be started with
    Nothing     \* no call, no reply, no writer

ASSUME ServiceAssumption ==
    /\ Configs \subseteq Configurations
    /\ Nothing \notin Clients
    /\ IsFiniteSet(Users)

VARIABLES
    conf,       \* the configuration, fixed at start
    roles,      \* casbin's grouping policy: the set of plans of each user
    gauge,      \* active_subscriptions, by configured plan
    readers,    \* the clients that hold the read lock
    parked,     \* the clients whose RLock waits for the writer
    writer,     \* the client that holds or awaits the write lock
    pc,         \* where each client is
    call,       \* the call it has made
    seen,       \* its local planID
    reply       \* the result it will return

lock == <<readers, parked, writer>>
vars == <<conf, roles, gauge, lock, pc, call, seen, reply>>

Reads == {"CheckFeature", "GetUserPlan", "GetUserFeatures"}
Changes == {"activateUser", "deactivateUser"}

Calls ==
    [op : {"CheckFeature"}, user : Users, feature : Features]
      \cup [op : {"GetUserPlan", "GetUserFeatures"}, user : Users]
      \cup [op : {"activateUser"}, user : Users, product : Products]
      \cup [op : {"deactivateUser"}, user : Users]

-----------------------------------------------------------------------------
Moves(c, from, to) == pc[c] = from /\ pc' = [pc EXCEPT ![c] = to]

ConfiguredPlans == {conf.plans[i].id : i \in DOMAIN conf.plans}

UsersForRole(r, plan) == {u \in Users : plan \in r[u]}

\* One count per configured plan; a role on another plan is counted nowhere.
SubscriptionCountsByPlan(r) ==
    [plan \in ConfiguredPlans |-> Cardinality(UsersForRole(r, plan))]

\* casbin's RemoveFilteredGroupingPolicy: an empty field matches every rule.
DeleteRolesForUser(r, user) ==
    [u \in Users |-> IF user \in {u, NoUser} THEN {} ELSE r[u]]

\* As a bug would have it: an unmapped product is not skipped.
LoadedRolesUnchecked(userProducts) ==
    [u \in Users |-> IF userProducts[u] \in Products
                     THEN {ResolvePlanFromProduct(conf, userProducts[u])}
                     ELSE {}]

\* The roles loadSubscriptions adds for the store's map of users to products.
LoadedRoles(userProducts) ==
    [u \in Users |-> IF userProducts[u] \in Products
                     THEN {ResolvePlanFromProduct(conf, userProducts[u])} \ {NoPlan}
                     ELSE {}]

-----------------------------------------------------------------------------
\* NewService: the store's subscriptions are loaded and counted before the
\* server starts.
Init ==
    /\ conf \in Configs
    /\ \E userProducts \in [Users -> Products \cup {Nothing}] :
           roles = LoadedRoles(userProducts)
    /\ gauge = SubscriptionCountsByPlan(roles)
    /\ readers = {} /\ parked = {} /\ writer = Nothing
    /\ pc    = [c \in Clients |-> "idle"]
    /\ call  = [c \in Clients |-> Nothing]
    /\ seen  = [c \in Clients |-> NoPlan]
    /\ reply = [c \in Clients |-> Nothing]

Call(c) ==
    /\ Moves(c, "idle", "locking")
    /\ \E k \in Calls : call' = [call EXCEPT ![c] = k]
    /\ UNCHANGED <<conf, roles, gauge, lock, seen, reply>>

\* As a bug would have it: the read lock does not wait for the writer.
RLockIgnoringWriter(c) ==
    /\ Moves(c, "locking", "reading")
    /\ call[c].op \in Reads
    /\ readers' = readers \cup {c}
    /\ UNCHANGED <<conf, roles, gauge, parked, writer, call, seen, reply>>

\* s.mu.RLock(): parks behind a writer, even one that is still waiting.
RLock(c) ==
    /\ Moves(c, "locking", "reading")
    /\ call[c].op \in Reads
    /\ IF writer = Nothing
       THEN readers' = readers \cup {c} /\ UNCHANGED parked
       ELSE parked' = parked \cup {c} /\ UNCHANGED readers
    /\ UNCHANGED <<conf, roles, gauge, writer, call, seen, reply>>

\* As a bug would have it: the plan is read with the exported GetUserPlan,
\* whose own RLock waits for a writer that waits for this reader.
ReadPlanLockingAgain(c) ==
    LET plan == UserPlan(conf, roles[call[c].user])
    IN  /\ c \in readers /\ writer = Nothing
        /\ \/ /\ call[c].op = "CheckFeature"
              /\ Moves(c, "reading", "enforcing")
              /\ seen' = [seen EXCEPT ![c] = plan]
              /\ UNCHANGED reply
           \/ /\ call[c].op # "CheckFeature"
              /\ Moves(c, "reading", "leaving")
              /\ reply' = [reply EXCEPT ![c] = IF call[c].op = "GetUserPlan"
                                               THEN plan
                                               ELSE PlanFeatures(conf, plan)]
              /\ UNCHANGED seen
        /\ UNCHANGED <<conf, roles, gauge, lock, call>>

\* The plan from casbin's roles or the default. GetUserPlan returns it,
\* GetUserFeatures the features of its plansByID entry.
ReadPlan(c) ==
    LET plan == UserPlan(conf, roles[call[c].user])
    IN  /\ c \in readers
        /\ \/ /\ call[c].op = "CheckFeature"
              /\ Moves(c, "reading", "enforcing")
              /\ seen' = [seen EXCEPT ![c] = plan]
              /\ UNCHANGED reply
           \/ /\ call[c].op # "CheckFeature"
              /\ Moves(c, "reading", "leaving")
              /\ reply' = [reply EXCEPT ![c] = IF call[c].op = "GetUserPlan"
                                               THEN plan
                                               ELSE PlanFeatures(conf, plan)]
              /\ UNCHANGED seen
        /\ UNCHANGED <<conf, roles, gauge, lock, call>>

\* The enforcer's verdict and the result built from it and the plan read.
EnforceRules(c) ==
    /\ Moves(c, "enforcing", "leaving")
    /\ LET k == call[c]
       IN  reply' = [reply EXCEPT ![c] =
               CheckResult(conf, seen[c], Enforce(conf, roles[k.user], k.feature), k.feature)]
    /\ seen' = [seen EXCEPT ![c] = NoPlan]
    /\ UNCHANGED <<conf, roles, gauge, lock, call>>

RUnlock(c) ==
    /\ Moves(c, "leaving", "returning")
    /\ readers' = readers \ {c}
    /\ UNCHANGED <<conf, roles, gauge, parked, writer, call, seen, reply>>

\* s.mu.Lock(), up to the announcement that keeps new readers out.
Lock(c) ==
    /\ Moves(c, "locking", "deleting")
    /\ call[c].op \in Changes
    /\ writer = Nothing
    /\ writer' = c
    /\ UNCHANGED <<conf, roles, gauge, readers, parked, call, seen, reply>>

\* As a bug would have it: the earlier plan is not removed.
DeleteRolesSkipped(c) ==
    /\ readers = {}
    /\ Moves(c, "deleting", IF call[c].op = "activateUser" THEN "adding" ELSE "counting")
    /\ reply' = [reply EXCEPT ![c] = "ok"]
    /\ UNCHANGED <<conf, roles, gauge, lock, call, seen>>

\* The readers that were inside have left: the roles go first.
DeleteRoles(c) ==
    /\ readers = {}
    /\ Moves(c, "deleting", IF call[c].op = "activateUser" THEN "adding" ELSE "counting")
    /\ roles' = DeleteRolesForUser(roles, call[c].user)
    /\ reply' = [reply EXCEPT ![c] = "ok"]
    /\ UNCHANGED <<conf, gauge, lock, call, seen>>

\* As a bug would have it: activateUser never refreshes the gauge.
AddGroupingUncounted(c) ==
    LET user == call[c].user
        plan == ResolvePlanFromProduct(conf, call[c].product)
    IN  /\ Moves(c, "adding", "unlocking")
        /\ roles' = [roles EXCEPT ![user] = @ \cup ({plan} \ {NoPlan})]
        /\ UNCHANGED <<conf, gauge, lock, call, seen, reply>>

\* The rest of activateUser: a product that is mapped to no plan returns
\* early, before the gauge is refreshed.
AddGrouping(c) ==
    LET user == call[c].user
        plan == ResolvePlanFromProduct(conf, call[c].product)
    IN  /\ pc[c] = "adding"
        /\ IF plan = NoPlan
           THEN Moves(c, "adding", "unlocking") /\ UNCHANGED roles
           ELSE Moves(c, "adding", "counting")
                  /\ roles' = [roles EXCEPT ![user] = @ \cup {plan}]
        /\ UNCHANGED <<conf, gauge, lock, call, seen, reply>>

UpdateSubscriptionMetrics(c) ==
    /\ Moves(c, "counting", "unlocking")
    /\ gauge' = SubscriptionCountsByPlan(roles)
    /\ UNCHANGED <<conf, roles, lock, call, seen, reply>>

\* s.mu.Unlock() lets the parked readers in.
Unlock(c) ==
    /\ Moves(c, "unlocking", "returning")
    /\ writer' = Nothing
    /\ readers' = readers \cup parked
    /\ parked' = {}
    /\ UNCHANGED <<conf, roles, gauge, call, seen, reply>>

Return(c) ==
    /\ Moves(c, "returning", "idle")
    /\ call'  = [call EXCEPT ![c] = Nothing]
    /\ reply' = [reply EXCEPT ![c] = Nothing]
    /\ UNCHANGED <<conf, roles, gauge, lock, seen>>

ReaderStep(c) == RLock(c) \/ ReadPlan(c) \/ EnforceRules(c) \/ RUnlock(c)
WriterStep(c) ==
    DeleteRoles(c) \/ AddGrouping(c) \/ UpdateSubscriptionMetrics(c) \/ Unlock(c)

Next == \E c \in Clients :
            Call(c) \/ ReaderStep(c) \/ Lock(c) \/ WriterStep(c) \/ Return(c)

\* The scheduler runs every goroutine that can run, and the mutex inside the
\* RWMutex hands itself to a writer that has waited long enough.
Fairness == \A c \in Clients : /\ WF_vars(ReaderStep(c))
                               /\ WF_vars(WriterStep(c))
                               /\ WF_vars(Return(c))
                               /\ SF_vars(Lock(c))

Spec == Init /\ [][Next]_vars
FairSpec == Spec /\ Fairness

-----------------------------------------------------------------------------
(* Properties                                                              *)

\* Every variable has its type; the replies' are the refinement's matter.
TypeOK ==
    /\ conf \in Configs
    /\ roles \in [Users -> SUBSET PlanIds]
    /\ gauge \in [ConfiguredPlans -> Nat]
    /\ readers \subseteq Clients /\ parked \subseteq Clients
    /\ writer \in Clients \cup {Nothing}
    /\ pc \in [Clients -> {"idle", "locking", "reading", "enforcing", "leaving",
                           "deleting", "adding", "counting", "unlocking", "returning"}]
    /\ call \in [Clients -> Calls \cup {Nothing}]
    /\ seen \in [Clients -> PlanIds \cup {NoPlan}]

\* No user ever holds two plans, whatever changes race for it: getUserPlan
\* takes roles[0], and casbin would grant the features of both.
AtMostOneRole == \A u \in Users : \A p, q \in roles[u] : p = q

\* "Number of active subscriptions by plan" (infra/metrics/metrics.go) as far
\* as it holds: with no writer at work the gauge never undercounts a plan, and
\* it is exact where every product is mapped to a plan.
GaugeAtRest ==
    writer = Nothing =>
        \A plan \in ConfiguredPlans :
            LET count == Cardinality(UsersForRole(roles, plan))
            IN  /\ gauge[plan] >= count
                /\ (\A p \in Products : ResolvePlanFromProduct(conf, p) # NoPlan)
                        => gauge[plan] = count

\* The metric as its help text has it: the early return of activateUser for a
\* product without a plan leaves the user's earlier plan in the count.
GaugeIsExact ==
    writer = Nothing =>
        \A plan \in ConfiguredPlans :
            gauge[plan] = Cardinality(UsersForRole(roles, plan))

\* Every call returns: readers that park behind a writer are let in, and a
\* writer is not shut out by a stream of readers or of other writers.
CallsReturn == \A c \in Clients : pc[c] # "idle" ~> pc[c] = "idle"

-----------------------------------------------------------------------------
(* The atomic service this one implements. A change takes effect when the   *)
(* roles are deleted, although the new one is still to be added: nobody     *)
(* else can look until the lock is released.                                *)

Adding(u) ==
    writer # Nothing /\ pc[writer] = "adding" /\ call[writer].user = u

PlanHeld(r) == IF r = {} THEN NoPlan ELSE CHOOSE plan \in r : TRUE

AssignedPlans ==
    [u \in Users |-> IF Adding(u)
                     THEN ResolvePlanFromProduct(conf, call[writer].product)
                     ELSE PlanHeld(roles[u])]

PhaseOf(state) ==
    CASE state = "idle" -> "idle"
      [] state \in {"locking", "reading", "enforcing", "deleting"} -> "called"
      [] state \in {"leaving", "adding", "counting", "unlocking", "returning"} -> "done"

API == INSTANCE Entitlements
         WITH assigned <- AssignedPlans,
              phase    <- [c \in Clients |-> PhaseOf(pc[c])]

\* Every call of the locked service is one instant of the atomic one: in
\* particular no request sees the gap between the deletion of a user's roles
\* and the addition of the new one, nor a plan and a verdict that are not of
\* the same moment.
ImplementsAPI == API!Spec
=============================================================================
