---------------------------- MODULE Entitlements ----------------------------
(***************************************************************************)
(* What the entitlement service promises its callers: every exported call  *)
(* takes effect and reads at one instant between its call and its return.  *)
(* There are no locks here and no casbin; a user is assigned one plan or   *)
(* none. EntitlementService is shown to implement this specification.      *)
(***************************************************************************)
EXTENDS Catalog

CONSTANTS
    Users,      \* the user ids that subscriptions and checks mention
    NoUser,     \* the empty user id, that of a webhook without one
    Clients,    \* the goroutines that call the service
    Configs,    \* the configurations the service may be started with
    Nothing     \* no call, no reply

ASSUME ConfigsAssumption == Configs \subseteq Configurations

VARIABLES
    conf,       \* the configuration, fixed at start
    assigned,   \* the plan of each user, NoPlan if none
    phase,      \* of each client: "idle", "called" or "done"
    call,       \* the call a client has made
    reply       \* what it will be told

vars == <<conf, assigned, phase, call, reply>>

Calls ==
    [op : {"CheckFeature"}, user : Users, feature : Features]
      \cup [op : {"GetUserPlan", "GetUserFeatures"}, user : Users]
      \cup [op : {"activateUser"}, user : Users, product : Products]
      \cup [op : {"deactivateUser"}, user : Users]

Changes == {"activateUser", "deactivateUser"}

PlansAssignable == PlanIds \cup {NoPlan}

-----------------------------------------------------------------------------
RolesFor(plan) == {plan} \ {NoPlan}

\* As a bug would have it: a product without a mapping stands for itself.
PlanAskedUnmapped(k) ==
    IF k.op # "activateUser" THEN NoPlan
    ELSE IF MappingPositions(conf, k.product) = {} THEN k.product
    ELSE ResolvePlanFromProduct(conf, k.product)

\* The plan a change asks for: none when the product is not mapped to one.
PlanAsked(k) ==
    IF k.op = "activateUser" THEN ResolvePlanFromProduct(conf, k.product) ELSE NoPlan

\* Deleting the roles of the empty user id deletes those of every user.
Reassigned(k) ==
    [u \in Users |-> CASE u = k.user                      -> PlanAsked(k)
                       [] u # k.user /\ k.user = NoUser   -> NoPlan
                       [] u # k.user /\ k.user # NoUser   -> assigned[u]]

Answer(k) ==
    LET roles == RolesFor(assigned[k.user])
    IN  CASE k.op = "CheckFeature"    -> CheckFeature(conf, roles, k.feature)
          [] k.op = "GetUserPlan"     -> UserPlan(conf, roles)
          [] k.op = "GetUserFeatures" -> UserFeatures(conf, roles)
          [] k.op \in Changes         -> "ok"

-----------------------------------------------------------------------------
Init ==
    /\ conf \in Configs
    /\ assigned \in [Users -> PlansAssignable]
    /\ phase = [c \in Clients |-> "idle"]
    /\ call  = [c \in Clients |-> Nothing]
    /\ reply = [c \in Clients |-> Nothing]

Invoke(c) ==
    /\ phase[c] = "idle"
    /\ \E k \in Calls : call' = [call EXCEPT ![c] = k]
    /\ phase' = [phase EXCEPT ![c] = "called"]
    /\ UNCHANGED <<conf, assigned, reply>>

\* The instant at which the call reads and changes the assignment.
Perform(c) ==
    /\ phase[c] = "called"
    /\ phase' = [phase EXCEPT ![c] = "done"]
    /\ reply' = [reply EXCEPT ![c] = Answer(call[c])]
    /\ assigned' = IF call[c].op \in Changes THEN Reassigned(call[c]) ELSE assigned
    /\ UNCHANGED <<conf, call>>

Return(c) ==
    /\ phase[c] = "done"
    /\ phase' = [phase EXCEPT ![c] = "idle"]
    /\ call'  = [call EXCEPT ![c] = Nothing]
    /\ reply' = [reply EXCEPT ![c] = Nothing]
    /\ UNCHANGED <<conf, assigned>>

Next == \E c \in Clients : Invoke(c) \/ Perform(c) \/ Return(c)

Spec == Init /\ [][Next]_vars

-----------------------------------------------------------------------------
(* Properties                                                              *)

\* Every variable has its type: clients hold a call exactly while it runs.
TypeOK ==
    /\ conf \in Configs
    /\ assigned \in [Users -> PlansAssignable]
    /\ phase \in [Clients -> {"idle", "called", "done"}]
    /\ call \in [Clients -> Calls \cup {Nothing}]
    /\ \A c \in Clients : phase[c] # "idle" => call[c] \in Calls

\* GET /v1/check asks casbin, which merges the plan entries with one id, and
\* GET /v1/users and /v1/plans list plansByID, which keeps the last of them:
\* with unique plan ids the two agree for every user, feature and
\* configuration, whether the plan comes from a role or is the default.
CheckAgreesWithFeatures ==
    UniquePlanIds(conf) =>
        \A u \in Users, f \in Features :
            LET roles == RolesFor(assigned[u])
            IN  CheckFeature(conf, roles, f).allowed <=> f \in UserFeatures(conf, roles)

\* Even when plan ids repeat, no feature that is listed for a user is denied.
ListedFeaturesAreAllowed ==
    \A u \in Users : LET roles == RolesFor(assigned[u])
                     IN  \A f \in UserFeatures(conf, roles) :
                            CheckFeature(conf, roles, f).allowed

\* "If unset, users with no subscription have no features" (README,
\* default_plan): the verdict of the enforcer and the reason, which comes from
\* the plan, never contradict each other in an answer.
ReasonExplainsVerdict ==
    \A c \in Clients :
        (phase[c] = "done" /\ call[c].op = "CheckFeature") =>
            /\ reply[c].allowed <=> reply[c].reason \in {"default_plan", "feature_in_plan"}
            /\ reply[c].reason = "no_subscription" <=> reply[c].plan = NoPlan
=============================================================================
