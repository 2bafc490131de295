-------------------------- MODULE EntitlementsProofs --------------------------
(***************************************************************************)
(* What holds of the atomic entitlement service for every configuration,   *)
(* every set of users and any number of clients.                           *)
(***************************************************************************)
EXTENDS Entitlements, CatalogProofs

LEMMA PlanAskedType ==
    ASSUME TypeOK, NEW k \in Calls
    PROVE  PlanAsked(k) \in PlansAssignable
BY ResolveType, ConfigsAssumption DEF PlanAsked, TypeOK, PlansAssignable

(* Every variable of the service keeps its type.                            *)
THEOREM TypeCorrect == Spec => []TypeOK
<1>1. Init => TypeOK
    BY DEF Init, TypeOK
<1>2. TypeOK /\ [Next]_vars => TypeOK'
    <2> SUFFICES ASSUME TypeOK, [Next]_vars PROVE TypeOK'
        OBVIOUS
    <2>1. CASE UNCHANGED vars
        BY <2>1 DEF vars, TypeOK
    <2>2. ASSUME NEW c \in Clients, Invoke(c) PROVE TypeOK'
        BY <2>2 DEF Invoke, TypeOK
    <2>3. ASSUME NEW c \in Clients, Perform(c) PROVE TypeOK'
        <3>1. call[c] \in Calls
            BY <2>3 DEF Perform, TypeOK
        <3>2. Reassigned(call[c]) \in [Users -> PlansAssignable]
            <4>1. ASSUME NEW u \in Users
                  PROVE  (CASE u = call[c].user -> PlanAsked(call[c])
                            [] u # call[c].user /\ call[c].user = NoUser -> NoPlan
                            [] u # call[c].user /\ call[c].user # NoUser -> assigned[u])
                              \in PlansAssignable
                <5>1. /\ PlanAsked(call[c]) \in PlansAssignable
                      /\ assigned[u] \in PlansAssignable
                      /\ NoPlan \in PlansAssignable
                    BY <3>1, PlanAskedType DEF TypeOK, PlansAssignable
                <5> QED BY <5>1
            <4> QED BY <4>1 DEF Reassigned
        <3>3. assigned' \in [Users -> PlansAssignable]
            BY <2>3, <3>2 DEF Perform, TypeOK
        <3> QED BY <2>3, <3>3 DEF Perform, TypeOK
    <2>4. ASSUME NEW c \in Clients, Return(c) PROVE TypeOK'
        BY <2>4 DEF Return, TypeOK
    <2> QED BY <2>1, <2>2, <2>3, <2>4 DEF Next
<1> QED BY <1>1, <1>2, PTL DEF Spec

(* For one user: what /v1/check answers is what plansByID lists.            *)
LEMMA CheckFeatureAgrees ==
    ASSUME NEW cf \in Configurations, UniquePlanIds(cf),
           NEW plan \in PlansAssignable, NEW f \in Features
    PROVE  CheckFeature(cf, RolesFor(plan), f).allowed
              <=> f \in UserFeatures(cf, RolesFor(plan))
<1>1. CheckFeature(cf, RolesFor(plan), f).plan = UserPlan(cf, RolesFor(plan))
    BY DEF CheckFeature, CheckResult
<1> QED BY <1>1, VerdictIsListed DEF RolesFor, UserFeatures

(* With unique plan ids /v1/check and the listings never disagree.          *)
THEOREM CheckAgrees == Spec => []CheckAgreesWithFeatures
<1>1. TypeOK => CheckAgreesWithFeatures
    BY CheckFeatureAgrees, ConfigsAssumption DEF TypeOK, CheckAgreesWithFeatures
<1> QED BY <1>1, TypeCorrect, PTL

-----------------------------------------------------------------------------
(* What is listed is allowed, also when plan ids repeat.                    *)

\* The rules have every feature that the plan's table entry has.
LEMMA FeaturesAreInPolicies ==
    ASSUME NEW cf \in Configurations, NEW id, NEW f \in PlanFeatures(cf, id)
    PROVE  <<id, f>> \in Policies(cf)
<1> DEFINE S == PlanPositions(cf, id)
<1>1. cf.plans \in Seq([id : PlanIds, features : (SUBSET Features) \ {{}}])
    BY DEF Configurations
<1>2. S # {} /\ f \in cf.plans[Max(S)].features
    BY DEF PlanFeatures, IsConfigured
<1>3. Len(cf.plans) \in Nat /\ S \in SUBSET (1..Len(cf.plans))
    BY <1>1 DEF PlanPositions
<1>4. PICK i \in S : f \in cf.plans[i].features
    BY <1>2, <1>3, MaxInSet
<1>5. i \in DOMAIN cf.plans /\ cf.plans[i].id = id
    BY <1>4 DEF PlanPositions
<1> QED BY <1>4, <1>5 DEF Policies

LEMMA ListedIsAllowed ==
    ASSUME NEW cf \in Configurations, NEW plan \in PlansAssignable,
           NEW f \in UserFeatures(cf, RolesFor(plan))
    PROVE  CheckFeature(cf, RolesFor(plan), f).allowed
<1> DEFINE roles == RolesFor(plan)
<1>1. AllowedFor(cf, UserPlan(cf, roles), Enforce(cf, roles, f), f)
         => CheckFeature(cf, roles, f).allowed
    BY DEF CheckFeature, CheckResult
<1>2. CASE plan = NoPlan
    <2>1. UserPlan(cf, roles) = cf.defaultPlan
        BY <1>2 DEF RolesFor, UserPlan
    <2>2. f \in PlanFeatures(cf, cf.defaultPlan)
        BY <2>1 DEF UserFeatures
    <2>3. cf.defaultPlan # NoPlan
        BY <2>2, NoPlanHasNoFeatures
    <2> QED BY <1>1, <2>1, <2>2, <2>3 DEF AllowedFor
<1>3. CASE plan # NoPlan
    <2>1. roles = {plan} /\ UserPlan(cf, roles) = plan
        BY <1>3 DEF RolesFor, UserPlan
    <2>2. <<plan, f>> \in Policies(cf)
        BY <2>1, FeaturesAreInPolicies DEF UserFeatures
    <2> QED BY <1>1, <2>1, <2>2 DEF Enforce, AllowedFor
<1> QED BY <1>2, <1>3

(* No feature that is listed for a user is denied.                          *)
THEOREM ListedAreAllowed == Spec => []ListedFeaturesAreAllowed
<1>1. TypeOK => ListedFeaturesAreAllowed
    BY ListedIsAllowed, ConfigsAssumption DEF TypeOK, ListedFeaturesAreAllowed
<1> QED BY <1>1, TypeCorrect, PTL

-----------------------------------------------------------------------------
(* Verdict and reason.                                                      *)

Explains(result) ==
    /\ result.allowed <=> result.reason \in {"default_plan", "feature_in_plan"}
    /\ result.reason = "no_subscription" <=> result.plan = NoPlan

\* A user without a plan has no rules, so nothing is allowed.
LEMMA CheckExplains ==
    ASSUME NEW cf \in Configurations, NEW plan \in PlansAssignable, NEW f
    PROVE  Explains(CheckFeature(cf, RolesFor(plan), f))
<1> DEFINE roles == RolesFor(plan)
           held  == UserPlan(cf, roles)
           yes   == AllowedFor(cf, held, Enforce(cf, roles, f), f)
<1>1. CheckFeature(cf, roles, f)
         = [allowed |-> yes, plan |-> held, reason |-> ReasonFor(cf, held, yes)]
    BY DEF CheckFeature, CheckResult
<1>2. yes \in BOOLEAN
    BY DEF AllowedFor, Enforce
<1>3. held = NoPlan => ~yes
    <2> SUFFICES ASSUME held = NoPlan PROVE ~yes
        OBVIOUS
    <2>1. plan = NoPlan /\ cf.defaultPlan = NoPlan /\ roles = {}
        BY DEF RolesFor, UserPlan
    <2> QED BY <2>1 DEF AllowedFor, Enforce
<1> HIDE DEF yes, held
<1>4. Explains([allowed |-> yes, plan |-> held, reason |-> ReasonFor(cf, held, yes)])
    BY <1>2, <1>3 DEF Explains, ReasonFor
<1> QED BY <1>1, <1>4

RepliesExplain ==
    /\ reply = [c \in Clients |-> reply[c]]
    /\ ReasonExplainsVerdict

(* The answer of every check, under any configuration, explains itself.     *)
THEOREM ReasonsExplain == Spec => []ReasonExplainsVerdict
<1>1. Init => RepliesExplain
    BY DEF Init, RepliesExplain, ReasonExplainsVerdict
<1>2. TypeOK /\ RepliesExplain /\ [Next]_vars => RepliesExplain'
    <2> SUFFICES ASSUME TypeOK, RepliesExplain, [Next]_vars PROVE RepliesExplain'
        OBVIOUS
    <2>1. CASE UNCHANGED vars
        BY <2>1 DEF vars, RepliesExplain, ReasonExplainsVerdict
    <2>2. ASSUME NEW c \in Clients, Invoke(c) \/ Return(c) PROVE RepliesExplain'
        BY <2>2 DEF Invoke, Return, TypeOK, RepliesExplain, ReasonExplainsVerdict
    <2>3. ASSUME NEW c \in Clients, Perform(c) PROVE RepliesExplain'
        <3>1. call[c] \in Calls
            BY <2>3 DEF Perform, TypeOK
        <3>2. call[c].op = "CheckFeature" => Explains(Answer(call[c]))
            <4> SUFFICES ASSUME call[c].op = "CheckFeature"
                         PROVE  Explains(Answer(call[c]))
                OBVIOUS
            <4>1. assigned[call[c].user] \in PlansAssignable /\ conf \in Configurations
                BY <3>1, ConfigsAssumption DEF TypeOK, Calls
            <4>2. Answer(call[c])
                     = CheckFeature(conf, RolesFor(assigned[call[c].user]), call[c].feature)
                BY DEF Answer, Changes
            <4> QED BY <4>1, <4>2, CheckExplains
        <3>3. /\ reply' = [d \in Clients |-> IF d = c THEN Answer(call[c]) ELSE reply[d]]
              /\ phase' = [d \in Clients |-> IF d = c THEN "done" ELSE phase[d]]
              /\ call' = call
            BY <2>3 DEF Perform, TypeOK, RepliesExplain
        <3>4. ASSUME NEW d \in Clients, phase'[d] = "done", call[d].op = "CheckFeature"
              PROVE  Explains(reply'[d])
            <4>1. CASE d = c
                BY <3>2, <3>3, <3>4, <4>1
            <4>2. CASE d # c
                BY <3>3, <3>4, <4>2 DEF RepliesExplain, ReasonExplainsVerdict, Explains
            <4> QED BY <4>1, <4>2
        <3> QED BY <3>3, <3>4 DEF RepliesExplain, ReasonExplainsVerdict, Explains
    <2> QED BY <2>1, <2>2, <2>3 DEF Next
<1>3. RepliesExplain => ReasonExplainsVerdict
    BY DEF RepliesExplain
<1> QED BY <1>1, <1>2, <1>3, TypeCorrect, PTL DEF Spec
=============================================================================
