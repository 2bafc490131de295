------------------------------ MODULE Catalog ------------------------------
(***************************************************************************)
(* The configured catalog of plans and products, and the decisions the     *)
(* entitlement service derives from it and from a user's casbin roles:     *)
(* buildLookups, loadPolicies and the bodies of CheckFeature, GetUserPlan  *)
(* and GetUserFeatures of internal/entitlements/service.go.                *)
(*                                                                         *)
(* A configuration is a record                                             *)
(*   plans       : the sequence of configured plans [id, features]         *)
(*   products    : the sequence of mappings [product, plan]                *)
(*   defaultPlan : a plan id, or NoPlan when default_plan is not set       *)
(* Nothing makes plan ids or product ids unique, and a product or the      *)
(* default may name a plan that is not configured.                         *)
(***************************************************************************)
EXTENDS Integers, Sequences, FiniteSetsExt

CONSTANTS
    PlanIds,    \* the plan ids a configuration may mention
    Features,   \* the feature ids
    Products,   \* the product ids of the billing provider
    NoPlan      \* the empty string

ASSUME NoPlanAssumption == NoPlan \notin PlanIds

Configurations ==
    [ plans       : Seq([id : PlanIds, features : (SUBSET Features) \ {{}}]) \ {<<>>},
      products    : Seq([product : Products, plan : PlanIds]),
      defaultPlan : PlanIds \cup {NoPlan} ]

-----------------------------------------------------------------------------
(* The lookup tables of buildLookups: Go maps filled in order, so that of   *)
(* several entries with one key the last one stays.                         *)

PlanPositions(conf, id) == {i \in DOMAIN conf.plans : conf.plans[i].id = id}

IsConfigured(conf, id) == PlanPositions(conf, id) # {}

\* plansByID[id].Features, and nothing for a plan id that is not configured.
PlanFeatures(conf, id) ==
    IF IsConfigured(conf, id)
    THEN conf.plans[Max(PlanPositions(conf, id))].features
    ELSE {}

MappingPositions(conf, product) ==
    {i \in DOMAIN conf.products : conf.products[i].product = product}

ResolvePlanFromProduct(conf, product) ==
    IF MappingPositions(conf, product) = {}
    THEN NoPlan
    ELSE conf.products[Max(MappingPositions(conf, product))].plan

\* As a bug would have it: a plan id that is already known is skipped.
PoliciesOfFirst(conf) ==
    UNION {{<<conf.plans[i].id, f>> : f \in conf.plans[i].features} :
              i \in {j \in DOMAIN conf.plans :
                        j = Min(PlanPositions(conf, conf.plans[j].id))}}

\* The rules loadPolicies adds: one for every plan entry and feature, so the
\* entries that share an id are merged here and not in plansByID.
Policies(conf) ==
    UNION {{<<conf.plans[i].id, f>> : f \in conf.plans[i].features} :
              i \in DOMAIN conf.plans}

-----------------------------------------------------------------------------
(* The decisions. roles is the set of plans casbin's grouping policy gives  *)
(* the user; a plan id is never also a user id.                             *)

Enforce(conf, roles, feature) ==
    \E plan \in roles : <<plan, feature>> \in Policies(conf)

\* roles[0], or the default plan.
UserPlan(conf, roles) ==
    IF roles = {} THEN conf.defaultPlan ELSE CHOOSE plan \in roles : TRUE

\* As a bug would have it: the default plan's own features are not consulted.
AllowedByEnforcerOnly(conf, plan, enforced, feature) == enforced

\* The decision from the plan read before and the enforcer's verdict: users
\* on the default plan have no role, so their features are looked up.
AllowedFor(conf, plan, enforced, feature) ==
    \/ enforced
    \/ /\ plan = conf.defaultPlan
       /\ conf.defaultPlan # NoPlan
       /\ feature \in PlanFeatures(conf, conf.defaultPlan)

\* As a bug would have it: the default plan is recognised before the verdict.
ReasonByPlanFirst(conf, plan, allowed) ==
    CASE plan = NoPlan                             -> "no_subscription"
      [] plan # NoPlan /\ plan = conf.defaultPlan  -> "default_plan"
      [] plan # NoPlan /\ plan # conf.defaultPlan  ->
             IF allowed THEN "feature_in_plan" ELSE "insufficient_plan"

ReasonFor(conf, plan, allowed) ==
    CASE plan = NoPlan                                 -> "no_subscription"
      [] plan # NoPlan /\ allowed /\ plan = conf.defaultPlan -> "default_plan"
      [] plan # NoPlan /\ allowed /\ plan # conf.defaultPlan -> "feature_in_plan"
      [] plan # NoPlan /\ ~allowed                     -> "insufficient_plan"

CheckResult(conf, plan, enforced, feature) ==
    LET allowed == AllowedFor(conf, plan, enforced, feature)
    IN  [ allowed |-> allowed,
          plan    |-> plan,
          reason  |-> ReasonFor(conf, plan, allowed) ]

CheckFeature(conf, roles, feature) ==
    CheckResult(conf, UserPlan(conf, roles), Enforce(conf, roles, feature), feature)

UserFeatures(conf, roles) == PlanFeatures(conf, UserPlan(conf, roles))

UniquePlanIds(conf) ==
    \A i, j \in DOMAIN conf.plans : conf.plans[i].id = conf.plans[j].id => i = j
=============================================================================
