---------------------------- MODULE CatalogProofs ----------------------------
(***************************************************************************)
(* Facts about the operators of Catalog: the lookups return what their     *)
(* types say, and with unique plan ids casbin's merged rules and the       *)
(* plansByID table give a plan the same features.                          *)
(***************************************************************************)
EXTENDS Catalog, WellFoundedInduction, TLAPS

(* A nonempty set of positions has a greatest one.                         *)
LEMMA MaxInSet ==
    ASSUME NEW n \in Nat, NEW S \in SUBSET (1..n), S # {}
    PROVE  Max(S) \in S
<1> DEFINE Below == {n - i : i \in S}
<1>1. Below \subseteq Nat /\ Below # {}
    <2>1. \A i \in S : i \in Int /\ i <= n
        OBVIOUS
    <2>2. \A i \in S : n - i \in Nat
        BY <2>1
    <2> QED BY <2>2
<1>2. PICK d \in Below : \A e \in Below : ~(<<e, d>> \in OpToRel(<, Nat))
    BY <1>1, NatLessThanWellFounded, WFMin, Zenon
<1>3. \A e \in Below : d <= e
    <2> TAKE e \in Below
    <2>1. e \in Nat /\ d \in Nat
        BY <1>1
    <2>2. ~(e < d)
        BY <1>2, <2>1 DEF OpToRel
    <2> QED BY <2>1, <2>2
<1>4. PICK m \in S : d = n - m
    OBVIOUS
<1>5. \A i \in S : m >= i
    <2> TAKE i \in S
    <2>1. n - i \in Below
        OBVIOUS
    <2> QED BY <1>3, <1>4, <2>1
<1> QED BY <1>4, <1>5 DEF Max

LEMMA ElementInSet ==
    ASSUME NEW T, NEW s \in Seq(T), NEW i \in 1..Len(s)
    PROVE  s[i] \in T
OBVIOUS

(* buildLookups never maps a product to anything but a configured mapping's *)
(* plan or the empty id.                                                    *)
LEMMA ResolveType ==
    ASSUME NEW conf \in Configurations, NEW p
    PROVE  ResolvePlanFromProduct(conf, p) \in PlanIds \cup {NoPlan}
<1> DEFINE S == MappingPositions(conf, p)
<1> HIDE DEF S
<1>0. S = MappingPositions(conf, p) /\ S \subseteq DOMAIN conf.products
    BY DEF S, MappingPositions
<1>1. CASE S = {}
    BY <1>0, <1>1 DEF ResolvePlanFromProduct
<1>2. CASE S # {}
    <2>1. conf.products \in Seq([product : Products, plan : PlanIds])
        BY DEF Configurations
    <2>2. Len(conf.products) \in Nat /\ S \in SUBSET (1..Len(conf.products))
        BY <1>0, <2>1
    <2>3. Max(S) \in S
        BY <1>2, <2>2, MaxInSet
    <2>4. conf.products[Max(S)] \in [product : Products, plan : PlanIds]
        BY <2>1, <2>2, <2>3, ElementInSet
    <2>5. conf.products[Max(S)].plan \in PlanIds
        BY <2>4
    <2> QED BY <1>0, <1>2, <2>5 DEF ResolvePlanFromProduct
<1> QED BY <1>1, <1>2

(* getUserPlan returns a plan id or the empty one.                          *)
LEMMA UserPlanType ==
    ASSUME NEW conf \in Configurations, NEW r \in SUBSET PlanIds
    PROVE  UserPlan(conf, r) \in PlanIds \cup {NoPlan}
BY DEF UserPlan, Configurations

(* With unique plan ids the rules loadPolicies adds for a plan are the      *)
(* features its plansByID entry lists.                                      *)
LEMMA PoliciesAreFeatures ==
    ASSUME NEW conf \in Configurations, UniquePlanIds(conf), NEW id, NEW f
    PROVE  <<id, f>> \in Policies(conf) <=> f \in PlanFeatures(conf, id)
<1> DEFINE S == PlanPositions(conf, id)
<1>1. conf.plans \in Seq([id : PlanIds, features : (SUBSET Features) \ {{}}])
    BY DEF Configurations
<1>2. <<id, f>> \in Policies(conf) <=> \E i \in S : f \in conf.plans[i].features
    BY DEF Policies, PlanPositions
<1>3. CASE S = {}
    BY <1>2, <1>3 DEF PlanFeatures, IsConfigured
<1>4. CASE S # {}
    <2>1. Len(conf.plans) \in Nat /\ S \in SUBSET (1..Len(conf.plans))
        BY <1>1 DEF PlanPositions
    <2>2. Max(S) \in S
        BY <1>4, <2>1, MaxInSet
    <2>3. \A i \in S : i = Max(S)
        BY <2>2 DEF PlanPositions, UniquePlanIds
    <2>4. PlanFeatures(conf, id) = conf.plans[Max(S)].features
        BY <1>4 DEF PlanFeatures, IsConfigured
    <2> QED BY <1>2, <2>2, <2>3, <2>4
<1> QED BY <1>3, <1>4

(* The empty plan id is that of no plan.                                   *)
LEMMA NoPlanHasNoFeatures ==
    ASSUME NEW cf \in Configurations
    PROVE  PlanFeatures(cf, NoPlan) = {}
<1>1. cf.plans \in Seq([id : PlanIds, features : (SUBSET Features) \ {{}}])
    BY DEF Configurations
<1>2. ASSUME NEW i \in 1..Len(cf.plans) PROVE cf.plans[i].id \in PlanIds
    <2>1. cf.plans[i] \in [id : PlanIds, features : (SUBSET Features) \ {{}}]
        BY <1>1, ElementInSet
    <2> QED BY <2>1
<1>3. PlanPositions(cf, NoPlan) = {}
    BY <1>1, <1>2, NoPlanAssumption DEF PlanPositions
<1> QED BY <1>3 DEF PlanFeatures, IsConfigured

(* With unique plan ids a check of somebody who has the plan, or of somebody *)
(* who has none, allows what plansByID lists for the plan it answers with.   *)
LEMMA VerdictIsListed ==
    ASSUME NEW conf \in Configurations, UniquePlanIds(conf), NEW plan, NEW f
    PROVE  CheckFeature(conf, {plan} \ {NoPlan}, f).allowed
              <=> f \in PlanFeatures(conf, CheckFeature(conf, {plan} \ {NoPlan}, f).plan)
<1> DEFINE roles == {plan} \ {NoPlan}
           answer == UserPlan(conf, roles)
           enforced == Enforce(conf, roles, f)
<1>1. /\ CheckFeature(conf, roles, f).plan = answer
      /\ CheckFeature(conf, roles, f).allowed = AllowedFor(conf, answer, enforced, f)
    BY DEF CheckFeature, CheckResult
<1>2. CASE plan = NoPlan
    <2>1. roles = {}
        BY <1>2
    <2>2. answer = conf.defaultPlan /\ ~enforced
        BY <2>1 DEF UserPlan, Enforce
    <2> QED BY <1>1, <2>2, NoPlanHasNoFeatures DEF AllowedFor
<1>3. CASE plan # NoPlan
    <2>1. roles = {plan}
        BY <1>3
    <2>2. answer = plan
        BY <2>1 DEF UserPlan
    <2>3. enforced <=> f \in PlanFeatures(conf, plan)
        BY <2>1, PoliciesAreFeatures DEF Enforce
    <2> QED BY <1>1, <2>2, <2>3 DEF AllowedFor
<1> QED BY <1>2, <1>3
=============================================================================
