-------------------------- MODULE MCWebhookIntake ---------------------------
(* Small instances of WebhookIntake. They differ in who owns the            *)
(* subscriptions, in how the provider is assumed to send and in what can    *)
(* go wrong. Product p1 is mapped to plan pro, every other one to no plan.  *)
EXTENDS WebhookIntake, TLC

CONSTANTS s1, s2, u1, u2, p1, free, pro

MCPlanIds == {free, pro}

MCPlanFor == [p \in Products |-> IF p = p1 THEN pro ELSE NoPlan]

MCEndpoints == <<"a", "b">>

OneSubscription     == s1 :> u1
OneSubscriptionEach == s1 :> u1 @@ s2 :> u2
TwoOfOneUser        == s1 :> u1 @@ s2 :> u1

AnyHandler == Permutations(Handlers)
=============================================================================
