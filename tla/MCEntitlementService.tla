----------------------- MODULE MCEntitlementService -------------------------
(* A small instance of EntitlementService: two goroutines, two users and    *)
(* two configurations, in one of which a product is mapped to no plan.      *)
EXTENDS EntitlementService

CONSTANTS free, pro, f1, f2, p1, p2

MCPlanIds == {free, pro}

Plans == << [id |-> free, features |-> {f2}], [id |-> pro, features |-> {f1}] >>

MCConfigs ==
    { [plans |-> Plans, defaultPlan |-> free, products |-> products] : products \in
        { << [product |-> p1, plan |-> pro] >>,
          << [product |-> p1, plan |-> pro], [product |-> p2, plan |-> free] >> } }
=============================================================================
