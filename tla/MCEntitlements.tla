--------------------------- MODULE MCEntitlements ---------------------------
(* A small instance of Entitlements: the service under configurations with  *)
(* and without a default plan, with a plan id given twice, with a product   *)
(* mapped twice and with mappings to plans that are not configured.         *)
EXTENDS Entitlements

CONSTANTS free, pro, ghost, f1, f2, p1, p2

MCPlanIds == {free, pro, ghost}

Entry(id, features) == [id |-> id, features |-> features]
Maps(product, plan) == [product |-> product, plan |-> plan]

PlanLists ==
    { <<Entry(free, {f1}), Entry(pro, {f1, f2})>>,
      <<Entry(free, {f1}), Entry(pro, {f1}), Entry(pro, {f2})>>,
      <<Entry(free, {f1}), Entry(free, {f2})>> }

ProductLists ==
    { <<Maps(p1, pro)>>,
      <<Maps(p1, ghost), Maps(p2, free)>>,
      <<Maps(p1, free), Maps(p1, pro), Maps(p2, ghost)>> }

MCConfigs ==
    [ plans : PlanLists, products : ProductLists, defaultPlan : {NoPlan, free, ghost} ]
=============================================================================
