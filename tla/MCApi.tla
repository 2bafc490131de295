------------------------------- MODULE MCApi --------------------------------
(* A small instance of Api: one user, one subscription, one client. Product *)
(* p1 is mapped to plan pro and p2 to no plan; plan pro names a feature     *)
(* that is not defined. What the client may ask is every combination that   *)
(* is answered differently.                                                 *)
EXTENDS Api, TLC

CONSTANTS s1, u1, p1, free, pro, f1, f2, f3

MCPlanIds == {free, pro}

MCConf == [ plans |-> << [id |-> free, features |-> {f1}],
                         [id |-> pro, features |-> {f1, f2, f3}] >>,
            products |-> << [product |-> p1, plan |-> pro] >>,
            defaultPlan |-> free ]

MCPlanFor == [p \in Products |-> IF p = p1 THEN pro ELSE NoPlan]

MCOwner == s1 :> u1
MCEndpoints == <<"a">>
MCMetricsPath == <<"metrics">>

Get(path, key, feature, expand) ==
    [method |-> "GET", path |-> path, key |-> key, proxied |-> TRUE, input |-> "valid",
     user |-> u1, feature |-> feature, expand |-> expand]

User == <<"v1", "users", u1>>
Check == <<"v1", "check">>

\* Requests that are answered with the user's state.
Reads == { Get(User, "right", f1, {"features", "subscription"}),
           Get(Check, "right", f2, {"plan.features"}),
           Get(Check, "right", f3, {"plan.features"}) }

\* Requests that are not.
Others ==
    { [Get(User, "wrong", f1, {}) EXCEPT !.input = "undecodable"],
      Get(Check, "none", f1, {}),
      [Get(Check, "right", f1, {}) EXCEPT !.input = "invalid"],
      [Get(User, "right", f1, {}) EXCEPT !.input = "undecodable"],
      [Get(User, "right", f1, {}) EXCEPT !.method = "DELETE"],
      Get(<<"v1", "nothing">>, "right", f1, {}),
      Get(<<"metrics">>, "none", f1, {}),
      Get(<<"v1", "features", f3>>, "right", f1, {}),
      Get(<<"v1", "plans", pro>>, "right", f1, {}) }

MCRequests == Reads \cup Others
=============================================================================
