--------------------------- MODULE MCPricingCache ---------------------------
(* Two plans, of which one has two products; a product without a plan. The  *)
(* offers differ in every plan, and one of them has a price that is not a   *)
(* number. Variants with the same sort are among them.                      *)
EXTENDS PricingCache

CONSTANTS a, b, c, other

MCPlans == <<"basic", "pro">>

MCProductToPlan == [p \in {a, b, c} |-> IF p = a THEN "basic" ELSE "pro"]

Variant(product, sort) ==
    [product |-> product, sort |-> sort, published |-> TRUE, price |-> "number"]

First  == {Variant(a, 1), Variant(b, 2), Variant(c, 2), Variant(other, 1)}
Second == {Variant(a, 2), Variant(b, 3), Variant(c, 1),
           [Variant(a, 1) EXCEPT !.published = FALSE]}
Third  == {Variant(b, 1), [Variant(a, 3) EXCEPT !.price = "other"],
           [Variant(c, 1) EXCEPT !.price = "other", !.published = FALSE]}

MCOffers   == {First, Second, Third}
MCVariants == UNION MCOffers
=============================================================================
