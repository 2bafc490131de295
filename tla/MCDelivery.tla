----------------------------- MODULE MCDelivery -----------------------------
(* Three endpoints: one that works, one that works and may disappear from   *)
(* the configuration, one that never answers.                               *)
EXTENDS Delivery, TLC

CONSTANTS m1, m2, m3, works, leaves, dead

MCTo == m1 :> works @@ m2 :> leaves @@ m3 :> dead

MCConfigs == {{works, leaves, dead}, {works, dead}}
=============================================================================
