--------------------------- MODULE MCSubscriptions ---------------------------
(***************************************************************************)
(* Instances of Subscriptions for TLC: two tiers, one add-on quantity.     *)
(***************************************************************************)
EXTENDS Subscriptions, TLC

MCPlanLimits == [t \in {"TRIAL", "STARTER", "BUSINESS"} |->
                IF t = "TRIAL" THEN 3 ELSE IF t = "STARTER" THEN 1 ELSE Nothing]

Perms == Permutations(Tasks)
==============================================================================
