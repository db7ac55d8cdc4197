-------------------------- MODULE MCResourceLimits --------------------------
(***************************************************************************)
(* Instances of ResourceLimits for TLC.                                    *)
(***************************************************************************)
EXTENDS ResourceLimits, TLC

Row(t, o, s, e, m) ==
  [isTrial |-> t, trialOver |-> o, status |-> s, ended |-> e, max |-> m]

\* No row, a trial and its end, an active plan with a smaller, a larger and no
\* limit, and the statuses that deny.
SomeSubs ==
  { None, Row(TRUE, FALSE, "TRIALING", TRUE, 2), Row(TRUE, TRUE, "TRIALING", TRUE, 2),
    Row(FALSE, FALSE, "ACTIVE", TRUE, 1), Row(FALSE, FALSE, "ACTIVE", TRUE, Unlimited),
    Row(FALSE, FALSE, "CANCELLED", FALSE, 2), Row(FALSE, FALSE, "CANCELLED", TRUE, 2),
    Row(FALSE, FALSE, "PAST_DUE", TRUE, 1) }

Perms == Permutations(Req) \cup Permutations(Items)
=============================================================================
