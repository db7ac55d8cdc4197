---------------------------- MODULE MCIdempotency ----------------------------
(***************************************************************************)
(* Instances of Idempotency for TLC: three deliveries of calls for one       *)
(* order and under one key.                                                *)
(***************************************************************************)
EXTENDS Idempotency, TLC

MCTotal == [o \in Orders |-> 3]

Pay(o, k, n, a) ==
  [kind |-> "payment", order |-> o, key |-> k, amount |-> n, actor |-> a]
Book(k, a) ==
  [kind |-> "order", order |-> None, key |-> k, amount |-> 0, actor |-> a]

\* Order creations and payments under the same key, the same call sent again,
\* another amount and another user under the key, and calls without a key.
MixedCalls ==
  { Book(k, a) : k \in Keys, a \in {"a", "b"} } \cup { Book(None, "a") }
    \cup { Pay(o, k, 2, "a") : o \in Orders, k \in Keys }
    \cup { Pay(o, k, 1, "b") : o \in Orders, k \in Keys \cup {None} }

Perms == Permutations(Req)
=============================================================================
