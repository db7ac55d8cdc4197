--------------------------- MODULE ResourceLimits ---------------------------
(***************************************************************************)
(* Plan limits on users, branches, work posts and services                 *)
(* (SubscriptionsRepository.withResourceLimit and its callers).            *)
(*                                                                         *)
(* Creating and restoring run in a READ COMMITTED transaction that locks   *)
(* the tenant row, reads the subscription, counts, and writes.  Deleting   *)
(* takes no lock.  The subscription row is written by webhooks and by the  *)
(* superadmin's upsert, neither of which takes the tenant lock; upsert     *)
(* compares with the usage it counted one statement earlier.               *)
(*                                                                         *)
(* One tenant and one kind of resource: the four kinds share the code and  *)
(* not the count.                                                          *)
(***************************************************************************)
EXTENDS Integers, FiniteSets

CONSTANTS
  Req,        \* requests: create, restore and the superadmin's upsert
  Items,      \* resources that can exist
  None,       \* no subscription row, no request
  Unlimited,  \* max = null
  Subs,       \* rows a webhook may leave
  Limits      \* limits the superadmin may ask for

Statuses == {"TRIALING", "ACTIVE", "PAST_DUE", "PAUSED", "CANCELLED"}

\* trialOver stands for trialEndsAt < now, ended for cancelEffectiveAt being
\* null or past.
Sub == [isTrial: BOOLEAN, trialOver: BOOLEAN, status: Statuses,
        ended: BOOLEAN, max: Nat \cup {Unlimited}]

ASSUME LimitsAssumption ==
  /\ IsFiniteSet(Items) /\ None \notin Req /\ Unlimited \notin Nat
  /\ None \notin Sub
  /\ Subs \subseteq Sub \cup {None} /\ Limits \subseteq Nat \ {0}

VARIABLES
  live, deleted,   \* ids of the rows, by deletedAt
  sub,             \* the subscription row
  tenantLock,      \* the transaction that holds the tenant row
  op, item,        \* op[r], item[r]: what r does, and which row it restores
  pc,
  seen,            \* seen[r]: the subscription r read
  count            \* count[r]: the usage r counted, the limit an upsert writes

vars == <<live, deleted, sub, tenantLock, op, item, pc, seen, count>>

Pcs == {"ready", "lock", "readSub", "count", "find", "write", "admin", "done"}

Init ==
  /\ live = {} /\ deleted = {}
  /\ sub \in Subs
  /\ tenantLock = None
  /\ op = [r \in Req |-> "none"] /\ item = [r \in Req |-> None]
  /\ pc = [r \in Req |-> "ready"]
  /\ seen = [r \in Req |-> None] /\ count = [r \in Req |-> 0]

-----------------------------------------------------------------------------

Goto(r, l) == pc' = [pc EXCEPT ![r] = l]

LimitOf(s) == IF s = None THEN Unlimited ELSE s.max

\* checkLimitTx, before it counts: an expired trial or an inactive subscription.
Denied(s) ==
  /\ s # None
  /\ \/ s.isTrial /\ s.trialOver
     \/ s.status = "CANCELLED" /\ s.ended
     \/ s.status \in {"PAUSED", "PAST_DUE"}

Submit(r) ==
  /\ pc[r] = "ready"
  /\ \/ op' = [op EXCEPT ![r] = "create"] /\ UNCHANGED item
     \/ /\ op' = [op EXCEPT ![r] = "restore"]
        /\ \E i \in Items : item' = [item EXCEPT ![r] = i]
  /\ Goto(r, "lock")
  /\ UNCHANGED <<live, deleted, sub, tenantLock, seen, count>>

\* Mutant of LockTenant: plain SELECT.
LockTenantUnlocked(r) ==
  /\ pc[r] = "lock"
  /\ Goto(r, "readSub")
  /\ UNCHANGED <<live, deleted, sub, tenantLock, op, item, seen, count>>

\* SELECT "id" FROM "tenants" ... FOR UPDATE
LockTenant(r) ==
  /\ pc[r] = "lock" /\ tenantLock = None
  /\ tenantLock' = r
  /\ Goto(r, "readSub")
  /\ UNCHANGED <<live, deleted, sub, op, item, seen, count>>

\* The transaction is rolled back, or the request is refused.
Finish(r) ==
  /\ Goto(r, "done")
  /\ tenantLock' = IF tenantLock = r THEN None ELSE tenantLock
  /\ UNCHANGED <<live, deleted, sub, op, item, seen, count>>

ReadSubscription(r) ==
  /\ pc[r] = "readSub"
  /\ IF Denied(sub) THEN Finish(r)
     ELSE /\ seen' = [seen EXCEPT ![r] = sub]
          /\ Goto(r, IF sub = None THEN "find" ELSE "count")
          /\ UNCHANGED <<live, deleted, sub, tenantLock, op, item, count>>

\* Mutant of CountResource: count <= max.
CountResourceInclusive(r) ==
  /\ pc[r] = "count"
  /\ IF LimitOf(seen[r]) # Unlimited /\ Cardinality(live) > LimitOf(seen[r])
     THEN Finish(r)
     ELSE /\ count' = [count EXCEPT ![r] = Cardinality(live)]
          /\ Goto(r, "find")
          /\ UNCHANGED <<live, deleted, sub, tenantLock, op, item, seen>>

CountResource(r) ==
  /\ pc[r] = "count"
  /\ IF LimitOf(seen[r]) # Unlimited /\ Cardinality(live) >= LimitOf(seen[r])
     THEN Finish(r)
     ELSE /\ count' = [count EXCEPT ![r] = Cardinality(live)]
          /\ Goto(r, "find")
          /\ UNCHANGED <<live, deleted, sub, tenantLock, op, item, seen>>

\* restore reads the row and refuses one that is missing or not deleted;
\* create has nothing to read.
FindRow(r) ==
  /\ pc[r] = "find"
  /\ IF op[r] = "restore" /\ item[r] \notin deleted THEN Finish(r)
     ELSE /\ Goto(r, "write")
          /\ UNCHANGED <<live, deleted, sub, tenantLock, op, item, seen, count>>

\* INSERT of a new row, or UPDATE ... WHERE "deletedAt" IS NOT NULL, and the
\* commit.
Write(r) ==
  /\ pc[r] = "write"
  /\ IF op[r] = "restore" /\ item[r] \notin deleted THEN Finish(r)
     ELSE /\ \E i \in IF op[r] = "restore" THEN {item[r]}
                     ELSE Items \ (live \cup deleted) :
               live' = live \cup {i} /\ deleted' = deleted \ {i}
          /\ tenantLock' = IF tenantLock = r THEN None ELSE tenantLock
          /\ Goto(r, "done")
          /\ UNCHANGED <<sub, op, item, seen, count>>

\* The transaction times out, or the server stops.
Abort(r) ==
  /\ pc[r] \in {"lock", "readSub", "count", "find", "write"}
  /\ Finish(r)

\* upsert counts, compares and writes without a lock.
AdminCount(r) ==
  /\ pc[r] = "ready"
  /\ \E m \in Limits :
       /\ count' = [count EXCEPT ![r] = m]
       /\ IF m < Cardinality(live) THEN Goto(r, "done") ELSE Goto(r, "admin")
  /\ UNCHANGED <<live, deleted, sub, tenantLock, op, item, seen>>

AdminUpsert(r) ==
  /\ pc[r] = "admin"
  /\ sub' = IF sub = None
            THEN [isTrial |-> FALSE, trialOver |-> FALSE, status |-> "TRIALING",
                  ended |-> TRUE, max |-> count[r]]
            ELSE [sub EXCEPT !.max = count[r]]
  /\ Goto(r, "done")
  /\ UNCHANGED <<live, deleted, tenantLock, op, item, seen, count>>

-----------------------------------------------------------------------------
(* The environment *)

\* softDelete.
SoftDelete(i) ==
  /\ i \in live
  /\ live' = live \ {i} /\ deleted' = deleted \cup {i}
  /\ UNCHANGED <<sub, tenantLock, op, item, pc, seen, count>>

\* A webhook, an add-on, a plan change, or the passing of a date.
SubscriptionChanges ==
  /\ sub' \in Subs \ {sub}
  /\ UNCHANGED <<live, deleted, tenantLock, op, item, pc, seen, count>>

-----------------------------------------------------------------------------

Step(r) ==
  \/ LockTenant(r) \/ ReadSubscription(r) \/ CountResource(r) \/ FindRow(r)
  \/ Write(r) \/ AdminUpsert(r)

\* Every request has been answered.
Quiescent ==
  /\ \A r \in Req : pc[r] \in {"ready", "done"}
  /\ UNCHANGED vars

Next ==
  \/ \E r \in Req : Submit(r) \/ AdminCount(r) \/ Step(r) \/ Abort(r)
  \/ \E i \in Items : SoftDelete(i)
  \/ SubscriptionChanges
  \/ Quiescent

Spec == Init /\ [][Next]_vars
-----------------------------------------------------------------------------
(* Properties *)

\* Type correctness, and the tenant row is held by whoever is between the lock
\* and the end of its transaction.
TypeOK ==
  /\ live \subseteq Items /\ deleted \subseteq Items /\ live \cap deleted = {}
  /\ sub \in Sub \cup {None}
  /\ tenantLock \in Req \cup {None}
  /\ op \in [Req -> {"none", "create", "restore"}]
  /\ item \in [Req -> Items \cup {None}]
  /\ pc \in [Req -> Pcs]
  /\ seen \in [Req -> Sub \cup {None}]
  /\ count \in [Req -> Nat]
  /\ \A r \in Req : pc[r] \in {"readSub", "count", "find", "write"} <=> tenantLock = r

\* Whatever creations, restores and changes of the subscription race: a row
\* that is added leaves the usage within the limit its transaction was granted
\* (withResourceLimit).
AddsWithinLimit ==
  [][live' \ live # {} =>
       \E r \in Req :
         /\ pc[r] = "write" /\ pc'[r] = "done"
         /\ LimitOf(seen[r]) # Unlimited => Cardinality(live') <= LimitOf(seen[r])]_vars

\* The inductive invariant behind AddsWithinLimit.
LimitInv ==
  /\ TypeOK
  /\ \A r \in Req :
       pc[r] \in {"find", "write"} /\ LimitOf(seen[r]) # Unlimited
         => Cardinality(live) < LimitOf(seen[r])
=============================================================================
