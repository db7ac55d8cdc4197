---------------------------- MODULE BillingProofs ----------------------------
(***************************************************************************)
(* What the billing of a tenant rests on: creations and restores stay      *)
(* within the limit they were granted (ResourceLimits), readers of the     *)
(* prices share one refresh (PriceCache), and a webhook event is handled   *)
(* by one delivery at a time (Subscriptions), for any number of requests,  *)
(* rows, readers, refreshes and other calls of Paddle, and of deliveries   *)
(* that overlap, fail and stop half way.                                   *)
(***************************************************************************)
EXTENDS ResourceLimits, PriceCache, Subscriptions, FiniteSetTheorems, TLAPS

-----------------------------------------------------------------------------
(* The plan's limits *)

\* Every set of rows is finite, and its cardinality grows by one with a new row
\* and never with a removal.
LEMMA RowCount ==
  ASSUME NEW S, S \subseteq Items
  PROVE  /\ IsFiniteSet(S) /\ Cardinality(S) \in Nat
         /\ \A i : Cardinality(S \cup {i}) <= Cardinality(S) + 1
         /\ \A i : Cardinality(S \ {i}) <= Cardinality(S)
<1>1. IsFiniteSet(S)
  BY LimitsAssumption, FS_Subset
<1>2. Cardinality(S) \in Nat
  BY <1>1, FS_CardinalityType
<1>3. \A i : Cardinality(S \cup {i}) <= Cardinality(S) + 1
  BY <1>1, <1>2, FS_AddElement
<1>4. \A i : Cardinality(S \ {i}) <= Cardinality(S)
  <2> SUFFICES ASSUME NEW i PROVE Cardinality(S \ {i}) <= Cardinality(S)
    OBVIOUS
  <2>1. S \ {i} \subseteq S
    OBVIOUS
  <2> QED BY <1>1, <2>1, FS_Subset
<1> QED BY <1>1, <1>2, <1>3, <1>4

\* The limit of a row is a number or Unlimited.
LEMMA LimitType ==
  ASSUME NEW s \in Sub \cup {None}
  PROVE  LimitOf(s) \in Nat \cup {Unlimited}
BY LimitsAssumption DEF LimitOf, Sub

\* The initial states satisfy the inductive invariant.
LEMMA LimitInit == Init => LimitInv
<1> SUFFICES ASSUME Init PROVE LimitInv
  OBVIOUS
<1> QED BY LimitsAssumption DEF Init, LimitInv, TypeOK, Pcs

\* Every step of every request, and of the environment, preserves it.
LEMMA LimitStep == LimitInv /\ [Next]_vars => LimitInv'
<1> SUFFICES ASSUME LimitInv, [Next]_vars PROVE LimitInv'
  OBVIOUS
<1> USE DEF LimitInv
<1> USE LimitsAssumption
<1>f. ASSUME NEW r \in Req, Finish(r) PROVE LimitInv'
  BY <1>f DEF Finish, Goto, TypeOK, Pcs
<1>1. ASSUME NEW r \in Req, Submit(r) PROVE LimitInv'
  BY <1>1 DEF Submit, Goto, TypeOK, Pcs
<1>2. ASSUME NEW r \in Req, AdminCount(r) PROVE LimitInv'
  BY <1>2 DEF AdminCount, Goto, TypeOK, Pcs
<1>3. ASSUME NEW r \in Req, LockTenant(r) PROVE LimitInv'
  BY <1>3 DEF LockTenant, Goto, TypeOK, Pcs
<1>4. ASSUME NEW r \in Req, ReadSubscription(r) PROVE LimitInv'
  <2>1. CASE Denied(sub)
    BY <1>4, <2>1, <1>f DEF ReadSubscription
  <2>2. CASE ~Denied(sub)
    BY <1>4, <2>2 DEF ReadSubscription, Goto, TypeOK, Pcs, LimitOf
  <2> QED BY <2>1, <2>2
<1>5. ASSUME NEW r \in Req, CountResource(r) PROVE LimitInv'
  <2>1. Cardinality(live) \in Nat
    BY RowCount DEF TypeOK
  <2>2. LimitOf(seen[r]) \in Nat \cup {Unlimited}
    BY LimitType DEF TypeOK
  <2>3. CASE LimitOf(seen[r]) # Unlimited /\ Cardinality(live) >= LimitOf(seen[r])
    BY <1>5, <2>3, <1>f DEF CountResource
  <2>4. CASE ~(LimitOf(seen[r]) # Unlimited /\ Cardinality(live) >= LimitOf(seen[r]))
    <3>1. TypeOK'
      BY <1>5, <2>4, <2>1 DEF CountResource, Goto, TypeOK, Pcs
    <3>2. LimitOf(seen[r]) # Unlimited => Cardinality(live) < LimitOf(seen[r])
      BY <2>1, <2>2, <2>4
    <3> QED BY <1>5, <2>4, <3>1, <3>2 DEF CountResource, Goto, TypeOK, Pcs
  <2> QED BY <2>3, <2>4
<1>6. ASSUME NEW r \in Req, FindRow(r) PROVE LimitInv'
  <2>1. CASE op[r] = "restore" /\ item[r] \notin deleted
    BY <1>6, <2>1, <1>f DEF FindRow
  <2>2. CASE ~(op[r] = "restore" /\ item[r] \notin deleted)
    BY <1>6, <2>2 DEF FindRow, Goto, TypeOK, Pcs
  <2> QED BY <2>1, <2>2
<1>7. ASSUME NEW r \in Req, Write(r) PROVE LimitInv'
  <2>1. CASE op[r] = "restore" /\ item[r] \notin deleted
    BY <1>7, <2>1, <1>f DEF Write
  <2>2. CASE ~(op[r] = "restore" /\ item[r] \notin deleted)
    <3>1. TypeOK'
      BY <1>7, <2>2 DEF Write, Goto, TypeOK, Pcs
    \* the writer held the tenant row, so nobody else has been granted a slot
    <3>2. \A q \in Req : pc'[q] \notin {"find", "write"}
      BY <1>7, <2>2 DEF Write, Goto, TypeOK
    <3> QED BY <3>1, <3>2
  <2> QED BY <2>1, <2>2
<1>8. ASSUME NEW r \in Req, AdminUpsert(r) PROVE LimitInv'
  BY <1>8 DEF AdminUpsert, Goto, TypeOK, Pcs, Sub, Statuses
<1>9. ASSUME NEW r \in Req, Abort(r) PROVE LimitInv'
  BY <1>9, <1>f DEF Abort
<1>10. ASSUME NEW i \in Items, SoftDelete(i) PROVE LimitInv'
  <2>1. TypeOK'
    BY <1>10 DEF SoftDelete, TypeOK
  <2>2. /\ Cardinality(live) \in Nat /\ Cardinality(live') \in Nat
        /\ Cardinality(live') <= Cardinality(live)
    BY <1>10, <2>1, RowCount DEF SoftDelete, TypeOK
  <2>3. \A r \in Req : LimitOf(seen[r]) \in Nat \cup {Unlimited}
    BY LimitType DEF TypeOK
  <2> QED BY <1>10, <2>1, <2>2, <2>3 DEF SoftDelete
<1>11. ASSUME SubscriptionChanges PROVE LimitInv'
  BY <1>11 DEF SubscriptionChanges, TypeOK
<1>12. ASSUME UNCHANGED vars PROVE LimitInv'
  BY <1>12 DEF vars, TypeOK
<1> QED
  BY <1>1, <1>2, <1>3, <1>4, <1>5, <1>6, <1>7, <1>8, <1>9, <1>10, <1>11, <1>12
  DEF Next, Step, Quiescent

\* A step that adds a row is the commit of a transaction that was granted it.
LEMMA AddStep ==
  LimitInv /\ [Next]_vars =>
    [live' \ live # {} =>
       \E r \in Req :
         /\ pc[r] = "write" /\ pc'[r] = "done"
         /\ LimitOf(seen[r]) # Unlimited => Cardinality(live') <= LimitOf(seen[r])]_vars
<1> SUFFICES ASSUME LimitInv, Next, live' \ live # {}
             PROVE  \E r \in Req :
                      /\ pc[r] = "write" /\ pc'[r] = "done"
                      /\ LimitOf(seen[r]) # Unlimited
                           => Cardinality(live') <= LimitOf(seen[r])
  BY DEF vars
<1>1. PICK r \in Req : Write(r)
  BY DEF Next, Step, Submit, AdminCount, LockTenant, ReadSubscription, Finish,
         CountResource, FindRow, AdminUpsert, Abort, SoftDelete,
         SubscriptionChanges, Quiescent, vars
<1>2. pc[r] = "write" /\ pc'[r] = "done" /\ \E i : live' = live \cup {i}
  BY <1>1 DEF Write, Finish, Goto, LimitInv, TypeOK
<1>3. /\ Cardinality(live) \in Nat /\ Cardinality(live') \in Nat
      /\ Cardinality(live') <= Cardinality(live) + 1
  <2>1. live \subseteq Items /\ live' \subseteq Items
    BY LimitStep DEF LimitInv, TypeOK
  <2> QED BY <1>2, <2>1, RowCount
<1>4. LimitOf(seen[r]) # Unlimited => Cardinality(live') <= LimitOf(seen[r])
  <2>1. LimitOf(seen[r]) \in Nat \cup {Unlimited}
    BY LimitType DEF LimitInv, TypeOK
  <2>2. LimitOf(seen[r]) # Unlimited => Cardinality(live) < LimitOf(seen[r])
    BY <1>2 DEF LimitInv
  <2> QED BY <1>3, <2>1, <2>2
<1> QED BY <1>2, <1>4

\* Type correctness, and the tenant row is held exactly between the lock and the
\* end of a transaction (withResourceLimit).
THEOREM LimitsTypeCorrect == Spec => []TypeOK
<1>1. LimitInv => TypeOK
  BY DEF LimitInv
<1> QED BY LimitInit, LimitStep, <1>1, PTL DEF Spec

\* However creations, restores and changes of the subscription interleave, a
\* row that is added leaves the usage within the limit its transaction read
\* (withResourceLimit).
THEOREM LimitKept == Spec => AddsWithinLimit
BY LimitInit, LimitStep, AddStep, PTL DEF Spec, AddsWithinLimit

-----------------------------------------------------------------------------
(* The price cache *)

Stages == {"idle", "fetching", "storing"}
Places == {"idle", "missed", "waiting", "reread"}

PricesTyped ==
  /\ refresh \in [Refreshers -> Stages]
  /\ refreshPromise \in Demand \cup {Null}
  /\ reader \in [Readers -> Places]

\* The inductive invariant of the price cache.
PriceInv == PricesTyped /\ RefreshShared

\* The hourly job and Null are no refreshes on demand.
LEMMA DemandApart == Null \notin Demand /\ Cron \notin Demand /\ Demand \subseteq Refreshers
BY PriceCacheAssumption DEF Refreshers

LEMMA PriceInit == PInit => PriceInv
<1> SUFFICES ASSUME PInit PROVE PriceInv
  OBVIOUS
<1>1. PricesTyped
  BY DEF PInit, PricesTyped, Stages, Places
<1>2. RefreshShared
  BY DemandApart DEF PInit, RefreshShared
<1>q. QED BY <1>1, <1>2 DEF PriceInv

\* Nothing that the invariant speaks of changes.
LEMMA SameRefreshes ==
  ASSUME PriceInv, UNCHANGED <<refresh, refreshPromise, reader>>
  PROVE  PriceInv'
<1>1. PricesTyped'
  BY DEF PriceInv, PricesTyped
<1>2. RefreshShared'
  BY DEF PriceInv, RefreshShared
<1>q. QED BY <1>1, <1>2 DEF PriceInv

\* A refresh goes from one stage to the next without ending.
LEMMA NextStage ==
  ASSUME PriceInv, NEW t \in Refreshers, NEW p \in Stages \ {"idle"},
         refresh[t] # "idle" \/ t = Cron,
         refresh' = [refresh EXCEPT ![t] = p], UNCHANGED <<refreshPromise, reader>>
  PROVE  PriceInv'
<1>1. PricesTyped'
  BY DEF PriceInv, PricesTyped
<1>2. \A d \in Demand : refresh'[d] # "idle" <=> refresh[d] # "idle"
  BY DemandApart DEF PriceInv, PricesTyped
<1>3. RefreshShared'
  BY <1>2 DEF PriceInv, RefreshShared
<1>q. QED BY <1>1, <1>3 DEF PriceInv

\* The end of a refresh releases the readers that wait for it, and no others.
LEMMA EndsKeeps ==
  ASSUME PriceInv, NEW t \in Refreshers, NEW kept, Ends(t, kept)
  PROVE  PriceInv'
<1>1. /\ refresh' = [refresh EXCEPT ![t] = "idle"]
      /\ refreshPromise' = IF refreshPromise = t THEN Null ELSE refreshPromise
      /\ reader' = [r \in Readers |->
                     IF refreshPromise = t /\ reader[r] = "waiting"
                     THEN IF kept THEN "reread" ELSE "idle"
                     ELSE reader[r]]
  BY DEF Ends
<1>2. PricesTyped'
  BY <1>1 DEF PriceInv, PricesTyped, Stages, Places
<1>3. \A d \in Demand : refresh'[d] # "idle" <=> refreshPromise' = d
  BY <1>1, DemandApart DEF PriceInv, PricesTyped, RefreshShared
<1>4. \A r \in Readers : reader'[r] = "waiting" => refreshPromise' \in Demand
  BY <1>1 DEF PriceInv, RefreshShared
<1>q. QED BY <1>2, <1>3, <1>4 DEF PriceInv, RefreshShared

LEMMA RefreshStepKeeps ==
  ASSUME PriceInv, NEW t \in Refreshers, RefreshStep(t)
  PROVE  PriceInv'
<1>1. CASE \E kept : Ends(t, kept)
  BY <1>1, EndsKeeps
<1>2. CASE /\ refresh[t] = "fetching"
           /\ refresh' = [refresh EXCEPT ![t] = "storing"]
           /\ UNCHANGED <<refreshPromise, reader>>
  BY <1>2, NextStage DEF Stages
<1>3. CASE Store(t)
  BY <1>1, <1>3 DEF Store
<1>q. QED BY <1>1, <1>2, <1>3 DEF RefreshStep, FetchSucceeds, FetchFails

\* One reader goes on, and waits only for a refresh that is shared.
LEMMA ReaderGoes ==
  ASSUME PriceInv, NEW r \in Readers, NEW p \in Places,
         reader' = [reader EXCEPT ![r] = p], UNCHANGED <<refresh, refreshPromise>>,
         p = "waiting" => refreshPromise \in Demand
  PROVE  PriceInv'
<1>1. PricesTyped'
  BY DEF PriceInv, PricesTyped
<1>2. RefreshShared'
  BY DEF PriceInv, PricesTyped, RefreshShared
<1>q. QED BY <1>1, <1>2 DEF PriceInv

\* A refresh on demand starts only when none is under way.
LEMMA StartKeeps ==
  ASSUME PriceInv, NEW r \in Readers, refreshPromise = Null, StartRefresh,
         reader' = [reader EXCEPT ![r] = "waiting"]
  PROVE  PriceInv'
<1>1. \A d \in Demand : refresh[d] = "idle"
  BY DemandApart DEF PriceInv, PricesTyped, RefreshShared, Stages
<1>2. \E d \in Demand : refresh[d] = "idle"
  BY <1>1, PriceCacheAssumption
<1>3. NewRefresh \in Demand
  BY <1>2 DEF NewRefresh
<1>4. PICK n \in Demand : /\ refresh' = [refresh EXCEPT ![n] = "fetching"]
                          /\ refreshPromise' = n
  BY <1>3 DEF StartRefresh, Fetch
<1>5. PricesTyped'
  BY <1>4 DEF PriceInv, PricesTyped, Stages, Places
<1>6. \A d \in Demand : refresh'[d] # "idle" <=> refreshPromise' = d
  BY <1>1, <1>4, DemandApart DEF PriceInv, PricesTyped
<1>q. QED BY <1>4, <1>5, <1>6 DEF PriceInv, RefreshShared

LEMMA ReaderKeeps ==
  ASSUME PriceInv, NEW r \in Readers, Read(r) \/ ReaderStep(r)
  PROVE  PriceInv'
<1>1. CASE Read(r) \/ RefreshSkipped(r) \/ Reread(r)
  <2>1. /\ UNCHANGED <<refresh, refreshPromise>>
        /\ \E p \in Places \ {"waiting"} : reader' = [reader EXCEPT ![r] = p]
    BY <1>1 DEF Read, RefreshSkipped, Reread, refreshes, Places
  <2>q. QED BY <2>1, ReaderGoes
<1>2. CASE RefreshOnce(r)
  <2>1. CASE refreshPromise # Null /\ UNCHANGED refreshes
    <3>1. refreshPromise \in Demand
      BY <2>1 DEF PriceInv, PricesTyped
    <3>q. QED BY <1>2, <2>1, <3>1, ReaderGoes DEF RefreshOnce, refreshes, Places
  <2>2. CASE refreshPromise = Null /\ StartRefresh
    BY <1>2, <2>2, StartKeeps DEF RefreshOnce
  <2>q. QED BY <1>2, <2>1, <2>2 DEF RefreshOnce
<1>q. QED BY <1>1, <1>2 DEF ReaderStep

LEMMA PriceStep == PriceInv /\ [PNext]_<<bvars, pvars>> => PriceInv'
<1> SUFFICES ASSUME PriceInv, [PNext]_<<bvars, pvars>> PROVE PriceInv'
  OBVIOUS
<1>1. CASE RefreshHourly
  <2>1. /\ refresh' = [refresh EXCEPT ![Cron] = "fetching"]
        /\ UNCHANGED <<refreshPromise, reader>>
    BY <1>1 DEF RefreshHourly, Fetch
  <2>q. QED BY <2>1, NextStage DEF Refreshers, Stages
<1>2. ASSUME NEW t \in Refreshers, RefreshStep(t) PROVE PriceInv'
  BY <1>2, RefreshStepKeeps
<1>3. ASSUME NEW r \in Readers, Read(r) \/ ReaderStep(r) PROVE PriceInv'
  BY <1>3, ReaderKeeps
<1>4. CASE UNCHANGED <<refresh, refreshPromise, reader>>
  BY <1>4, SameRefreshes
<1>5. CASE UNCHANGED pvars
  BY <1>4, <1>5 DEF pvars, refreshes
<1>6. CASE PriceChanges \/ Expire \/ RedisChanges
  BY <1>4, <1>6 DEF PriceChanges, Expire, RedisChanges, refreshes
<1>q. QED BY <1>1, <1>2, <1>3, <1>5, <1>6 DEF PNext, OtherCall, World

\* Readers that miss together share one request to Paddle, however the first
\* reads, the failures, the hourly job and the ends of the refreshes interleave.
THEOREM OneRefreshForAll == PSpec => []RefreshShared
<1>1. PSpec => PInit /\ [][PNext]_<<bvars, pvars>>
  BY PTL DEF PSpec
<1>2. PriceInv => RefreshShared
  BY DEF PriceInv
<1>q. QED BY <1>1, <1>2, PriceInit, PriceStep, PTL

-----------------------------------------------------------------------------
(* The subscription *)

Rows == [linked: BOOLEAN, tier: Tiers \cup {"TRIAL"}, status: RowStatuses,
         max: Nat \cup {Nothing}, period: Dates \cup {Nothing}, ends: Dates \cup {Nothing}]
AddonQuantities == Quantities \cup {0}
PaddleRows == [tier: Tiers, addon: AddonQuantities,
               status: {"active", "past_due", "paused", "canceled"},
               scheduled: BOOLEAN, period: Dates]
EventTypes ==
  {"created", "updated", "canceled", "past_due", "paused", "resumed", "transaction"}
EventRows == [type: EventTypes, data: PaddleRows]
TaskRows ==
  [pc: {"idle", "find", "update", "findAddons", "syncAddons", "readLimits", "writeLimits",
        "callPaddle", "writeAddon", "writeStatus"},
   op: AllOps \cup {"webhook", Nothing}, id: Nat, arg: Tiers \cup Quantities \cup {Nothing},
   row: Rows \cup {Nothing}, addon: AddonQuantities]

RowTyped == subRow \in Rows /\ addon \in AddonQuantities /\ task \in [Tasks -> TaskRows]

PaddleTyped ==
  /\ now \in 0 .. Horizon /\ paddle \in PaddleRows \cup {Nothing}
  /\ events \in Seq(EventRows) /\ Len(events) <= MaxEvents

IdsTyped == settled \cup redis \cup applied \subseteq 1 .. Len(events)

\* A row is linked by an event, and an event is of a subscription Paddle has.
Linked == subRow.linked \/ events # <<>> => paddle \in PaddleRows

\* Where a task is tells what it is, what it has read and what it asks for; a
\* handler's event is claimed.
TaskOK(t) ==
  /\ task[t].pc = "idle" => task[t] = Idle
  /\ task[t].pc \in {"find", "update", "findAddons", "syncAddons"} => Handling(t)
  /\ task[t].pc \in {"writeLimits", "callPaddle", "writeStatus"} => task[t].row \in Rows
  /\ task[t].pc = "callPaddle" =>
       /\ task[t].op \in AllOps /\ paddle \in PaddleRows
       /\ task[t].op = "changePlan" => task[t].arg \in Tiers
       /\ task[t].op = "manageAddon" => task[t].arg \in Quantities /\ task[t].row.tier \in Tiers
  /\ task[t].pc = "writeAddon" => task[t].arg \in Quantities
  /\ Handling(t) => /\ task[t].pc \notin {"idle", "callPaddle", "writeAddon", "writeStatus"}
                    /\ task[t].id \in redis

\* An event is handled by one task.
Claims == \A t, u \in Tasks : Handling(t) /\ Handling(u) /\ task[t].id = task[u].id => t = u

\* The inductive invariant of the subscription.
MirrorInv ==
  RowTyped /\ PaddleTyped /\ IdsTyped /\ Linked /\ (\A t \in Tasks : TaskOK(t)) /\ Claims

LEMMA MirrorInit == SInit => MirrorInv
<1> SUFFICES ASSUME SInit PROVE MirrorInv
  OBVIOUS
<1>1. Idle \in TaskRows /\ Idle.pc = "idle" /\ Idle.op # "webhook"
  BY SubscriptionsAssumption DEF Idle, TaskRows, AddonQuantities
<1>2. subRow \in Rows
  BY SubscriptionsAssumption DEF SInit, Rows, RowStatuses
<1>3. RowTyped /\ PaddleTyped /\ IdsTyped
  BY <1>1, <1>2, SubscriptionsAssumption DEF SInit, RowTyped, PaddleTyped, IdsTyped, AddonQuantities
<1>4. Linked
  BY DEF SInit, Linked
<1>5. \A t \in Tasks : TaskOK(t)
  BY <1>1 DEF SInit, TaskOK, Handling
<1>6. Claims
  BY <1>1 DEF SInit, Claims, Handling
<1>q. QED BY <1>3, <1>4, <1>5, <1>6 DEF MirrorInv

\* What one task's step leaves of another, when a row of Paddle's stays one and
\* the other's claim stays.
LEMMA OtherTask ==
  ASSUME NEW u \in Tasks, TaskOK(u), task'[u] = task[u],
         paddle \in PaddleRows => paddle' \in PaddleRows,
         Handling(u) => task[u].id \in redis'
  PROVE  TaskOK(u)'
BY DEF TaskOK, Handling

\* Claims survive a step that changes no task's event.
LEMMA SameClaims ==
  ASSUME Claims,
         \A u \in Tasks : (Handling(u))' = Handling(u) /\ task'[u].id = task[u].id
  PROVE  Claims'
BY DEF Claims

\* They survive the end of a task, which releases at most the task's own event.
LEMMA EndedClaims ==
  ASSUME MirrorInv, NEW t \in Tasks, EndTask(t),
         \/ redis' = redis
         \/ redis' = redis \ {task[t].id} /\ Handling(t)
  PROVE  /\ Claims' /\ task' \in [Tasks -> TaskRows] /\ task'[t] = Idle
         /\ \A u \in Tasks \ {t} : task'[u] = task[u] /\ (Handling(u) => task[u].id \in redis')
         /\ (TaskOK(t))'
<1>1. Idle \in TaskRows /\ Idle.pc = "idle" /\ Idle.op # "webhook"
  BY SubscriptionsAssumption DEF Idle, TaskRows, AddonQuantities
<1>2. /\ task \in [Tasks -> TaskRows] /\ Claims
      /\ \A u \in Tasks : Handling(u) => task[u].id \in redis
  BY DEF MirrorInv, RowTyped, TaskOK
<1>3. /\ task' \in [Tasks -> TaskRows] /\ task'[t] = Idle
      /\ \A u \in Tasks \ {t} : task'[u] = task[u]
  BY <1>1, <1>2 DEF EndTask
<1>4. ~(Handling(t))' /\ \A u \in Tasks \ {t} : (Handling(u))' = Handling(u)
  BY <1>1, <1>3 DEF Handling
<1>5. \A u \in Tasks \ {t} : Handling(u) => task[u].id \in redis'
  BY <1>2 DEF Claims
<1>7. ASSUME NEW u \in Tasks, NEW v \in Tasks, (Handling(u))', (Handling(v))',
             task'[u].id = task'[v].id
      PROVE  u = v
  BY <1>2, <1>3, <1>4, <1>7 DEF Claims
<1>8. Claims'
  BY <1>7 DEF Claims
<1>9. (TaskOK(t))'
  BY <1>1, <1>3, <1>4 DEF TaskOK
<1>q. QED BY <1>3, <1>5, <1>8, <1>9

\* The type invariant's parts after a step that leaves Paddle and the clock
\* alone and adds no id but one of an event there is.
LEMMA StillThere ==
  ASSUME MirrorInv, UNCHANGED <<now, paddle, events>>,
         settled' \cup redis' \cup applied' \subseteq 1 .. Len(events),
         subRow'.linked => subRow.linked \/ events # <<>>
  PROVE  PaddleTyped' /\ IdsTyped' /\ Linked'
BY DEF MirrorInv, PaddleTyped, IdsTyped, Linked

\* A step of a task that ends it, writes at most the row and the add-on, and
\* releases at most its own event.
LEMMA EndingStep ==
  ASSUME MirrorInv, NEW t \in Tasks, EndTask(t), UNCHANGED <<now, paddle, events>>,
         settled' \cup applied' \subseteq 1 .. Len(events),
         \/ redis' = redis
         \/ redis' = redis \ {task[t].id} /\ Handling(t),
         subRow' \in Rows, addon' \in AddonQuantities,
         subRow'.linked => subRow.linked \/ events # <<>>
  PROVE  MirrorInv'
<1>1. /\ Claims' /\ task' \in [Tasks -> TaskRows] /\ (TaskOK(t))'
      /\ \A u \in Tasks \ {t} : task'[u] = task[u] /\ (Handling(u) => task[u].id \in redis')
  BY EndedClaims
<1>2. \A u \in Tasks \ {t} : (TaskOK(u))'
  BY <1>1, OtherTask DEF MirrorInv
<1>3. redis' \subseteq 1 .. Len(events)
  BY DEF MirrorInv, IdsTyped
<1>4. PaddleTyped' /\ IdsTyped' /\ Linked'
  BY <1>3, StillThere
<1>q. QED BY <1>1, <1>2, <1>4 DEF MirrorInv, RowTyped

\* A step of a task that goes on with the same event and request.
LEMMA MovingStep ==
  ASSUME MirrorInv, NEW t \in Tasks, NEW l \in TaskRows, task' = [task EXCEPT ![t] = l],
         l.op = task[t].op, l.id = task[t].id,
         UNCHANGED <<settled, redis, applied>>, PaddleTyped',
         Len(events) <= Len(events'),
         paddle \in PaddleRows => paddle' \in PaddleRows, Linked',
         subRow' \in Rows, addon' \in AddonQuantities, (TaskOK(t))'
  PROVE  MirrorInv'
<1>1. /\ task' \in [Tasks -> TaskRows] /\ task'[t] = l
      /\ \A u \in Tasks \ {t} : task'[u] = task[u]
  BY DEF MirrorInv, RowTyped
<1>2. \A u \in Tasks : (Handling(u))' = Handling(u) /\ task'[u].id = task[u].id
  BY <1>1 DEF Handling
<1>3. Claims'
  BY <1>2, SameClaims DEF MirrorInv
<1>4. \A u \in Tasks \ {t} : (TaskOK(u))'
  BY <1>1, OtherTask DEF MirrorInv, TaskOK
<1>5. IdsTyped'
  <2>1. Len(events) \in Nat /\ Len(events') \in Nat
    BY DEF MirrorInv, PaddleTyped
  <2>q. QED BY <2>1 DEF MirrorInv, IdsTyped
<1>q. QED BY <1>1, <1>3, <1>4, <1>5 DEF MirrorInv, RowTyped

\* Emit adds an event of the row that Paddle then has.
LEMMA Emitted ==
  ASSUME MirrorInv, NEW type, NEW data, Emit(type, data),
         [type |-> type, data |-> data] \in EventRows, now' = now
  PROVE  PaddleTyped' /\ Linked' /\ paddle' \in PaddleRows /\ Len(events') = Len(events) + 1
<1>1. data \in PaddleRows
  BY DEF EventRows
<1>2. events \in Seq(EventRows) /\ Len(events) \in Nat /\ MaxEvents \in Nat
  BY SubscriptionsAssumption DEF MirrorInv, PaddleTyped
<1>3. events' \in Seq(EventRows) /\ Len(events') = Len(events) + 1
  BY <1>2 DEF Emit
<1>4. Len(events') <= MaxEvents
  BY <1>2, <1>3 DEF Emit
<1>5. paddle' \in PaddleRows
  BY <1>1 DEF Emit
<1>q. QED BY <1>3, <1>4, <1>5 DEF MirrorInv, PaddleTyped, Linked

\* What happens at Paddle, or as time passes, is nothing to the tasks.
LEMMA OutsideStep ==
  ASSUME MirrorInv, UNCHANGED <<subRow, addon, settled, redis, applied, task>>,
         PaddleTyped', Linked', Len(events) <= Len(events'),
         paddle \in PaddleRows => paddle' \in PaddleRows
  PROVE  MirrorInv'
<1>1. \A u \in Tasks : (TaskOK(u))'
  BY OtherTask DEF MirrorInv, TaskOK
<1>2. Claims'
  BY SameClaims DEF MirrorInv, Handling
<1>3. Len(events) \in Nat /\ Len(events') \in Nat
  BY DEF MirrorInv, PaddleTyped
<1>4. IdsTyped'
  BY <1>3 DEF MirrorInv, IdsTyped
<1>q. QED BY <1>1, <1>2, <1>4 DEF MirrorInv, RowTyped

LEMMA ClockDates ==
  ASSUME PaddleTyped
  PROVE  now \in Dates /\ now + 1 \in Dates /\ now \in Nat
BY SubscriptionsAssumption DEF PaddleTyped, Dates

LEMMA PaddleCreatesStep ==
  ASSUME MirrorInv, NEW tier \in Tiers, PaddleCreates(tier)
  PROVE  MirrorInv'
<1>1. now + 1 \in Dates
  BY ClockDates DEF MirrorInv
<1> DEFINE d == [tier |-> tier, addon |-> 0, status |-> "active",
                 scheduled |-> FALSE, period |-> now + 1]
<1>2. d \in PaddleRows
  BY <1>1 DEF PaddleRows, AddonQuantities
<1>3. [type |-> "created", data |-> d] \in EventRows
  BY <1>2 DEF EventRows, EventTypes
<1>4. Emit("created", d) /\ LocalUnchanged
  BY DEF PaddleCreates
<1>5. PaddleTyped' /\ Linked' /\ paddle' \in PaddleRows /\ Len(events') = Len(events) + 1
  BY <1>3, <1>4, Emitted DEF LocalUnchanged
<1>6. Len(events) <= Len(events')
  BY <1>5 DEF MirrorInv, PaddleTyped
<1>q. QED BY <1>4, <1>5, <1>6, OutsideStep DEF LocalUnchanged

LEMMA PaddleMovesStep ==
  ASSUME MirrorInv, PaddleMoves
  PROVE  MirrorInv'
<1>1. paddle \in PaddleRows /\ LocalUnchanged
  BY DEF MirrorInv, PaddleTyped, PaddleMoves
<1>2. now + 1 \in Dates
  BY ClockDates DEF MirrorInv
<1>3. PICK type \in EventTypes, d \in PaddleRows : Emit(type, d)
  <2>1. CASE Emit("transaction", [paddle EXCEPT !.period = now + 1])
    <3>1. [paddle EXCEPT !.period = now + 1] \in PaddleRows
      BY <1>1, <1>2 DEF PaddleRows
    <3>q. QED BY <2>1, <3>1 DEF EventTypes
  <2>2. CASE Emit("updated", [paddle EXCEPT !.scheduled = TRUE])
    <3>1. [paddle EXCEPT !.scheduled = TRUE] \in PaddleRows
      BY <1>1 DEF PaddleRows
    <3>q. QED BY <2>2, <3>1 DEF EventTypes
  <2>3. CASE \E t \in Tiers \ {paddle.tier}, q \in Quantities :
               Emit("updated", [paddle EXCEPT !.tier = t, !.addon = q])
    <3>1. PICK t \in Tiers, q \in Quantities : Emit("updated", [paddle EXCEPT !.tier = t, !.addon = q])
      BY <2>3
    <3>2. [paddle EXCEPT !.tier = t, !.addon = q] \in PaddleRows
      BY <1>1 DEF PaddleRows, AddonQuantities
    <3>q. QED BY <3>1, <3>2 DEF EventTypes
  <2>4. CASE Emit("past_due", [paddle EXCEPT !.status = "past_due"])
    <3>1. [paddle EXCEPT !.status = "past_due"] \in PaddleRows
      BY <1>1 DEF PaddleRows
    <3>q. QED BY <2>4, <3>1 DEF EventTypes
  <2>5. CASE Emit("updated", [paddle EXCEPT !.status = "active", !.period = now + 1])
    <3>1. [paddle EXCEPT !.status = "active", !.period = now + 1] \in PaddleRows
      BY <1>1, <1>2 DEF PaddleRows
    <3>q. QED BY <2>5, <3>1 DEF EventTypes
  <2>6. CASE Emit("paused", [paddle EXCEPT !.status = "paused"])
    <3>1. [paddle EXCEPT !.status = "paused"] \in PaddleRows
      BY <1>1 DEF PaddleRows
    <3>q. QED BY <2>6, <3>1 DEF EventTypes
  <2>7. CASE Emit("resumed", [paddle EXCEPT !.status = "active", !.period = now + 1])
    <3>1. [paddle EXCEPT !.status = "active", !.period = now + 1] \in PaddleRows
      BY <1>1, <1>2 DEF PaddleRows
    <3>q. QED BY <2>7, <3>1 DEF EventTypes
  <2>8. CASE Emit("canceled", [paddle EXCEPT !.status = "canceled", !.scheduled = FALSE])
    <3>1. [paddle EXCEPT !.status = "canceled", !.scheduled = FALSE] \in PaddleRows
      BY <1>1 DEF PaddleRows
    <3>q. QED BY <2>8, <3>1 DEF EventTypes
  <2>q. QED BY <2>1, <2>2, <2>3, <2>4, <2>5, <2>6, <2>7, <2>8 DEF PaddleMoves
<1>4. [type |-> type, data |-> d] \in EventRows
  BY <1>3 DEF EventRows
<1>5. PaddleTyped' /\ Linked' /\ paddle' \in PaddleRows /\ Len(events') = Len(events) + 1
  BY <1>1, <1>3, <1>4, Emitted DEF LocalUnchanged
<1>6. Len(events) <= Len(events')
  BY <1>5 DEF MirrorInv, PaddleTyped
<1>q. QED BY <1>1, <1>5, <1>6, OutsideStep DEF LocalUnchanged

LEMMA SubscriptionTick ==
  ASSUME MirrorInv, Tick
  PROVE  MirrorInv'
<1>1. PaddleTyped' /\ Linked'
  BY SubscriptionsAssumption DEF MirrorInv, PaddleTyped, Linked, Tick
<1>2. UNCHANGED <<subRow, addon, paddle, events, settled, redis, applied, task>>
  BY DEF Tick
<1>3. Len(events) <= Len(events')
  BY <1>2 DEF MirrorInv, PaddleTyped
<1>q. QED BY <1>1, <1>2, <1>3, OutsideStep

\* The row of a task, its type, and the row that one of its fields less leaves.
LEMMA TaskTyped ==
  ASSUME MirrorInv, NEW t \in Tasks
  PROVE  /\ task[t] \in TaskRows /\ task \in [Tasks -> TaskRows] /\ TaskOK(t)
         /\ subRow \in Rows /\ addon \in AddonQuantities
         /\ (Handling(t) => task[t].id \in 1 .. Len(events))
BY DEF MirrorInv, RowTyped, TaskOK, IdsTyped

\* The event of a handler is one that Paddle emitted.
LEMMA EventTyped ==
  ASSUME MirrorInv, NEW t \in Tasks, Handling(t)
  PROVE  EventOf(t) \in EventRows /\ events # <<>>
<1>1. task[t].id \in 1 .. Len(events) /\ events \in Seq(EventRows)
  BY TaskTyped DEF MirrorInv, PaddleTyped
<1>q. QED BY <1>1 DEF EventOf

LEMMA DeliverStep ==
  ASSUME MirrorInv, NEW t \in Tasks, NEW id \in 1 .. Len(events), Deliver(t, id)
  PROVE  MirrorInv'
<1>0. /\ task[t] = Idle /\ task \in [Tasks -> TaskRows] /\ Idle.op # "webhook"
      /\ UNCHANGED <<now, subRow, addon, paddle, events, applied>>
      /\ subRow \in Rows /\ addon \in AddonQuantities /\ id \in Nat
  BY TaskTyped, SubscriptionsAssumption DEF Deliver, TaskOK, Idle
<1>1. CASE id \in redis
  <2>1. UNCHANGED <<redis, task>> /\ settled' = settled \cup {id}
    BY <1>1 DEF Deliver
  <2>2. PaddleTyped' /\ IdsTyped' /\ Linked'
    <3>1. settled' \cup redis' \cup applied' \subseteq 1 .. Len(events)
      BY <1>0, <2>1 DEF MirrorInv, IdsTyped
    <3>q. QED BY <1>0, <3>1, StillThere
  <2>3. \A u \in Tasks : (TaskOK(u))'
    BY <1>0, <2>1, OtherTask DEF MirrorInv, TaskOK
  <2>4. Claims'
    BY <1>0, <2>1, SameClaims DEF MirrorInv, Handling
  <2>q. QED BY <1>0, <2>1, <2>2, <2>3, <2>4 DEF MirrorInv, RowTyped
<1>2. CASE id \notin redis
  <2> DEFINE l == IF events[id].type = "created" THEN "update" ELSE "find"
  <2>1. /\ redis' = redis \cup {id} /\ settled' = settled
        /\ task' = [task EXCEPT ![t].op = "webhook", ![t].id = id, ![t].pc = l]
    BY <1>2 DEF Deliver, StartHandler
  <2>2. /\ task' \in [Tasks -> TaskRows] /\ task'[t].op = "webhook" /\ task'[t].id = id
        /\ task'[t].pc \in {"update", "find"}
        /\ \A u \in Tasks \ {t} : task'[u] = task[u]
    <3>1. task[t] \in TaskRows
      BY TaskTyped
    <3>2. [task[t] EXCEPT !.op = "webhook", !.id = id, !.pc = l] \in TaskRows
      BY <1>0, <3>1 DEF TaskRows
    <3>3. task' = [task EXCEPT ![t] = [task[t] EXCEPT !.op = "webhook", !.id = id, !.pc = l]]
      BY <1>0, <2>1, <3>1 DEF TaskRows
    <3>q. QED BY <1>0, <3>1, <3>2, <3>3 DEF TaskRows
  <2>3. \A u \in Tasks \ {t} : (Handling(u))' = Handling(u) /\ task'[u].id = task[u].id
    BY <2>2 DEF Handling
  <2>4. ~Handling(t) /\ (Handling(t))'
    BY <1>0, <2>2 DEF Handling
  <2>5. (TaskOK(t))'
    BY <2>1, <2>2, <2>4 DEF TaskOK
  <2>6. \A u \in Tasks \ {t} : (TaskOK(u))'
    BY <1>0, <2>1, <2>2, OtherTask DEF MirrorInv, TaskOK
  <2>7. Claims'
    <3>2. \A u \in Tasks : Handling(u) => task[u].id # id
      BY <1>2 DEF MirrorInv, TaskOK
    <3>3. ASSUME NEW u \in Tasks, NEW v \in Tasks, (Handling(u))', (Handling(v))',
                 task'[u].id = task'[v].id
          PROVE  u = v
      <4>1. CASE u # t /\ v # t
        BY <2>3, <3>3, <4>1 DEF MirrorInv, Claims
      <4>2. CASE u = t \/ v = t
        BY <2>2, <2>3, <3>2, <3>3, <4>2
      <4>q. QED BY <4>1, <4>2
    <3>q. QED BY <3>3 DEF Claims
  <2>8. PaddleTyped' /\ IdsTyped' /\ Linked'
    <3>1. settled' \cup redis' \cup applied' \subseteq 1 .. Len(events)
      BY <1>0, <2>1 DEF MirrorInv, IdsTyped
    <3>q. QED BY <1>0, <3>1, StillThere
  <2>q. QED BY <1>0, <2>2, <2>5, <2>6, <2>7, <2>8 DEF MirrorInv, RowTyped
<1>q. QED BY <1>1, <1>2

\* The end of a handler.
LEMMA HandledStep ==
  ASSUME MirrorInv, NEW t \in Tasks, Handling(t), Handled(t),
         UNCHANGED <<now, paddle, events, redis>>,
         subRow' \in Rows, addon' \in AddonQuantities
  PROVE  MirrorInv'
<1>1. task[t].id \in 1 .. Len(events) /\ events # <<>>
  BY TaskTyped, EventTyped
<1>2. EndTask(t) /\ applied' = applied \cup {task[t].id} /\ settled' = settled \cup {task[t].id}
  BY DEF Handled
<1>3. settled' \cup applied' \subseteq 1 .. Len(events)
  BY <1>1, <1>2 DEF MirrorInv, IdsTyped
<1>q. QED BY <1>1, <1>2, <1>3, EndingStep

\* A handler, or a request, goes to the label l, where it needs to have read the
\* row in some cases.
LEMMA GoesOn ==
  ASSUME MirrorInv, NEW t \in Tasks, NEW l, MoveTo(t, l),
         l \in {"update", "findAddons", "readLimits"},
         l # "readLimits" => Handling(t),
         UNCHANGED <<now, paddle, events, settled, redis, applied>>,
         subRow' \in Rows, addon' \in AddonQuantities,
         subRow'.linked => subRow.linked \/ events # <<>>
  PROVE  MirrorInv'
<1> DEFINE j == [task[t] EXCEPT !.pc = l]
<1>1. task[t] \in TaskRows /\ task \in [Tasks -> TaskRows] /\ TaskOK(t)
  BY TaskTyped
<1>2. /\ j \in TaskRows /\ j.op = task[t].op /\ j.id = task[t].id /\ j.pc = l
  BY <1>1 DEF TaskRows
<1>3. task' = [task EXCEPT ![t] = j]
  BY <1>1 DEF MoveTo, TaskRows
<1>4. task'[t] = j
  BY <1>1, <1>2, <1>3
<1> HIDE DEF j
<1>5. (TaskOK(t))'
  BY <1>1, <1>2, <1>4 DEF TaskOK, Handling
<1>6. PaddleTyped' /\ Linked' /\ Len(events) <= Len(events')
  BY DEF MirrorInv, PaddleTyped, Linked
<1>q. QED BY <1>2, <1>3, <1>5, <1>6, MovingStep

LEMMA FindSubscriptionStep ==
  ASSUME MirrorInv, NEW t \in Tasks, FindSubscription(t)
  PROVE  MirrorInv'
<1>1. /\ Handling(t) /\ subRow' \in Rows /\ addon' \in AddonQuantities
      /\ UNCHANGED <<now, subRow, addon, paddle, events, redis>>
  BY TaskTyped DEF FindSubscription, TaskOK
<1>2. CASE subRow.linked
  <2>1. MoveTo(t, "update") /\ UNCHANGED <<applied, settled>>
    BY <1>2 DEF FindSubscription
  <2>q. QED BY <1>1, <2>1, GoesOn
<1>3. CASE ~subRow.linked
  <2>1. Handled(t)
    BY <1>3 DEF FindSubscription
  <2>q. QED BY <1>1, <2>1, HandledStep
<1>q. QED BY <1>2, <1>3

\* What a handler of each event writes is a row.
LEMMA WrittenRow ==
  ASSUME MirrorInv, NEW t \in Tasks, UpdateSubscription(t)
  PROVE  subRow' \in Rows
<1>1. Handling(t) /\ subRow \in Rows
  BY TaskTyped DEF UpdateSubscription, TaskOK
<1>0. PICK dated \in BOOLEAN : subRow' = Written(subRow, EventOf(t), dated)
  BY DEF UpdateSubscription
<1> DEFINE e == EventOf(t)
           d == EventOf(t).data
<1>2. /\ e.type \in EventTypes /\ d.tier \in Tiers /\ d.period \in Dates
      /\ d.status \in {"active", "past_due", "paused", "canceled"}
  <2>1. e \in EventRows
    BY <1>1, EventTyped
  <2>2. e.type \in EventTypes /\ d \in PaddleRows
    BY <2>1 DEF EventRows
  <2>q. QED BY <2>2 DEF PaddleRows
<1>3. PaddleStatus(d.status) \in RowStatuses
  BY <1>2 DEF PaddleStatus, RowStatuses
<1>4. Created(subRow, d) \in Rows
  BY <1>1, <1>2 DEF Created, Rows, RowStatuses
<1>5. Updated(subRow, d) \in Rows
  <2> DEFINE s == IF d.scheduled THEN "CANCELLED" ELSE PaddleStatus(d.status)
             f == IF s = "ACTIVE" THEN Nothing ELSE subRow.ends
  <2>1. s \in RowStatuses
    BY <1>3 DEF RowStatuses
  <2>2. f \in Dates \cup {Nothing}
    BY <1>1 DEF Rows
  <2>3. Updated(subRow, d)
        = [subRow EXCEPT !.tier = d.tier, !.period = d.period, !.status = s, !.ends = f]
    BY <1>1 DEF Updated, Rows
  <2> HIDE DEF s, f
  <2>q. QED BY <1>1, <1>2, <2>1, <2>2, <2>3 DEF Rows
<1>6. Canceled(subRow, d, dated) \in Rows
  <2> DEFINE f == IF dated THEN d.period ELSE subRow.ends
  <2>1. f \in Dates \cup {Nothing}
    BY <1>1, <1>2 DEF Rows
  <2>2. Canceled(subRow, d, dated) = [subRow EXCEPT !.status = "CANCELLED", !.ends = f]
    BY <1>1 DEF Canceled, Rows
  <2> HIDE DEF f
  <2>q. QED BY <1>1, <2>1, <2>2 DEF Rows, RowStatuses
<1>7. \A st \in RowStatuses : [subRow EXCEPT !.status = st] \in Rows
  BY <1>1 DEF Rows
<1>8. [subRow EXCEPT !.period = d.period] \in Rows
  BY <1>1, <1>2 DEF Rows
<1>9. \/ subRow' = Created(subRow, d) \/ subRow' = Updated(subRow, d)
      \/ subRow' = Canceled(subRow, d, dated)
      \/ \E st \in RowStatuses : subRow' = [subRow EXCEPT !.status = st]
      \/ subRow' = [subRow EXCEPT !.period = d.period]
  <2> HIDE DEF d, e
  <2>1. subRow' = CASE e.type = "created" -> Created(subRow, d)
                    [] e.type = "updated" -> Updated(subRow, d)
                    [] e.type = "canceled" -> Canceled(subRow, d, dated)
                    [] e.type = "past_due" -> [subRow EXCEPT !.status = "PAST_DUE"]
                    [] e.type = "paused" -> [subRow EXCEPT !.status = "PAUSED"]
                    [] e.type = "resumed" -> [subRow EXCEPT !.status = "ACTIVE"]
                    [] e.type = "transaction" -> [subRow EXCEPT !.period = d.period]
    BY <1>0 DEF Written, e, d
  <2>2. "PAST_DUE" \in RowStatuses /\ "PAUSED" \in RowStatuses /\ "ACTIVE" \in RowStatuses
    BY DEF RowStatuses
  <2>q. QED BY <1>2, <2>1, <2>2 DEF EventTypes
<1> HIDE DEF d, e
<1>q. QED BY <1>4, <1>5, <1>6, <1>7, <1>8, <1>9

LEMMA UpdateSubscriptionStep ==
  ASSUME MirrorInv, NEW t \in Tasks, UpdateSubscription(t)
  PROVE  MirrorInv'
<1>1. /\ Handling(t) /\ addon' \in AddonQuantities
      /\ UNCHANGED <<now, addon, paddle, events, redis>>
  BY TaskTyped DEF UpdateSubscription, TaskOK
<1>2. subRow' \in Rows /\ events # <<>>
  BY <1>1, WrittenRow, EventTyped
<1>3. CASE EventOf(t).type \in {"created", "updated"}
  <2>1. MoveTo(t, "findAddons") /\ UNCHANGED <<applied, settled>>
    BY <1>3 DEF UpdateSubscription
  <2>q. QED BY <1>1, <1>2, <2>1, GoesOn
<1>4. CASE EventOf(t).type \notin {"created", "updated"}
  <2>1. Handled(t)
    BY <1>4 DEF UpdateSubscription
  <2>q. QED BY <1>1, <1>2, <2>1, HandledStep
<1>q. QED BY <1>3, <1>4

\* A handler, or the recalculation of the limits, reads the row and the add-on.
LEMMA ReadsRow ==
  ASSUME MirrorInv, NEW t \in Tasks, NEW l \in {"syncAddons", "writeLimits"}, ReadRow(t, l),
         l = "syncAddons" => Handling(t), task[t].pc # "idle",
         UNCHANGED <<now, subRow, addon, paddle, events, settled, redis, applied>>
  PROVE  MirrorInv'
<1> DEFINE j == [task[t] EXCEPT !.pc = l, !.row = subRow, !.addon = addon]
<1>1. /\ task[t] \in TaskRows /\ task \in [Tasks -> TaskRows] /\ TaskOK(t)
      /\ subRow \in Rows /\ addon \in AddonQuantities
  BY TaskTyped
<1>2. /\ j \in TaskRows /\ j.op = task[t].op /\ j.id = task[t].id /\ j.pc = l
      /\ j.row = subRow
  BY <1>1 DEF TaskRows
<1>3. task' = [task EXCEPT ![t] = j]
  BY <1>1 DEF ReadRow, TaskRows
<1>4. task'[t] = j
  BY <1>1, <1>2, <1>3
<1> HIDE DEF j
<1>5. (TaskOK(t))'
  BY <1>1, <1>2, <1>4 DEF TaskOK, Handling
<1>6. PaddleTyped' /\ Linked' /\ Len(events) <= Len(events')
  BY DEF MirrorInv, PaddleTyped, Linked
<1>q. QED BY <1>1, <1>2, <1>3, <1>5, <1>6, MovingStep

LEMMA FindAddonsStep ==
  ASSUME MirrorInv, NEW t \in Tasks, FindAddons(t)
  PROVE  MirrorInv'
<1>1. Handling(t) /\ task[t].pc # "idle"
  BY TaskTyped DEF FindAddons, TaskOK
<1>q. QED BY <1>1, ReadsRow DEF FindAddons

LEMMA ReadLimitsStep ==
  ASSUME MirrorInv, NEW t \in Tasks, ReadLimits(t)
  PROVE  MirrorInv'
BY ReadsRow DEF ReadLimits

LEMMA SyncAddonsStep ==
  ASSUME MirrorInv, NEW t \in Tasks, SyncAddons(t)
  PROVE  MirrorInv'
<1>1. /\ Handling(t) /\ subRow' \in Rows /\ addon \in AddonQuantities /\ MoveTo(t, "readLimits")
      /\ UNCHANGED <<now, subRow, paddle, events, settled, redis, applied>>
  BY TaskTyped DEF SyncAddons, TaskOK
<1>2. EventOf(t).data.addon \in AddonQuantities
  BY <1>1, EventTyped DEF EventRows, PaddleRows
<1>3. addon' \in AddonQuantities
  BY <1>1, <1>2 DEF SyncAddons, AddonQuantities
<1>q. QED BY <1>1, <1>3, GoesOn

LEMMA WriteLimitsStep ==
  ASSUME MirrorInv, NEW t \in Tasks, WriteLimits(t)
  PROVE  MirrorInv'
<1>1. /\ task[t] \in TaskRows /\ task[t].row \in Rows /\ subRow \in Rows
      /\ addon' \in AddonQuantities /\ UNCHANGED <<now, addon, paddle, events, redis>>
  BY TaskTyped DEF WriteLimits, TaskOK
<1>2. EffectiveLimit(task[t].row.tier, task[t].addon) \in Nat \cup {Nothing}
  <2>1. task[t].row.tier \in Tiers \cup {"TRIAL"} /\ task[t].addon \in Nat
    <3>1. task[t].row.tier \in Tiers \cup {"TRIAL"}
      BY <1>1 DEF Rows
    <3>2. task[t].addon \in AddonQuantities
      BY <1>1 DEF TaskRows
    <3>3. AddonQuantities \subseteq Nat
      <4>1. Quantities \subseteq Nat
        BY SubscriptionsAssumption
      <4>q. QED BY <4>1 DEF AddonQuantities
    <3>q. QED BY <3>1, <3>2, <3>3
  <2>q. QED BY <2>1, SubscriptionsAssumption DEF EffectiveLimit
<1>3. subRow' \in Rows /\ subRow'.linked = subRow.linked
  BY <1>1, <1>2 DEF WriteLimits, Rows
<1>4. CASE Handling(t)
  <2>1. Handled(t)
    BY <1>4 DEF WriteLimits
  <2>q. QED BY <1>1, <1>3, <1>4, <2>1, HandledStep
<1>5. CASE ~Handling(t)
  <2>1. EndTask(t) /\ UNCHANGED <<applied, settled>>
    BY <1>5 DEF WriteLimits
  <2>2. settled' \cup applied' \subseteq 1 .. Len(events)
    BY <2>1 DEF MirrorInv, IdsTyped
  <2>q. QED BY <1>1, <1>3, <1>5, <2>1, <2>2, EndingStep
<1>q. QED BY <1>4, <1>5

LEMMA HandlerFailsStep ==
  ASSUME MirrorInv, NEW t \in Tasks, HandlerFails(t)
  PROVE  MirrorInv'
<1>1. /\ Handling(t) /\ EndTask(t) /\ redis' = redis \ {task[t].id}
      /\ UNCHANGED <<now, subRow, addon, paddle, events, settled, applied>>
  BY DEF HandlerFails
<1>2. /\ settled' \cup applied' \subseteq 1 .. Len(events)
      /\ subRow' \in Rows /\ addon' \in AddonQuantities
  BY <1>1, TaskTyped DEF MirrorInv, IdsTyped
<1>q. QED BY <1>1, <1>2, EndingStep

LEMMA StopsStep ==
  ASSUME MirrorInv, NEW t \in Tasks, Stops(t)
  PROVE  MirrorInv'
<1>1. EndTask(t) /\ UNCHANGED <<now, subRow, addon, paddle, events, settled, redis, applied>>
  BY DEF Stops
<1>2. /\ settled' \cup applied' \subseteq 1 .. Len(events)
      /\ subRow' \in Rows /\ addon' \in AddonQuantities
  BY <1>1, TaskTyped DEF MirrorInv, IdsTyped
<1>q. QED BY <1>1, <1>2, EndingStep

\* A claim that runs out is nobody's.
LEMMA ClaimExpiresStep ==
  ASSUME MirrorInv, NEW id \in 1 .. Len(events), ClaimExpires(id)
  PROVE  MirrorInv'
<1>1. /\ UNCHANGED <<now, subRow, addon, paddle, events, settled, applied, task>>
      /\ redis' = redis \ {id} /\ \A u \in Tasks : Handling(u) => task[u].id # id
  BY DEF ClaimExpires
<1>2. \A u \in Tasks : (TaskOK(u))'
  <2> SUFFICES ASSUME NEW u \in Tasks PROVE (TaskOK(u))'
    OBVIOUS
  <2>1. Handling(u) => task[u].id \in redis'
    BY <1>1 DEF MirrorInv, TaskOK
  <2>q. QED BY <1>1, <2>1, OtherTask DEF MirrorInv
<1>3. Claims'
  BY <1>1, SameClaims DEF MirrorInv, Handling
<1>4. settled' \cup redis' \cup applied' \subseteq 1 .. Len(events)
  BY <1>1 DEF MirrorInv, IdsTyped
<1>5. PaddleTyped' /\ IdsTyped' /\ Linked'
  BY <1>1, <1>4, StillThere
<1>q. QED BY <1>1, <1>2, <1>3, <1>5 DEF MirrorInv, RowTyped

\* The end of a request, which may write the row.
LEMMA RequestEnds ==
  ASSUME MirrorInv, NEW t \in Tasks, ~Handling(t), EndTask(t),
         UNCHANGED <<now, addon, paddle, events, settled, redis, applied>>,
         subRow' \in Rows, subRow'.linked => subRow.linked
  PROVE  MirrorInv'
<1>1. settled' \cup applied' \subseteq 1 .. Len(events) /\ addon' \in AddonQuantities
  BY TaskTyped DEF MirrorInv, IdsTyped
<1>q. QED BY <1>1, EndingStep

LEMMA PaddleCallFailsStep ==
  ASSUME MirrorInv, NEW t \in Tasks, PaddleCallFails(t)
  PROVE  MirrorInv'
<1>1. ~Handling(t) /\ subRow' \in Rows
  BY TaskTyped DEF PaddleCallFails, TaskOK
<1>q. QED BY <1>1, RequestEnds DEF PaddleCallFails

LEMMA WriteStatusStep ==
  ASSUME MirrorInv, NEW t \in Tasks, WriteStatus(t)
  PROVE  MirrorInv'
<1>1. ~Handling(t) /\ subRow \in Rows /\ task[t].row \in Rows
  BY TaskTyped DEF WriteStatus, TaskOK
<1>2. now \in Dates
  BY ClockDates DEF MirrorInv
<1> DEFINE until == IF task[t].row.period = Nothing THEN now ELSE task[t].row.period
<1>3. until \in Dates \cup {Nothing}
  BY <1>1, <1>2 DEF Rows
<1>4. \/ subRow' = [subRow EXCEPT !.status = "CANCELLED", !.ends = until]
      \/ subRow' = [subRow EXCEPT !.status = "ACTIVE", !.ends = Nothing]
  BY DEF WriteStatus
<1> HIDE DEF until
<1>5. subRow' \in Rows /\ subRow'.linked = subRow.linked
  BY <1>1, <1>3, <1>4 DEF Rows, RowStatuses
<1>q. QED BY <1>1, <1>5, RequestEnds DEF WriteStatus

LEMMA WriteAddonStep ==
  ASSUME MirrorInv, NEW t \in Tasks, WriteAddon(t)
  PROVE  MirrorInv'
<1>1. /\ subRow' \in Rows /\ addon' \in AddonQuantities
      /\ UNCHANGED <<now, subRow, paddle, events, settled, redis, applied>>
  BY TaskTyped DEF WriteAddon, TaskOK, AddonQuantities
<1>q. QED BY <1>1, GoesOn DEF WriteAddon

LEMMA CallPaddleStep ==
  ASSUME MirrorInv, NEW t \in Tasks, CallPaddle(t)
  PROVE  MirrorInv'
<1> DEFINE j == task[t]
<1>1. /\ j \in TaskRows /\ task \in [Tasks -> TaskRows] /\ ~Handling(t)
      /\ j.op \in AllOps /\ j.row \in Rows /\ paddle \in PaddleRows
      /\ j.op = "changePlan" => j.arg \in Tiers
      /\ j.op = "manageAddon" => j.arg \in Quantities /\ j.row.tier \in Tiers
      /\ subRow' \in Rows /\ addon' \in AddonQuantities
      /\ UNCHANGED <<now, subRow, addon, settled, redis, applied>>
  BY TaskTyped DEF CallPaddle, TaskOK
<1>2. Asked(j) \in PaddleRows
  <2>1. j.addon \in AddonQuantities
    BY <1>1 DEF TaskRows
  <2> HIDE DEF j
  <2>2. /\ j.op = "changePlan" => [paddle EXCEPT !.tier = j.arg, !.addon = j.addon] \in PaddleRows
        /\ j.op = "manageAddon" =>
             [paddle EXCEPT !.tier = j.row.tier, !.addon = j.arg] \in PaddleRows
        /\ [paddle EXCEPT !.scheduled = TRUE] \in PaddleRows
        /\ [paddle EXCEPT !.scheduled = FALSE] \in PaddleRows
    BY <1>1, <2>1 DEF PaddleRows, AddonQuantities
  <2>q. QED BY <1>1, <2>2 DEF Asked, AllOps
<1>3. /\ PaddleTyped' /\ Linked' /\ paddle' \in PaddleRows
      /\ Len(events') \in Nat /\ Len(events) \in Nat /\ Len(events) <= Len(events')
  <2>0. Len(events) \in Nat
    BY DEF MirrorInv, PaddleTyped
  <2>1. CASE UNCHANGED <<paddle, events>>
    BY <1>1, <2>0, <2>1 DEF MirrorInv, PaddleTyped, Linked
  <2>2. CASE Emit("updated", Asked(j))
    <3>1. [type |-> "updated", data |-> Asked(j)] \in EventRows
      BY <1>2 DEF EventRows, EventTypes
    <3>2. PaddleTyped' /\ Linked' /\ paddle' \in PaddleRows /\ Len(events') = Len(events) + 1
      BY <1>1, <2>2, <3>1, Emitted
    <3>q. QED BY <2>0, <3>2
  <2>q. QED BY <2>1, <2>2 DEF CallPaddle
<1>4. CASE EndTask(t)
  <2>1. /\ Claims' /\ task' \in [Tasks -> TaskRows] /\ (TaskOK(t))'
        /\ \A u \in Tasks \ {t} : task'[u] = task[u] /\ (Handling(u) => task[u].id \in redis')
    BY <1>1, <1>4, EndedClaims
  <2>2. \A u \in Tasks \ {t} : (TaskOK(u))'
    BY <1>3, <2>1, OtherTask DEF MirrorInv
  <2>3. IdsTyped'
    BY <1>1, <1>3 DEF MirrorInv, IdsTyped
  <2>q. QED BY <1>1, <1>3, <2>1, <2>2, <2>3 DEF MirrorInv, RowTyped
<1>5. CASE ~EndTask(t)
  <2> DEFINE l == IF j.op = "manageAddon" THEN "writeAddon" ELSE "writeStatus"
             k == [j EXCEPT !.pc = l]
  <2>1. /\ k \in TaskRows /\ k.op = j.op /\ k.id = j.id /\ k.row = j.row /\ k.arg = j.arg
        /\ k.pc = l
    BY <1>1 DEF TaskRows
  <2>2. task' = [task EXCEPT ![t] = k]
    BY <1>1, <1>5 DEF CallPaddle, MoveTo, TaskRows
  <2>3. task'[t] = k
    BY <1>1, <2>1, <2>2
  <2> HIDE DEF k
  <2>4. (TaskOK(t))'
    BY <1>1, <2>1, <2>3 DEF TaskOK, Handling
  <2>q. QED BY <1>1, <1>3, <2>1, <2>2, <2>4, MovingStep
<1>q. QED BY <1>4, <1>5

\* A request that is accepted has read a linked row, or adds to a plan that was
\* given without Paddle.
LEMMA RequestStarts ==
  ASSUME MirrorInv, NEW t \in Tasks, NEW o \in AllOps, NEW arg, Request(t, o, arg),
         arg \in Tiers \cup Quantities \cup {Nothing},
         o = "changePlan" => arg \in Tiers,
         o = "manageAddon" => arg \in Quantities
  PROVE  MirrorInv'
<1> DEFINE j == [pc |-> IF subRow.linked THEN "callPaddle" ELSE "writeAddon",
                 op |-> o, id |-> 0, arg |-> arg, row |-> subRow, addon |-> addon]
<1>1. /\ task[t] = Idle /\ task \in [Tasks -> TaskRows] /\ Idle.op # "webhook" /\ o # "webhook"
      /\ subRow \in Rows /\ addon \in AddonQuantities /\ Accepts(o)
      /\ UNCHANGED <<now, subRow, addon, paddle, events, settled, redis, applied>>
  BY TaskTyped, SubscriptionsAssumption DEF Request, TaskOK, Idle, AllOps
<1>2. j \in TaskRows
  BY <1>1 DEF TaskRows
<1>3. /\ task' = [task EXCEPT ![t] = j] /\ task'[t] = j
      /\ \A u \in Tasks \ {t} : task'[u] = task[u]
  BY <1>1 DEF Request
<1>4. /\ j.op = o /\ j.arg = arg /\ j.row = subRow
      /\ (j.pc = "callPaddle" /\ subRow.linked) \/ (j.pc = "writeAddon" /\ ~subRow.linked)
  OBVIOUS
<1> HIDE DEF j
<1>5. \A u \in Tasks : (Handling(u))' = Handling(u) /\ (Handling(u) => task'[u].id = task[u].id)
  BY <1>1, <1>3, <1>4 DEF Handling
<1>6. ~(Handling(t))' /\ ~Handling(t)
  BY <1>1, <1>3, <1>4 DEF Handling
<1>7. Claims'
  BY <1>5 DEF MirrorInv, Claims
<1>8. o \in {"changePlan", "manageAddon"} => subRow.tier \in Tiers
  BY <1>1 DEF Accepts, Rows
<1>9. (TaskOK(t))'
  <2>1. CASE subRow.linked
    <3>1. paddle' \in PaddleRows
      BY <1>1, <2>1 DEF MirrorInv, Linked
    <3>q. QED BY <1>1, <1>3, <1>4, <1>6, <1>8, <2>1, <3>1 DEF TaskOK
  <2>2. CASE ~subRow.linked
    <3>1. o = "manageAddon"
      BY <1>1, <2>2 DEF Accepts
    <3>q. QED BY <1>3, <1>4, <1>6, <2>2, <3>1 DEF TaskOK
  <2>q. QED BY <2>1, <2>2
<1>10. \A u \in Tasks \ {t} : (TaskOK(u))'
  BY <1>1, <1>3, OtherTask DEF MirrorInv, TaskOK
<1>11. PaddleTyped' /\ IdsTyped' /\ Linked'
  BY <1>1 DEF MirrorInv, PaddleTyped, IdsTyped, Linked
<1>q. QED BY <1>1, <1>2, <1>3, <1>7, <1>9, <1>10, <1>11 DEF MirrorInv, RowTyped

LEMMA NewRequestStep ==
  ASSUME MirrorInv, NEW t \in Tasks, NewRequest(t)
  PROVE  MirrorInv'
<1>1. CASE \E o \in Ops \cap {"cancel", "reactivate"} : Request(t, o, Nothing)
  BY <1>1, RequestStarts DEF AllOps
<1>2. CASE \E a \in Tiers : Request(t, "changePlan", a)
  BY <1>2, RequestStarts DEF AllOps
<1>3. CASE \E q \in Quantities : Request(t, "manageAddon", q)
  BY <1>3, RequestStarts DEF AllOps
<1>q. QED BY <1>1, <1>2, <1>3 DEF NewRequest

LEMMA MirrorStep == MirrorInv /\ [SNext]_svars => MirrorInv'
<1> SUFFICES ASSUME MirrorInv, [SNext]_svars PROVE MirrorInv'
  OBVIOUS
<1>1. CASE \E tier \in Tiers : PaddleCreates(tier)
  BY <1>1, PaddleCreatesStep
<1>2. CASE PaddleMoves
  BY <1>2, PaddleMovesStep
<1>3. CASE Tick
  BY <1>3, SubscriptionTick
<1>4. ASSUME NEW t \in Tasks, NEW id \in 1 .. Len(events), Deliver(t, id) PROVE MirrorInv'
  BY <1>4, DeliverStep
<1>5. ASSUME NEW t \in Tasks, HandlerStep(t) PROVE MirrorInv'
  BY <1>5, FindSubscriptionStep, UpdateSubscriptionStep, FindAddonsStep, SyncAddonsStep,
     ReadLimitsStep, WriteLimitsStep DEF HandlerStep
<1>6. ASSUME NEW t \in Tasks, RequestStep(t) PROVE MirrorInv'
  BY <1>6, CallPaddleStep, PaddleCallFailsStep, WriteStatusStep, WriteAddonStep DEF RequestStep
<1>7. ASSUME NEW t \in Tasks, HandlerFails(t) \/ Stops(t) \/ NewRequest(t) PROVE MirrorInv'
  BY <1>7, HandlerFailsStep, StopsStep, NewRequestStep
<1>9. ASSUME NEW id \in 1 .. Len(events), ClaimExpires(id) PROVE MirrorInv'
  BY <1>9, ClaimExpiresStep
<1>8. CASE UNCHANGED svars
  <2>1. PaddleTyped' /\ Linked' /\ Len(events) <= Len(events')
    BY <1>8 DEF svars, MirrorInv, PaddleTyped, Linked
  <2>q. QED BY <1>8, <2>1, OutsideStep DEF svars
<1>q. QED BY <1>1, <1>2, <1>3, <1>4, <1>5, <1>6, <1>7, <1>8, <1>9 DEF SNext

LEMMA MirrorImpliesType == MirrorInv => STypeOK
<1> SUFFICES ASSUME MirrorInv PROVE STypeOK
  OBVIOUS
<1>1. /\ now \in 0 .. Horizon /\ subRow \in Rows /\ addon \in Quantities \cup {0}
      /\ Len(events) <= MaxEvents /\ settled \cup redis \cup applied \subseteq 1 .. Len(events)
  BY DEF MirrorInv, PaddleTyped, RowTyped, IdsTyped, AddonQuantities
<1>2. \A t \in Tasks : Handling(t) => task[t].id \in redis
  BY DEF MirrorInv, TaskOK
<1>q. QED BY <1>1, <1>2 DEF STypeOK, Rows, MirrorInv, Claims

\* The row is well formed, and an event is handled by one delivery at a time,
\* which holds its claim (STypeOK), whatever statements of the handlers and of
\* processEvent throw, wherever a process stops, however many deliveries and
\* requests overlap, and however often claims run out that nobody works under.
THEOREM OneHandlerPerEvent == SSpec => []STypeOK
<1>1. SInit => MirrorInv
  BY MirrorInit
<1>2. MirrorInv /\ [SNext]_svars => MirrorInv'
  BY MirrorStep
<1>3. MirrorInv => STypeOK
  BY MirrorImpliesType
<1>q. QED BY <1>1, <1>2, <1>3, PTL DEF SSpec
==============================================================================
