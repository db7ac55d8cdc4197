---------------------------- MODULE Subscriptions ----------------------------
(***************************************************************************)
(* The subscription row of one tenant, mirrored from Paddle                *)
(* (PaddleWebhookService, SubscriptionsService).                           *)
(*                                                                         *)
(* Paddle owns the subscription: every change there emits an event with a  *)
(* snapshot, delivered at least once and in any order until a delivery is  *)
(* answered 200.  A delivery claims the event id in Redis for a day, runs  *)
(* its handler and, when the handler throws, tries to give the id back.  A *)
(* handler and an API request are sequences of single statements without a *)
(* transaction; all of them write the same row, and the process may stop   *)
(* between any two of them.                                                *)
(*                                                                         *)
(* One resource stands for the four: limits and add-ons do not interact    *)
(* between resources.  Dates are ticks; a billing period lasts one.        *)
(***************************************************************************)
EXTENDS Integers, Sequences

CONSTANTS
  Tasks,       \* webhook deliveries and API requests, concurrent
  Nothing,
  Tiers,       \* paid plan tiers
  PlanLimits,  \* [tier -> limit]: PLAN_LIMITS, the trial included; Nothing:
               \* unlimited
  Quantities,  \* add-on quantities
  Moves,       \* kinds of changes made on Paddle's side
  Ops,         \* kinds of API requests
  Ordered,     \* Paddle delivers one event at a time, in order
  MaxEvents,   \* bound on the events
  MaxFaults,   \* bound on failing statements, stops and claims that run out
  Horizon      \* bound on the clock

AllMoves == {"renew", "portalCancel", "pastDue", "recover", "pause", "resume",
             "portalPlan", "end"}
AllOps == {"changePlan", "manageAddon", "cancel", "reactivate"}

ASSUME SubscriptionsAssumption ==
  /\ PlanLimits \in [Tiers \cup {"TRIAL"} -> Nat \cup {Nothing}] /\ "TRIAL" \notin Tiers
  /\ Quantities \subseteq Nat /\ Moves \subseteq AllMoves /\ Ops \subseteq AllOps
  /\ Ordered \in BOOLEAN
  /\ MaxEvents \in Nat /\ MaxFaults \in Nat /\ Horizon \in Nat
  /\ Nothing # "webhook"

VARIABLES
  now,
  subRow,    \* the row: [linked, tier, status, max, period, ends]
  addon,     \* quantity in subscription_addons, 0: no row
  paddle,    \* Paddle's subscription: [tier, addon, status, scheduled, period]
  events,    \* events Paddle emitted: [type, data]; the index is the event id
  settled,   \* event ids that were answered 200
  redis,     \* event ids claimed with SET NX
  applied,   \* event ids whose handler ran to its end
  task,      \* task[t]: [pc, op, id, arg, row, addon]: its next statement, its
             \* request, and the row and the add-on as it read them
  faults

svars == <<now, subRow, addon, paddle, events, settled, redis, applied, task, faults>>

Idle == [pc |-> "idle", op |-> Nothing, id |-> 0, arg |-> Nothing, row |-> Nothing, addon |-> 0]

\* register: a trial without a Paddle subscription.
SInit ==
  /\ now = 0
  /\ subRow = [linked |-> FALSE, tier |-> "TRIAL", status |-> "TRIALING",
               max |-> PlanLimits["TRIAL"], period |-> Nothing, ends |-> Nothing]
  /\ addon = 0
  /\ paddle = Nothing
  /\ events = <<>> /\ settled = {} /\ redis = {} /\ applied = {}
  /\ task = [t \in Tasks |-> Idle]
  /\ faults = 0

Busy == {t \in Tasks : task[t] # Idle}
Handling(t) == task[t].op = "webhook"
MoveTo(t, l) == task' = [task EXCEPT ![t].pc = l]
ReadRow(t, l) == task' = [task EXCEPT ![t].pc = l, ![t].row = subRow, ![t].addon = addon]
EndTask(t) == task' = [task EXCEPT ![t] = Idle]

-----------------------------------------------------------------------------
(* Paddle *)

Emit(type, data) ==
  /\ Len(events) < MaxEvents
  /\ events' = Append(events, [type |-> type, data |-> data])
  /\ paddle' = data

LocalUnchanged == UNCHANGED <<now, subRow, addon, settled, redis, applied, task, faults>>

\* The checkout of a tenant without a subscription completes.
PaddleCreates(tier) ==
  /\ paddle = Nothing
  /\ Emit("created", [tier |-> tier, addon |-> 0, status |-> "active",
                      scheduled |-> FALSE, period |-> now + 1])
  /\ LocalUnchanged

\* What happens on Paddle's side: billing, the customer portal, its support.
\* A subscription with a scheduled cancellation is neither renewed, paused nor
\* resumed.
PaddleMoves ==
  /\ paddle # Nothing /\ paddle.status # "canceled"
  /\ \/ /\ "renew" \in Moves /\ paddle.status = "active" /\ ~paddle.scheduled
        /\ paddle.period <= now
        /\ Emit("transaction", [paddle EXCEPT !.period = now + 1])
     \/ /\ "portalCancel" \in Moves /\ paddle.status = "active" /\ ~paddle.scheduled
        /\ Emit("updated", [paddle EXCEPT !.scheduled = TRUE])
     \/ /\ "portalPlan" \in Moves /\ paddle.status = "active"
        /\ \E t \in Tiers \ {paddle.tier}, q \in Quantities :
             Emit("updated", [paddle EXCEPT !.tier = t, !.addon = q])
     \/ /\ "pastDue" \in Moves /\ paddle.status = "active" /\ paddle.period <= now
        /\ Emit("past_due", [paddle EXCEPT !.status = "past_due"])
     \/ /\ "recover" \in Moves /\ paddle.status = "past_due"
        /\ Emit("updated", [paddle EXCEPT !.status = "active", !.period = now + 1])
     \/ /\ "pause" \in Moves /\ paddle.status = "active" /\ ~paddle.scheduled
        /\ Emit("paused", [paddle EXCEPT !.status = "paused"])
     \/ /\ "resume" \in Moves /\ paddle.status = "paused" /\ ~paddle.scheduled
        /\ Emit("resumed", [paddle EXCEPT !.status = "active", !.period = now + 1])
     \/ /\ "end" \in Moves /\ paddle.scheduled /\ paddle.period <= now
        /\ Emit("canceled", [paddle EXCEPT !.status = "canceled", !.scheduled = FALSE])
  /\ LocalUnchanged

Tick ==
  /\ now < Horizon /\ now' = now + 1
  /\ UNCHANGED <<subRow, addon, paddle, events, settled, redis, applied, task, faults>>

-----------------------------------------------------------------------------
(* processEvent *)

EventOf(t) == events[task[t].id]

StartHandler(t, id) ==
  task' = [task EXCEPT ![t].op = "webhook", ![t].id = id,
                       ![t].pc = IF events[id].type = "created" THEN "update" ELSE "find"]

DeliveredNext(id) == Ordered => Busy = {} /\ \A i \in 1 .. id - 1 : i \in settled

\* Mutant of Deliver: the event id is looked up and not claimed.
DeliverUnclaimed(t, id) ==
  /\ task[t].pc = "idle" /\ DeliveredNext(id) /\ id \notin redis
  /\ StartHandler(t, id)
  /\ UNCHANGED <<now, subRow, addon, paddle, events, settled, redis, applied, faults>>

\* SET event_id NX; a delivery that does not get the key is answered 200.
\* Paddle may repeat an event whose answer it did not see.
Deliver(t, id) ==
  /\ task[t].pc = "idle" /\ DeliveredNext(id)
  /\ IF id \in redis
     THEN /\ settled' = settled \cup {id}
          /\ UNCHANGED <<redis, task>>
     ELSE /\ redis' = redis \cup {id}
          /\ StartHandler(t, id)
          /\ UNCHANGED settled
  /\ UNCHANGED <<now, subRow, addon, paddle, events, applied, faults>>

\* IDEMPOTENCY_TTL_SECONDS.  A handler takes seconds: its own claim does not run
\* out before it ends.
ClaimExpires(id) ==
  /\ id \in redis /\ faults < MaxFaults
  /\ \A t \in Tasks : Handling(t) => task[t].id # id
  /\ redis' = redis \ {id}
  /\ faults' = faults + 1
  /\ UNCHANGED <<now, subRow, addon, paddle, events, settled, applied, task>>

\* The handler returned: 200.
Handled(t) ==
  /\ applied' = applied \cup {task[t].id}
  /\ settled' = settled \cup {task[t].id}
  /\ EndTask(t)

\* findByPaddleSubscriptionId: an unknown subscription is logged and ignored.
FindSubscription(t) ==
  /\ task[t].pc = "find"
  /\ IF subRow.linked THEN MoveTo(t, "update") /\ UNCHANGED <<applied, settled>>
     ELSE Handled(t)
  /\ UNCHANGED <<now, subRow, addon, paddle, events, redis, faults>>

PaddleStatus(s) ==
  CASE s = "active" -> "ACTIVE" [] s = "past_due" -> "PAST_DUE"
    [] s = "paused" -> "PAUSED" [] s = "canceled" -> "CANCELLED"

\* handleSubscriptionCreated: the trial ends and the row is linked.
Created(row, d) ==
  [row EXCEPT !.linked = TRUE, !.tier = d.tier, !.status = "ACTIVE", !.period = d.period]

\* Mutant of Updated: a scheduled cancellation is not looked at.
UpdatedActive(row, d) ==
  [row EXCEPT !.tier = d.tier, !.period = d.period, !.status = PaddleStatus(d.status)]

\* handleSubscriptionUpdated: a scheduled cancellation shows as CANCELLED and
\* leaves cancelEffectiveAt alone.
Updated(row, d) ==
  LET s == IF d.scheduled THEN "CANCELLED" ELSE PaddleStatus(d.status)
  IN  [row EXCEPT !.tier = d.tier, !.period = d.period, !.status = s,
                  !.ends = IF s = "ACTIVE" THEN Nothing ELSE @]

\* handleSubscriptionCanceled: extractPeriodEnd of data without a billing period
\* is undefined and leaves cancelEffectiveAt alone.
Canceled(row, d, dated) ==
  [row EXCEPT !.status = "CANCELLED", !.ends = IF dated THEN d.period ELSE @]

\* The row as the handler of each event type writes it.
Written(row, e, dated) ==
  CASE e.type = "created" -> Created(row, e.data)
    [] e.type = "updated" -> Updated(row, e.data)
    [] e.type = "canceled" -> Canceled(row, e.data, dated)
    [] e.type = "past_due" -> [row EXCEPT !.status = "PAST_DUE"]
    [] e.type = "paused" -> [row EXCEPT !.status = "PAUSED"]
    [] e.type = "resumed" -> [row EXCEPT !.status = "ACTIVE"]
    [] e.type = "transaction" -> [row EXCEPT !.period = e.data.period]

UpdateSubscription(t) ==
  /\ task[t].pc = "update"
  /\ \E dated \in BOOLEAN : subRow' = Written(subRow, EventOf(t), dated)
  /\ IF EventOf(t).type \in {"created", "updated"}
     THEN MoveTo(t, "findAddons") /\ UNCHANGED <<applied, settled>>
     ELSE Handled(t)
  /\ UNCHANGED <<now, addon, paddle, events, redis, faults>>

FindAddons(t) ==
  /\ task[t].pc = "findAddons"
  /\ ReadRow(t, "syncAddons")
  /\ UNCHANGED <<now, subRow, addon, paddle, events, settled, redis, applied, faults>>

\* syncAddonsFromPaddleItems: upsert what Paddle has, delete what was found
\* and Paddle has not.
SyncAddons(t) ==
  LET q == EventOf(t).data.addon
  IN  /\ task[t].pc = "syncAddons"
      /\ addon' = IF q > 0 THEN q ELSE IF task[t].addon > 0 THEN 0 ELSE addon
      /\ MoveTo(t, "readLimits")
      /\ UNCHANGED <<now, subRow, paddle, events, settled, redis, applied, faults>>

\* recalculateEffectiveLimits reads the row with its add-ons, then writes.
ReadLimits(t) ==
  /\ task[t].pc = "readLimits"
  /\ ReadRow(t, "writeLimits")
  /\ UNCHANGED <<now, subRow, addon, paddle, events, settled, redis, applied, faults>>

\* calculateEffectiveLimit; ADDON_UNIT_SIZE of the resource is 1.
EffectiveLimit(tier, quantity) ==
  IF PlanLimits[tier] = Nothing THEN Nothing ELSE PlanLimits[tier] + quantity

WriteLimits(t) ==
  /\ task[t].pc = "writeLimits"
  /\ subRow' = [subRow EXCEPT !.max = EffectiveLimit(task[t].row.tier, task[t].addon)]
  /\ IF Handling(t) THEN Handled(t)
     ELSE EndTask(t) /\ UNCHANGED <<applied, settled>>
  /\ UNCHANGED <<now, addon, paddle, events, redis, faults>>

\* Any statement may throw: the key is released and Paddle retries.
HandlerFails(t) ==
  /\ Handling(t) /\ faults < MaxFaults
  /\ redis' = redis \ {task[t].id}
  /\ EndTask(t)
  /\ faults' = faults + 1
  /\ UNCHANGED <<now, subRow, addon, paddle, events, settled, applied>>

\* The process stops, or a statement throws and so does the redis.del that
\* should release the key: nobody handles the event and its id stays claimed.  A
\* request that stops or throws leaves what it has written.
Stops(t) ==
  /\ t \in Busy /\ faults < MaxFaults
  /\ EndTask(t)
  /\ faults' = faults + 1
  /\ UNCHANGED <<now, subRow, addon, paddle, events, settled, redis, applied>>

-----------------------------------------------------------------------------
(* SubscriptionsService *)

\* The read of the row and the checks on it; a request that fails them is
\* answered 400 and changes nothing.
Accepts(op) ==
  /\ op # "manageAddon" => subRow.linked
  /\ op \in {"changePlan", "manageAddon"} => subRow.tier # "TRIAL"
  /\ op = "cancel" => subRow.status # "CANCELLED"
  /\ op = "reactivate" => /\ subRow.status = "CANCELLED"
                          /\ IF subRow.ends = Nothing THEN TRUE ELSE subRow.ends > now

Request(t, op, arg) ==
  /\ task[t].pc = "idle" /\ Accepts(op)
  /\ task' = [task EXCEPT ![t] = [pc |-> IF subRow.linked THEN "callPaddle" ELSE "writeAddon",
                                  op |-> op, id |-> 0, arg |-> arg,
                                  row |-> subRow, addon |-> addon]]
  /\ UNCHANGED <<now, subRow, addon, paddle, events, settled, redis, applied, faults>>

\* What a request asks Paddle for.  Plan changes and add-ons send the whole
\* list of items, built from what was read.
Asked(j) ==
  CASE j.op = "changePlan" -> [paddle EXCEPT !.tier = j.arg, !.addon = j.addon]
    [] j.op = "manageAddon" -> [paddle EXCEPT !.tier = j.row.tier, !.addon = j.arg]
    [] j.op = "cancel" -> [paddle EXCEPT !.scheduled = TRUE]
    [] j.op = "reactivate" -> [paddle EXCEPT !.scheduled = FALSE]

\* The call of Paddle, which emits an event.  Cancelling what is scheduled
\* already counts as done.
CallPaddle(t) ==
  LET j == task[t]
  IN  /\ task[t].pc = "callPaddle" /\ paddle.status # "canceled"
      /\ IF j.op = "cancel" /\ paddle.scheduled THEN UNCHANGED <<paddle, events>>
         ELSE Emit("updated", Asked(j))
      /\ IF j.op = "changePlan" /\ j.row.status # "CANCELLED" THEN EndTask(t)
         ELSE MoveTo(t, IF j.op = "manageAddon" THEN "writeAddon" ELSE "writeStatus")
      /\ UNCHANGED <<now, subRow, addon, settled, redis, applied, faults>>

\* Paddle refuses, times out, or the circuit is open: the request fails.
PaddleCallFails(t) ==
  /\ task[t].pc = "callPaddle"
  /\ EndTask(t)
  /\ UNCHANGED <<now, subRow, addon, paddle, events, settled, redis, applied, faults>>

\* The optimistic update of cancelSubscription, and the end of a cancellation
\* in reactivateSubscription and changePlan.
WriteStatus(t) ==
  /\ task[t].pc = "writeStatus"
  /\ subRow' = IF task[t].op = "cancel"
               THEN [subRow EXCEPT !.status = "CANCELLED",
                                   !.ends = IF task[t].row.period = Nothing THEN now
                                            ELSE task[t].row.period]
               ELSE [subRow EXCEPT !.status = "ACTIVE", !.ends = Nothing]
  /\ EndTask(t)
  /\ UNCHANGED <<now, addon, paddle, events, settled, redis, applied, faults>>

WriteAddon(t) ==
  /\ task[t].pc = "writeAddon"
  /\ addon' = task[t].arg
  /\ MoveTo(t, "readLimits")
  /\ UNCHANGED <<now, subRow, paddle, events, settled, redis, applied, faults>>

-----------------------------------------------------------------------------

HandlerStep(t) ==
  \/ FindSubscription(t) \/ UpdateSubscription(t) \/ FindAddons(t)
  \/ SyncAddons(t) \/ ReadLimits(t) \/ WriteLimits(t)

NewRequest(t) ==
  \/ \E op \in Ops \cap {"cancel", "reactivate"} : Request(t, op, Nothing)
  \/ "changePlan" \in Ops /\ \E a \in Tiers : Request(t, "changePlan", a)
  \/ "manageAddon" \in Ops /\ \E q \in Quantities : Request(t, "manageAddon", q)

RequestStep(t) ==
  CallPaddle(t) \/ PaddleCallFails(t) \/ WriteStatus(t) \/ WriteAddon(t)

SNext ==
  \/ \E tier \in Tiers : PaddleCreates(tier)
  \/ PaddleMoves \/ Tick
  \/ \E id \in 1 .. Len(events) : ClaimExpires(id)
  \/ \E t \in Tasks : \/ \E id \in 1 .. Len(events) : Deliver(t, id)
                      \/ HandlerStep(t) \/ HandlerFails(t) \/ Stops(t)
                      \/ NewRequest(t) \/ RequestStep(t)

SSpec == SInit /\ [][SNext]_svars

\* A handler and a request that started run on, the call of Paddle being
\* answered or timing out.  Paddle retries what was not answered 200 for days:
\* requests do not keep a delivery out forever, which needs strong fairness
\* when tasks take turns.
SFairSpec ==
  /\ SSpec
  /\ \A t \in Tasks : WF_svars(HandlerStep(t)) /\ WF_svars(RequestStep(t))
  /\ SF_svars(\E t \in Tasks, id \in 1 .. Len(events) : id \notin settled /\ Deliver(t, id))

-----------------------------------------------------------------------------
(* Properties *)

RowStatuses == {"TRIALING", "ACTIVE", "PAST_DUE", "PAUSED", "CANCELLED"}
Dates == 0 .. Horizon + 1

\* Type correctness; an event that is being handled is claimed, and no event is
\* handled by two deliveries at once.
STypeOK ==
  /\ now \in 0 .. Horizon
  /\ subRow \in [linked: BOOLEAN, tier: Tiers \cup {"TRIAL"}, status: RowStatuses,
                 max: Nat \cup {Nothing}, period: Dates \cup {Nothing},
                 ends: Dates \cup {Nothing}]
  /\ addon \in Quantities \cup {0}
  /\ Len(events) <= MaxEvents /\ settled \cup redis \cup applied \subseteq 1 .. Len(events)
  /\ \A t \in Tasks : Handling(t) => task[t].id \in redis
  /\ \A t, u \in Tasks : Handling(t) /\ Handling(u) /\ task[t].id = task[u].id => t = u

\* The row says what Paddle says.
Mirrored ==
  /\ paddle # Nothing
  /\ subRow.linked /\ subRow.tier = paddle.tier /\ addon = paddle.addon
  /\ subRow.max = EffectiveLimit(paddle.tier, paddle.addon)
  /\ IF paddle.status = "active" /\ paddle.scheduled THEN subRow.status = "CANCELLED"
     ELSE \/ subRow.status = PaddleStatus(paddle.status)
          \/ paddle.scheduled /\ subRow.status = "CANCELLED"

\* Every event that was answered 200 was handled, and none is handled again, its
\* claim having run out, after a later one.  The code secures neither: an event
\* whose claim outlives its handler is skipped, and claims last a day.
NothingLost ==
  /\ settled \subseteq applied
  /\ \A t \in Tasks : Handling(t) => \A id \in applied : id <= task[t].id

\* When Paddle delivers new events one at a time and in order, requests and
\* handlers do not overlap, and no event is lost or late, the row converges to
\* Paddle's subscription: repeated events, handlers that fail half way and are
\* retried, and requests that stop half way included ("Paddle state is mirrored
\* onto Subscription", business-logic.md).
ConvergesInOrder == <>(paddle # Nothing) /\ []NothingLost => <>[]Mirrored
==============================================================================
