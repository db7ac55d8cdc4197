----------------------------- MODULE Idempotency -----------------------------
(***************************************************************************)
(* Retried writes: payments and order creations that carry an              *)
(* idempotency-key header (src/src/modules/idempotency, payments, and      *)
(* OrdersService.create).                                                  *)
(*                                                                         *)
(* A payment is a READ COMMITTED transaction that first locks its order;   *)
(* an order creation is a Serializable transaction, retried as a whole.    *)
(* Both claim the key with one conditional UPSERT, write, store the id of  *)
(* what they made under the key and commit; the event is dispatched after  *)
(* the commit.  Clients send a call again when they got no answer: every   *)
(* delivery is a request of its own.                                       *)
(*                                                                         *)
(* The row a request creates is identified by the request.  paid[o] stands *)
(* for the sum of the committed payments of order o, whatever their        *)
(* status.  The 24 h a key lives are a nondeterministic expiry.            *)
(***************************************************************************)
EXTENDS Integers

CONSTANTS
  Req,           \* deliveries of calls
  Orders,        \* orders that can be paid for
  Keys,          \* idempotency keys of one tenant
  None,          \* no value: no key, no lock holder, no row
  Total,         \* order -> totalPrice (0: unlimited)
  Calls,         \* the calls clients make
  MAX_RESERVATION_ATTEMPTS

\* actor stands for the user and for the rest of the fingerprint.
Call == [kind: {"payment", "order"}, order: Orders \cup {None},
         key: Keys \cup {None}, amount: Nat, actor: {"a", "b"}]

\* A row of idempotency_keys: the fingerprint, the stored result, not expired.
KeyRow == [call: Calls, res: Req, live: BOOLEAN]

ASSUME ConstantsAssumption ==
  /\ Total \in [Orders -> Nat] /\ Calls \subseteq Call
  /\ \A c \in Calls : c.kind = "payment" => c.order \in Orders
  /\ None \notin Req \cup Orders \cup Keys \cup KeyRow
  /\ {"none", "rejected", "conflict", "error"} \cap Req = {}
  /\ MAX_RESERVATION_ATTEMPTS \in Nat \ {0}

VARIABLES
  order,    \* order[o]: [open, del], the row a payment locks
  paid,     \* paid[o]: sum of the committed payments
  lock,     \* lock[o]: the transaction that holds the order row
  keys,     \* keys[k]: committed row of idempotency_keys
  holder,   \* holder[k]: the transaction with an uncommitted claim of k
  call,     \* call[r]: what r was sent with
  pc,       \* pc[r]: the next statement of r
  seen,     \* seen[r]: the row of the key when r read it
  attempt,  \* attempt[r]: attempts of an order creation
  made,     \* requests whose payment or order is committed
  expired,  \* requests in made whose key has expired since
  events,   \* requests whose event was dispatched
  answer    \* answer[r]: the request whose row r returned, or an error

vars == <<order, paid, lock, keys, holder, call, pc, seen, attempt, made,
          expired, events, answer>>

InTxPcs == {"read", "acquire", "reread", "check", "commit"}
Pcs == InTxPcs \cup {"ready", "lock", "dispatch", "done"}

Init ==
  /\ order = [o \in Orders |-> [open |-> TRUE, del |-> FALSE]]
  /\ paid = [o \in Orders |-> 0]
  /\ lock = [o \in Orders |-> None]
  /\ keys = [k \in Keys |-> None]
  /\ holder = [k \in Keys |-> None]
  /\ call = [r \in Req |-> None]
  /\ pc = [r \in Req |-> "ready"]
  /\ seen = [r \in Req |-> None]
  /\ attempt = [r \in Req |-> 0]
  /\ made = {} /\ expired = {} /\ events = {}
  /\ answer = [r \in Req |-> "none"]

-----------------------------------------------------------------------------

Goto(r, l) == pc' = [pc EXCEPT ![r] = l]

Unlocked(r, f) == [x \in DOMAIN f |-> IF f[x] = r THEN None ELSE f[x]]

\* r's transaction ends without writing: locks and the claim are rolled back.
Finish(r, a) ==
  /\ Goto(r, "done")
  /\ answer' = [answer EXCEPT ![r] = a]
  /\ lock' = Unlocked(r, lock)
  /\ holder' = Unlocked(r, holder)
  /\ UNCHANGED <<order, paid, keys, call, seen, attempt, made, expired, events>>

Submit(r, c) ==
  /\ pc[r] = "ready"
  /\ call' = [call EXCEPT ![r] = c]
  /\ Goto(r, IF c.kind = "payment" THEN "lock"
             ELSE IF c.key # None THEN "read" ELSE "check")
  /\ attempt' = [attempt EXCEPT ![r] = 1]
  /\ UNCHANGED <<order, paid, lock, keys, holder, seen, made, expired, events, answer>>

\* withLockedOrder: a missing order is a 404.
LockOrder(r) ==
  /\ pc[r] = "lock"
  /\ LET o == call[r].order
     IN  IF order[o].del THEN Finish(r, "rejected")
         ELSE /\ lock[o] = None
              /\ lock' = [lock EXCEPT ![o] = r]
              /\ Goto(r, IF call[r].key # None THEN "read" ELSE "check")
              /\ UNCHANGED <<order, paid, keys, holder, call, seen, attempt,
                             made, expired, events, answer>>

\* Mutant of Replay: the fingerprint is not compared.
ReplayAny(r, row) == Finish(r, row.res)

\* replayRequest, and the read of what the first delivery made.  An order that
\* was deleted since is a 404.
Replay(r, row) ==
  IF row.call # call[r] THEN Finish(r, "conflict")
  ELSE \/ Finish(r, row.res)
       \/ call[r].kind = "order" /\ Finish(r, "rejected")

\* claimRequestTx reads the key.
ReadKey(r) ==
  /\ pc[r] = "read"
  /\ LET row == keys[call[r].key]
     IN  IF row # None /\ row.live THEN Replay(r, row)
         ELSE /\ seen' = [seen EXCEPT ![r] = row]
              /\ Goto(r, "acquire")
              /\ UNCHANGED <<order, paid, lock, keys, holder, call, attempt,
                             made, expired, events, answer>>

\* Mutant of Retry: the last attempt is followed by another one.
RetryOnceMore(r) ==
  IF attempt[r] > MAX_RESERVATION_ATTEMPTS THEN Finish(r, "conflict")
  ELSE /\ attempt' = [attempt EXCEPT ![r] = @ + 1]
       /\ holder' = Unlocked(r, holder)
       /\ Goto(r, IF call[r].key # None THEN "read" ELSE "check")
       /\ UNCHANGED <<order, paid, lock, keys, call, seen, made, expired, events, answer>>

\* runReservationTransaction starts the whole order creation over.
Retry(r) ==
  IF attempt[r] >= MAX_RESERVATION_ATTEMPTS THEN Finish(r, "conflict")
  ELSE /\ attempt' = [attempt EXCEPT ![r] = @ + 1]
       /\ holder' = Unlocked(r, holder)
       /\ Goto(r, IF call[r].key # None THEN "read" ELSE "check")
       /\ UNCHANGED <<order, paid, lock, keys, call, seen, made, expired, events, answer>>

\* Mutant of AcquireKey: the UPSERT replaces the row whatever its expiry.
AcquireKeyAlways(r) ==
  /\ pc[r] = "acquire"
  /\ holder[call[r].key] = None
  /\ holder' = [holder EXCEPT ![call[r].key] = r]
  /\ Goto(r, "check")
  /\ UNCHANGED <<order, paid, lock, keys, call, seen, attempt, made, expired,
                 events, answer>>

\* acquireRequestLock waits for an uncommitted claim.  It takes a missing key
\* or the expired row that was read; a row committed meanwhile expires after
\* claimedAt.  A payment then reads the winner, a Serializable creation fails.
AcquireKey(r) ==
  LET k == call[r].key
  IN  /\ pc[r] = "acquire"
      /\ holder[k] = None
      /\ IF keys[k] \in {None, seen[r]}
         THEN /\ holder' = [holder EXCEPT ![k] = r]
              /\ Goto(r, "check")
              /\ UNCHANGED <<order, paid, lock, keys, call, seen, attempt,
                             made, expired, events, answer>>
         ELSE IF call[r].kind = "order" THEN Retry(r)
         ELSE /\ Goto(r, "reread")
              /\ UNCHANGED <<order, paid, lock, keys, holder, call, seen,
                             attempt, made, expired, events, answer>>

RereadKey(r) ==
  /\ pc[r] = "reread"
  /\ LET row == keys[call[r].key]
     IN  IF row = None THEN Finish(r, "conflict") ELSE Replay(r, row)

\* Mutant of CheckPayment: earlier payments are not added up.
CheckPaymentUnsummed(r) ==
  LET o == call[r].order
  IN  /\ pc[r] = "check" /\ call[r].kind = "payment"
      /\ IF order[o].open /\ (Total[o] > 0 => call[r].amount <= Total[o])
         THEN /\ Goto(r, "commit")
              /\ UNCHANGED <<order, paid, lock, keys, holder, call, seen,
                             attempt, made, expired, events, answer>>
         ELSE Finish(r, "rejected")

\* A terminal order takes no payment, and the payments stay within its total.
CheckPayment(r) ==
  LET o == call[r].order
  IN  /\ pc[r] = "check" /\ call[r].kind = "payment"
      /\ IF /\ order[o].open
            /\ Total[o] > 0 => paid[o] + call[r].amount <= Total[o]
         THEN /\ Goto(r, "commit")
              /\ UNCHANGED <<order, paid, lock, keys, holder, call, seen,
                             attempt, made, expired, events, answer>>
         ELSE Finish(r, "rejected")

\* The reservation itself: see OrderReservation.  It succeeds, is refused, or
\* is aborted by the database.
CheckOrder(r) ==
  /\ pc[r] = "check" /\ call[r].kind = "order"
  /\ \/ /\ Goto(r, "commit")
        /\ UNCHANGED <<order, paid, lock, keys, holder, call, seen, attempt,
                       made, expired, events, answer>>
     \/ Finish(r, "rejected")
     \/ Retry(r)

\* The row, the stored result and the claim become visible together.
Commit(r) ==
  LET c == call[r]
  IN  /\ pc[r] = "commit"
      /\ made' = made \cup {r}
      /\ paid' = IF c.kind = "payment"
                 THEN [paid EXCEPT ![c.order] = @ + c.amount] ELSE paid
      /\ keys' = IF c.key = None THEN keys
                 ELSE [keys EXCEPT ![c.key] = [call |-> c, res |-> r, live |-> TRUE]]
      /\ lock' = Unlocked(r, lock)
      /\ holder' = Unlocked(r, holder)
      /\ Goto(r, "dispatch")
      /\ UNCHANGED <<order, call, seen, attempt, expired, events, answer>>

\* The event goes out only for a row that was made now, then the answer.
Dispatch(r) ==
  /\ pc[r] = "dispatch"
  /\ events' = events \cup {r}
  /\ answer' = [answer EXCEPT ![r] = r]
  /\ Goto(r, "done")
  /\ UNCHANGED <<order, paid, lock, keys, holder, call, seen, attempt, made, expired>>

\* The transaction times out, or the server stops: before the commit nothing
\* is left; after it the row stays without its event and without an answer.
Crash(r) ==
  /\ pc[r] \in InTxPcs \cup {"lock", "dispatch"}
  /\ Finish(r, "error")

-----------------------------------------------------------------------------
(* The environment *)

\* 24 hours after the claim.
Expire(k) ==
  /\ keys[k] # None /\ keys[k].live
  /\ keys' = [keys EXCEPT ![k].live = FALSE]
  /\ expired' = expired \cup {keys[k].res}
  /\ UNCHANGED <<order, paid, lock, holder, call, pc, seen, attempt, made, events, answer>>

\* deleteExpired waits for an uncommitted claim and looks at the row again.
DeleteExpired(k) ==
  /\ keys[k] # None /\ ~keys[k].live /\ holder[k] = None
  /\ keys' = [keys EXCEPT ![k] = None]
  /\ UNCHANGED <<order, paid, lock, holder, call, pc, seen, attempt, made,
                 expired, events, answer>>

\* updateStatus and softDelete wait for the order row.
CloseOrder(o) ==
  /\ lock[o] = None /\ order[o].open
  /\ order' = [order EXCEPT ![o].open = FALSE]
  /\ UNCHANGED <<paid, lock, keys, holder, call, pc, seen, attempt, made,
                 expired, events, answer>>

DeleteOrder(o) ==
  /\ lock[o] = None /\ ~order[o].del
  /\ order' = [order EXCEPT ![o].del = TRUE]
  /\ UNCHANGED <<paid, lock, keys, holder, call, pc, seen, attempt, made,
                 expired, events, answer>>

-----------------------------------------------------------------------------

Step(r) ==
  \/ LockOrder(r) \/ ReadKey(r) \/ AcquireKey(r) \/ RereadKey(r)
  \/ CheckPayment(r) \/ CheckOrder(r) \/ Commit(r) \/ Dispatch(r)

\* Every call that was sent has been answered.
Quiescent ==
  /\ \A r \in Req : pc[r] \in {"ready", "done"}
  /\ UNCHANGED vars

Next ==
  \/ \E r \in Req : (\E c \in Calls : Submit(r, c)) \/ Step(r) \/ Crash(r)
  \/ \E k \in Keys : Expire(k) \/ DeleteExpired(k)
  \/ \E o \in Orders : CloseOrder(o) \/ DeleteOrder(o)
  \/ Quiescent

Spec == Init /\ [][Next]_vars

-----------------------------------------------------------------------------
(* Properties *)

\* Type correctness; an order creation makes at most MAX_RESERVATION_ATTEMPTS
\* attempts, and an event goes out only for what was committed.
TypeOK ==
  /\ order \in [Orders -> [open: BOOLEAN, del: BOOLEAN]]
  /\ paid \in [Orders -> Nat]
  /\ lock \in [Orders -> Req \cup {None}]
  /\ keys \in [Keys -> KeyRow \cup {None}]
  /\ holder \in [Keys -> Req \cup {None}]
  /\ call \in [Req -> Calls \cup {None}]
  /\ pc \in [Req -> Pcs]
  /\ seen \in [Req -> KeyRow \cup {None}]
  /\ attempt \in [Req -> 0 .. MAX_RESERVATION_ATTEMPTS]
  /\ made \subseteq Req /\ expired \subseteq made /\ events \subseteq made
  /\ answer \in [Req -> Req \cup {"none", "rejected", "conflict", "error"}]

\* The payments of an order never exceed its total, whatever payments race
\* (payments.service.ts create).
PaidWithinTotal == \A o \in Orders : Total[o] > 0 => paid[o] <= Total[o]

\* Until the key expires, at most one of the deliveries that carry it makes a
\* payment or an order (claimRequestTx, acquireRequestLock).
OncePerKey ==
  \A r, q \in made :
    r # q /\ call[r].key = call[q].key /\ call[r].key # None
      => r \in expired \/ q \in expired

\* A delivery is answered with what the same call made, itself or an earlier
\* delivery, and never with the result of another call (replayRequest).
AnswerFitsCall ==
  \A r \in Req : answer[r] \in Req =>
    answer[r] \in made /\ call[answer[r]] = call[r]

=============================================================================
