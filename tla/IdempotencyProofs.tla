-------------------------- MODULE IdempotencyProofs --------------------------
(***************************************************************************)
(* What is proved about Idempotency: type correctness, at most one effect  *)
(* per key, answers that fit their calls, and payments within the total,   *)
(* for any number of deliveries, orders and keys.                          *)
(***************************************************************************)
EXTENDS Idempotency, TLAPS

\* A delivery that was sent knows its call; only a call with a key looks at keys.
Sent(r) ==
  /\ pc[r] # "ready" => call[r] \in Calls
  /\ pc[r] \in {"read", "acquire", "reread"} => call[r].key # None
  /\ pc[r] = "lock" => call[r].kind = "payment"

\* What is committed was committed by a delivery that wrote its last statement.
Committed(r) ==
  /\ r \in made => pc[r] \in {"dispatch", "done"}
  /\ pc[r] = "dispatch" => r \in made

\* A payment holds its order row, so what it found to fit still fits.
Locked(r) ==
  pc[r] \in InTxPcs /\ call[r].kind = "payment" =>
    /\ lock[call[r].order] = r
    /\ pc[r] = "commit" /\ Total[call[r].order] > 0 =>
         paid[call[r].order] + call[r].amount <= Total[call[r].order]

\* No delivery has an effect under the key that has not expired.
Unused(k) == keys[k] = None \/ ~keys[k].live

\* A delivery reads rows that are gone or expired, and from its claim to its
\* commit the key stays so.
Claimed(r) ==
  /\ pc[r] = "acquire" => seen[r] = None \/ ~seen[r].live
  /\ pc[r] \in {"check", "commit"} /\ call[r].key # None =>
       holder[call[r].key] = r /\ Unused(call[r].key)

\* Only what is done has an answer, and a row in it is of the same call.
Fits(r) ==
  /\ answer[r] # "none" => pc[r] = "done"
  /\ answer[r] \in Req => answer[r] \in made /\ call[answer[r]] = call[r]

\* A key's row is of a committed delivery with that key.
RowOK(k) ==
  keys[k] # None =>
    /\ keys[k].res \in made
    /\ keys[k].call = call[keys[k].res] /\ keys[k].call.key = k
    /\ ~keys[k].live => keys[k].res \in expired

\* The key of an effect that has not expired leads to it.
Recorded(r) ==
  r \in made /\ r \notin expired /\ call[r].key # None =>
    /\ keys[call[r].key] # None
    /\ keys[call[r].key].live /\ keys[call[r].key].res = r

\* The inductive invariant.
RequestOK(r) == Sent(r) /\ Committed(r) /\ Locked(r) /\ Claimed(r) /\ Fits(r) /\ Recorded(r)

IInv ==
  /\ TypeOK /\ PaidWithinTotal
  /\ \A r \in Req : RequestOK(r)
  /\ \A k \in Keys : RowOK(k)

-----------------------------------------------------------------------------
(* Steps that a delivery takes by itself *)

\* What the types of the parts say, in one place.
LEMMA Types ==
  ASSUME IInv, NEW r \in Req, pc[r] # "ready"
  PROVE  /\ call[r] \in Calls /\ call[r] \in Call
         /\ call[r].kind \in {"payment", "order"}
         /\ call[r].kind = "payment" => call[r].order \in Orders
         /\ call[r].key \in Keys \cup {None} /\ call[r].amount \in Nat
         /\ None \notin Keys /\ None \notin Req
BY ConstantsAssumption DEF IInv, RequestOK, Sent, Call

\* Giving up locks takes nothing from the others.
LEMMA UnlockedOthers ==
  ASSUME NEW r \in Req, NEW S, NEW f \in [S -> Req \cup {None}]
  PROVE  /\ Unlocked(r, f) \in [S -> Req \cup {None}]
         /\ \A x \in S, q \in Req \ {r} : f[x] = q => Unlocked(r, f)[x] = q
BY DEF Unlocked

\* A delivery that ends without writing, with an error or with a row of its
\* call, keeps the invariant.
LEMMA FinishKeeps ==
  ASSUME IInv, NEW r \in Req, pc[r] \notin {"ready", "done"},
         NEW a, \/ a \in {"rejected", "conflict", "error"}
                \/ a \in made /\ call[a] = call[r],
         Finish(r, a)
  PROVE  IInv'
<1>1. /\ lock' = Unlocked(r, lock) /\ holder' = Unlocked(r, holder)
      /\ pc' = [pc EXCEPT ![r] = "done"] /\ answer' = [answer EXCEPT ![r] = a]
      /\ UNCHANGED <<order, paid, keys, call, seen, attempt, made, expired, events>>
  BY DEF Finish, Goto
<1>2. TypeOK'
  BY <1>1, UnlockedOthers DEF IInv, TypeOK, Pcs
<1>3. \A k \in Keys : RowOK(k)'
  BY <1>1 DEF IInv, RowOK
<1>u. /\ \A x \in Orders, q \in Req \ {r} : lock[x] = q => lock'[x] = q
      /\ \A x \in Keys, q \in Req \ {r} : holder[x] = q => holder'[x] = q
  <2>1. lock \in [Orders -> Req \cup {None}] /\ holder \in [Keys -> Req \cup {None}]
    BY DEF IInv, TypeOK
  <2>q. QED BY <1>1, <2>1, UnlockedOthers
<1>4. ASSUME NEW q \in Req PROVE RequestOK(q)'
  <2>1. CASE q = r
    BY <1>1, <2>1, ConstantsAssumption DEF IInv, TypeOK, RequestOK, Sent, Committed, Locked,
       Claimed, Fits, Recorded, InTxPcs
  <2>2. CASE q # r
    <3>1. pc'[q] = pc[q] /\ answer'[q] = answer[q]
      BY <1>1, <2>2 DEF IInv, TypeOK
    <3>2. Sent(q)' /\ Committed(q)' /\ Fits(q)' /\ Recorded(q)'
      BY <1>1, <3>1 DEF IInv, RequestOK, Sent, Committed, Fits, Recorded
    <3>3. Locked(q)'
      BY <1>1, <1>u, <2>2, <3>1, Types DEF IInv, RequestOK, Locked, InTxPcs
    <3>4. Claimed(q)'
      BY <1>1, <1>u, <2>2, <3>1, Types DEF IInv, RequestOK, Claimed, Unused
    <3>q. QED BY <3>2, <3>3, <3>4 DEF RequestOK
  <2>q. QED BY <2>1, <2>2
<1>5. PaidWithinTotal'
  BY <1>1 DEF IInv, PaidWithinTotal
<1>q. QED BY <1>2, <1>3, <1>4, <1>5 DEF IInv

\* A statement of r that takes at most free locks and moves r on keeps what
\* the others rely on.
LEMMA MoveKeeps ==
  ASSUME IInv, NEW r \in Req, NEW l \in Pcs \ {"dispatch", "ready", "done"},
         pc' = [pc EXCEPT ![r] = l], TypeOK', pc[r] \notin {"dispatch", "done"},
         UNCHANGED <<order, paid, keys, made, expired, events, answer>>,
         \A q \in Req \ {r} : call'[q] = call[q] /\ seen'[q] = seen[q],
         pc[r] # "ready" => call'[r] = call[r],
         \A o \in Orders, q \in Req \ {r} : lock[o] = q => lock'[o] = q,
         \A k \in Keys, q \in Req \ {r} : holder[k] = q => holder'[k] = q,
         Sent(r)', Locked(r)', Claimed(r)'
  PROVE  IInv'
<1>1. /\ pc'[r] = l /\ r \notin made
      /\ \A q \in Req \ {r} : pc'[q] = pc[q]
  BY DEF IInv, TypeOK, RequestOK, Committed
<1>2. \A q \in made : call'[q] = call[q]
  BY <1>1 DEF IInv, TypeOK
<1>3. \A k \in Keys : RowOK(k)'
  BY <1>2 DEF IInv, RowOK
<1>4. ASSUME NEW q \in Req PROVE RequestOK(q)'
  <2>1. Committed(q)' /\ Fits(q)' /\ Recorded(q)'
    <3>1. CASE q = r
      BY <1>1, <3>1, ConstantsAssumption DEF IInv, RequestOK, Committed, Fits, Recorded, Pcs
    <3>2. CASE q # r
      BY <1>1, <1>2, <3>2 DEF IInv, RequestOK, Committed, Fits, Recorded
    <3>q. QED BY <3>1, <3>2
  <2>2. Sent(q)' /\ Locked(q)' /\ Claimed(q)'
    <3>1. CASE q = r
      BY <3>1
    <3>2. CASE q # r
      <4>1. Sent(q)'
        BY <1>1, <3>2 DEF IInv, RequestOK, Sent
      <4>2. Locked(q)'
        BY <1>1, <3>2, Types DEF IInv, RequestOK, Locked, InTxPcs
      <4>3. Claimed(q)'
        BY <1>1, <3>2, Types DEF IInv, RequestOK, Claimed, Unused
      <4>q. QED BY <4>1, <4>2, <4>3
    <3>q. QED BY <3>1, <3>2
  <2>q. QED BY <2>1, <2>2 DEF RequestOK
<1>5. PaidWithinTotal'
  BY DEF IInv, PaidWithinTotal
<1>q. QED BY <1>3, <1>4, <1>5 DEF IInv
-----------------------------------------------------------------------------
(* Every step keeps the invariant *)

\* Nothing was delivered: no locks, no rows, no effects.
LEMMA InitIInv == Init => IInv
<1> SUFFICES ASSUME Init PROVE IInv
  OBVIOUS
<1>1. TypeOK
  BY ConstantsAssumption DEF Init, TypeOK, Pcs
<1>q. QED
  BY <1>1, ConstantsAssumption DEF Init, IInv, PaidWithinTotal, RequestOK, Sent, Committed,
     Locked, Claimed, Fits, RowOK, Recorded, InTxPcs

\* A delivery comes in, a first one or a retry.
LEMMA SubmitKeeps ==
  ASSUME IInv, NEW r \in Req, NEW c \in Calls, Submit(r, c)
  PROVE  IInv'
<1> DEFINE l == IF c.kind = "payment" THEN "lock" ELSE IF c.key # None THEN "read" ELSE "check"
<1>1. /\ pc[r] = "ready" /\ call' = [call EXCEPT ![r] = c] /\ pc' = [pc EXCEPT ![r] = l]
      /\ attempt' = [attempt EXCEPT ![r] = 1]
      /\ UNCHANGED <<order, paid, lock, keys, holder, seen, made, expired, events, answer>>
  BY DEF Submit, Goto
<1>2. /\ l \in {"lock", "read", "check"}
      /\ c.kind = "payment" <=> l = "lock"
      /\ l = "read" => c.key # None
      /\ l = "check" => c.key = None
  OBVIOUS
<1> HIDE DEF l
<1>3. TypeOK'
  BY <1>1, <1>2, ConstantsAssumption DEF IInv, TypeOK, Pcs, InTxPcs
<1>4. pc'[r] = l /\ call'[r] = c
  BY <1>1 DEF IInv, TypeOK
<1>5. Sent(r)' /\ Locked(r)' /\ Claimed(r)'
  BY <1>2, <1>4 DEF Sent, Locked, Claimed, InTxPcs
<1>6. \A q \in Req \ {r} : call'[q] = call[q] /\ seen'[q] = seen[q]
  BY <1>1 DEF IInv, TypeOK
<1>q. QED BY <1>1, <1>2, <1>3, <1>5, <1>6, MoveKeeps DEF Pcs, InTxPcs

\* SELECT FOR UPDATE of the order that a payment is for.
LEMMA LockOrderKeeps ==
  ASSUME IInv, NEW r \in Req, LockOrder(r)
  PROVE  IInv'
<1> DEFINE o == call[r].order
           l == IF call[r].key # None THEN "read" ELSE "check"
<1>1. pc[r] = "lock" /\ call[r].kind = "payment" /\ call[r] \in Calls /\ o \in Orders
  BY Types DEF LockOrder, IInv, RequestOK, Sent
<1>2. CASE order[o].del
  BY <1>1, <1>2, FinishKeeps DEF LockOrder
<1>3. CASE ~order[o].del
  <2>1. /\ lock[o] = None /\ lock' = [lock EXCEPT ![o] = r] /\ pc' = [pc EXCEPT ![r] = l]
        /\ UNCHANGED <<order, paid, keys, holder, call, seen, attempt, made, expired,
                       events, answer>>
    BY <1>3 DEF LockOrder, Goto
  <2>2. l \in {"read", "check"} /\ (l = "read" <=> call[r].key # None)
    OBVIOUS
  <2> HIDE DEF l
  <2>3. TypeOK'
    BY <1>1, <2>1, <2>2 DEF IInv, TypeOK, Pcs, InTxPcs
  <2>4. pc'[r] = l /\ lock'[o] = r /\ None \notin Req
    BY <1>1, <2>1, ConstantsAssumption DEF IInv, TypeOK
  <2>5. \A x \in Orders, q \in Req \ {r} : lock[x] = q => lock'[x] = q
    BY <1>1, <2>1, <2>4 DEF IInv, TypeOK
  <2>6. Sent(r)' /\ Locked(r)' /\ Claimed(r)'
    BY <1>1, <2>1, <2>2, <2>4 DEF Sent, Locked, Claimed
  <2>q. QED BY <1>1, <2>1, <2>2, <2>3, <2>5, <2>6, MoveKeeps DEF Pcs, InTxPcs
<1>q. QED BY <1>2, <1>3

\* Answering with the row of a key: it was made by the same call.
LEMMA ReplayKeeps ==
  ASSUME IInv, NEW r \in Req, NEW k \in Keys, pc[r] \in {"read", "reread"},
         keys[k] # None, Replay(r, keys[k])
  PROVE  IInv'
<1>1. keys[k] \in KeyRow /\ RowOK(k)
  BY DEF IInv, TypeOK
<1>2. CASE keys[k].call # call[r]
  BY <1>2, FinishKeeps DEF Replay
<1>3. CASE keys[k].call = call[r]
  <2>1. Finish(r, keys[k].res) \/ Finish(r, "rejected")
    BY <1>3 DEF Replay
  <2>2. keys[k].res \in Req /\ keys[k].res \in made /\ call[keys[k].res] = call[r]
    BY <1>1, <1>3 DEF RowOK, KeyRow
  <2>q. QED BY <2>1, <2>2, FinishKeeps
<1>q. QED BY <1>2, <1>3

\* The first read of the key, before its lock is asked for.
LEMMA ReadKeyKeeps ==
  ASSUME IInv, NEW r \in Req, ReadKey(r)
  PROVE  IInv'
<1> DEFINE k == call[r].key
<1>1. pc[r] = "read" /\ call[r] \in Calls /\ k \in Keys /\ k # None
  BY Types DEF ReadKey, IInv, RequestOK, Sent
<1>2. CASE keys[k] # None /\ keys[k].live
  BY <1>1, <1>2, ReplayKeeps DEF ReadKey
<1>3. CASE keys[k] = None \/ ~keys[k].live
  <2>1. /\ seen' = [seen EXCEPT ![r] = keys[k]] /\ pc' = [pc EXCEPT ![r] = "acquire"]
        /\ UNCHANGED <<order, paid, lock, keys, holder, call, attempt, made, expired,
                       events, answer>>
    BY <1>3 DEF ReadKey, Goto
  <2>2. TypeOK'
    BY <1>1, <2>1 DEF IInv, TypeOK, Pcs, InTxPcs
  <2>3. pc'[r] = "acquire" /\ seen'[r] = keys[k] /\ \A q \in Req \ {r} : seen'[q] = seen[q]
    BY <2>1 DEF IInv, TypeOK
  <2>4. Sent(r)' /\ Locked(r)' /\ Claimed(r)'
    BY <1>1, <1>3, <2>1, <2>3 DEF IInv, RequestOK, Sent, Locked, Claimed, InTxPcs
  <2>q. QED BY <1>1, <2>1, <2>2, <2>3, <2>4, MoveKeeps DEF Pcs, InTxPcs
<1>q. QED BY <1>2, <1>3

\* An order creation that starts over, or is given up.
LEMMA RetryKeeps ==
  ASSUME IInv, NEW r \in Req, pc[r] \in {"acquire", "check"}, call[r].kind = "order", Retry(r)
  PROVE  IInv'
<1> DEFINE l == IF call[r].key # None THEN "read" ELSE "check"
<1>1. CASE attempt[r] >= MAX_RESERVATION_ATTEMPTS
  BY <1>1, FinishKeeps DEF Retry
<1>2. CASE ~(attempt[r] >= MAX_RESERVATION_ATTEMPTS)
  <2>1. /\ attempt' = [attempt EXCEPT ![r] = @ + 1] /\ holder' = Unlocked(r, holder)
        /\ pc' = [pc EXCEPT ![r] = l]
        /\ UNCHANGED <<order, paid, lock, keys, call, seen, made, expired, events, answer>>
    BY <1>2 DEF Retry, Goto
  <2>2. l \in {"read", "check"} /\ (l = "read" <=> call[r].key # None)
    OBVIOUS
  <2> HIDE DEF l
  <2>3. attempt'[r] \in 0 .. MAX_RESERVATION_ATTEMPTS
        /\ attempt' \in [Req -> 0 .. MAX_RESERVATION_ATTEMPTS]
    BY <1>2, <2>1, ConstantsAssumption DEF IInv, TypeOK
  <2>4. /\ holder' \in [Keys -> Req \cup {None}]
        /\ \A k \in Keys, q \in Req \ {r} : holder[k] = q => holder'[k] = q
    BY <2>1, UnlockedOthers DEF IInv, TypeOK
  <2>5. TypeOK'
    BY <2>1, <2>2, <2>3, <2>4 DEF IInv, TypeOK, Pcs, InTxPcs
  <2>6. pc'[r] = l /\ call'[r] = call[r]
    BY <2>1 DEF IInv, TypeOK
  <2>7. Sent(r)' /\ Locked(r)' /\ Claimed(r)'
    BY <2>2, <2>6 DEF IInv, RequestOK, Sent, Locked, Claimed, InTxPcs
  <2>q. QED BY <2>1, <2>2, <2>4, <2>5, <2>7, MoveKeeps DEF Pcs, InTxPcs
<1>q. QED BY <1>1, <1>2

\* acquireRequestLock: from here on the key is the delivery's.
LEMMA AcquireKeyKeeps ==
  ASSUME IInv, NEW r \in Req, AcquireKey(r)
  PROVE  IInv'
<1> DEFINE k == call[r].key
<1>1. /\ pc[r] = "acquire" /\ holder[k] = None /\ call[r] \in Calls /\ k \in Keys
      /\ call[r].kind \in {"payment", "order"} /\ None \notin Req
  BY Types DEF AcquireKey, IInv, RequestOK, Sent
<1>2. CASE keys[k] \in {None, seen[r]}
  <2>1. /\ holder' = [holder EXCEPT ![k] = r] /\ pc' = [pc EXCEPT ![r] = "check"]
        /\ UNCHANGED <<order, paid, lock, keys, call, seen, attempt, made, expired,
                       events, answer>>
    BY <1>2 DEF AcquireKey, Goto
  <2>2. TypeOK'
    BY <1>1, <2>1 DEF IInv, TypeOK, Pcs, InTxPcs
  <2>3. /\ pc'[r] = "check" /\ holder'[k] = r
        /\ \A x \in Keys, q \in Req \ {r} : holder[x] = q => holder'[x] = q
    BY <1>1, <2>1 DEF IInv, TypeOK
  <2>4. Sent(r)' /\ Locked(r)' /\ Claimed(r)'
    BY <1>1, <1>2, <2>1, <2>3
       DEF IInv, RequestOK, Sent, Locked, Claimed, Unused, InTxPcs
  <2>q. QED BY <1>1, <2>1, <2>2, <2>3, <2>4, MoveKeeps DEF Pcs, InTxPcs
<1>3. CASE keys[k] \notin {None, seen[r]} /\ call[r].kind = "order"
  BY <1>1, <1>3, RetryKeeps DEF AcquireKey
<1>4. CASE keys[k] \notin {None, seen[r]} /\ call[r].kind # "order"
  <2>1. /\ pc' = [pc EXCEPT ![r] = "reread"]
        /\ UNCHANGED <<order, paid, lock, keys, holder, call, seen, attempt, made,
                       expired, events, answer>>
    BY <1>4 DEF AcquireKey, Goto
  <2>2. TypeOK' /\ pc'[r] = "reread"
    BY <2>1 DEF IInv, TypeOK, Pcs, InTxPcs
  <2>3. Sent(r)' /\ Locked(r)' /\ Claimed(r)'
    BY <1>1, <2>1, <2>2 DEF IInv, RequestOK, Sent, Locked, Claimed, InTxPcs
  <2>q. QED BY <1>1, <2>1, <2>2, <2>3, MoveKeeps DEF Pcs, InTxPcs
<1>q. QED BY <1>2, <1>3, <1>4

\* The key read again under its lock: a row found here is replayed.
LEMMA RereadKeyKeeps ==
  ASSUME IInv, NEW r \in Req, RereadKey(r)
  PROVE  IInv'
<1>1. pc[r] = "reread" /\ call[r].key \in Keys
  BY Types DEF RereadKey, IInv, RequestOK, Sent
<1>2. CASE keys[call[r].key] = None
  BY <1>1, <1>2, FinishKeeps DEF RereadKey
<1>3. CASE keys[call[r].key] # None
  BY <1>1, <1>3, ReplayKeeps DEF RereadKey
<1>q. QED BY <1>2, <1>3

\* A check that passes only moves the delivery to its commit.
LEMMA PassKeeps ==
  ASSUME IInv, NEW r \in Req, pc[r] = "check", Goto(r, "commit"),
         call[r].kind = "payment" /\ Total[call[r].order] > 0 =>
           paid[call[r].order] + call[r].amount <= Total[call[r].order],
         UNCHANGED <<order, paid, lock, keys, holder, call, seen, attempt, made,
                     expired, events, answer>>
  PROVE  IInv'
<1>1. pc' = [pc EXCEPT ![r] = "commit"]
  BY DEF Goto
<1>2. TypeOK' /\ pc'[r] = "commit"
  BY <1>1 DEF IInv, TypeOK, Pcs, InTxPcs
<1>3. Sent(r)' /\ Locked(r)' /\ Claimed(r)'
  BY <1>2 DEF IInv, RequestOK, Sent, Locked, Claimed, Unused, InTxPcs
<1>q. QED BY <1>1, <1>2, <1>3, MoveKeeps DEF Pcs, InTxPcs

\* The amount against the total, or the slot, within the transaction.
LEMMA CheckKeeps ==
  ASSUME IInv, NEW r \in Req, CheckPayment(r) \/ CheckOrder(r)
  PROVE  IInv'
<1>1. pc[r] = "check"
  BY DEF CheckPayment, CheckOrder
<1>2. CASE Finish(r, "rejected")
  BY <1>1, <1>2, FinishKeeps
<1>3. CASE CheckPayment(r) /\ ~Finish(r, "rejected")
  BY <1>1, <1>3, PassKeeps DEF CheckPayment
<1>4. CASE CheckOrder(r) /\ ~Finish(r, "rejected")
  <2>1. CASE Retry(r)
    BY <1>1, <1>4, <2>1, RetryKeeps DEF CheckOrder
  <2>2. CASE ~Retry(r)
    BY <1>1, <1>4, <2>2, PassKeeps DEF CheckOrder
  <2>q. QED BY <2>1, <2>2
<1>q. QED BY <1>2, <1>3, <1>4

\* At the commit the key is still unused and, for a payment, the order row is
\* still held: no other delivery with either is about to commit.
LEMMA CommitKeeps ==
  ASSUME IInv, NEW r \in Req, Commit(r)
  PROVE  IInv'
<1> DEFINE c == call[r]
           row == [call |-> c, res |-> r, live |-> TRUE]
<1>1. /\ pc[r] = "commit" /\ pc' = [pc EXCEPT ![r] = "dispatch"]
      /\ made' = made \cup {r}
      /\ paid' = IF c.kind = "payment"
                 THEN [paid EXCEPT ![c.order] = @ + c.amount] ELSE paid
      /\ keys' = IF c.key = None THEN keys ELSE [keys EXCEPT ![c.key] = row]
      /\ lock' = Unlocked(r, lock) /\ holder' = Unlocked(r, holder)
      /\ UNCHANGED <<order, call, seen, attempt, expired, events, answer>>
  BY DEF Commit, Goto
<1>2. /\ c \in Calls /\ c.kind \in {"payment", "order"} /\ c.amount \in Nat
      /\ c.key \in Keys \cup {None} /\ None \notin Keys /\ None \notin Req
      /\ c.kind = "payment" => c.order \in Orders
      /\ Sent(r) /\ Committed(r) /\ Locked(r) /\ Claimed(r) /\ Fits(r)
  BY <1>1, Types DEF IInv, RequestOK
<1>3. row \in KeyRow
  BY <1>2 DEF KeyRow
<1>4. /\ lock \in [Orders -> Req \cup {None}] /\ holder \in [Keys -> Req \cup {None}]
      /\ paid \in [Orders -> Nat] /\ keys \in [Keys -> KeyRow \cup {None}]
      /\ pc \in [Req -> Pcs] /\ made \subseteq Req /\ expired \subseteq made
  BY DEF IInv, TypeOK
<1>5. /\ lock' \in [Orders -> Req \cup {None}] /\ holder' \in [Keys -> Req \cup {None}]
      /\ \A x \in Orders, q \in Req \ {r} : lock[x] = q => lock'[x] = q
      /\ \A x \in Keys, q \in Req \ {r} : holder[x] = q => holder'[x] = q
  BY <1>1, <1>4, UnlockedOthers
<1>6. /\ paid' \in [Orders -> Nat]
      /\ \A o \in Orders : ~(c.kind = "payment" /\ o = c.order) => paid'[o] = paid[o]
      /\ c.kind = "payment" => paid'[c.order] = paid[c.order] + c.amount
  BY <1>1, <1>2, <1>4
<1>7. /\ keys' \in [Keys -> KeyRow \cup {None}]
      /\ \A k \in Keys \ {c.key} : keys'[k] = keys[k]
      /\ c.key # None => keys'[c.key] = row
  BY <1>1, <1>2, <1>3, <1>4
<1> HIDE DEF row
<1>8. /\ pc'[r] = "dispatch" /\ r \in made' /\ \A q \in Req \ {r} : pc'[q] = pc[q]
      /\ made \subseteq made' /\ made' \subseteq made \cup {r} /\ r \notin made
  BY <1>1, <1>2, <1>4 DEF Committed
<1>9. TypeOK'
  BY <1>1, <1>4, <1>5, <1>6, <1>7, <1>8 DEF IInv, TypeOK, Pcs
<1>10. PaidWithinTotal'
  BY <1>1, <1>2, <1>6 DEF IInv, PaidWithinTotal, Locked, InTxPcs
<1>11. ASSUME NEW k \in Keys PROVE RowOK(k)'
  <2>1. CASE k = c.key
    BY <1>1, <1>2, <1>7, <1>8, <2>1 DEF RowOK, row
  <2>2. CASE k # c.key
    BY <1>1, <1>7, <1>8, <2>2 DEF IInv, RowOK
  <2>q. QED BY <2>1, <2>2
<1>12. ASSUME NEW q \in Req PROVE RequestOK(q)'
  <2>1. CASE q = r
    <3>1. Recorded(q)'
      <4>1. CASE c.key = None
        BY <1>1, <2>1, <4>1 DEF Recorded
      <4>2. CASE c.key # None
        <5>1. keys'[c.key] = row /\ row.live /\ row.res = r /\ row \in KeyRow
          BY <1>3, <1>7, <4>2 DEF row
        <5>2. keys'[c.key] # None
          BY <5>1, ConstantsAssumption
        <5>q. QED BY <1>1, <2>1, <5>1, <5>2 DEF Recorded
      <4>q. QED BY <4>1, <4>2
    <3>q. QED BY <1>1, <1>2, <1>8, <2>1, <3>1, ConstantsAssumption
              DEF RequestOK, Sent, Committed, Locked, Claimed, Fits, InTxPcs
  <2>2. CASE q # r
    <3>0. RequestOK(q) /\ pc'[q] = pc[q] /\ call'[q] = call[q] /\ answer'[q] = answer[q]
      BY <1>1, <1>8, <2>2 DEF IInv
    <3>1. Sent(q)' /\ Committed(q)' /\ Fits(q)'
      BY <1>1, <1>8, <2>2, <3>0 DEF RequestOK, Sent, Committed, Fits
    <3>2. Locked(q)'
      BY <1>1, <1>2, <1>5, <1>6, <2>2, <3>0, Types DEF RequestOK, Locked, InTxPcs
    <3>3. Claimed(q)'
      BY <1>1, <1>2, <1>5, <1>7, <2>2, <3>0, Types DEF RequestOK, Claimed, Unused
    <3>4. Recorded(q)'
      BY <1>1, <1>2, <1>7, <1>8, <2>2, <3>0, Types DEF RequestOK, Recorded, Claimed, Unused, Committed
    <3>q. QED BY <3>1, <3>2, <3>3, <3>4 DEF RequestOK
  <2>q. QED BY <2>1, <2>2
<1>q. QED BY <1>9, <1>10, <1>11, <1>12 DEF IInv

\* The event after the commit, and the answer.
LEMMA DispatchKeeps ==
  ASSUME IInv, NEW r \in Req, Dispatch(r)
  PROVE  IInv'
<1>1. /\ pc[r] = "dispatch" /\ pc' = [pc EXCEPT ![r] = "done"] /\ r \in made
      /\ events' = events \cup {r} /\ answer' = [answer EXCEPT ![r] = r]
      /\ UNCHANGED <<order, paid, lock, keys, holder, call, seen, attempt, made, expired>>
  BY DEF Dispatch, Goto, IInv, RequestOK, Committed
<1>2. TypeOK'
  BY <1>1 DEF IInv, TypeOK, Pcs
<1>3. PaidWithinTotal' /\ \A k \in Keys : RowOK(k)'
  BY <1>1 DEF IInv, PaidWithinTotal, RowOK
<1>4. ASSUME NEW q \in Req PROVE RequestOK(q)'
  <2>1. CASE q = r
    BY <1>1, <2>1 DEF IInv, TypeOK, RequestOK, Sent, Committed, Locked, Claimed, Fits,
                      Recorded, InTxPcs
  <2>2. CASE q # r
    BY <1>1, <2>2 DEF IInv, TypeOK, RequestOK, Sent, Committed, Locked, Claimed, Unused,
                      Fits, Recorded
  <2>q. QED BY <2>1, <2>2
<1>q. QED BY <1>2, <1>3, <1>4 DEF IInv

\* Keys expire and are deleted only when no effect depends on them any more.
LEMMA KeyTimePasses ==
  ASSUME IInv, NEW k \in Keys, Expire(k) \/ DeleteExpired(k)
  PROVE  IInv'
<1>1. /\ keys[k] # None /\ keys[k] \in KeyRow /\ RowOK(k)
      /\ UNCHANGED <<order, paid, lock, holder, call, pc, seen, attempt, made, events, answer>>
      /\ \A x \in Keys \ {k} : keys'[x] = keys[x]
  BY DEF Expire, DeleteExpired, IInv, TypeOK
<1>2. CASE Expire(k)
  <2>1. /\ keys[k].live /\ keys' = [keys EXCEPT ![k].live = FALSE]
        /\ expired' = expired \cup {keys[k].res}
    BY <1>2 DEF Expire
  <2>2. /\ keys'[k] = [keys[k] EXCEPT !.live = FALSE] /\ keys'[k] \in KeyRow
        /\ ~keys'[k].live /\ keys'[k].res = keys[k].res /\ keys'[k].call = keys[k].call
    BY <1>1, <2>1 DEF IInv, TypeOK, KeyRow
  <2>3. TypeOK'
    BY <1>1, <2>1, <2>2 DEF IInv, TypeOK, RowOK
  <2>4. ASSUME NEW x \in Keys PROVE RowOK(x)'
    BY <1>1, <2>1, <2>2 DEF IInv, RowOK
  <2>5. ASSUME NEW q \in Req PROVE RequestOK(q)'
    <3>1. Sent(q)' /\ Committed(q)' /\ Locked(q)' /\ Fits(q)'
      BY <1>1, <2>5 DEF IInv, RequestOK, Sent, Committed, Locked, Fits
    <3>2. Claimed(q)'
      BY <1>1, <2>2, <2>5, Types DEF IInv, RequestOK, Claimed, Unused
    <3>3. Recorded(q)'
      <4>1. q \in made => call[q].key \in Keys \cup {None}
        BY <2>5, Types DEF IInv, RequestOK, Committed
      <4>q. QED BY <1>1, <2>1, <2>2, <2>5, <4>1 DEF IInv, RequestOK, Recorded
    <3>q. QED BY <3>1, <3>2, <3>3 DEF RequestOK
  <2>6. PaidWithinTotal'
    BY <1>1 DEF IInv, PaidWithinTotal
  <2>q. QED BY <2>3, <2>4, <2>5, <2>6 DEF IInv
<1>3. CASE DeleteExpired(k)
  <2>1. ~keys[k].live /\ keys' = [keys EXCEPT ![k] = None] /\ expired' = expired
    BY <1>3 DEF DeleteExpired
  <2>2. TypeOK' /\ keys'[k] = None
    BY <1>1, <2>1 DEF IInv, TypeOK
  <2>3. ASSUME NEW x \in Keys PROVE RowOK(x)'
    BY <1>1, <2>1, <2>2 DEF IInv, RowOK
  <2>4. ASSUME NEW q \in Req PROVE RequestOK(q)'
    <3>1. Sent(q)' /\ Committed(q)' /\ Locked(q)' /\ Fits(q)'
      BY <1>1, <2>4 DEF IInv, RequestOK, Sent, Committed, Locked, Fits
    <3>2. Claimed(q)'
      BY <1>1, <2>2, <2>4, Types DEF IInv, RequestOK, Claimed, Unused
    <3>3. Recorded(q)'
      <4>1. q \in made => call[q].key \in Keys \cup {None}
        BY <2>4, Types DEF IInv, RequestOK, Committed
      <4>q. QED BY <1>1, <2>1, <2>2, <2>4, <4>1 DEF IInv, RequestOK, Recorded
    <3>q. QED BY <3>1, <3>2, <3>3 DEF RequestOK
  <2>5. PaidWithinTotal'
    BY <1>1 DEF IInv, PaidWithinTotal
  <2>q. QED BY <2>2, <2>3, <2>4, <2>5 DEF IInv
<1>q. QED BY <1>2, <1>3

\* Every step keeps the invariant.
LEMMA NextIInv == IInv /\ [Next]_vars => IInv'
<1> SUFFICES ASSUME IInv, [Next]_vars PROVE IInv'
  OBVIOUS
<1>1. ASSUME NEW r \in Req, NEW c \in Calls, Submit(r, c) PROVE IInv'
  BY <1>1, SubmitKeeps
<1>2. ASSUME NEW r \in Req, Step(r) PROVE IInv'
  BY <1>2, LockOrderKeeps, ReadKeyKeeps, AcquireKeyKeeps, RereadKeyKeeps, CheckKeeps,
     CommitKeeps, DispatchKeeps DEF Step
<1>3. ASSUME NEW r \in Req, Crash(r) PROVE IInv'
  BY <1>3, FinishKeeps DEF Crash, InTxPcs
<1>4. ASSUME NEW k \in Keys, Expire(k) \/ DeleteExpired(k) PROVE IInv'
  BY <1>4, KeyTimePasses
\* An order that is closed or deleted is not looked at by a payment past its check.
<1>5. ASSUME NEW o \in Orders, CloseOrder(o) \/ DeleteOrder(o) PROVE IInv'
  <2>1. /\ order' \in [Orders -> [open : BOOLEAN, del : BOOLEAN]]
        /\ UNCHANGED <<paid, lock, keys, holder, call, pc, seen, attempt, made, expired,
                       events, answer>>
    BY ZenonT(60), <1>5 DEF CloseOrder, DeleteOrder, IInv, TypeOK
  <2>2. TypeOK' /\ PaidWithinTotal' /\ \A k \in Keys : RowOK(k)'
    BY <2>1 DEF IInv, TypeOK, PaidWithinTotal, RowOK
  <2>3. \A q \in Req : RequestOK(q)'
    BY <2>1 DEF IInv, RequestOK, Sent, Committed, Locked, Claimed, Unused, Fits, Recorded
  <2>q. QED BY <2>2, <2>3 DEF IInv
<1>6. CASE UNCHANGED vars
  <2>1. TypeOK' /\ PaidWithinTotal' /\ \A k \in Keys : RowOK(k)'
    BY <1>6 DEF vars, IInv, TypeOK, PaidWithinTotal, RowOK
  <2>2. \A q \in Req : RequestOK(q)'
    BY <1>6 DEF vars, IInv, RequestOK, Sent, Committed, Locked, Claimed, Unused, Fits, Recorded
  <2>q. QED BY <2>1, <2>2 DEF IInv
<1>q. QED BY <1>1, <1>2, <1>3, <1>4, <1>5, <1>6 DEF Next, Quiescent

-----------------------------------------------------------------------------

\* Type correctness: at most MAX_RESERVATION_ATTEMPTS attempts of an order
\* creation, and an event only for what was committed.
THEOREM IdempotencyTypeCorrect == Spec => []TypeOK
<1>1. IInv => TypeOK
  BY DEF IInv
<1>q. QED BY InitIInv, NextIInv, <1>1, PTL DEF Spec

\* Until the key expires, one delivery that carries it makes a payment or an
\* order, however the deliveries, their retries and crashes and the cleanup
\* interleave (claimRequestTx, acquireRequestLock).
THEOREM EffectOncePerKey == Spec => []OncePerKey
<1>1. IInv => OncePerKey
  <2> SUFFICES ASSUME IInv, NEW r \in made, NEW q \in made, r # q,
                      call[r].key = call[q].key, call[r].key # None
               PROVE  r \in expired \/ q \in expired
    BY DEF OncePerKey
  <2>1. r \in Req /\ q \in Req
    BY DEF IInv, TypeOK
  <2>q. QED BY <2>1 DEF IInv, RequestOK, Recorded
<1>q. QED BY InitIInv, NextIInv, <1>1, PTL DEF Spec

\* A delivery is answered with what the same call made (replayRequest).
THEOREM AnswersFit == Spec => []AnswerFitsCall
<1>1. IInv => AnswerFitsCall
  BY DEF IInv, RequestOK, Fits, AnswerFitsCall
<1>q. QED BY InitIInv, NextIInv, <1>1, PTL DEF Spec

\* Payments that race stay within the total of their order (withLockedOrder).
THEOREM NeverOverpaid == Spec => []PaidWithinTotal
<1>1. IInv => PaidWithinTotal
  BY DEF IInv
<1>q. QED BY InitIInv, NextIInv, <1>1, PTL DEF Spec
=============================================================================
