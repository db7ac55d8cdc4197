-------------------------- MODULE OrderReservation --------------------------
(***************************************************************************)
(* The reservation of work posts and employees by orders of one branch     *)
(* (src/src/modules/orders, src/src/modules/scheduling).                   *)
(*                                                                         *)
(* create, reschedule, restore and updateStatus run inside                 *)
(* runReservationTransaction: one Serializable PostgreSQL transaction,     *)
(* repeated up to MAX_RESERVATION_ATTEMPTS times when the database answers *)
(* 40001 or 40P01.  softDelete, the confirmation-timeout job and the       *)
(* administrators' writes to posts, employee profiles, users, the branch   *)
(* and the booking settings are plain READ COMMITTED statements that race  *)
(* with them.                                                              *)
(*                                                                         *)
(* Every request is one HTTP call or one job; it is submitted once and     *)
(* answered once.  Times are minutes of one branch-local day, abstracted   *)
(* to integers; prices, clients, vehicles and notes are left out, and the  *)
(* checks on them are a nondeterministic rejection.                        *)
(*                                                                         *)
(* The database (external) is modelled by what the code relies on:         *)
(*   - a transaction reads the snapshot taken by its first statement;      *)
(*   - a row lock (SELECT ... FOR UPDATE, UPDATE) waits for the holder,    *)
(*     and fails with 40001 when the row was changed and committed after   *)
(*     the snapshot; a row that was only locked meanwhile does not fail;   *)
(*   - two concurrent Serializable transactions that each read a range     *)
(*     into which the other one writes never both commit; a 40001 may also *)
(*     come for no reason the model sees;                                  *)
(*   - a cycle of waiting transactions is broken by aborting a member.     *)
(***************************************************************************)
EXTENDS Integers

CONSTANTS
  Req,          \* requests: HTTP calls and queue jobs
  Orders,       \* order ids
  Posts,        \* work post ids (naturals: the code walks them in id order)
  Employees,    \* employee profile ids (naturals, for the same reason)
  None,         \* SQL NULL: an order without a post or without an employee
  AutoAssign,         \* the request leaves the choice to the service
  Keep,         \* reschedule: the field is absent from the DTO
  ShiftStart,   \* employee -> workStartTime
  ShiftEnd,     \* employee -> workEndTime
  Ops,          \* the operations the requests may submit
  InitDb,       \* possible initial contents of the database
  MAX_RESERVATION_ATTEMPTS

-----------------------------------------------------------------------------
(* Orders and their statuses *)

Occupying == {"BOOKED_PENDING_CONFIRMATION", "BOOKED", "IN_PROGRESS"}
Terminal == {"COMPLETED", "CANCELLED", "NO_SHOW"}
Status == Occupying \cup Terminal \cup {"ABSENT"}

\* order.types.ts: VALID_STATUS_TRANSITIONS
ValidTransitions(s) ==
  CASE s = "BOOKED_PENDING_CONFIRMATION" -> {"BOOKED", "CANCELLED", "NO_SHOW"}
    [] s = "BOOKED" -> {"IN_PROGRESS", "CANCELLED", "NO_SHOW"}
    [] s = "IN_PROGRESS" -> {"COMPLETED", "CANCELLED"}
    [] OTHER -> {}

\* A row of the table orders; buf is the buffer its last reservation used
\* (history, not a column).
Order == [st: Status, del: BOOLEAN, post: Posts \cup {None},
          emp: Employees \cup {None}, start: Int, end: Int, buf: Nat]

Absent == [st |-> "ABSENT", del |-> FALSE, post |-> None, emp |-> None,
           start |-> 0, end |-> 0, buf |-> 0]

\* The rows the overlap queries look at.
Active(o) == o.st \in Occupying /\ ~o.del

Exists(o) == o.st # "ABSENT"

Uses(o) == {o.post, o.emp} \ {None}

\* A row of employee_profiles.
Profile == [active: BOOLEAN, del: BOOLEAN, worker: BOOLEAN]

\* post, user, branch: the row is active and not deleted; user is the row of
\* users that the profile belongs to.
Db == [orders: [Orders -> Order], post: [Posts -> BOOLEAN],
       emp: [Employees -> Profile], user: [Employees -> BOOLEAN],
       branch: BOOLEAN, buffer: Nat]

\* Two orders keep at least b minutes between them.
Apart(o, p, b) == o.end + b <= p.start \/ p.end + b <= o.start

-----------------------------------------------------------------------------
(* Requests *)

SerializableKinds == {"create", "reschedule", "restore", "updateStatus"}
OrderWriteKinds == {"softDelete", "confirmationTimeout"}
ProfileKinds == {"updateEmployee", "updateWorker", "deleteEmployee"}
AdminKinds == ProfileKinds \cup
  {"updatePost", "updateUser", "updateBranch", "updateSettings"}
Kinds == SerializableKinds \cup OrderWriteKinds \cup AdminKinds

\* row is the order, post or employee profile the request is about; for
\* updateUser emp is the profile of the user, whose own row nobody locks.
Op == [kind: Kinds, row: Orders \cup Posts \cup Employees \cup {None},
       post: Posts \cup {AutoAssign, Keep}, emp: Employees \cup {AutoAssign, Keep},
       start: Int, dur: Nat, status: Status, on: BOOLEAN, buf: Nat]

NoOp == [kind |-> "create", row |-> None, post |-> AutoAssign, emp |-> AutoAssign,
         start |-> 0, dur |-> 0, status |-> "ABSENT", on |-> FALSE, buf |-> 0]

CreateOp(o, p, e, s, d, st) ==
  [NoOp EXCEPT !.row = o, !.post = p, !.emp = e, !.start = s, !.dur = d,
               !.status = st]
RescheduleOp(o, p, e, s) ==
  [NoOp EXCEPT !.kind = "reschedule", !.row = o, !.post = p, !.emp = e,
               !.start = s]
UpdateStatusOp(o, st) ==
  [NoOp EXCEPT !.kind = "updateStatus", !.row = o, !.status = st]
RowOp(k, x) == [NoOp EXCEPT !.kind = k, !.row = x]
SwitchOp(k, x, on) == [NoOp EXCEPT !.kind = k, !.row = x, !.on = on]
UserOp(e, on) == [NoOp EXCEPT !.kind = "updateUser", !.emp = e, !.on = on]
SettingsOp(b) == [NoOp EXCEPT !.kind = "updateSettings", !.buf = b]

ASSUME ConstantsAssumption ==
  /\ Posts \subseteq Nat /\ Employees \subseteq Nat
  /\ Posts \cap Employees = {} /\ Orders \cap (Posts \cup Employees) = {}
  /\ None \notin Posts \cup Employees \cup Orders
  /\ {AutoAssign, Keep} \cap (Posts \cup Employees \cup {None}) = {}
  /\ ShiftStart \in [Employees -> Int] /\ ShiftEnd \in [Employees -> Int]
  /\ MAX_RESERVATION_ATTEMPTS \in Nat \ {0}

ASSUME OpsAssumption ==
  /\ Ops \subseteq Op
  /\ \A o \in Ops :
       /\ o.kind \in SerializableKinds \cup OrderWriteKinds => o.row \in Orders
       /\ o.kind = "updatePost" => o.row \in Posts
       /\ o.kind \in ProfileKinds => o.row \in Employees
       /\ o.kind = "updateUser" => o.row = None /\ o.emp \in Employees
       /\ o.kind = "create" =>
            /\ o.status \in {"BOOKED_PENDING_CONFIRMATION", "BOOKED"}
            /\ o.post # Keep /\ o.emp # Keep
       /\ o.kind = "reschedule" => o.post # AutoAssign /\ o.emp # AutoAssign

\* The database holds bookings that earlier requests made, apart from each
\* other and none of them with a deleted profile.
ASSUME InitDbAssumption ==
  /\ InitDb \subseteq Db
  /\ \A d \in InitDb : \A x, y \in Orders :
       LET o == d.orders[x]
           p == d.orders[y]
       IN  x # y /\ Active(o) /\ Active(p) /\ Uses(o) \cap Uses(p) # {}
             => Apart(o, p, IF o.buf <= p.buf THEN o.buf ELSE p.buf)
  /\ \A d \in InitDb : \A x \in Orders :
       LET o == d.orders[x]
       IN  Active(o) /\ o.emp # None => ~d.emp[o.emp].del

-----------------------------------------------------------------------------
(* State *)

VARIABLES
  db,       \* committed contents of the database
  op,       \* op[r]: what request r asks for
  pc,       \* pc[r]: the statement r executes next
  attempt,  \* attempt[r]: loop counter of runReservationTransaction
  answer,   \* answer[r]: how r was answered
  tx        \* tx[r]: the open transaction of r

vars == <<db, op, pc, attempt, answer, tx>>

\* view: snapshot; dirty: rows committed by others since; held: locked rows;
\* post, emp: resources picked; tried: posts found occupied; reads: ranges
\* of orders read; peers: what concurrent Serializable transactions
\* committed since the snapshot.
NoTx == [view |-> None, dirty |-> {}, held |-> {}, post |-> None, emp |-> None,
         tried |-> {}, reads |-> {}, peers |-> {}]

InTxPcs == {"lockOrder", "validate", "post", "lockPost", "lockSlots",
            "employee", "lockEmployee", "commit"}
PlainPcs == {"find", "count", "write"}
Pcs == InTxPcs \cup PlainPcs \cup {"ready", "begin", "done"}
Answers == {"none", "ok", "rejected", "conflict", "error"}

Init ==
  /\ db \in InitDb
  /\ op = [r \in Req |-> NoOp]
  /\ pc = [r \in Req |-> "ready"]
  /\ attempt = [r \in Req |-> 0]
  /\ answer = [r \in Req |-> "none"]
  /\ tx = [r \in Req |-> NoTx]

InTx(r) == pc[r] \in InTxPcs

\* No other transaction holds a lock on row x.
Free(r, x) == \A q \in Req \ {r} : x \notin tx[q].held

Goto(r, l) == pc' = [pc EXCEPT ![r] = l]

\* The transaction of r ends, its locks go, and r is answered.
Answer(r, a) ==
  /\ Goto(r, "done")
  /\ answer' = [answer EXCEPT ![r] = a]
  /\ tx' = [tx EXCEPT ![r] = NoTx]
  /\ UNCHANGED <<op, attempt>>

\* A business error thrown inside the callback: not retried, nothing written.
Reject(r) == Answer(r, "rejected") /\ UNCHANGED db

\* r takes the lock on row x: nobody holds it and it did not change.
Lockable(r, x) == Free(r, x) /\ x \notin tx[r].dirty

-----------------------------------------------------------------------------
(* What the open transaction of r sees and wants *)

Row(r) == tx[r].view.orders[op[r].row]

Buffer(r) == tx[r].view.buffer

\* The interval and the resources to reserve; create takes them from the DTO,
\* reschedule moves the stored interval, restore takes the stored ones.
Want(r) ==
  CASE op[r].kind = "create" ->
         [start |-> op[r].start, end |-> op[r].start + op[r].dur,
          post |-> op[r].post, emp |-> op[r].emp]
    [] op[r].kind = "reschedule" ->
         [start |-> op[r].start,
          end |-> op[r].start + (Row(r).end - Row(r).start),
          post |-> IF op[r].post = Keep THEN Row(r).post ELSE op[r].post,
          emp |-> IF op[r].emp = Keep THEN Row(r).emp ELSE op[r].emp]
    [] OTHER ->
         [start |-> Row(r).start, end |-> Row(r).end,
          post |-> Row(r).post, emp |-> Row(r).emp]

\* The range of orders of resource x that the overlap queries of r read.
Window(r, x) ==
  [res |-> x, from |-> Want(r).start - Buffer(r), to |-> Want(r).end + Buffer(r),
   excl |-> IF op[r].kind = "reschedule" THEN op[r].row ELSE None]

InRange(g, x, o) ==
  /\ Active(o) /\ g.res \in Uses(o)
  /\ o.start < g.to /\ o.end > g.from
  /\ x # g.excl

Overlapping(r, x) ==
  {o \in Orders : InRange(Window(r, x), o, tx[r].view.orders[o])}

OpenPosts(r) == {p \in Posts : tx[r].view.post[p]}

Configured(r) ==
  {e \in Employees : tx[r].view.emp[e].active /\ ~tx[r].view.emp[e].del}

\* The profile, its user and the branch are in service.
Serving(r) ==
  {e \in Configured(r) : /\ tx[r].view.emp[e].worker
                         /\ tx[r].view.user[e] /\ tx[r].view.branch}

Eligible(r, e) ==
  /\ e \in Serving(r)
  /\ ShiftStart[e] <= Want(r).start /\ ShiftEnd[e] >= Want(r).end
  /\ Overlapping(r, e) = {}

-----------------------------------------------------------------------------
(* The Serializable transaction, one action per statement that can wait,   *)
(* fail or decide                                                          *)

\* A request arrives.  The id of a new order is a fresh UUID.
Submit(r, o) ==
  /\ pc[r] = "ready"
  /\ o.kind = "create" =>
       /\ db.orders[o.row] = Absent
       /\ \A q \in Req : op[q].kind = "create" => op[q].row # o.row
  /\ op' = [op EXCEPT ![r] = o]
  /\ Goto(r, IF o.kind \in SerializableKinds THEN "begin"
             ELSE IF o.kind \in {"softDelete"} \cup ProfileKinds
             THEN "find" ELSE "write")
  /\ UNCHANGED <<db, attempt, answer, tx>>

\* Mutant of Begin: the attempt is not counted.
BeginUncounted(r) ==
  /\ pc[r] = "begin"
  /\ tx' = [tx EXCEPT ![r] = [NoTx EXCEPT !.view = db]]
  /\ Goto(r, IF op[r].kind \in {"reschedule", "updateStatus"}
             THEN "lockOrder" ELSE "validate")
  /\ UNCHANGED <<db, op, answer, attempt>>

\* The first statement takes the snapshot, even if it then waits for a lock.
Begin(r) ==
  /\ pc[r] = "begin"
  /\ attempt' = [attempt EXCEPT ![r] = @ + 1]
  /\ tx' = [tx EXCEPT ![r] = [NoTx EXCEPT !.view = db]]
  /\ Goto(r, IF op[r].kind \in {"reschedule", "updateStatus"}
             THEN "lockOrder" ELSE "validate")
  /\ UNCHANGED <<db, op, answer>>

\* lockOrderTx and the read after it: a missing or deleted order is a 404.
LockOrder(r) ==
  /\ pc[r] = "lockOrder"
  /\ IF Exists(Row(r)) /\ ~Row(r).del
     THEN /\ Lockable(r, op[r].row)
          /\ tx' = [tx EXCEPT ![r].held = @ \cup {op[r].row}]
          /\ Goto(r, "validate")
          /\ UNCHANGED <<db, op, attempt, answer>>
     ELSE Reject(r)

\* The checks of each callback on the rows it read.
ChecksPass(r) ==
  CASE op[r].kind = "create" -> tx[r].view.branch
    [] op[r].kind = "reschedule" ->
         /\ Row(r).st \in {"BOOKED", "BOOKED_PENDING_CONFIRMATION"}
         /\ Row(r).end > Row(r).start
         /\ tx[r].view.branch
    [] op[r].kind = "restore" ->
         /\ Exists(Row(r)) /\ Row(r).del
         /\ Row(r).st \in Terminal \/ tx[r].view.branch
    [] OTHER -> op[r].status \in ValidTransitions(Row(r).st)

\* Mutant of Reserves: restore writes the row back without reserving.
ReservesNotRestored(r) == op[r].kind \in {"create", "reschedule"}

\* A terminal order is restored, and a status changed, without reserving.
Reserves(r) ==
  \/ op[r].kind \in {"create", "reschedule"}
  \/ op[r].kind = "restore" /\ Row(r).st \notin Terminal

Validate(r) ==
  /\ pc[r] = "validate"
  /\ ChecksPass(r)
  /\ Goto(r, IF Reserves(r) THEN "post" ELSE "commit")
  /\ UNCHANGED <<db, op, attempt, answer, tx>>

\* create and reschedule also check input the model leaves out (services,
\* client and vehicle, times in the past, working days, advance limit).
FailValidation(r) ==
  /\ pc[r] = "validate"
  /\ ~ChecksPass(r) \/ op[r].kind \in {"create", "reschedule"}
  /\ Reject(r)

\* resolveWorkPost: the next post to try, in id order.
CandidatePosts(r) ==
  (IF Want(r).post = AutoAssign THEN OpenPosts(r) ELSE OpenPosts(r) \cap {Want(r).post})
    \ tx[r].tried

\* Mutant of ResolveWorkPost: the posts are walked in no particular order.
ResolveWorkPostUnordered(r) ==
  /\ pc[r] = "post"
  /\ IF Want(r).post # None /\ CandidatePosts(r) = {} THEN Reject(r)
     ELSE /\ \E p \in IF Want(r).post = None THEN {None} ELSE CandidatePosts(r) :
               tx' = [tx EXCEPT ![r].post = p]
          /\ Goto(r, IF Want(r).post = None THEN "employee" ELSE "lockPost")
          /\ UNCHANGED <<db, op, attempt, answer>>

ResolveWorkPost(r) ==
  /\ pc[r] = "post"
  /\ \/ /\ Want(r).post = None
        /\ Goto(r, "employee")
        /\ UNCHANGED <<db, op, attempt, answer, tx>>
     \/ /\ Want(r).post # None
        /\ \E p \in CandidatePosts(r) :
             /\ \A q \in CandidatePosts(r) : p <= q
             /\ tx' = [tx EXCEPT ![r].post = p]
        /\ Goto(r, "lockPost")
        /\ UNCHANGED <<db, op, attempt, answer>>
     \/ /\ Want(r).post # None /\ CandidatePosts(r) = {}
        /\ Reject(r)

\* Mutant of LockWorkPost: the row of the post is not locked.
LockWorkPostUnlocked(r) ==
  /\ pc[r] = "lockPost"
  /\ Goto(r, "lockSlots")
  /\ UNCHANGED <<db, op, attempt, answer, tx>>

\* reserveSlot, first statement: lockWorkPost.
LockWorkPost(r) ==
  /\ pc[r] = "lockPost"
  /\ Lockable(r, tx[r].post)
  /\ tx' = [tx EXCEPT ![r].held = @ \cup {tx[r].post}]
  /\ Goto(r, "lockSlots")
  /\ UNCHANGED <<db, op, attempt, answer>>

\* Overlapping orders not locked yet.
SlotsToLock(r) == Overlapping(r, tx[r].post) \ tx[r].held

\* lockOverlappingSlots locks the rows it finds one after the other, in the
\* order of the scan.
LockOverlappingSlot(r) ==
  /\ pc[r] = "lockSlots"
  /\ \E o \in SlotsToLock(r) :
       /\ Lockable(r, o)
       /\ tx' = [tx EXCEPT ![r].held = @ \cup {o}]
  /\ UNCHANGED <<db, op, pc, attempt, answer>>

\* countOverlapping decides.  On a conflict an explicit post is a 409; an
\* automatic choice keeps its locks and goes on to the next post.
CountOverlapping(r) ==
  /\ pc[r] = "lockSlots"
  /\ SlotsToLock(r) = {}
  /\ IF Overlapping(r, tx[r].post) = {}
     THEN /\ tx' = [tx EXCEPT ![r].reads = @ \cup {Window(r, tx[r].post)}]
          /\ Goto(r, "employee")
     ELSE /\ tx' = [tx EXCEPT ![r].reads = @ \cup {Window(r, tx[r].post)},
                              ![r].tried = @ \cup {tx[r].post},
                              ![r].post = None]
          /\ Goto(r, "post")
  /\ UNCHANGED <<db, op, attempt, answer>>

\* reserveEmployee up to the choice of the candidate.
ChooseEmployee(r) ==
  /\ pc[r] = "employee"
  /\ \/ /\ Want(r).emp = None \/ (Want(r).emp = AutoAssign /\ Configured(r) = {})
        /\ Goto(r, "commit")
        /\ UNCHANGED <<db, op, attempt, answer, tx>>
     \/ /\ Want(r).emp = AutoAssign
        /\ \E e \in Employees :
             /\ Eligible(r, e)
             /\ \A f \in Employees : Eligible(r, f) => e <= f
             /\ tx' = [tx EXCEPT ![r].emp = e]
        /\ Goto(r, "lockEmployee")
        /\ UNCHANGED <<db, op, attempt, answer>>
     \/ /\ Want(r).emp = AutoAssign /\ Configured(r) # {}
        /\ \A e \in Employees : ~Eligible(r, e)
        /\ Reject(r)
     \/ /\ Want(r).emp \in Employees
        /\ tx' = [tx EXCEPT ![r].emp = Want(r).emp]
        /\ Goto(r, "lockEmployee")
        /\ UNCHANGED <<db, op, attempt, answer>>

\* The employee row is locked and eligibility read again.
LockEmployee(r) ==
  /\ pc[r] = "lockEmployee"
  /\ Lockable(r, tx[r].emp)
  /\ IF Eligible(r, tx[r].emp)
     THEN /\ tx' = [tx EXCEPT ![r].held = @ \cup {tx[r].emp},
                              ![r].reads = @ \cup {Window(r, tx[r].emp)}]
          /\ Goto(r, "commit")
          /\ UNCHANGED <<db, op, attempt, answer>>
     ELSE Reject(r)

\* Mutant of Written: reschedule leaves scheduledEnd where it was.
WrittenOldEnd(r) ==
  LET o == db.orders[op[r].row]
  IN  CASE op[r].kind = "create" ->
             [st |-> op[r].status, del |-> FALSE, post |-> tx[r].post,
              emp |-> tx[r].emp, start |-> Want(r).start, end |-> Want(r).end,
              buf |-> Buffer(r)]
        [] op[r].kind = "reschedule" ->
             [o EXCEPT !.post = tx[r].post, !.emp = tx[r].emp,
                       !.start = Want(r).start, !.buf = Buffer(r)]
        [] op[r].kind = "restore" ->
             [o EXCEPT !.del = FALSE,
                       !.buf = IF Reserves(r) THEN Buffer(r) ELSE @]
        [] OTHER -> [o EXCEPT !.st = op[r].status]

\* The row the last statement writes: INSERT, or UPDATE of some columns.
Written(r) ==
  LET o == db.orders[op[r].row]
  IN  CASE op[r].kind = "create" ->
             [st |-> op[r].status, del |-> FALSE, post |-> tx[r].post,
              emp |-> tx[r].emp, start |-> Want(r).start, end |-> Want(r).end,
              buf |-> Buffer(r)]
        [] op[r].kind = "reschedule" ->
             [o EXCEPT !.post = tx[r].post, !.emp = tx[r].emp,
                       !.start = Want(r).start, !.end = Want(r).end,
                       !.buf = Buffer(r)]
        [] op[r].kind = "restore" ->
             [o EXCEPT !.del = FALSE,
                       !.buf = IF Reserves(r) THEN Buffer(r) ELSE @]
        [] OTHER -> [o EXCEPT !.st = op[r].status]

\* A concurrent committed transaction and r each read what the other writes.
Dangerous(r) ==
  \E u \in tx[r].peers :
    /\ \E g \in tx[r].reads : InRange(g, u.row, u.ver)
    /\ \E g \in u.reads : InRange(g, op[r].row, Written(r))

\* Every open transaction other than r learns that row x changed.
Publish(r, x, peer) ==
  [q \in Req |->
     IF q = r THEN NoTx
     ELSE IF InTx(q) THEN [tx[q] EXCEPT !.dirty = @ \cup {x},
                                        !.peers = @ \cup peer]
     ELSE tx[q]]

Commit(r) ==
  /\ pc[r] = "commit"
  /\ op[r].kind = "create" \/ Lockable(r, op[r].row)
  /\ ~Dangerous(r)
  /\ db' = [db EXCEPT !.orders[op[r].row] = Written(r)]
  /\ tx' = Publish(r, op[r].row, {[row |-> op[r].row, ver |-> Written(r),
                                   reads |-> tx[r].reads]})
  /\ Goto(r, "done")
  /\ answer' = [answer EXCEPT ![r] = "ok"]
  /\ UNCHANGED <<op, attempt>>

-----------------------------------------------------------------------------
(* Aborts and the retry loop of runReservationTransaction *)

\* Mutant of Retry: one attempt too many.
RetryOnceMore(r) ==
  IF attempt[r] > MAX_RESERVATION_ATTEMPTS
  THEN Answer(r, "conflict") /\ UNCHANGED db
  ELSE /\ Goto(r, "begin")
       /\ tx' = [tx EXCEPT ![r] = NoTx]
       /\ UNCHANGED <<db, op, attempt, answer>>

\* 40001 or 40P01: start over, or a 409 after the last attempt.
Retry(r) ==
  IF attempt[r] >= MAX_RESERVATION_ATTEMPTS
  THEN Answer(r, "conflict") /\ UNCHANGED db
  ELSE /\ Goto(r, "begin")
       /\ tx' = [tx EXCEPT ![r] = NoTx]
       /\ UNCHANGED <<db, op, attempt, answer>>

\* Rows whose lock the next statement of r needs.
Awaited(r) ==
  CASE pc[r] = "lockOrder" ->
         {x \in {op[r].row} : Exists(Row(r)) /\ ~Row(r).del}
    [] pc[r] = "lockPost" -> {tx[r].post}
    [] pc[r] = "lockSlots" -> SlotsToLock(r)
    [] pc[r] = "lockEmployee" -> {tx[r].emp}
    [] pc[r] = "commit" -> {op[r].row} \ tx[r].held
    [] OTHER -> {}

\* The database has to refuse: a row to lock changed, or a dangerous pair.
SerializationFailure(r) ==
  /\ InTx(r)
  /\ \/ \E x \in Awaited(r) : Free(r, x) /\ x \in tx[r].dirty
     \/ pc[r] = "commit" /\ Dangerous(r)
  /\ Retry(r)

\* The database may refuse any Serializable transaction.
SpuriousFailure(r) == InTx(r) /\ Retry(r)

\* r waits for a lock that q holds.
WaitsFor(r, q) ==
  /\ r # q /\ InTx(r) /\ Awaited(r) # {}
  /\ \A x \in Awaited(r) : ~Free(r, x)
  /\ Awaited(r) \cap tx[q].held # {}

\* A cycle of waiting transactions: a smallest set in which each waits for
\* another member.
WaitCycle(C) ==
  LET Closed(S) == S # {} /\ \A r \in S : \E q \in S : WaitsFor(r, q)
  IN  Closed(C) /\ \A S \in SUBSET C : Closed(S) => S = C

DeadlockVictim(r) ==
  /\ InTx(r)
  /\ \E C \in SUBSET Req : r \in C /\ WaitCycle(C)
  /\ Retry(r)

\* The interactive transaction exceeds its 10 s: another error, not retried.
Timeout(r) ==
  /\ InTx(r)
  /\ Answer(r, "error")
  /\ UNCHANGED db

-----------------------------------------------------------------------------
(* READ COMMITTED statements *)

\* Mutant of PlainFind: an active profile may be deleted.
PlainFindActive(r) ==
  /\ pc[r] = "find"
  /\ IF CASE op[r].kind = "softDelete" -> ~db.orders[op[r].row].del
          [] OTHER -> ~db.emp[op[r].row].del
     THEN /\ Goto(r, IF op[r].kind = "deleteEmployee" THEN "count" ELSE "write")
          /\ UNCHANGED <<db, op, attempt, answer, tx>>
     ELSE Reject(r)

\* The read before the write: softDelete and the employee operations.
PlainFind(r) ==
  /\ pc[r] = "find"
  /\ LET x == op[r].row
         found == CASE op[r].kind = "softDelete" ->
                         Exists(db.orders[x]) /\ ~db.orders[x].del
                    [] op[r].kind = "deleteEmployee" ->
                         ~db.emp[x].del /\ ~db.emp[x].active
                    [] OTHER -> ~db.emp[x].del
     IN  IF found
         THEN /\ Goto(r, IF op[r].kind = "deleteEmployee" THEN "count" ELSE "write")
              /\ UNCHANGED <<db, op, attempt, answer, tx>>
         ELSE Reject(r)

\* EmployeeProfileService.delete counts the active orders of the employee.
CountAssigned(r) ==
  /\ pc[r] = "count"
  /\ IF \E o \in Orders : Active(db.orders[o]) /\ db.orders[o].emp = op[r].row
     THEN Reject(r)
     ELSE Goto(r, "write") /\ UNCHANGED <<db, op, attempt, answer, tx>>

\* One UPDATE in its own transaction: it waits for the row lock and applies
\* to the current version of the row.
PlainWrite(r) ==
  LET x == op[r].row
      k == op[r].kind
  IN  /\ pc[r] = "write"
      /\ \/ x = None
         \/ Free(r, x)
         \/ k = "confirmationTimeout"
              /\ db.orders[x].st # "BOOKED_PENDING_CONFIRMATION"
      /\ db' =
           CASE k = "softDelete" -> [db EXCEPT !.orders[x].del = TRUE]
             [] k = "confirmationTimeout" ->
                  [db EXCEPT !.orders[x].st =
                     IF @ = "BOOKED_PENDING_CONFIRMATION" THEN "CANCELLED" ELSE @]
             [] k = "updatePost" -> [db EXCEPT !.post[x] = op[r].on]
             [] k = "updateEmployee" -> [db EXCEPT !.emp[x].active = op[r].on]
             [] k = "updateWorker" -> [db EXCEPT !.emp[x].worker = op[r].on]
             [] k = "deleteEmployee" -> [db EXCEPT !.emp[x].del = TRUE]
             [] k = "updateUser" -> [db EXCEPT !.user[op[r].emp] = op[r].on]
             [] k = "updateBranch" -> [db EXCEPT !.branch = op[r].on]
             [] OTHER -> [db EXCEPT !.buffer = op[r].buf]
      /\ tx' = IF k = "confirmationTimeout" /\ db' = db THEN tx
                ELSE Publish(r, x, {})
      /\ Goto(r, "done")
      /\ answer' = [answer EXCEPT ![r] = "ok"]
      /\ UNCHANGED <<op, attempt>>

-----------------------------------------------------------------------------
(* Specification *)

\* What the server and the database do for request r without being asked.
Step(r) ==
  \/ Begin(r) \/ LockOrder(r) \/ Validate(r) \/ FailValidation(r)
  \/ ResolveWorkPost(r) \/ LockWorkPost(r) \/ LockOverlappingSlot(r)
  \/ CountOverlapping(r) \/ ChooseEmployee(r) \/ LockEmployee(r) \/ Commit(r)
  \/ SerializationFailure(r) \/ DeadlockVictim(r)
  \/ PlainFind(r) \/ CountAssigned(r) \/ PlainWrite(r)

\* Every request that was submitted has been answered.
Quiescent ==
  /\ \A r \in Req : pc[r] \in {"ready", "done"}
  /\ UNCHANGED vars

Next ==
  \/ \E r \in Req :
       \/ \E o \in Ops : Submit(r, o)
       \/ Step(r)
       \/ SpuriousFailure(r)
       \/ Timeout(r)
  \/ Quiescent

Spec == Init /\ [][Next]_vars

\* A submitted request is executed: the server runs its statements, and the
\* database hands free locks out, reports conflicts and breaks deadlocks.
FairSpec == Spec /\ \A r \in Req : WF_vars(Step(r))

-----------------------------------------------------------------------------
(* Properties *)

Rows == Orders \cup Posts \cup Employees

WindowType == [res: Posts \cup Employees, from: Int, to: Int,
               excl: Orders \cup {None}]

Tx == [view: Db, dirty: SUBSET (Rows \cup {None}), held: SUBSET Rows,
       post: Posts \cup {None}, emp: Employees \cup {None},
       tried: SUBSET Posts, reads: SUBSET WindowType,
       peers: SUBSET [row: Orders, ver: Order, reads: SUBSET WindowType]]

\* Type correctness; a transaction is open exactly between its first
\* statement and its end, and the retry loop stays within its bound.
TypeOK ==
  /\ db \in Db
  /\ op \in [Req -> Ops \cup {NoOp}]
  /\ pc \in [Req -> Pcs]
  /\ attempt \in [Req -> 0 .. MAX_RESERVATION_ATTEMPTS]
  /\ answer \in [Req -> Answers]
  /\ tx \in [Req -> Tx \cup {NoTx}]
  /\ \A r \in Req : IF InTx(r) THEN tx[r] \in Tx ELSE tx[r] = NoTx

\* No double booking (orders.service.ts reserveResources, scheduling.service.ts
\* reserveSlot): two active orders that share a work post or an employee are
\* apart by the smaller of the buffers their reservations used.
NoDoubleBooking ==
  \A x, y \in Orders :
    LET o == db.orders[x]
        p == db.orders[y]
    IN  x # y /\ Active(o) /\ Active(p) /\ Uses(o) \cap Uses(p) # {}
          => Apart(o, p, IF o.buf <= p.buf THEN o.buf ELSE p.buf)

\* The step reserves for order x: it becomes active or its resources change.
Reserved(x) ==
  /\ Active(db'.orders[x])
  /\ \/ ~Active(db.orders[x])
     \/ Uses(db'.orders[x]) # Uses(db.orders[x])

\* The post and the profile that order o takes are in service now.
RowsInService(o) ==
  /\ o.post # None => db.post[o.post]
  /\ o.emp # None => db.emp[o.emp].active /\ ~db.emp[o.emp].del /\ db.emp[o.emp].worker

\* Branch and employee's user are in service in the snapshot of r.
RestInService(r, o) ==
  tx[r].view.branch /\ (o.emp # None => tx[r].view.user[o.emp])

\* A reservation takes only what supplies capacity (resolveWorkPost,
\* employeeEligibilityWhere): the post and the employee's profile, whose rows
\* it locks, are in service at the moment it commits, although they were
\* checked earlier and an administrator may switch them off meanwhile.  The
\* rows of the branch and of the employee's user are not locked, and these are
\* in service in the snapshot of the attempt only.
ReservesOpenResources ==
  [][\A x \in Orders : Reserved(x) =>
       /\ RowsInService(db'.orders[x])
       /\ \E r \in Req : /\ pc[r] = "commit" /\ op[r].row = x
                         /\ RestInService(r, db'.orders[x])]_vars

\* An employee profile is deleted only while no active order is assigned to
\* it, and none is assigned later (EmployeeProfileService.delete), unless
\* somebody asks to activate the profile again: delete writes what it found.
DeletedEmployeeIsFree ==
  \A x \in Orders : Active(db.orders[x]) /\ db.orders[x].emp # None
    => \/ ~db.emp[db.orders[x].emp].del
       \/ \E r \in Req : /\ op[r].kind = "updateEmployee" /\ op[r].row = db.orders[x].emp
                          /\ op[r].on

\* "All callers lock posts before employees" (reserveResources): locks on
\* posts and employees alone never form a cycle of waiting transactions.
ResourceLocksOrdered ==
  \A C \in SUBSET Req : WaitCycle(C) =>
    \E r \in C : pc[r] \in {"lockOrder", "lockSlots", "commit"}

\* Every submitted request is answered, whatever deadlocks and conflicts it
\* meets (runReservationTransaction bounds the attempts).
EveryRequestAnswered ==
  \A r \in Req : pc[r] = "begin" ~> pc[r] = "done"

\* The slots of the calendar that the orders of the database are.
Slot(o) ==
  [held |-> Active(o), post |-> o.post, emp |-> o.emp, start |-> o.start,
   end |-> o.end, buf |-> o.buf, started |-> o.st = "IN_PROGRESS"]

Calendar == INSTANCE BookingCalendar WITH
  calendar <- [x \in Orders |-> Slot(db.orders[x])],
  asked <- [r \in Req |-> IF pc[r] = "ready" THEN [kind |-> "none"] ELSE op[r]],
  reply <- [r \in Req |-> CASE answer[r] = "none" -> "none"
                            [] answer[r] = "ok" -> "done"
                            [] OTHER -> "declined"]

\* The transactions, retries and races of this module look to the callers
\* like a calendar that serves one request at a time: a request takes effect
\* in the step that answers it "ok", exactly as asked, and a refused, given
\* up or timed-out request has changed nothing (runReservationTransaction,
\* create, reschedule, restore, updateStatus, softDelete).
ImplementsCalendar == Calendar!CSpec

-----------------------------------------------------------------------------
(* The inductive invariant behind TypeOK and NoDoubleBooking *)

\* What a request at each pc asks for, and the attempts it has left.
RequestOK(r) ==
  /\ pc[r] # "ready" => op[r] \in Ops
  /\ InTx(r) \/ pc[r] = "begin" => op[r].kind \in SerializableKinds
  /\ pc[r] \in PlainPcs => op[r].kind \notin SerializableKinds
  /\ pc[r] = "count" => op[r].kind = "deleteEmployee"
  /\ pc[r] = "find" => op[r].kind \in {"softDelete"} \cup ProfileKinds
  /\ pc[r] \in {"ready", "begin"} => attempt[r] < MAX_RESERVATION_ATTEMPTS

\* A row that nobody changed since the snapshot is what the snapshot shows.
SnapshotFresh(r) ==
  InTx(r) => \A x \in Orders \ tx[r].dirty : db.orders[x] = tx[r].view.orders[x]

SameSlot(o, p) ==
  /\ o.post = p.post /\ o.emp = p.emp
  /\ o.start = p.start /\ o.end = p.end /\ o.buf = p.buf

\* The ranges a committed transaction read cover what it reserved.
Covered(u) ==
  \A x \in Uses(u.ver) : \E g \in u.reads :
    /\ g.res = x /\ g.excl \in {None, u.row}
    /\ g.from <= u.ver.start - u.ver.buf /\ g.to >= u.ver.end + u.ver.buf

\* An active order is in the snapshot of every open transaction, or a
\* concurrent Serializable transaction reserved it after reading its range.
ActiveAccounted(r) ==
  InTx(r) => \A x \in Orders : Active(db.orders[x]) =>
    \/ /\ Active(tx[r].view.orders[x])
       /\ SameSlot(db.orders[x], tx[r].view.orders[x])
    \/ \E u \in tx[r].peers :
         /\ u.row = x /\ Active(u.ver) /\ SameSlot(db.orders[x], u.ver)
         /\ Covered(u)

\* Resource x is free in the snapshot of r for the interval r wants.
Checked(r, x) == x = None \/ (Window(r, x) \in tx[r].reads /\ Overlapping(r, x) = {})

\* What the statements executed so far established.
Progressed(r) ==
  /\ InTx(r) /\ pc[r] \notin {"lockOrder", "validate"} => ChecksPass(r)
  /\ InTx(r) /\ pc[r] \notin {"lockOrder", "validate", "commit"} => Reserves(r)
  /\ pc[r] \in {"lockPost", "lockSlots"} => tx[r].post \in Posts
  /\ pc[r] \in {"lockPost", "lockSlots"} /\ Want(r).post # AutoAssign
       => tx[r].post = Want(r).post
  /\ pc[r] = "lockEmployee" => tx[r].emp \in Employees
  /\ pc[r] = "lockEmployee" /\ Want(r).emp # AutoAssign => tx[r].emp = Want(r).emp
  /\ InTx(r) /\ pc[r] \notin {"lockEmployee", "commit"} => tx[r].emp = None
  /\ pc[r] \in {"lockOrder", "validate", "post"} => tx[r].post = None
  /\ pc[r] \in {"employee", "lockEmployee", "commit"} /\ Reserves(r)
       => /\ Checked(r, tx[r].post)
          /\ Want(r).post # AutoAssign => tx[r].post = Want(r).post
  /\ pc[r] = "commit" /\ Reserves(r)
       => /\ Checked(r, tx[r].emp)
          /\ Want(r).emp # AutoAssign => tx[r].emp = Want(r).emp

IInv ==
  /\ TypeOK /\ NoDoubleBooking
  /\ \A r \in Req : /\ RequestOK(r) /\ SnapshotFresh(r)
                    /\ ActiveAccounted(r) /\ Progressed(r)
=============================================================================
