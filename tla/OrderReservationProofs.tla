----------------------- MODULE OrderReservationProofs -----------------------
(***************************************************************************)
(* OrderReservation, for any number of requests, orders, posts, employees  *)
(* and attempts, in three parts: TypeOK and NoDoubleBooking hold in every  *)
(* reachable state; it implements BookingCalendar, to whose callers the    *)
(* transactions with their locks, retries and failures are a calendar that *)
(* serves one request at a time; and what the row locks hold still until a *)
(* commit, and the order in which they are taken.                          *)
(***************************************************************************)
EXTENDS OrderReservation, WellFoundedInduction, TLAPS

ReqInv(r) ==
  RequestOK(r) /\ SnapshotFresh(r) /\ ActiveAccounted(r) /\ Progressed(r)

\* What the open transaction of a request sees and wants is well typed.
LEMMA OpenTypes ==
  ASSUME TypeOK, NEW r \in Req, RequestOK(r), InTx(r)
  PROVE  /\ op[r] \in Op /\ op[r].kind \in SerializableKinds
         /\ op[r].row \in Orders
         /\ tx[r] \in Tx /\ tx[r].view \in Db
         /\ Row(r) \in Order /\ Buffer(r) \in Nat
         /\ Want(r) \in [start: Int, end: Int, post: Posts \cup {None, AutoAssign},
                         emp: Employees \cup {None, AutoAssign}]
         /\ op[r].kind # "create" => Want(r).post # AutoAssign /\ Want(r).emp # AutoAssign
         /\ \A x \in Posts \cup Employees : Window(r, x) \in WindowType
<1>1. /\ op[r] \in Ops /\ op[r] \in Op /\ op[r].kind \in SerializableKinds
      /\ op[r].row \in Orders
  BY OpsAssumption DEF RequestOK, InTx, InTxPcs
<1>2. tx[r] \in Tx /\ tx[r].view \in Db
  BY DEF TypeOK, Tx
<1>3. Row(r) \in Order /\ Buffer(r) \in Nat
  BY <1>1, <1>2 DEF Row, Buffer, Db
<1>4. /\ op[r].start \in Int /\ op[r].dur \in Nat
      /\ op[r].post \in Posts \cup {AutoAssign, Keep}
      /\ op[r].emp \in Employees \cup {AutoAssign, Keep}
      /\ op[r].kind = "create" => op[r].post # Keep /\ op[r].emp # Keep
      /\ op[r].kind = "reschedule" => op[r].post # AutoAssign /\ op[r].emp # AutoAssign
  BY <1>1, OpsAssumption DEF Op
<1>5. /\ Row(r).start \in Int /\ Row(r).end \in Int
      /\ Row(r).post \in Posts \cup {None} /\ Row(r).emp \in Employees \cup {None}
  BY <1>3 DEF Order
<1>6. AutoAssign # None /\ AutoAssign \notin Posts \cup Employees
  BY ConstantsAssumption
<1>7. /\ Want(r) \in [start: Int, end: Int, post: Posts \cup {None, AutoAssign},
                      emp: Employees \cup {None, AutoAssign}]
      /\ op[r].kind # "create" => Want(r).post # AutoAssign /\ Want(r).emp # AutoAssign
  <2>1. CASE op[r].kind = "create"
    BY <2>1, <1>4 DEF Want
  <2>2. CASE op[r].kind = "reschedule"
    BY <2>2, <1>4, <1>5, <1>6 DEF Want
  <2>3. CASE op[r].kind \notin {"create", "reschedule"}
    BY <2>3, <1>5, <1>6 DEF Want
  <2>q. QED BY <2>1, <2>2, <2>3
<1>8. \A x \in Posts \cup Employees : Window(r, x) \in WindowType
  BY <1>7, <1>3, <1>1 DEF Window, WindowType
<1>q. QED BY <1>1, <1>2, <1>3, <1>7, <1>8

\* What r wants and checks depends on its operation and its snapshot only.
LEMMA ViewSame ==
  ASSUME NEW r, op'[r] = op[r], tx'[r].view = tx[r].view
  PROVE  /\ Row(r)' = Row(r) /\ Buffer(r)' = Buffer(r) /\ Want(r)' = Want(r)
         /\ ChecksPass(r)' = ChecksPass(r) /\ Reserves(r)' = Reserves(r)
         /\ \A x : Window(r, x)' = Window(r, x)
         /\ \A x : Overlapping(r, x)' = Overlapping(r, x)
<1>1. Row(r)' = Row(r) /\ Buffer(r)' = Buffer(r)
  BY DEF Row, Buffer
<1>2. Want(r)' = Want(r)
  BY <1>1 DEF Want
<1>3. ChecksPass(r)' = ChecksPass(r)
  BY <1>1 DEF ChecksPass
<1>4. Reserves(r)' = Reserves(r)
  BY <1>1 DEF Reserves
<1>5. \A x : Window(r, x)' = Window(r, x)
  BY <1>1, <1>2 DEF Window
<1>6. \A x : Overlapping(r, x)' = Overlapping(r, x)
  BY <1>5 DEF Overlapping
<1>q. QED BY <1>1, <1>2, <1>3, <1>4, <1>5, <1>6

\* A request that a step leaves alone keeps its part of the invariant while
\* the database does not change.
LEMMA Frame ==
  ASSUME NEW q \in Req, ReqInv(q), db' = db, op'[q] = op[q], pc'[q] = pc[q],
         attempt'[q] = attempt[q], tx'[q] = tx[q]
  PROVE  ReqInv(q)'
<1>1. RequestOK(q)'
  BY DEF ReqInv, RequestOK, InTx
<1>2. SnapshotFresh(q)' /\ ActiveAccounted(q)'
  BY DEF ReqInv, SnapshotFresh, ActiveAccounted, InTx
<1>3. Progressed(q)'
  <2>1. \A x : Checked(q, x)' = Checked(q, x)
    BY ViewSame DEF Checked
  <2>q. QED BY <2>1, ViewSame DEF ReqInv, Progressed, InTx
<1>q. QED BY <1>1, <1>2, <1>3 DEF ReqInv

\* A statement of r that stays inside its transaction and only changes r's own
\* locks, picks and reads.
LEMMA LocalStep ==
  ASSUME IInv, NEW r \in Req, InTx(r), NEW l \in InTxPcs, NEW t \in Tx,
         t.view = tx[r].view, t.dirty = tx[r].dirty, t.peers = tx[r].peers,
         pc' = [pc EXCEPT ![r] = l], tx' = [tx EXCEPT ![r] = t],
         UNCHANGED <<db, op, attempt, answer>>, Progressed(r)'
  PROVE  IInv'
<1>1. TypeOK'
  BY DEF IInv, TypeOK, InTx, Pcs
<1>2. NoDoubleBooking'
  BY DEF IInv, NoDoubleBooking
<1>3. ASSUME NEW q \in Req \ {r} PROVE ReqInv(q)'
  BY Frame DEF IInv, ReqInv, TypeOK
<1>4. ReqInv(r)'
  <2>1. tx'[r] = t /\ pc'[r] = l /\ InTx(r)'
    BY DEF IInv, TypeOK, InTx
  <2>2. RequestOK(r)'
    BY <2>1 DEF IInv, RequestOK, InTx, InTxPcs, PlainPcs
  <2>3. SnapshotFresh(r)' /\ ActiveAccounted(r)'
    BY <2>1 DEF IInv, SnapshotFresh, ActiveAccounted
  <2>q. QED BY <2>2, <2>3 DEF ReqInv
<1>q. QED BY <1>1, <1>2, <1>3, <1>4 DEF IInv, ReqInv

\* The transaction of r ends without writing: r is answered or starts over.
LEMMA EndStep ==
  ASSUME IInv, NEW r \in Req, pc[r] # "ready", NEW l \in {"begin", "done"},
         l = "begin" => /\ attempt[r] < MAX_RESERVATION_ATTEMPTS
                        /\ op[r].kind \in SerializableKinds,
         pc' = [pc EXCEPT ![r] = l], tx' = [tx EXCEPT ![r] = NoTx],
         answer' \in [Req -> Answers], UNCHANGED <<db, op, attempt>>
  PROVE  IInv'
<1>1. TypeOK'
  BY DEF IInv, TypeOK, InTx, Pcs, InTxPcs
<1>2. NoDoubleBooking'
  BY DEF IInv, NoDoubleBooking
<1>3. ASSUME NEW q \in Req \ {r} PROVE ReqInv(q)'
  BY Frame DEF IInv, ReqInv, TypeOK
<1>4. ReqInv(r)'
  <2>1. pc'[r] = l /\ ~InTx(r)'
    BY DEF IInv, TypeOK, InTx, InTxPcs
  <2>2. RequestOK(r)'
    BY <2>1 DEF IInv, RequestOK, InTx, PlainPcs
  <2>q. QED BY <2>1, <2>2 DEF ReqInv, SnapshotFresh, ActiveAccounted, Progressed, InTx, InTxPcs
<1>q. QED BY <1>1, <1>2, <1>3, <1>4 DEF IInv, ReqInv

\* A business error ends the transaction of r.
LEMMA RejectStep ==
  ASSUME IInv, NEW r \in Req, pc[r] # "ready", Reject(r)
  PROVE  IInv'
BY EndStep DEF Reject, Answer, Goto, Answers, IInv, TypeOK

\* So does a conflict the database reports: a new attempt or a 409.
LEMMA RetryStep ==
  ASSUME IInv, NEW r \in Req, InTx(r), Retry(r)
  PROVE  IInv'
<1>1. /\ pc[r] # "ready" /\ op[r].kind \in SerializableKinds
      /\ attempt[r] \in Int /\ MAX_RESERVATION_ATTEMPTS \in Int
  BY ConstantsAssumption DEF IInv, RequestOK, InTx, InTxPcs, TypeOK
<1>2. CASE attempt[r] >= MAX_RESERVATION_ATTEMPTS
  BY <1>1, <1>2, EndStep DEF Retry, Answer, Goto, Answers, IInv, TypeOK
<1>3. CASE ~(attempt[r] >= MAX_RESERVATION_ATTEMPTS)
  <2>1. attempt[r] < MAX_RESERVATION_ATTEMPTS
    BY <1>1, <1>3
  <2>q. QED BY <1>1, <1>3, <2>1, EndStep DEF Retry, Goto, IInv, TypeOK
<1>q. QED BY <1>2, <1>3

\* A request comes in: it holds nothing yet.
LEMMA SubmitStep ==
  ASSUME IInv, NEW r \in Req, NEW o \in Ops, Submit(r, o)
  PROVE  IInv'
<1>1. /\ pc[r] = "ready" /\ db' = db /\ attempt' = attempt /\ answer' = answer
      /\ tx' = tx /\ op' = [op EXCEPT ![r] = o]
      /\ pc' = [pc EXCEPT ![r] =
                 IF o.kind \in SerializableKinds THEN "begin"
                 ELSE IF o.kind \in {"softDelete"} \cup ProfileKinds
                 THEN "find" ELSE "write"]
  BY DEF Submit, Goto
<1>2. pc'[r] \in {"begin", "find", "write"} /\ ~InTx(r) /\ ~InTx(r)'
  BY <1>1 DEF IInv, TypeOK, InTx, InTxPcs
<1>3. TypeOK'
  <2>1. op' \in [Req -> Ops \cup {NoOp}] /\ pc' \in [Req -> Pcs]
    BY <1>1, <1>2 DEF IInv, TypeOK, Pcs, PlainPcs
  <2>2. \A q \in Req : IF InTx(q)' THEN tx'[q] \in Tx ELSE tx'[q] = NoTx
    BY <1>1, <1>2 DEF IInv, TypeOK, InTx
  <2>q. QED BY <1>1, <2>1, <2>2 DEF IInv, TypeOK
<1>4. NoDoubleBooking'
  BY <1>1 DEF IInv, NoDoubleBooking
<1>5. ASSUME NEW q \in Req \ {r} PROVE ReqInv(q)'
  BY <1>1, Frame DEF IInv, ReqInv, TypeOK
<1>6. ReqInv(r)'
  <2>1. op'[r] = o
    BY <1>1 DEF IInv, TypeOK
  <2>2. RequestOK(r)'
    BY <1>1, <1>2, <2>1 DEF IInv, TypeOK, RequestOK, PlainPcs
  <2>q. QED BY <1>2, <2>2 DEF ReqInv, SnapshotFresh, ActiveAccounted, Progressed, InTx, InTxPcs
<1>q. QED BY <1>3, <1>4, <1>5, <1>6 DEF IInv, ReqInv

\* The first statement of an attempt takes the snapshot.
LEMMA BeginStep ==
  ASSUME IInv, NEW r \in Req, Begin(r)
  PROVE  IInv'
<1> DEFINE t == [NoTx EXCEPT !.view = db]
<1>1. /\ pc[r] = "begin" /\ db' = db /\ op' = op /\ answer' = answer
      /\ attempt' = [attempt EXCEPT ![r] = @ + 1] /\ tx' = [tx EXCEPT ![r] = t]
      /\ pc' = [pc EXCEPT ![r] = IF op[r].kind \in {"reschedule", "updateStatus"}
                                THEN "lockOrder" ELSE "validate"]
  BY DEF Begin, Goto
<1>2. t \in Tx /\ t.view = db /\ t.dirty = {} /\ t.post = None /\ t.emp = None
  BY DEF NoTx, Tx, IInv, TypeOK
<1>3. tx'[r] = t /\ pc'[r] \in {"lockOrder", "validate"} /\ InTx(r)'
  BY <1>1 DEF IInv, TypeOK, InTx, InTxPcs
<1>4. TypeOK'
  <2>1. attempt' \in [Req -> 0 .. MAX_RESERVATION_ATTEMPTS]
    BY <1>1, ConstantsAssumption DEF IInv, TypeOK, RequestOK
  <2>2. pc' \in [Req -> Pcs] /\ tx' \in [Req -> Tx \cup {NoTx}]
    BY <1>1, <1>2, <1>3 DEF IInv, TypeOK, Pcs, InTxPcs
  <2>3. \A q \in Req : IF InTx(q)' THEN tx'[q] \in Tx ELSE tx'[q] = NoTx
    BY <1>1, <1>2, <1>3 DEF IInv, TypeOK, InTx
  <2>q. QED BY <1>1, <2>1, <2>2, <2>3 DEF IInv, TypeOK
<1>5. NoDoubleBooking'
  BY <1>1 DEF IInv, NoDoubleBooking
<1>6. ASSUME NEW q \in Req \ {r} PROVE ReqInv(q)'
  BY <1>1, Frame DEF IInv, ReqInv, TypeOK
<1>7. ReqInv(r)'
  <2>1. RequestOK(r)'
    BY <1>1, <1>3 DEF IInv, RequestOK, InTx, PlainPcs
  <2>2. SnapshotFresh(r)' /\ ActiveAccounted(r)'
    BY <1>1, <1>2, <1>3 DEF SnapshotFresh, ActiveAccounted, SameSlot
  <2>3. Progressed(r)'
    BY <1>2, <1>3 DEF Progressed
  <2>q. QED BY <2>1, <2>2, <2>3 DEF ReqInv
<1>q. QED BY <1>4, <1>5, <1>6, <1>7 DEF IInv, ReqInv

\* The parts of the invariant that a statement of r starts from.
LEMMA OpenFacts ==
  ASSUME IInv, NEW r \in Req, InTx(r)
  PROVE  /\ TypeOK /\ RequestOK(r) /\ Progressed(r) /\ pc[r] # "ready"
         /\ tx \in [Req -> Tx \cup {NoTx}] /\ tx[r] \in Tx
         /\ op[r].row \in Orders /\ pc \in [Req -> Pcs]
BY OpenTypes DEF IInv, TypeOK, InTx, InTxPcs

\* SELECT ... FOR UPDATE of the order itself (lockOrderTx).
LEMMA LockOrderStep ==
  ASSUME IInv, NEW r \in Req, LockOrder(r)
  PROVE  IInv'
<1>1. pc[r] = "lockOrder" /\ InTx(r)
  BY DEF LockOrder, InTx, InTxPcs
<1>2. CASE Exists(Row(r)) /\ ~Row(r).del
  <2> DEFINE t == [tx[r] EXCEPT !.held = @ \cup {op[r].row}]
  <2>1. /\ tx' = [tx EXCEPT ![r] = t] /\ pc' = [pc EXCEPT ![r] = "validate"]
        /\ UNCHANGED <<db, op, attempt, answer>>
    BY <1>2 DEF LockOrder, Goto
  <2>2. /\ t \in Tx /\ t.view = tx[r].view /\ t.dirty = tx[r].dirty
        /\ t.peers = tx[r].peers /\ t.post = tx[r].post /\ t.emp = tx[r].emp
    BY <1>1, OpenFacts DEF Tx, Rows
  <2>3. Progressed(r)'
    BY <1>1, <2>1, <2>2, OpenFacts DEF Progressed, InTx
  <2>q. QED BY <1>1, <2>1, <2>2, <2>3, LocalStep DEF InTxPcs
<1>3. CASE ~(Exists(Row(r)) /\ ~Row(r).del)
  BY <1>1, <1>3, RejectStep DEF LockOrder
<1>q. QED BY <1>2, <1>3

\* The checks on the order and on what is asked for.
LEMMA ValidateStep ==
  ASSUME IInv, NEW r \in Req, Validate(r)
  PROVE  IInv'
<1>1. /\ pc[r] = "validate" /\ InTx(r) /\ ChecksPass(r)
      /\ pc' = [pc EXCEPT ![r] = IF Reserves(r) THEN "post" ELSE "commit"]
      /\ tx' = [tx EXCEPT ![r] = tx[r]] /\ tx' = tx
      /\ UNCHANGED <<db, op, attempt, answer>>
  BY OpenFacts DEF Validate, InTx, InTxPcs, Goto, IInv, TypeOK
<1>2. ChecksPass(r)' = ChecksPass(r) /\ Reserves(r)' = Reserves(r)
  BY <1>1, ViewSame
<1>3. Progressed(r)'
  BY <1>1, <1>2, OpenFacts DEF Progressed, InTx
<1>q. QED BY <1>1, <1>3, OpenFacts, LocalStep DEF InTxPcs

\* A work post is picked, or there is none (resolveWorkPost).
LEMMA ResolveWorkPostStep ==
  ASSUME IInv, NEW r \in Req, ResolveWorkPost(r)
  PROVE  IInv'
<1>1. pc[r] = "post" /\ InTx(r)
  BY DEF ResolveWorkPost, InTx, InTxPcs
<1>2. /\ ChecksPass(r) /\ Reserves(r) /\ tx[r].post = None /\ tx[r].emp = None
  BY <1>1, OpenFacts DEF Progressed
<1>3. CASE /\ Want(r).post = None /\ Goto(r, "employee")
           /\ UNCHANGED <<db, op, attempt, answer, tx>>
  <2>1. tx' = [tx EXCEPT ![r] = tx[r]] /\ pc'[r] = "employee"
    BY <1>1, <1>3, OpenFacts DEF Goto
  <2>2. /\ ChecksPass(r)' = ChecksPass(r) /\ Reserves(r)' = Reserves(r)
        /\ Want(r)' = Want(r)
    BY <1>3, ViewSame
  <2>3. Progressed(r)'
    BY <1>2, <1>3, <2>1, <2>2, OpenFacts DEF Progressed, Checked
  <2>q. QED BY <1>1, <1>3, <2>1, <2>3, OpenFacts, LocalStep DEF InTxPcs, Goto
<1>4. ASSUME NEW p \in CandidatePosts(r), tx' = [tx EXCEPT ![r].post = p],
             Goto(r, "lockPost"), UNCHANGED <<db, op, attempt, answer>>
      PROVE  IInv'
  <2> DEFINE t == [tx[r] EXCEPT !.post = p]
  <2>1. p \in Posts /\ (Want(r).post # AutoAssign => p = Want(r).post)
    BY DEF CandidatePosts, OpenPosts
  <2>2. /\ t \in Tx /\ t.view = tx[r].view /\ t.dirty = tx[r].dirty
        /\ t.peers = tx[r].peers /\ t.post = p /\ t.emp = tx[r].emp
    BY <1>1, <2>1, OpenFacts DEF Tx
  <2>3. tx' = [tx EXCEPT ![r] = t] /\ tx'[r] = t /\ pc'[r] = "lockPost"
    BY <1>1, <1>4, OpenFacts DEF Goto
  <2>4. /\ ChecksPass(r)' = ChecksPass(r) /\ Reserves(r)' = Reserves(r)
        /\ Want(r)' = Want(r)
    BY <1>4, <2>2, <2>3, ViewSame
  <2>5. Progressed(r)'
    BY <1>2, <2>1, <2>2, <2>3, <2>4 DEF Progressed
  <2>q. QED BY <1>1, <1>4, <2>2, <2>3, <2>5, LocalStep DEF InTxPcs, Goto
<1>5. CASE Reject(r)
  BY <1>1, <1>5, RejectStep
<1>q. QED BY <1>3, <1>4, <1>5 DEF ResolveWorkPost

\* The post row is locked and must be in service (lockWorkPost).
LEMMA LockWorkPostStep ==
  ASSUME IInv, NEW r \in Req, LockWorkPost(r)
  PROVE  IInv'
<1> DEFINE t == [tx[r] EXCEPT !.held = @ \cup {tx[r].post}]
<1>1. pc[r] = "lockPost" /\ InTx(r)
  BY DEF LockWorkPost, InTx, InTxPcs
<1>2. /\ ChecksPass(r) /\ Reserves(r) /\ tx[r].post \in Posts /\ tx[r].emp = None
      /\ Want(r).post # AutoAssign => tx[r].post = Want(r).post
  BY <1>1, OpenFacts DEF Progressed
<1>3. /\ t \in Tx /\ t.view = tx[r].view /\ t.dirty = tx[r].dirty
      /\ t.peers = tx[r].peers /\ t.post = tx[r].post /\ t.emp = tx[r].emp
  BY <1>1, <1>2, OpenFacts DEF Tx, Rows
<1>4. /\ tx' = [tx EXCEPT ![r] = t] /\ tx'[r] = t /\ pc'[r] = "lockSlots"
      /\ pc' = [pc EXCEPT ![r] = "lockSlots"]
      /\ UNCHANGED <<db, op, attempt, answer>>
  BY <1>1, OpenFacts DEF LockWorkPost, Goto
<1>5. /\ ChecksPass(r)' = ChecksPass(r) /\ Reserves(r)' = Reserves(r)
      /\ Want(r)' = Want(r)
  BY <1>3, <1>4, ViewSame
<1>6. Progressed(r)'
  BY <1>2, <1>3, <1>4, <1>5 DEF Progressed
<1>q. QED BY <1>1, <1>3, <1>4, <1>6, LocalStep DEF InTxPcs

\* One overlapping order after the other is locked (lockOverlappingSlots).
LEMMA LockOverlappingSlotStep ==
  ASSUME IInv, NEW r \in Req, LockOverlappingSlot(r)
  PROVE  IInv'
<1>1. pc[r] = "lockSlots" /\ InTx(r)
  BY DEF LockOverlappingSlot, InTx, InTxPcs
<1>2. PICK o \in SlotsToLock(r) : tx' = [tx EXCEPT ![r].held = @ \cup {o}]
  BY DEF LockOverlappingSlot
<1> DEFINE t == [tx[r] EXCEPT !.held = @ \cup {o}]
<1>3. o \in Orders
  BY DEF SlotsToLock, Overlapping
<1>4. /\ t \in Tx /\ t.view = tx[r].view /\ t.dirty = tx[r].dirty
      /\ t.peers = tx[r].peers /\ t.post = tx[r].post /\ t.emp = tx[r].emp
  BY <1>1, <1>3, OpenFacts DEF Tx, Rows
<1>5. /\ tx' = [tx EXCEPT ![r] = t] /\ tx'[r] = t
      /\ pc' = [pc EXCEPT ![r] = "lockSlots"] /\ pc' = pc
      /\ UNCHANGED <<db, op, attempt, answer>>
  BY <1>1, <1>2, OpenFacts DEF LockOverlappingSlot
<1>6. /\ ChecksPass(r)' = ChecksPass(r) /\ Reserves(r)' = Reserves(r)
      /\ Want(r)' = Want(r)
  BY <1>4, <1>5, ViewSame
<1>7. Progressed(r)'
  BY <1>1, <1>4, <1>5, <1>6, OpenFacts DEF Progressed, InTx
<1>q. QED BY <1>1, <1>4, <1>5, <1>7, LocalStep DEF InTxPcs

\* The count of overlapping orders: afterwards the slot is free as far as r can see.
LEMMA CountOverlappingStep ==
  ASSUME IInv, NEW r \in Req, CountOverlapping(r)
  PROVE  IInv'
<1> DEFINE w == Window(r, tx[r].post)
<1>1. pc[r] = "lockSlots" /\ InTx(r)
  BY DEF CountOverlapping, InTx, InTxPcs
<1>2. /\ ChecksPass(r) /\ Reserves(r) /\ tx[r].post \in Posts /\ tx[r].emp = None
      /\ Want(r).post # AutoAssign => tx[r].post = Want(r).post
  BY <1>1, OpenFacts DEF Progressed
<1>3. w \in WindowType
  BY <1>1, <1>2, OpenFacts, OpenTypes
<1>4. CASE Overlapping(r, tx[r].post) = {}
  <2> DEFINE t == [tx[r] EXCEPT !.reads = @ \cup {w}]
  <2>1. /\ t \in Tx /\ t.view = tx[r].view /\ t.dirty = tx[r].dirty
        /\ t.peers = tx[r].peers /\ t.post = tx[r].post /\ t.emp = tx[r].emp
        /\ w \in t.reads
    BY <1>1, <1>3, OpenFacts DEF Tx
  <2>2. /\ tx' = [tx EXCEPT ![r] = t] /\ tx'[r] = t /\ pc'[r] = "employee"
        /\ pc' = [pc EXCEPT ![r] = "employee"]
        /\ UNCHANGED <<db, op, attempt, answer>>
    BY <1>1, <1>4, OpenFacts DEF CountOverlapping, Goto
  <2>3. /\ ChecksPass(r)' = ChecksPass(r) /\ Reserves(r)' = Reserves(r)
        /\ Want(r)' = Want(r)
        /\ \A x : Window(r, x)' = Window(r, x)
        /\ \A x : Overlapping(r, x)' = Overlapping(r, x)
    BY <2>1, <2>2, ViewSame
  <2>4. \A x : x = tx[r].post => Checked(r, x)'
    BY <1>4, <2>1, <2>2, <2>3 DEF Checked
  <2>5. Progressed(r)'
    BY <1>2, <2>1, <2>2, <2>3, <2>4 DEF Progressed
  <2>q. QED BY <1>1, <2>1, <2>2, <2>5, LocalStep DEF InTxPcs
<1>5. CASE Overlapping(r, tx[r].post) # {}
  <2> DEFINE t == [tx[r] EXCEPT !.reads = @ \cup {w}, !.tried = @ \cup {tx[r].post},
                                !.post = None]
  <2>1. /\ t \in Tx /\ t.view = tx[r].view /\ t.dirty = tx[r].dirty
        /\ t.peers = tx[r].peers /\ t.post = None /\ t.emp = tx[r].emp
    BY ZenonT(60), <1>1, <1>2, <1>3, OpenFacts DEF Tx
  <2>2. /\ tx' = [tx EXCEPT ![r] = t] /\ tx'[r] = t /\ pc'[r] = "post"
        /\ pc' = [pc EXCEPT ![r] = "post"]
        /\ UNCHANGED <<db, op, attempt, answer>>
    BY <1>1, <1>5, OpenFacts DEF CountOverlapping, Goto
  <2>3. ChecksPass(r)' = ChecksPass(r) /\ Reserves(r)' = Reserves(r)
    BY <2>1, <2>2, ViewSame
  <2>4. Progressed(r)'
    BY <1>2, <2>1, <2>2, <2>3 DEF Progressed
  <2>q. QED BY <1>1, <2>1, <2>2, <2>4, LocalStep DEF InTxPcs
<1>q. QED BY <1>4, <1>5

\* An employee is chosen, taken as asked, or not needed (reserveEmployee).
LEMMA ChooseEmployeeStep ==
  ASSUME IInv, NEW r \in Req, ChooseEmployee(r)
  PROVE  IInv'
<1>1. pc[r] = "employee" /\ InTx(r)
  BY DEF ChooseEmployee, InTx, InTxPcs
<1>2. /\ ChecksPass(r) /\ Reserves(r) /\ tx[r].emp = None /\ Checked(r, tx[r].post)
      /\ Want(r).post # AutoAssign => tx[r].post = Want(r).post
  BY <1>1, OpenFacts DEF Progressed
<1>3. CASE /\ Want(r).emp = None \/ Want(r).emp = AutoAssign
           /\ Goto(r, "commit") /\ UNCHANGED <<db, op, attempt, answer, tx>>
  <2>1. tx' = [tx EXCEPT ![r] = tx[r]] /\ pc'[r] = "commit"
    BY <1>1, <1>3, OpenFacts DEF Goto
  <2>2. /\ ChecksPass(r)' = ChecksPass(r) /\ Reserves(r)' = Reserves(r)
        /\ Want(r)' = Want(r) /\ \A x : Checked(r, x)' = Checked(r, x)
    BY <1>3, ViewSame DEF Checked
  <2>3. Checked(r, None)'
    BY DEF Checked
  <2>4. Progressed(r)'
    BY <1>2, <1>3, <2>1, <2>2, <2>3 DEF Progressed
  <2>q. QED BY <1>1, <1>3, <2>1, <2>4, OpenFacts, LocalStep DEF InTxPcs, Goto
<1>4. ASSUME NEW e \in Employees, Want(r).emp # AutoAssign => e = Want(r).emp,
             tx' = [tx EXCEPT ![r].emp = e],
             Goto(r, "lockEmployee"), UNCHANGED <<db, op, attempt, answer>>
      PROVE  IInv'
  <2> DEFINE t == [tx[r] EXCEPT !.emp = e]
  <2>1. /\ t \in Tx /\ t.view = tx[r].view /\ t.dirty = tx[r].dirty
        /\ t.peers = tx[r].peers /\ t.post = tx[r].post /\ t.emp = e
        /\ t.reads = tx[r].reads
    BY <1>1, OpenFacts DEF Tx
  <2>2. tx' = [tx EXCEPT ![r] = t] /\ tx'[r] = t /\ pc'[r] = "lockEmployee"
    BY <1>1, <1>4, OpenFacts DEF Goto
  <2>3. /\ ChecksPass(r)' = ChecksPass(r) /\ Reserves(r)' = Reserves(r)
        /\ Want(r)' = Want(r) /\ \A x : Checked(r, x)' = Checked(r, x)
    BY <1>4, <2>1, <2>2, ViewSame DEF Checked
  <2>4. Progressed(r)'
    BY <1>2, <1>4, <2>1, <2>2, <2>3 DEF Progressed
  <2>q. QED BY <1>1, <1>4, <2>1, <2>2, <2>4, LocalStep DEF InTxPcs, Goto
<1>5. CASE Reject(r)
  BY <1>1, <1>5, RejectStep
<1>q. QED BY <1>3, <1>4, <1>5 DEF ChooseEmployee

\* The employee row is locked and the eligibility read again.
LEMMA LockEmployeeStep ==
  ASSUME IInv, NEW r \in Req, LockEmployee(r)
  PROVE  IInv'
<1> DEFINE w == Window(r, tx[r].emp)
           t == [tx[r] EXCEPT !.held = @ \cup {tx[r].emp}, !.reads = @ \cup {w}]
<1>1. pc[r] = "lockEmployee" /\ InTx(r)
  BY DEF LockEmployee, InTx, InTxPcs
<1>2. CASE ~Eligible(r, tx[r].emp)
  BY <1>1, <1>2, RejectStep DEF LockEmployee
<1>3. CASE Eligible(r, tx[r].emp)
  <2>1. /\ ChecksPass(r) /\ Reserves(r) /\ tx[r].emp \in Employees
        /\ Checked(r, tx[r].post)
        /\ Want(r).post # AutoAssign => tx[r].post = Want(r).post
        /\ Want(r).emp # AutoAssign => tx[r].emp = Want(r).emp
    BY <1>1, OpenFacts DEF Progressed
  <2>2. w \in WindowType /\ Overlapping(r, tx[r].emp) = {}
    BY <1>1, <1>3, <2>1, OpenFacts, OpenTypes DEF Eligible, Serving, Configured
  <2>3. /\ t \in Tx /\ t.view = tx[r].view /\ t.dirty = tx[r].dirty
        /\ t.peers = tx[r].peers /\ t.post = tx[r].post /\ t.emp = tx[r].emp
        /\ t.reads = tx[r].reads \cup {w}
    BY <1>1, <2>1, <2>2, OpenFacts DEF Tx, Rows
  <2>4. /\ tx' = [tx EXCEPT ![r] = t] /\ tx'[r] = t /\ pc'[r] = "commit"
        /\ pc' = [pc EXCEPT ![r] = "commit"]
        /\ UNCHANGED <<db, op, attempt, answer>>
    BY <1>1, <1>3, OpenFacts DEF LockEmployee, Goto
  <2>5. /\ ChecksPass(r)' = ChecksPass(r) /\ Reserves(r)' = Reserves(r)
        /\ Want(r)' = Want(r)
        /\ \A x : Window(r, x)' = Window(r, x)
        /\ \A x : Overlapping(r, x)' = Overlapping(r, x)
    BY <2>3, <2>4, ViewSame
  <2>6. \A x : x \in {tx[r].post, tx[r].emp} => Checked(r, x)'
    BY ZenonT(60), <2>1, <2>2, <2>3, <2>4, <2>5 DEF Checked
  <2>7. Progressed(r)'
    BY <2>1, <2>3, <2>4, <2>5, <2>6 DEF Progressed
  <2>q. QED BY <1>1, <2>3, <2>4, <2>7, LocalStep DEF InTxPcs
<1>q. QED BY <1>2, <1>3

\* Orders that keep their slots, or stop occupying one, cannot collide.
LEMMA ShrinkingKeepsApart ==
  ASSUME NoDoubleBooking,
         \A y \in Orders : Active(db'.orders[y]) =>
            Active(db.orders[y]) /\ SameSlot(db'.orders[y], db.orders[y])
  PROVE  NoDoubleBooking'
BY DEF NoDoubleBooking, SameSlot, Uses, Apart

\* r ends by writing row x.  An order that is active afterwards was active in
\* the same slot before, or is reported to the open transactions as a peer.
LEMMA WriteStep ==
  ASSUME IInv, NEW r \in Req, pc[r] # "ready",
         NEW x \in Rows \cup {None}, NEW peer \in SUBSET
           [row: Orders, ver: Order, reads: SUBSET WindowType],
         tx' = Publish(r, x, peer), pc' = [pc EXCEPT ![r] = "done"],
         answer' \in [Req -> Answers], UNCHANGED <<op, attempt>>, db' \in Db,
         \A y \in Orders \ {x} : db'.orders[y] = db.orders[y],
         x \in Orders /\ Active(db'.orders[x]) =>
           \/ Active(db.orders[x]) /\ SameSlot(db'.orders[x], db.orders[x])
           \/ \E u \in peer : /\ u.row = x /\ Active(u.ver) /\ Covered(u)
                             /\ SameSlot(db'.orders[x], u.ver),
         NoDoubleBooking'
  PROVE  IInv'
<1>1. ASSUME NEW q \in Req \ {r}, InTx(q)
      PROVE  /\ tx'[q] \in Tx /\ tx'[q].dirty = tx[q].dirty \cup {x}
             /\ tx'[q].peers = tx[q].peers \cup peer
             /\ tx'[q].view = tx[q].view /\ tx'[q].reads = tx[q].reads
             /\ tx'[q].post = tx[q].post /\ tx'[q].emp = tx[q].emp
  <2>1. tx'[q] = [tx[q] EXCEPT !.dirty = @ \cup {x}, !.peers = @ \cup peer]
    BY <1>1 DEF Publish
  <2>2. tx[q] \in Tx
    BY <1>1 DEF IInv, TypeOK
  <2>3. /\ tx[q].dirty \cup {x} \in SUBSET (Rows \cup {None})
        /\ tx[q].peers \cup peer \in
             SUBSET [row: Orders, ver: Order, reads: SUBSET WindowType]
    <3>1. /\ tx[q].dirty \in SUBSET (Rows \cup {None})
          /\ tx[q].peers \in SUBSET [row: Orders, ver: Order, reads: SUBSET WindowType]
      BY <2>2 DEF Tx
    <3>q. QED BY <3>1, Zenon
  <2>q. QED BY <2>1, <2>2, <2>3 DEF Tx
<1>2. ASSUME NEW q \in Req, q = r \/ ~InTx(q) PROVE tx'[q] = NoTx
  BY <1>2 DEF Publish, IInv, TypeOK
<1>3. pc'[r] = "done" /\ \A q \in Req \ {r} : pc'[q] = pc[q]
  BY DEF IInv, TypeOK
<1>4. ~InTx(r)' /\ \A q \in Req \ {r} : InTx(q)' = InTx(q)
  BY <1>3 DEF InTx, InTxPcs
<1>5. TypeOK'
  <2>1. tx' \in [Req -> Tx \cup {NoTx}]
    <3>1. tx' = [q \in Req |-> tx'[q]]
      BY DEF Publish
    <3>q. QED BY <3>1, <1>1, <1>2
  <2>2. \A q \in Req : IF InTx(q)' THEN tx'[q] \in Tx ELSE tx'[q] = NoTx
    BY <1>1, <1>2, <1>4
  <2>q. QED BY <2>1, <2>2 DEF IInv, TypeOK, Pcs
<1>6. ReqInv(r)'
  <2>1. RequestOK(r)'
    BY <1>3 DEF IInv, RequestOK, InTx, InTxPcs, PlainPcs
  <2>q. QED BY <1>3, <1>4, <2>1 DEF ReqInv, SnapshotFresh, ActiveAccounted, Progressed
<1>7. ASSUME NEW q \in Req \ {r} PROVE ReqInv(q)'
  <2>1. RequestOK(q)'
    BY <1>3, <1>4 DEF IInv, RequestOK
  <2>2. CASE ~InTx(q)
    <3>1. ~InTx(q)' /\ pc'[q] \notin InTxPcs
      BY <1>3, <1>4, <2>2 DEF InTx
    <3>q. QED BY <2>1, <3>1 DEF ReqInv, SnapshotFresh, ActiveAccounted, Progressed, InTxPcs
  <2>3. CASE InTx(q)
    <3>1. SnapshotFresh(q)'
      BY <1>1, <1>4, <2>3 DEF IInv, SnapshotFresh
    <3>2. ActiveAccounted(q)'
      <4> SUFFICES ASSUME NEW y \in Orders, Active(db'.orders[y])
                   PROVE  \/ /\ Active(tx'[q].view.orders[y])
                             /\ SameSlot(db'.orders[y], tx'[q].view.orders[y])
                          \/ \E u \in tx'[q].peers :
                               /\ u.row = y /\ Active(u.ver)
                               /\ SameSlot(db'.orders[y], u.ver) /\ Covered(u)
        BY DEF ActiveAccounted
      <4>1. \/ Active(db.orders[y]) /\ SameSlot(db'.orders[y], db.orders[y])
            \/ \E u \in peer : /\ u.row = y /\ Active(u.ver) /\ Covered(u)
                              /\ SameSlot(db'.orders[y], u.ver)
        BY DEF SameSlot
      <4>2. CASE Active(db.orders[y]) /\ SameSlot(db'.orders[y], db.orders[y])
        <5>1. \/ /\ Active(tx[q].view.orders[y])
                 /\ SameSlot(db.orders[y], tx[q].view.orders[y])
              \/ \E u \in tx[q].peers :
                   /\ u.row = y /\ Active(u.ver) /\ SameSlot(db.orders[y], u.ver)
                   /\ Covered(u)
          BY <2>3, <4>2 DEF IInv, ActiveAccounted
        <5>q. QED BY ZenonT(60), <1>1, <2>3, <4>2, <5>1 DEF SameSlot
      <4>3. CASE \E u \in peer : /\ u.row = y /\ Active(u.ver) /\ Covered(u)
                               /\ SameSlot(db'.orders[y], u.ver)
        BY <1>1, <2>3, <4>3
      <4>q. QED BY <4>1, <4>2, <4>3
    <3>3. Progressed(q)'
      <4>1. op'[q] = op[q] /\ tx'[q].view = tx[q].view
        BY <1>1, <2>3
      <4>2. \A y : Checked(q, y)' = Checked(q, y)
        BY <1>1, <2>3, <4>1, ViewSame DEF Checked
      <4>3. /\ ChecksPass(q)' = ChecksPass(q) /\ Reserves(q)' = Reserves(q)
            /\ Want(q)' = Want(q)
        BY <4>1, ViewSame
      <4>q. QED BY <1>1, <1>3, <1>4, <2>3, <4>2, <4>3 DEF IInv, Progressed
    <3>q. QED BY <2>1, <3>1, <3>2, <3>3 DEF ReqInv
  <2>q. QED BY <2>2, <2>3
<1>q. QED BY <1>5, <1>6, <1>7 DEF IInv, ReqInv

\* A plain statement that decides to go on to the next one.
LEMMA PlainStep ==
  ASSUME IInv, NEW r \in Req, pc[r] \in {"find", "count"}, NEW l \in {"count", "write"},
         l = "count" => op[r].kind = "deleteEmployee",
         Goto(r, l), UNCHANGED <<db, op, attempt, answer, tx>>
  PROVE  IInv'
<1>1. pc' = [pc EXCEPT ![r] = l] /\ pc'[r] = l /\ ~InTx(r) /\ ~InTx(r)'
  BY DEF Goto, IInv, TypeOK, InTx, InTxPcs
<1>2. TypeOK'
  <2>1. pc' \in [Req -> Pcs]
    BY <1>1 DEF IInv, TypeOK, Pcs, PlainPcs
  <2>2. \A q \in Req : IF InTx(q)' THEN tx'[q] \in Tx ELSE tx'[q] = NoTx
    BY <1>1 DEF IInv, TypeOK, InTx
  <2>q. QED BY <2>1, <2>2 DEF IInv, TypeOK
<1>3. NoDoubleBooking'
  BY DEF IInv, NoDoubleBooking
<1>4. ASSUME NEW q \in Req \ {r} PROVE ReqInv(q)'
  BY <1>1, Frame DEF IInv, ReqInv, TypeOK
<1>5. ReqInv(r)'
  <2>1. RequestOK(r)'
    BY <1>1 DEF IInv, RequestOK, PlainPcs
  <2>q. QED BY <1>1, <2>1 DEF ReqInv, SnapshotFresh, ActiveAccounted, Progressed
<1>q. QED BY <1>2, <1>3, <1>4, <1>5 DEF IInv, ReqInv

\* The read of a plain request that decides whether it writes.
LEMMA PlainFindStep ==
  ASSUME IInv, NEW r \in Req, PlainFind(r)
  PROVE  IInv'
<1>1. pc[r] = "find"
  BY DEF PlainFind
<1>2. CASE Reject(r)
  BY <1>1, <1>2, RejectStep
<1>3. CASE /\ Goto(r, IF op[r].kind = "deleteEmployee" THEN "count" ELSE "write")
           /\ UNCHANGED <<db, op, attempt, answer, tx>>
  BY <1>1, <1>3, PlainStep
<1>q. QED BY <1>2, <1>3 DEF PlainFind

\* The count of assigned orders before a profile is deleted.
LEMMA CountAssignedStep ==
  ASSUME IInv, NEW r \in Req, CountAssigned(r)
  PROVE  IInv'
<1>1. pc[r] = "count"
  BY DEF CountAssigned
<1>2. CASE Reject(r)
  BY <1>1, <1>2, RejectStep
<1>3. CASE Goto(r, "write") /\ UNCHANGED <<db, op, attempt, answer, tx>>
  BY <1>1, <1>3, PlainStep
<1>q. QED BY <1>2, <1>3 DEF CountAssigned

\* Writing one row of the table orders.
LEMMA RowWrite ==
  ASSUME db \in Db, NEW x \in Orders, NEW n \in Order,
         db' = [db EXCEPT !.orders[x] = n]
  PROVE  /\ db' \in Db /\ db'.orders[x] = n
         /\ \A y \in Orders \ {x} : db'.orders[y] = db.orders[y]
<1>1. db.orders \in [Orders -> Order]
  BY DEF Db
<1>2. db'.orders = [db.orders EXCEPT ![x] = n]
  BY DEF Db
<1>3. db' \in Db
  BY <1>1 DEF Db
<1>q. QED BY <1>1, <1>2, <1>3

\* Writing one employee's profile leaves every order as it is.
LEMMA ProfileWrite ==
  ASSUME db \in Db, NEW e \in Employees, NEW n \in Profile,
         db' = [db EXCEPT !.emp[e] = n]
  PROVE  db' \in Db /\ db'.orders = db.orders
<1>1. db.emp \in [Employees -> Profile]
  BY DEF Db
<1>2. [db.emp EXCEPT ![e] = n] \in [Employees -> Profile]
  BY <1>1
<1>3. db' = [db EXCEPT !.emp = [db.emp EXCEPT ![e] = n]]
  BY DEF Db
<1>q. QED BY <1>2, <1>3 DEF Db

\* A plain write never makes an order active and never moves one.
LEMMA PlainWriteStep ==
  ASSUME IInv, NEW r \in Req, PlainWrite(r)
  PROVE  IInv'
<1> DEFINE x == op[r].row
           k == op[r].kind
<1>1. /\ pc[r] = "write" /\ pc' = [pc EXCEPT ![r] = "done"]
      /\ answer' = [answer EXCEPT ![r] = "ok"] /\ UNCHANGED <<op, attempt>>
  BY DEF PlainWrite, Goto
<1>2. answer' \in [Req -> Answers]
  BY <1>1 DEF IInv, TypeOK, Answers
<1>3. /\ op[r] \in Op /\ x \in Rows \cup {None} /\ op[r].on \in BOOLEAN
      /\ op[r].buf \in Nat /\ k \notin SerializableKinds /\ db \in Db
      /\ k \in OrderWriteKinds => x \in Orders
      /\ k = "updatePost" => x \in Posts
      /\ k \in ProfileKinds => x \in Employees
  BY <1>1, OpsAssumption DEF IInv, TypeOK, RequestOK, PlainPcs, Rows, Op
<1>4. db.orders \in [Orders -> Order]
  BY <1>3 DEF Db
<1>4a. db.emp \in [Employees -> Profile]
  BY <1>3 DEF Db
<1>5. /\ db' \in Db
      /\ \A y \in Orders \ {x} : db'.orders[y] = db.orders[y]
      /\ x \in Orders /\ Active(db'.orders[x]) =>
           Active(db.orders[x]) /\ SameSlot(db'.orders[x], db.orders[x])
  <2>1. CASE k = "softDelete"
    <3>1. x \in Orders /\ db' = [db EXCEPT !.orders[x].del = TRUE]
      BY <1>3, <2>1 DEF PlainWrite, OrderWriteKinds
    <3> DEFINE n == [db.orders[x] EXCEPT !.del = TRUE]
    <3>2. n \in Order /\ ~Active(n)
      BY <1>4, <3>1 DEF Order, Active
    <3>3. db' = [db EXCEPT !.orders[x] = n]
      BY <3>1
    <3>q. QED BY <1>3, <3>1, <3>2, <3>3, RowWrite
  <2>2. CASE k = "confirmationTimeout"
    <3>1. /\ x \in Orders
          /\ db' = [db EXCEPT !.orders[x].st =
                      IF @ = "BOOKED_PENDING_CONFIRMATION" THEN "CANCELLED" ELSE @]
      BY <1>3, <2>2 DEF PlainWrite, OrderWriteKinds
    <3>2. CASE db.orders[x].st = "BOOKED_PENDING_CONFIRMATION"
      <4>1. db' = [db EXCEPT !.orders[x].st = "CANCELLED"]
        BY <3>1, <3>2
      <4> DEFINE n == [db.orders[x] EXCEPT !.st = "CANCELLED"]
      <4>2. n \in Order /\ ~Active(n)
        BY <1>4, <3>1 DEF Order, Active, Status, Terminal, Occupying
      <4>3. db' = [db EXCEPT !.orders[x] = n]
        BY <4>1
      <4>q. QED BY ZenonT(60), <1>3, <3>1, <4>2, <4>3, RowWrite
    <3>3. CASE db.orders[x].st # "BOOKED_PENDING_CONFIRMATION"
      <4>1. db' = [db EXCEPT !.orders[x].st = db.orders[x].st]
        BY <3>1, <3>3
      <4>2. [db.orders[x] EXCEPT !.st = db.orders[x].st] = db.orders[x]
        BY <1>4, <3>1 DEF Order
      <4>3. [db.orders EXCEPT ![x] = db.orders[x]] = db.orders
        BY <1>4, <3>1
      <4>4. [db EXCEPT !.orders = db.orders] = db
        BY <1>3 DEF Db
      <4>5. db' = [db EXCEPT !.orders = [db.orders EXCEPT
                                 ![x] = [db.orders[x] EXCEPT !.st = db.orders[x].st]]]
        BY <4>1
      <4>6. db' = db
        BY <4>2, <4>3, <4>4, <4>5
      <4>q. QED BY <1>3, <4>6 DEF SameSlot
    <3>q. QED BY <3>2, <3>3
  <2>3. CASE k \notin OrderWriteKinds
    <3>1. CASE k = "updatePost"
      <4>1. db' = [db EXCEPT !.post[x] = op[r].on]
        BY <3>1 DEF PlainWrite
      <4>2. db' \in Db /\ db'.orders = db.orders
        BY <1>3, <3>1, <4>1 DEF Db
      <4>q. QED BY <4>2 DEF SameSlot
    <3>2. CASE k = "updateEmployee"
      <4> DEFINE n == [db.emp[x] EXCEPT !.active = op[r].on]
      <4>1. db' = [db EXCEPT !.emp[x] = n]
        BY <3>2 DEF PlainWrite
      <4>2. x \in Employees /\ n \in Profile
        BY <1>3, <1>4a, <3>2 DEF Profile, ProfileKinds
      <4>3. db' \in Db /\ db'.orders = db.orders
        BY <1>3, <4>1, <4>2, ProfileWrite
      <4>q. QED BY <4>3 DEF SameSlot
    <3>3. CASE k = "deleteEmployee"
      <4> DEFINE n == [db.emp[x] EXCEPT !.del = TRUE]
      <4>1. db' = [db EXCEPT !.emp[x] = n]
        BY <3>3 DEF PlainWrite
      <4>2. x \in Employees /\ n \in Profile
        BY <1>3, <1>4a, <3>3 DEF Profile, ProfileKinds
      <4>3. db' \in Db /\ db'.orders = db.orders
        BY <1>3, <4>1, <4>2, ProfileWrite
      <4>q. QED BY <4>3 DEF SameSlot
    <3>3a. CASE k = "updateWorker"
      <4> DEFINE n == [db.emp[x] EXCEPT !.worker = op[r].on]
      <4>1. db' = [db EXCEPT !.emp[x] = n]
        BY <3>3a DEF PlainWrite
      <4>2. x \in Employees /\ n \in Profile
        BY <1>3, <1>4a, <3>3a DEF Profile, ProfileKinds
      <4>3. db' \in Db /\ db'.orders = db.orders
        BY <1>3, <4>1, <4>2, ProfileWrite
      <4>q. QED BY <4>3 DEF SameSlot
    <3>3b. CASE k = "updateUser"
      <4> DEFINE e == op[r].emp
      <4>1. db' = [db EXCEPT !.user[e] = op[r].on] /\ e \in Employees
        BY <1>1, <3>3b, OpsAssumption DEF PlainWrite, IInv, RequestOK
      <4>2. db.user \in [Employees -> BOOLEAN]
        BY <1>3 DEF Db
      <4>3. db' = [db EXCEPT !.user = [db.user EXCEPT ![e] = op[r].on]]
        BY <4>1
      <4>4. [db.user EXCEPT ![e] = op[r].on] \in [Employees -> BOOLEAN]
        BY <1>3, <4>2
      <4>5. db' \in Db /\ db'.orders = db.orders
        BY <1>3, <4>3, <4>4 DEF Db
      <4>q. QED BY <4>5 DEF SameSlot
    <3>4. CASE k = "updateBranch"
      <4>1. db' = [db EXCEPT !.branch = op[r].on]
        BY <3>4 DEF PlainWrite
      <4>2. db' \in Db /\ db'.orders = db.orders
        BY <1>3, <4>1 DEF Db
      <4>q. QED BY <4>2 DEF SameSlot
    <3>5. CASE k = "updateSettings"
      <4>1. db' = [db EXCEPT !.buffer = op[r].buf]
        BY <3>5 DEF PlainWrite
      <4>2. db' \in Db /\ db'.orders = db.orders
        BY <1>3, <4>1 DEF Db
      <4>q. QED BY <4>2 DEF SameSlot
    <3>q. QED BY <1>3, <2>3, <3>1, <3>2, <3>3, <3>3a, <3>3b, <3>4, <3>5
            DEF Op, Kinds, AdminKinds, ProfileKinds
  <2>q. QED BY <2>1, <2>2, <2>3 DEF OrderWriteKinds
<1>6. NoDoubleBooking'
  <2>1. \A y \in Orders : Active(db'.orders[y]) =>
            Active(db.orders[y]) /\ SameSlot(db'.orders[y], db.orders[y])
    BY <1>5 DEF SameSlot
  <2>q. QED BY <2>1, ShrinkingKeepsApart DEF IInv
<1>7. CASE tx' = Publish(r, x, {})
  BY <1>1, <1>2, <1>3, <1>5, <1>6, <1>7, WriteStep
<1>8. CASE tx' = tx /\ db' = db
  <2>1. tx' = [tx EXCEPT ![r] = NoTx]
    BY <1>1, <1>8 DEF IInv, TypeOK, InTx, InTxPcs
  <2>q. QED BY <1>1, <1>2, <1>8, <2>1, EndStep
<1>q. QED BY <1>7, <1>8 DEF PlainWrite

\* A range that covers order o by its buffer contains every order on the same
\* resource that is not apart from o by at most that buffer.
LEMMA NotApartInRange ==
  ASSUME NEW o \in Order, NEW p \in Order, NEW b \in Nat, NEW y, NEW g \in WindowType,
         b <= o.buf, ~Apart(o, p, b), Active(p), g.res \in Uses(p), y # g.excl,
         g.from <= o.start - o.buf, g.to >= o.end + o.buf
  PROVE  InRange(g, y, p)
<1>1. /\ o.start \in Int /\ o.end \in Int /\ o.buf \in Nat
      /\ p.start \in Int /\ p.end \in Int /\ g.from \in Int /\ g.to \in Int
  BY DEF Order, WindowType
<1>q. QED BY <1>1 DEF Apart, InRange

\* Keeping a distance does not depend on whose order comes first.
LEMMA ApartSymmetric ==
  ASSUME NEW o, NEW p, NEW b, Apart(o, p, b)
  PROVE  Apart(p, o, b)
BY DEF Apart

\* A reservation commits: its order is apart from those in its snapshot, and from
\* those committed since, or the commit would have been refused as dangerous.
LEMMA CommitStep ==
  ASSUME IInv, NEW r \in Req, Commit(r)
  PROVE  IInv'
<1> DEFINE k == op[r].row
           n == Written(r)
           c == [row |-> k, ver |-> n, reads |-> tx[r].reads]
<1>1. /\ pc[r] = "commit" /\ InTx(r)
      /\ op[r].kind = "create" \/ k \notin tx[r].dirty
      /\ ~Dangerous(r) /\ db' = [db EXCEPT !.orders[k] = n]
      /\ tx' = Publish(r, k, {c}) /\ pc' = [pc EXCEPT ![r] = "done"]
      /\ answer' = [answer EXCEPT ![r] = "ok"] /\ UNCHANGED <<op, attempt>>
  BY DEF Commit, InTx, InTxPcs, Goto, Lockable
<1>2. /\ op[r] \in Op /\ op[r].kind \in SerializableKinds /\ k \in Orders
      /\ tx[r] \in Tx /\ Row(r) \in Order /\ Buffer(r) \in Nat
      /\ Want(r).start \in Int /\ Want(r).end \in Int
      /\ op[r].kind # "create" => Want(r).post # AutoAssign /\ Want(r).emp # AutoAssign
      /\ \A x \in Posts \cup Employees : Window(r, x) \in WindowType
      /\ op[r].status \in Status
  BY <1>1, OpenFacts, OpenTypes DEF Op
<1>3. /\ tx[r].post \in Posts \cup {None} /\ tx[r].emp \in Employees \cup {None}
      /\ tx[r].reads \in SUBSET WindowType
      /\ tx[r].peers \in SUBSET [row: Orders, ver: Order, reads: SUBSET WindowType]
  BY <1>2 DEF Tx
<1>4. /\ db \in Db /\ db.orders[k] \in Order
      /\ \A y \in Orders : db.orders[y] \in Order
      /\ \A y \in Orders : tx[r].view.orders[y] \in Order
  BY <1>2 DEF IInv, TypeOK, Db, Tx
<1>5. op[r].kind # "create" => db.orders[k] = Row(r)
  BY <1>1, <1>2 DEF IInv, SnapshotFresh, Row
<1>6. n \in Order
  <2>1. CASE op[r].kind = "create"
    BY <1>2, <1>3, <2>1 DEF Written, Order
  <2>2. CASE op[r].kind = "reschedule"
    BY <1>2, <1>3, <1>4, <2>2 DEF Written, Order
  <2>3. CASE op[r].kind = "restore"
    BY <1>2, <1>3, <1>4, <2>3 DEF Written, Order
  <2>4. CASE op[r].kind = "updateStatus"
    BY <1>2, <1>3, <1>4, <2>4 DEF Written, Order
  <2>q. QED BY <1>2, <2>1, <2>2, <2>3, <2>4 DEF SerializableKinds
<1>7. /\ db' \in Db /\ db'.orders[k] = n
      /\ \A y \in Orders \ {k} : db'.orders[y] = db.orders[y]
  BY <1>1, <1>2, <1>4, <1>6, RowWrite
<1>8. answer' \in [Req -> Answers] /\ k \in Rows \cup {None} /\ pc[r] # "ready"
  BY <1>1, <1>2 DEF IInv, TypeOK, Answers, Rows
<1>9. {c} \in SUBSET [row: Orders, ver: Order, reads: SUBSET WindowType]
  BY <1>2, <1>3, <1>6
<1>10. CASE ~Reserves(r)
  <2>1. Active(n) => Active(db.orders[k]) /\ SameSlot(n, db.orders[k])
    <3>1. ChecksPass(r)
      BY <1>1, OpenFacts DEF Progressed
    <3>2. op[r].kind \in {"restore", "updateStatus"}
      BY <1>2, <1>10 DEF Reserves, SerializableKinds
    <3>3. CASE op[r].kind = "restore"
      <4>1. Row(r).st \in Terminal
        BY <1>10, <3>3 DEF Reserves
      <4>2. n.st = db.orders[k].st
        BY <1>4, <3>3 DEF Written, Order
      <4>q. QED BY <1>5, <3>3, <4>1, <4>2 DEF Active, Terminal, Occupying
    <3>4. CASE op[r].kind = "updateStatus"
      <4>1. op[r].status \in ValidTransitions(Row(r).st)
        BY <3>1, <3>4 DEF ChecksPass
      <4>2. Row(r).st \in Occupying
        BY <4>1 DEF ValidTransitions, Occupying
      <4>3. n = [db.orders[k] EXCEPT !.st = op[r].status]
        BY <3>4 DEF Written
      <4>q. QED BY <1>4, <1>5, <3>4, <4>2, <4>3 DEF Active, SameSlot, Order
    <3>q. QED BY <3>2, <3>3, <3>4
  <2>2. \A y \in Orders : Active(db'.orders[y]) =>
            Active(db.orders[y]) /\ SameSlot(db'.orders[y], db.orders[y])
    BY <1>7, <2>1 DEF SameSlot
  <2>3. NoDoubleBooking'
    BY <2>2, ShrinkingKeepsApart DEF IInv
  <2>q. QED BY <1>1, <1>2, <1>7, <1>8, <1>9, <2>2, <2>3, WriteStep
<1>11. CASE Reserves(r)
  <2>1. /\ Checked(r, tx[r].post) /\ Checked(r, tx[r].emp)
        /\ Want(r).post # AutoAssign => tx[r].post = Want(r).post
        /\ Want(r).emp # AutoAssign => tx[r].emp = Want(r).emp
    BY <1>1, <1>11, OpenFacts DEF Progressed
  <2>2. /\ n.post = tx[r].post /\ n.emp = tx[r].emp /\ n.buf = Buffer(r)
        /\ n.start = Want(r).start /\ n.end = Want(r).end
    <3>1. CASE op[r].kind = "create"
      BY <3>1 DEF Written
    <3>2. CASE op[r].kind = "reschedule"
      BY <1>4, <3>2 DEF Written, Order
    <3>3. CASE op[r].kind = "restore"
      <4>1. n = [db.orders[k] EXCEPT !.del = FALSE, !.buf = Buffer(r)]
        BY <1>11, <3>3 DEF Written
      <4>2. /\ Want(r).post = Row(r).post /\ Want(r).emp = Row(r).emp
            /\ Want(r).start = Row(r).start /\ Want(r).end = Row(r).end
        BY <3>3 DEF Want
      <4>q. QED BY <1>2, <1>4, <1>5, <2>1, <3>3, <4>1, <4>2 DEF Order
    <3>q. QED BY <1>11, <3>1, <3>2, <3>3 DEF Reserves
  <2>3. ASSUME NEW x \in Uses(n)
        PROVE  /\ x \in Posts \cup Employees /\ Window(r, x) \in WindowType
               /\ Window(r, x) \in tx[r].reads /\ Overlapping(r, x) = {}
               /\ Window(r, x).res = x /\ Window(r, x).excl \in {None, k}
               /\ Window(r, x).from = n.start - n.buf
               /\ Window(r, x).to = n.end + n.buf
    <3>1. x # None /\ x \in {tx[r].post, tx[r].emp}
      BY <2>2 DEF Uses
    <3>2. Window(r, x) \in tx[r].reads /\ Overlapping(r, x) = {}
      BY <2>1, <3>1 DEF Checked
    <3>q. QED BY <1>2, <1>3, <2>2, <3>1, <3>2 DEF Window
  <2>4. Covered(c)
    <3>1. \A x \in Uses(n) : \E g \in tx[r].reads :
            /\ g.res = x /\ g.excl \in {None, k}
            /\ g.from <= n.start - n.buf /\ g.to >= n.end + n.buf
      <4>1. n.start \in Int /\ n.end \in Int /\ n.buf \in Int
        BY <1>6 DEF Order
      <4>q. QED BY <2>3, <4>1
    <3>q. QED BY <3>1 DEF Covered
  <2>5. ASSUME NEW y \in Orders \ {k}, Active(n), Active(db.orders[y]),
               NEW x \in Uses(n), x \in Uses(db.orders[y]),
               NEW b \in Nat, b <= n.buf, b <= db.orders[y].buf
        PROVE  Apart(n, db.orders[y], b)
    <3> SUFFICES ASSUME ~Apart(n, db.orders[y], b) PROVE FALSE
      OBVIOUS
    <3>1. /\ n.start \in Int /\ n.end \in Int /\ n.buf \in Nat
          /\ y # None /\ y # Window(r, x).excl
      BY <1>6, <2>3, ConstantsAssumption DEF Order
    <3>2. CASE /\ Active(tx[r].view.orders[y])
               /\ SameSlot(db.orders[y], tx[r].view.orders[y])
      <4> DEFINE v == tx[r].view.orders[y]
      <4>1. v \in Order /\ Active(v) /\ x \in Uses(v) /\ ~Apart(n, v, b)
        BY <1>4, <2>5, <3>2 DEF SameSlot, Uses, Apart
      <4>2. InRange(Window(r, x), y, v)
        BY <1>6, <2>3, <2>5, <3>1, <4>1, NotApartInRange
      <4>q. QED BY <2>3, <4>2 DEF Overlapping
    <3>3. CASE \E u \in tx[r].peers :
                 /\ u.row = y /\ Active(u.ver) /\ SameSlot(db.orders[y], u.ver)
                 /\ Covered(u)
      <4>1. PICK u \in tx[r].peers :
                 /\ u.row = y /\ Active(u.ver) /\ SameSlot(db.orders[y], u.ver)
                 /\ Covered(u)
        BY <3>3
      <4>2. u.ver \in Order /\ u.reads \in SUBSET WindowType
        BY <1>3
      <4>3. /\ x \in Uses(u.ver) /\ ~Apart(n, u.ver, b) /\ ~Apart(u.ver, n, b)
            /\ b <= u.ver.buf
        BY <2>5, <4>1 DEF SameSlot, Uses, Apart
      <4>4. InRange(Window(r, x), y, u.ver)
        BY <1>6, <2>3, <2>5, <3>1, <4>1, <4>2, <4>3, NotApartInRange
      <4>5. PICK g \in u.reads :
              /\ g.res = x /\ g.excl \in {None, y}
              /\ g.from <= u.ver.start - u.ver.buf /\ g.to >= u.ver.end + u.ver.buf
        BY <4>1, <4>3 DEF Covered
      <4>6. k # g.excl /\ g \in WindowType
        BY <1>2, <4>2, <4>5, ConstantsAssumption
      <4>7. InRange(g, k, n)
        BY <1>6, <2>5, <4>2, <4>3, <4>5, <4>6, NotApartInRange
      <4>8. Dangerous(r)
        BY <2>3, <4>1, <4>4, <4>5, <4>7 DEF Dangerous
      <4>q. QED BY <1>1, <4>8
    <3>q. QED BY <1>1, <2>5, <3>2, <3>3 DEF IInv, ActiveAccounted
  <2>6. NoDoubleBooking'
    <3> SUFFICES ASSUME NEW x \in Orders, NEW y \in Orders, x # y,
                        Active(db'.orders[x]), Active(db'.orders[y]),
                        Uses(db'.orders[x]) \cap Uses(db'.orders[y]) # {}
                 PROVE  LET o == db'.orders[x]
                            p == db'.orders[y]
                        IN  Apart(o, p, IF o.buf <= p.buf THEN o.buf ELSE p.buf)
      BY DEF NoDoubleBooking
    <3>1. db'.orders[x] \in Order /\ db'.orders[y] \in Order
      BY <1>7 DEF Db
    <3>2. db'.orders[x].buf \in Nat /\ db'.orders[y].buf \in Nat
      BY <3>1 DEF Order
    <3>3. CASE x = k
      BY <1>7, <2>5, <3>2, <3>3
    <3>4. CASE y = k
      BY <1>7, <2>5, <3>2, <3>4, ApartSymmetric
    <3>5. CASE x # k /\ y # k
      BY <1>7, <3>5 DEF IInv, NoDoubleBooking
    <3>q. QED BY <3>3, <3>4, <3>5
  <2>7. Active(n) => \E u \in {c} : /\ u.row = k /\ Active(u.ver) /\ Covered(u)
                                  /\ SameSlot(n, u.ver)
    BY <2>4 DEF SameSlot
  <2>q. QED BY <1>1, <1>2, <1>7, <1>8, <1>9, <2>6, <2>7, WriteStep
<1>q. QED BY <1>10, <1>11

\* Initially nothing is booked and nobody is inside a transaction.
LEMMA InitIInv == Init => IInv
<1> SUFFICES ASSUME Init PROVE IInv
  OBVIOUS
<1>1. TypeOK
  BY InitDbAssumption, ConstantsAssumption
     DEF Init, TypeOK, Pcs, Answers, InTx, InTxPcs, PlainPcs
<1>2. NoDoubleBooking
  BY InitDbAssumption DEF Init, NoDoubleBooking
<1>3. ASSUME NEW r \in Req PROVE ReqInv(r)
  BY ConstantsAssumption
     DEF Init, ReqInv, RequestOK, SnapshotFresh, ActiveAccounted, Progressed,
         InTx, InTxPcs, PlainPcs
<1>q. QED BY <1>1, <1>2, <1>3 DEF IInv, ReqInv

\* Every step keeps the inductive invariant: one case per action.
LEMMA NextIInv == IInv /\ [Next]_vars => IInv'
<1> SUFFICES ASSUME IInv, [Next]_vars PROVE IInv'
  OBVIOUS
<1>1. ASSUME NEW r \in Req, NEW o \in Ops, Submit(r, o) PROVE IInv'
  BY <1>1, SubmitStep
<1>2. ASSUME NEW r \in Req, Step(r) PROVE IInv'
  <2>1. CASE FailValidation(r)
    BY <2>1, RejectStep DEF FailValidation
  <2>2. CASE SerializationFailure(r) \/ DeadlockVictim(r)
    BY <2>2, RetryStep DEF SerializationFailure, DeadlockVictim
  <2>q. QED BY <1>2, <2>1, <2>2, BeginStep, LockOrderStep, ValidateStep,
               ResolveWorkPostStep, LockWorkPostStep, LockOverlappingSlotStep,
               CountOverlappingStep, ChooseEmployeeStep, LockEmployeeStep,
               CommitStep, PlainFindStep, CountAssignedStep, PlainWriteStep
          DEF Step
<1>3. ASSUME NEW r \in Req, SpuriousFailure(r) PROVE IInv'
  BY <1>3, RetryStep DEF SpuriousFailure
<1>4. ASSUME NEW r \in Req, Timeout(r) PROVE IInv'
  BY <1>4, EndStep DEF Timeout, Answer, Goto, InTx, InTxPcs, Answers, IInv, TypeOK
<1>5. CASE UNCHANGED vars
  <2>1. TypeOK' /\ NoDoubleBooking'
    BY <1>5 DEF vars, IInv, TypeOK, NoDoubleBooking, InTx
  <2>2. ASSUME NEW q \in Req PROVE ReqInv(q)'
    BY <1>5, Frame DEF vars, IInv, ReqInv
  <2>q. QED BY <2>1, <2>2 DEF IInv, ReqInv
<1>q. QED BY <1>1, <1>2, <1>3, <1>4, <1>5 DEF Next, Quiescent

\* Whatever requests race, the state stays well typed, a transaction is open
\* only between its first statement and its end, and no request makes more
\* than MAX_RESERVATION_ATTEMPTS attempts.
THEOREM TypeCorrect == Spec => []TypeOK
<1>1. IInv => TypeOK
  BY DEF IInv
<1>q. QED BY InitIInv, NextIInv, <1>1, PTL DEF Spec

\* No two active orders of a post or an employee ever come closer than the
\* smaller of the buffers they were reserved with, for any number of requests.
THEOREM BookingsExclusive == Spec => []NoDoubleBooking
<1>1. IInv => NoDoubleBooking
  BY DEF IInv
<1>q. QED BY InitIInv, NextIInv, <1>1, PTL DEF Spec

-----------------------------------------------------------------------------
(* OrderReservation implements BookingCalendar: the invariant above, and   *)
(* what it does not say about new orders, found orders and answers         *)

\* The order a create is about to insert does not exist yet.
FreshRow(r) ==
  pc[r] \notin {"ready", "done"} /\ op[r].kind = "create"
    => ~Exists(db.orders[op[r].row])

\* No two requests create the same order.
OwnRow(r) ==
  \A q \in Req \ {r} :
    op[r].kind = "create" /\ op[q].kind = "create" /\ pc[r] # "ready" /\ pc[q] # "ready"
      => op[r].row # op[q].row

\* The order that reschedule and updateStatus locked was there.
Found(r) ==
  InTx(r) /\ pc[r] # "lockOrder" /\ op[r].kind \in {"reschedule", "updateStatus"}
    => Exists(Row(r)) /\ ~Row(r).del

\* A request has an answer exactly when it is done.
Answered(r) == answer[r] = "none" <=> pc[r] # "done"

\* The inductive invariant of the refinement.
CalendarInv ==
  IInv /\ \A r \in Req : FreshRow(r) /\ OwnRow(r) /\ Found(r) /\ Answered(r)

-----------------------------------------------------------------------------
(* What a step of a request can be *)

\* r was submitted and has no answer yet.
Open(r) == pc[r] \notin {"ready", "done"}

\* r moves on; nobody sees it.
Internal(r) ==
  /\ Open(r)
  /\ UNCHANGED <<db, op, answer>>
  /\ \E l \in Pcs \ {"ready", "done"} : pc' = [pc EXCEPT ![r] = l]
  /\ \A q \in Req \ {r} : tx'[q] = tx[q]
  /\ Found(r)'

\* r ends with an answer other than "ok".
Declined(r) ==
  /\ Open(r)
  /\ UNCHANGED <<db, op>>
  /\ pc' = [pc EXCEPT ![r] = "done"]
  /\ \E a \in Answers \ {"none", "ok"} : answer' = [answer EXCEPT ![r] = a]
  /\ tx' = [tx EXCEPT ![r] = NoTx]

\* A refused request is declined.
LEMMA RejectDeclines ==
  ASSUME NEW r \in Req, Open(r), Reject(r)
  PROVE  Declined(r)
BY DEF Reject, Answer, Goto, Declined, Answers

\* A statement that keeps the snapshot of r is internal.
LEMMA StatementInternal ==
  ASSUME CalendarInv, NEW r \in Req, InTx(r), pc[r] # "lockOrder",
         NEW l \in InTxPcs, pc' = [pc EXCEPT ![r] = l], UNCHANGED <<db, op, answer>>,
         NEW t, tx' = [tx EXCEPT ![r] = t], t.view = tx[r].view
  PROVE  Internal(r)
<1>1. Open(r) /\ l \in Pcs \ {"ready", "done"}
  BY DEF Open, InTx, InTxPcs, Pcs
<1>2. tx \in [Req -> Tx \cup {NoTx}] /\ pc \in [Req -> Pcs]
  BY DEF CalendarInv, IInv, TypeOK
<1>3. /\ tx'[r].view = tx[r].view
      /\ \A q \in Req \ {r} : tx'[q] = tx[q]
  BY <1>2
<1>4. Row(r)' = Row(r)
  BY <1>3 DEF Row
<1>5. Found(r)'
  BY <1>4 DEF CalendarInv, Found
<1>q. QED BY <1>1, <1>3, <1>5 DEF Internal

\* A request that the database aborted starts over or is declined.
LEMMA RetryShape ==
  ASSUME CalendarInv, NEW r \in Req, InTx(r), Retry(r)
  PROVE  Internal(r) \/ Declined(r)
<1>1. Open(r) /\ tx \in [Req -> Tx \cup {NoTx}] /\ pc \in [Req -> Pcs]
  BY DEF CalendarInv, IInv, TypeOK, Open, InTx, InTxPcs
<1>2. CASE attempt[r] >= MAX_RESERVATION_ATTEMPTS
  BY <1>1, <1>2 DEF Retry, Answer, Goto, Declined, Answers
<1>3. CASE ~(attempt[r] >= MAX_RESERVATION_ATTEMPTS)
  <2>1. /\ pc' = [pc EXCEPT ![r] = "begin"] /\ tx' = [tx EXCEPT ![r] = NoTx]
        /\ UNCHANGED <<db, op, answer>>
    BY <1>3 DEF Retry, Goto
  <2>2. pc'[r] = "begin" /\ Found(r)'
    BY <1>1, <2>1 DEF Found, InTx, InTxPcs
  <2>q. QED BY <1>1, <2>1, <2>2 DEF Internal, Pcs
<1>q. QED BY <1>2, <1>3

\* Everything a request does is internal, declines it, or writes.
LEMMA StepShape ==
  ASSUME CalendarInv, NEW r \in Req, Step(r) \/ SpuriousFailure(r) \/ Timeout(r)
  PROVE  Internal(r) \/ Declined(r) \/ Commit(r) \/ PlainWrite(r)
<1>0. tx \in [Req -> Tx \cup {NoTx}] /\ pc \in [Req -> Pcs]
  BY DEF CalendarInv, IInv, TypeOK
<1>1. CASE Begin(r)
  <2> DEFINE l == IF op[r].kind \in {"reschedule", "updateStatus"}
                  THEN "lockOrder" ELSE "validate"
  <2>1. /\ Open(r) /\ pc' = [pc EXCEPT ![r] = l] /\ UNCHANGED <<db, op, answer>>
        /\ tx' = [tx EXCEPT ![r] = [NoTx EXCEPT !.view = db]]
    BY <1>1 DEF Begin, Goto, Open
  <2>2. pc'[r] = l /\ Found(r)'
    BY <1>0, <2>1 DEF Found
  <2>3. l \in Pcs \ {"ready", "done"} /\ \A q \in Req \ {r} : tx'[q] = tx[q]
    BY <1>0, <2>1 DEF Pcs, InTxPcs
  <2> HIDE DEF l
  <2>q. QED BY <2>1, <2>2, <2>3 DEF Internal
<1>2. CASE LockOrder(r)
  <2>1. Open(r) /\ pc[r] = "lockOrder"
    BY <1>2 DEF LockOrder, Open
  <2>2. CASE ~(Exists(Row(r)) /\ ~Row(r).del)
    BY <1>2, <2>1, <2>2, RejectDeclines DEF LockOrder
  <2>3. CASE Exists(Row(r)) /\ ~Row(r).del
    <3>1. /\ tx' = [tx EXCEPT ![r].held = @ \cup {op[r].row}]
          /\ pc' = [pc EXCEPT ![r] = "validate"] /\ UNCHANGED <<db, op, answer>>
      BY <1>2, <2>3 DEF LockOrder, Goto
    <3>2. tx[r] \in Tx
      BY <2>1 DEF CalendarInv, IInv, TypeOK, InTx, InTxPcs
    <3>3. tx'[r].view = tx[r].view
      BY <1>0, <3>1, <3>2 DEF Tx
    <3>4. Row(r)' = Row(r)
      BY <3>1, <3>3 DEF Row
    <3>5. Found(r)'
      BY <2>3, <3>4 DEF Found
    <3>q. QED BY <1>0, <2>1, <3>1, <3>5 DEF Internal, Pcs, InTxPcs
  <2>q. QED BY <2>2, <2>3
<1>3. CASE Validate(r)
  <2>1. /\ pc[r] = "validate" /\ tx' = [tx EXCEPT ![r] = tx[r]]
        /\ pc' = [pc EXCEPT ![r] = IF Reserves(r) THEN "post" ELSE "commit"]
        /\ UNCHANGED <<db, op, answer>>
    BY <1>0, <1>3 DEF Validate, Goto
  <2>q. QED BY <2>1, StatementInternal DEF InTx, InTxPcs
<1>4. CASE FailValidation(r)
  BY <1>4, RejectDeclines DEF FailValidation, Open
<1>5. CASE ResolveWorkPost(r)
  <2>1. pc[r] = "post" /\ InTx(r) /\ Open(r) /\ tx[r] \in Tx
    BY <1>5 DEF ResolveWorkPost, CalendarInv, IInv, TypeOK, InTx, InTxPcs, Open
  <2>2. CASE Goto(r, "employee") /\ UNCHANGED <<db, op, attempt, answer, tx>>
    <3>1. tx' = [tx EXCEPT ![r] = tx[r]] /\ pc' = [pc EXCEPT ![r] = "employee"]
      BY <1>0, <2>2 DEF Goto
    <3>q. QED BY <2>1, <2>2, <3>1, StatementInternal DEF InTxPcs
  <2>3. CASE /\ \E p \in CandidatePosts(r) : tx' = [tx EXCEPT ![r].post = p]
             /\ Goto(r, "lockPost") /\ UNCHANGED <<db, op, attempt, answer>>
    <3>1. PICK p \in CandidatePosts(r) : tx' = [tx EXCEPT ![r].post = p]
      BY <2>3
    <3> DEFINE t == [tx[r] EXCEPT !.post = p]
    <3>2. /\ tx' = [tx EXCEPT ![r] = t] /\ t.view = tx[r].view
          /\ pc' = [pc EXCEPT ![r] = "lockPost"]
      BY <2>1, <2>3, <3>1 DEF Goto, Tx
    <3> HIDE DEF t
    <3>q. QED BY <2>1, <2>3, <3>2, StatementInternal DEF InTxPcs
  <2>4. CASE Reject(r)
    BY <2>1, <2>4, RejectDeclines
  <2>q. QED BY <1>5, <2>2, <2>3, <2>4 DEF ResolveWorkPost
<1>6. CASE LockWorkPost(r)
  <2> DEFINE t == [tx[r] EXCEPT !.held = @ \cup {tx[r].post}]
  <2>1. InTx(r) /\ pc[r] = "lockPost" /\ tx[r] \in Tx
    BY <1>6 DEF LockWorkPost, CalendarInv, IInv, TypeOK, InTx, InTxPcs
  <2>2. /\ tx' = [tx EXCEPT ![r] = t] /\ t.view = tx[r].view
        /\ pc' = [pc EXCEPT ![r] = "lockSlots"] /\ UNCHANGED <<db, op, answer>>
    BY <1>6, <2>1 DEF LockWorkPost, Goto, Tx
  <2> HIDE DEF t
  <2>q. QED BY <2>1, <2>2, StatementInternal DEF InTxPcs
<1>7. CASE LockOverlappingSlot(r)
  <2>1. InTx(r) /\ pc[r] = "lockSlots" /\ tx[r] \in Tx
    BY <1>7 DEF LockOverlappingSlot, CalendarInv, IInv, TypeOK, InTx, InTxPcs
  <2>2. PICK o \in SlotsToLock(r) : tx' = [tx EXCEPT ![r].held = @ \cup {o}]
    BY <1>7 DEF LockOverlappingSlot
  <2> DEFINE t == [tx[r] EXCEPT !.held = @ \cup {o}]
  <2>3. /\ tx' = [tx EXCEPT ![r] = t] /\ t.view = tx[r].view
        /\ pc' = [pc EXCEPT ![r] = "lockSlots"] /\ UNCHANGED <<db, op, answer>>
    BY <1>0, <1>7, <2>1, <2>2 DEF LockOverlappingSlot, Tx
  <2> HIDE DEF t
  <2>q. QED BY <2>1, <2>3, StatementInternal DEF InTxPcs
<1>8. CASE CountOverlapping(r)
  <2> DEFINE w == Window(r, tx[r].post)
             t1 == [tx[r] EXCEPT !.reads = @ \cup {w}]
             t2 == [tx[r] EXCEPT !.reads = @ \cup {w}, !.tried = @ \cup {tx[r].post},
                                 !.post = None]
  <2>1. InTx(r) /\ pc[r] = "lockSlots" /\ tx[r] \in Tx /\ UNCHANGED <<db, op, answer>>
    BY <1>8 DEF CountOverlapping, CalendarInv, IInv, TypeOK, InTx, InTxPcs
  <2>2. CASE Overlapping(r, tx[r].post) = {}
    <3>1. /\ tx' = [tx EXCEPT ![r] = t1] /\ t1.view = tx[r].view
          /\ pc' = [pc EXCEPT ![r] = "employee"]
      BY <1>8, <2>1, <2>2 DEF CountOverlapping, Goto, Tx
    <3> HIDE DEF t1
    <3>q. QED BY <2>1, <3>1, StatementInternal DEF InTxPcs
  <2>3. CASE Overlapping(r, tx[r].post) # {}
    <3>1. /\ tx' = [tx EXCEPT ![r] = t2] /\ t2.view = tx[r].view
          /\ pc' = [pc EXCEPT ![r] = "post"]
      BY <1>8, <2>1, <2>3 DEF CountOverlapping, Goto, Tx
    <3> HIDE DEF t2
    <3>q. QED BY <2>1, <3>1, StatementInternal DEF InTxPcs
  <2>q. QED BY <2>2, <2>3
<1>9. CASE ChooseEmployee(r)
  <2>1. pc[r] = "employee" /\ InTx(r) /\ Open(r) /\ tx[r] \in Tx
    BY <1>9 DEF ChooseEmployee, CalendarInv, IInv, TypeOK, InTx, InTxPcs, Open
  <2>2. CASE Goto(r, "commit") /\ UNCHANGED <<db, op, attempt, answer, tx>>
    <3>1. tx' = [tx EXCEPT ![r] = tx[r]] /\ pc' = [pc EXCEPT ![r] = "commit"]
      BY <1>0, <2>2 DEF Goto
    <3>q. QED BY <2>1, <2>2, <3>1, StatementInternal DEF InTxPcs
  <2>3. ASSUME NEW e, tx' = [tx EXCEPT ![r].emp = e], Goto(r, "lockEmployee"),
               UNCHANGED <<db, op, attempt, answer>>
        PROVE  Internal(r)
    <3> DEFINE t == [tx[r] EXCEPT !.emp = e]
    <3>1. /\ tx' = [tx EXCEPT ![r] = t] /\ t.view = tx[r].view
          /\ pc' = [pc EXCEPT ![r] = "lockEmployee"]
      BY <2>1, <2>3 DEF Goto, Tx
    <3> HIDE DEF t
    <3>q. QED BY <2>1, <2>3, <3>1, StatementInternal DEF InTxPcs
  <2>4. CASE Reject(r)
    BY <2>1, <2>4, RejectDeclines
  <2>q. QED BY <1>9, <2>2, <2>3, <2>4 DEF ChooseEmployee
<1>10. CASE LockEmployee(r)
  <2> DEFINE t == [tx[r] EXCEPT !.held = @ \cup {tx[r].emp},
                                !.reads = @ \cup {Window(r, tx[r].emp)}]
  <2>1. pc[r] = "lockEmployee" /\ InTx(r) /\ Open(r) /\ tx[r] \in Tx
    BY <1>10 DEF LockEmployee, CalendarInv, IInv, TypeOK, InTx, InTxPcs, Open
  <2>2. CASE Eligible(r, tx[r].emp)
    <3>1. /\ tx' = [tx EXCEPT ![r] = t] /\ t.view = tx[r].view
          /\ pc' = [pc EXCEPT ![r] = "commit"] /\ UNCHANGED <<db, op, answer>>
      BY <1>10, <2>1, <2>2 DEF LockEmployee, Goto, Tx
    <3> HIDE DEF t
    <3>q. QED BY <2>1, <3>1, StatementInternal DEF InTxPcs
  <2>3. CASE ~Eligible(r, tx[r].emp)
    BY <1>10, <2>1, <2>3, RejectDeclines DEF LockEmployee
  <2>q. QED BY <2>2, <2>3
<1>11. CASE SerializationFailure(r) \/ DeadlockVictim(r) \/ SpuriousFailure(r)
  BY <1>11, RetryShape DEF SerializationFailure, DeadlockVictim, SpuriousFailure
<1>12. CASE Timeout(r)
  BY <1>12 DEF Timeout, Answer, Goto, Declined, Answers, Open, InTx, InTxPcs
<1>13. CASE PlainFind(r) \/ CountAssigned(r)
  <2>1. Open(r) /\ ~InTx(r) /\ pc[r] \in {"find", "count"}
    BY <1>13 DEF PlainFind, CountAssigned, Open, InTx, InTxPcs
  <2>2. CASE Reject(r)
    BY <2>1, <2>2, RejectDeclines
  <2>3. ASSUME NEW l \in {"count", "write"}, Goto(r, l),
               UNCHANGED <<db, op, attempt, answer, tx>>
        PROVE  Internal(r)
    <3>1. pc'[r] = l /\ pc' = [pc EXCEPT ![r] = l]
      BY <1>0, <2>3 DEF Goto
    <3>2. Found(r)'
      BY <3>1 DEF Found, InTx, InTxPcs
    <3>q. QED BY <2>1, <2>3, <3>1, <3>2 DEF Internal, Pcs, PlainPcs
  <2>4. CASE \E l \in {"count", "write"} : Goto(r, l) /\ UNCHANGED <<db, op, attempt, answer, tx>>
    BY <2>3, <2>4
  <2>q. QED BY <1>13, <2>2, <2>4 DEF PlainFind, CountAssigned
<1>q. QED BY <1>1, <1>2, <1>3, <1>4, <1>5, <1>6, <1>7, <1>8, <1>9, <1>10, <1>11,
             <1>12, <1>13 DEF Step

-----------------------------------------------------------------------------
(* The invariant is kept *)

\* What the other requests know stays true while the database is unchanged.
LEMMA QuietKeeps ==
  ASSUME CalendarInv, IInv', NEW r \in Req, Internal(r) \/ Declined(r)
  PROVE  CalendarInv'
<1>1. /\ tx \in [Req -> Tx \cup {NoTx}] /\ pc \in [Req -> Pcs]
      /\ answer \in [Req -> Answers] /\ Open(r) /\ db' = db /\ op' = op
      /\ \A q \in Req : FreshRow(q) /\ OwnRow(q) /\ Found(q) /\ Answered(q)
  BY DEF CalendarInv, IInv, TypeOK, Internal, Declined
<1>2. /\ \A q \in Req \ {r} : pc'[q] = pc[q] /\ tx'[q] = tx[q] /\ answer'[q] = answer[q]
      /\ pc'[r] # "ready" /\ Found(r)'
      /\ answer'[r] = "none" <=> pc'[r] # "done"
  <2>1. CASE Internal(r)
    BY <1>1, <2>1 DEF Internal, Answered, Open
  <2>2. CASE Declined(r)
    <3>1. pc'[r] = "done" /\ answer'[r] # "none"
      BY <1>1, <2>2 DEF Declined
    <3>2. Found(r)'
      BY <3>1 DEF Found, InTx, InTxPcs
    <3>q. QED BY <1>1, <2>2, <3>1, <3>2 DEF Declined
  <2>q. QED BY <2>1, <2>2
<1>3. ASSUME NEW q \in Req PROVE FreshRow(q)' /\ OwnRow(q)'
  BY <1>1, <1>2 DEF FreshRow, OwnRow, Open
<1>4. ASSUME NEW q \in Req PROVE Answered(q)'
  BY <1>1, <1>2 DEF Answered
<1>5. ASSUME NEW q \in Req PROVE Found(q)'
  <2>1. CASE q = r
    BY <1>2, <2>1
  <2>2. CASE q # r
    BY <1>1, <1>2, <2>2 DEF Found, InTx, Row
  <2>q. QED BY <2>1, <2>2
<1>q. QED BY <1>3, <1>4, <1>5 DEF CalendarInv

\* A new request creates an order of its own.
LEMMA SubmitKeeps ==
  ASSUME CalendarInv, IInv', NEW r \in Req, NEW o \in Ops, Submit(r, o)
  PROVE  CalendarInv'
<1>1. /\ op \in [Req -> Ops \cup {NoOp}] /\ pc \in [Req -> Pcs]
      /\ \A q \in Req : FreshRow(q) /\ OwnRow(q) /\ Found(q) /\ Answered(q)
  BY DEF CalendarInv, IInv, TypeOK
<1>2. /\ pc[r] = "ready" /\ op' = [op EXCEPT ![r] = o]
      /\ UNCHANGED <<db, attempt, answer, tx>>
      /\ o.kind = "create" => /\ db.orders[o.row] = Absent
                             /\ \A q \in Req : op[q].kind = "create" => op[q].row # o.row
  BY DEF Submit
<1>3. /\ pc'[r] \in {"begin", "find", "write"} /\ op'[r] = o
      /\ \A q \in Req \ {r} : pc'[q] = pc[q] /\ op'[q] = op[q]
  BY <1>1, <1>2 DEF Submit, Goto
<1>4. ASSUME NEW q \in Req PROVE FreshRow(q)'
  BY <1>1, <1>2, <1>3 DEF FreshRow, Exists, Absent
<1>5. ASSUME NEW q \in Req PROVE OwnRow(q)'
  BY <1>1, <1>2, <1>3 DEF OwnRow
<1>6. ASSUME NEW q \in Req PROVE Found(q)'
  <2>1. CASE q = r
    BY <1>3, <2>1 DEF Found, InTx, InTxPcs
  <2>2. CASE q # r
    BY <1>1, <1>2, <1>3, <2>2 DEF Found, InTx, Row
  <2>q. QED BY <2>1, <2>2
<1>7. ASSUME NEW q \in Req PROVE Answered(q)'
  BY <1>1, <1>2, <1>3 DEF Answered
<1>q. QED BY <1>4, <1>5, <1>6, <1>7 DEF CalendarInv

\* A request that ends by writing leaves alone every order that another one
\* is about to create.
LEMMA WriteKeeps ==
  ASSUME CalendarInv, IInv', NEW r \in Req, Open(r), op' = op,
         pc' = [pc EXCEPT ![r] = "done"], answer' = [answer EXCEPT ![r] = "ok"],
         \A q \in Req \ {r} : InTx(q) => tx'[q].view = tx[q].view,
         \A x \in Orders : Exists(db'.orders[x]) =>
           \/ Exists(db.orders[x])
           \/ op[r].kind = "create" /\ x = op[r].row
  PROVE  CalendarInv'
<1>1. /\ pc \in [Req -> Pcs] /\ answer \in [Req -> Answers]
      /\ \A q \in Req : RequestOK(q) /\ FreshRow(q) /\ OwnRow(q) /\ Found(q) /\ Answered(q)
  BY DEF CalendarInv, IInv, TypeOK
<1>2. /\ pc'[r] = "done" /\ answer'[r] = "ok"
      /\ \A q \in Req \ {r} : pc'[q] = pc[q] /\ answer'[q] = answer[q]
  BY <1>1
<1>3. ASSUME NEW q \in Req PROVE FreshRow(q)'
  <2> SUFFICES ASSUME pc'[q] \notin {"ready", "done"}, op[q].kind = "create"
               PROVE  ~Exists(db'.orders[op[q].row])
    BY DEF FreshRow
  <2>1. q # r /\ pc[q] \notin {"ready", "done"}
    BY <1>2
  <2>2. op[q] \in Ops /\ op[q].row \in Orders
    BY <1>1, <2>1, OpsAssumption DEF RequestOK, SerializableKinds
  <2>3. ~Exists(db.orders[op[q].row])
    BY <1>1, <2>1 DEF FreshRow
  <2>4. op[r].kind = "create" => op[q].row # op[r].row
    BY <1>1, <2>1 DEF OwnRow, Open
  <2>q. QED BY <2>2, <2>3, <2>4
<1>4. ASSUME NEW q \in Req PROVE OwnRow(q)'
  BY <1>1, <1>2 DEF OwnRow, Open
<1>5. ASSUME NEW q \in Req PROVE Found(q)'
  <2>1. CASE q = r
    BY <1>2, <2>1 DEF Found, InTx, InTxPcs
  <2>2. CASE q # r
    <3> SUFFICES ASSUME InTx(q)', pc'[q] # "lockOrder",
                        op[q].kind \in {"reschedule", "updateStatus"}
                 PROVE  Exists(Row(q)') /\ ~Row(q)'.del
      BY DEF Found
    <3>1. InTx(q) /\ pc[q] # "lockOrder"
      BY <1>2, <2>2 DEF InTx
    <3>2. Row(q)' = Row(q)
      BY <2>2, <3>1 DEF Row
    <3>q. QED BY <1>1, <3>1, <3>2 DEF Found
  <2>q. QED BY <2>1, <2>2
<1>6. ASSUME NEW q \in Req PROVE Answered(q)'
  BY <1>1, <1>2 DEF Answered
<1>q. QED BY <1>3, <1>4, <1>5, <1>6 DEF CalendarInv

-----------------------------------------------------------------------------
(* The effect of a commit on the calendar *)

\* The calendar that the database is, as ImplementsCalendar maps it.
cal == [x \in Orders |-> Slot(db.orders[x])]

\* What a commit writes, and what the statements before it made sure of.
LEMMA CommitRow ==
  ASSUME CalendarInv, NEW r \in Req, Commit(r)
  PROVE  /\ Open(r) /\ op' = op /\ pc' = [pc EXCEPT ![r] = "done"]
         /\ answer' = [answer EXCEPT ![r] = "ok"]
         /\ op[r] \in Ops /\ op[r] \in Op /\ op[r].kind \in SerializableKinds
         /\ op[r].row \in Orders
         /\ db.orders[op[r].row] \in Order /\ Written(r) \in Order
         /\ op[r].kind # "create" => db.orders[op[r].row] = Row(r)
         /\ op[r].kind \in {"reschedule", "updateStatus"} =>
              Exists(Row(r)) /\ ~Row(r).del
         /\ ChecksPass(r)
         /\ Reserves(r) => /\ Want(r).post # AutoAssign => tx[r].post = Want(r).post
                           /\ Want(r).emp # AutoAssign => tx[r].emp = Want(r).emp
         /\ db'.orders[op[r].row] = Written(r)
         /\ \A y \in Orders \ {op[r].row} : db'.orders[y] = db.orders[y]
<1> DEFINE k == op[r].row
           n == Written(r)
<1>1. /\ IInv /\ pc[r] = "commit" /\ InTx(r) /\ Open(r)
      /\ op[r].kind = "create" \/ k \notin tx[r].dirty
      /\ db' = [db EXCEPT !.orders[k] = n] /\ pc' = [pc EXCEPT ![r] = "done"]
      /\ answer' = [answer EXCEPT ![r] = "ok"] /\ op' = op
  BY DEF Commit, InTx, InTxPcs, Goto, Lockable, CalendarInv, Open
<1>2. /\ op[r] \in Ops /\ op[r] \in Op /\ op[r].kind \in SerializableKinds /\ k \in Orders
      /\ tx[r] \in Tx /\ Row(r) \in Order /\ Buffer(r) \in Nat
      /\ Want(r).start \in Int /\ Want(r).end \in Int /\ op[r].status \in Status
      /\ Progressed(r)
  BY <1>1, OpenFacts, OpenTypes DEF Op, IInv, RequestOK
<1>3. tx[r].post \in Posts \cup {None} /\ tx[r].emp \in Employees \cup {None}
  BY <1>2 DEF Tx
<1>4. db \in Db /\ db.orders[k] \in Order
  BY <1>1, <1>2 DEF IInv, TypeOK, Db
<1>5. op[r].kind # "create" => db.orders[k] = Row(r)
  BY <1>1, <1>2 DEF IInv, SnapshotFresh, Row
<1>6. n \in Order
  <2>1. CASE op[r].kind = "create"
    BY <1>2, <1>3, <2>1 DEF Written, Order
  <2>2. CASE op[r].kind = "reschedule"
    BY <1>2, <1>3, <1>4, <2>2 DEF Written, Order
  <2>3. CASE op[r].kind = "restore"
    BY <1>2, <1>3, <1>4, <2>3 DEF Written, Order
  <2>4. CASE op[r].kind = "updateStatus"
    BY <1>2, <1>3, <1>4, <2>4 DEF Written, Order
  <2>q. QED BY <1>2, <2>1, <2>2, <2>3, <2>4 DEF SerializableKinds
<1>7. /\ db'.orders[k] = n /\ \A y \in Orders \ {k} : db'.orders[y] = db.orders[y]
  BY <1>1, <1>2, <1>4, <1>6, RowWrite
<1>8. /\ op[r].kind \in {"reschedule", "updateStatus"} => Exists(Row(r)) /\ ~Row(r).del
      /\ ChecksPass(r)
      /\ Reserves(r) => /\ Want(r).post # AutoAssign => tx[r].post = Want(r).post
                        /\ Want(r).emp # AutoAssign => tx[r].emp = Want(r).emp
  BY <1>1, <1>2 DEF CalendarInv, Found, Progressed
<1>q. QED BY <1>1, <1>2, <1>4, <1>5, <1>6, <1>7, <1>8

\* Two slots compete only if the orders share a post or an employee, so what an
\* active order holds is free for it.
LEMMA ActiveIsFree ==
  ASSUME NoDoubleBooking', NEW x \in Orders, Active(db'.orders[x]),
         \A y \in Orders \ {x} : db'.orders[y] = db.orders[y]
  PROVE  Calendar!FreeFor(x, Slot(db'.orders[x]))
<1> SUFFICES ASSUME NEW y \in Orders \ {x}, Slot(db.orders[y]).held,
                    Calendar!Compete(Slot(db'.orders[x]), Slot(db.orders[y]))
             PROVE  Calendar!KeptApart(Slot(db'.orders[x]), Slot(db.orders[y]))
  BY DEF Calendar!FreeFor
<1>1. Active(db'.orders[y]) /\ db'.orders[y] = db.orders[y]
  BY DEF Slot
<1>2. Uses(db'.orders[x]) \cap Uses(db'.orders[y]) # {}
  BY <1>1 DEF Calendar!Compete, Slot, Uses
<1>3. LET o == db'.orders[x]
          p == db'.orders[y]
      IN  Apart(o, p, IF o.buf <= p.buf THEN o.buf ELSE p.buf)
  BY <1>1, <1>2 DEF NoDoubleBooking
<1>q. QED BY <1>1, <1>3 DEF Apart, Calendar!KeptApart, Slot

\* What the slots of the calendar are made of.
SlotType == [held: BOOLEAN, post: Posts \cup {None}, emp: Employees \cup {None},
             start: Int, end: Int, buf: Nat, started: BOOLEAN]

\* The slot of an order is a slot.
LEMMA SlotTyped ==
  ASSUME NEW o \in Order
  PROVE  Slot(o) \in SlotType
BY DEF Slot, SlotType, Order, Active

\* What the slot of an order says of it.
LEMMA SlotFields ==
  ASSUME NEW o
  PROVE  /\ Slot(o).held <=> Active(o)
         /\ Slot(o).started <=> o.st = "IN_PROGRESS"
         /\ Slot(o).post = o.post /\ Slot(o).emp = o.emp
         /\ Slot(o).start = o.start /\ Slot(o).end = o.end /\ Slot(o).buf = o.buf
BY DEF Slot

\* Slots that agree where a change of status, a restore or a deletion must
\* leave them alone.
LEMMA SlotUpdates ==
  ASSUME NEW s \in SlotType, NEW t \in SlotType, s.post = t.post, s.emp = t.emp,
         s.start = t.start, s.end = t.end
  PROVE  /\ s.buf = t.buf => t = [s EXCEPT !.held = t.held, !.started = t.started]
         /\ (s.started <=> t.started) /\ t.held => t = [s EXCEPT !.held = TRUE, !.buf = t.buf]
         /\ (s.started <=> t.started) /\ s.buf = t.buf =>
              /\ ~t.held => t = [s EXCEPT !.held = FALSE]
              /\ (s.held <=> t.held) => t = s
<1>1. s.buf = t.buf => t = [s EXCEPT !.held = t.held, !.started = t.started]
  BY DEF SlotType
<1>2. (s.started <=> t.started) /\ t.held => t = [s EXCEPT !.held = TRUE, !.buf = t.buf]
  BY DEF SlotType
<1>3. (s.started <=> t.started) /\ s.buf = t.buf /\ ~t.held => t = [s EXCEPT !.held = FALSE]
  BY DEF SlotType
<1>4. (s.started <=> t.started) /\ s.buf = t.buf /\ (s.held <=> t.held) => t = s
  BY DEF SlotType
<1>q. QED BY <1>1, <1>2, <1>3, <1>4

\* A committed create, reschedule, restore or status change is what the
\* calendar allows for it.
LEMMA CommitAllowed ==
  ASSUME CalendarInv, NoDoubleBooking', NEW r \in Req, Commit(r)
  PROVE  \/ Calendar!Booked(op[r], cal') \/ Calendar!Moved(op[r], cal')
         \/ Calendar!Restored(op[r], cal') \/ Calendar!Changed(op[r], cal')
<1> DEFINE k == op[r].row
           o == db.orders[k]
           n == Written(r)
           s == Slot(o)
           t == Slot(n)
<1>1. /\ Open(r) /\ op[r] \in Ops /\ op[r] \in Op /\ op[r].kind \in SerializableKinds
      /\ k \in Orders /\ o \in Order /\ n \in Order
      /\ op[r].kind # "create" => o = Row(r)
      /\ op[r].kind \in {"reschedule", "updateStatus"} => Exists(Row(r)) /\ ~Row(r).del
      /\ ChecksPass(r)
      /\ Reserves(r) => /\ Want(r).post # AutoAssign => tx[r].post = Want(r).post
                        /\ Want(r).emp # AutoAssign => tx[r].emp = Want(r).emp
      /\ db'.orders[k] = n
      /\ \A y \in Orders \ {k} : db'.orders[y] = db.orders[y]
  BY CommitRow
<1>2. Active(n) => Calendar!FreeFor(k, t)
  BY <1>1, ActiveIsFree
<1>3. cal[k] = s /\ cal'[k] = t
  BY <1>1 DEF cal
<1>s. /\ s \in SlotType /\ t \in SlotType
      /\ s.held <=> Active(o)
      /\ s.started <=> o.st = "IN_PROGRESS"
      /\ s.post = o.post /\ s.emp = o.emp /\ s.start = o.start /\ s.end = o.end /\ s.buf = o.buf
      /\ t.held <=> Active(n)
      /\ t.started <=> n.st = "IN_PROGRESS"
      /\ t.post = n.post /\ t.emp = n.emp /\ t.start = n.start /\ t.end = n.end /\ t.buf = n.buf
  BY <1>1, SlotTyped, SlotFields
<1> HIDE DEF s, t
<1>4. CASE op[r].kind = "create"
  <2>1. ~Active(o)
    BY <1>1, <1>4 DEF CalendarInv, FreshRow, Open, Exists, Active, Occupying
  <2>2. /\ n.st = op[r].status /\ ~n.del /\ n.post = tx[r].post /\ n.emp = tx[r].emp
        /\ n.start = op[r].start /\ n.end = op[r].start + op[r].dur
    BY <1>4 DEF Written, Want
  <2>3. Active(n) /\ n.st # "IN_PROGRESS"
    BY <1>1, <1>4, <2>2, OpsAssumption DEF Active, Occupying
  <2>4. /\ op[r].post # AutoAssign => n.post = op[r].post
        /\ op[r].emp # AutoAssign => n.emp = op[r].emp
    BY <1>1, <1>4, <2>2 DEF Reserves, Want
  <2>5. Calendar!Booked(op[r], cal')
    BY <1>2, <1>3, <1>4, <2>1, <2>2, <2>3, <2>4, <1>s DEF Calendar!Booked, cal
  <2>q. QED BY <2>5
<1>5. CASE op[r].kind = "reschedule"
  <2>1. /\ Active(o) /\ o.st \in {"BOOKED", "BOOKED_PENDING_CONFIRMATION"}
    BY <1>1, <1>5 DEF ChecksPass, Active, Occupying
  <2>2. /\ n.st = o.st /\ n.del = o.del /\ n.post = tx[r].post /\ n.emp = tx[r].emp
        /\ n.start = Want(r).start /\ n.end = Want(r).end
    BY <1>1, <1>5 DEF Written, Order
  <2>3. /\ Want(r).start = op[r].start
        /\ Want(r).end = op[r].start + (o.end - o.start)
        /\ Want(r).post = IF op[r].post = Keep THEN o.post ELSE op[r].post
        /\ Want(r).emp = IF op[r].emp = Keep THEN o.emp ELSE op[r].emp
    BY <1>1, <1>5 DEF Want
  <2>4. Want(r).post # AutoAssign /\ Want(r).emp # AutoAssign
    BY <1>1, <1>5, <2>3, OpsAssumption, ConstantsAssumption DEF Order
  <2>5. Active(n) /\ n.post = Want(r).post /\ n.emp = Want(r).emp
    BY <1>1, <1>5, <2>1, <2>2, <2>4 DEF Reserves, Active
  <2>6. n.end - n.start = o.end - o.start
    BY <1>1, <2>2, <2>3 DEF Order, Op
  <2>7. Calendar!Moved(op[r], cal')
    BY ZenonT(120), <1>2, <1>3, <1>5, <2>1, <2>2, <2>3, <2>5, <2>6, <1>s DEF Calendar!Moved, cal
  <2>q. QED BY <2>7
<1>6. CASE op[r].kind = "restore"
  <2>1. o.del /\ Exists(o)
    BY <1>1, <1>6 DEF ChecksPass
  <2>2. /\ n.st = o.st /\ ~n.del /\ n.post = o.post /\ n.emp = o.emp
        /\ n.start = o.start /\ n.end = o.end
        /\ ~Reserves(r) => n.buf = o.buf
    BY <1>1, <1>6 DEF Written, Order
  <2>3. /\ s.post = t.post /\ s.emp = t.emp /\ s.start = t.start /\ s.end = t.end
        /\ s.started <=> t.started
    <3> HIDE DEF n, o
    <3>q. QED BY <1>s, <2>2
  <2>4. CASE Reserves(r)
    <3>1. Active(n)
      BY <1>1, <1>6, <2>1, <2>2, <2>4
         DEF Reserves, Active, Exists, Order, Status, Terminal
    <3>2. t = [s EXCEPT !.held = TRUE, !.buf = t.buf]
      BY <1>s, <2>3, <3>1, SlotUpdates
    <3>3. Calendar!Restored(op[r], cal')
      BY <1>2, <1>3, <1>6, <1>s, <2>1, <3>1, <3>2 DEF Calendar!Restored, Active, cal
    <3>q. QED BY <3>3
  <2>5. CASE ~Reserves(r)
    <3>1. ~Active(n) /\ ~Active(o)
      BY <1>1, <1>6, <2>1, <2>2, <2>5 DEF Reserves, Active, Occupying, Terminal
    <3>2. s.buf = t.buf /\ (s.held <=> t.held)
      <4> HIDE DEF n, o
      <4>q. QED BY <1>s, <2>2, <2>5, <3>1
    <3>3. t = s
      BY <1>s, <2>3, <3>2, SlotUpdates
    <3>4. Calendar!Restored(op[r], cal')
      BY <1>3, <1>6, <1>s, <3>1, <3>3 DEF Calendar!Restored, cal
    <3>q. QED BY <3>4
  <2>q. QED BY <2>4, <2>5
<1>7. CASE op[r].kind = "updateStatus"
  <2>1. op[r].status \in ValidTransitions(o.st)
    BY <1>1, <1>7 DEF ChecksPass
  <2>2. Active(o)
    BY <1>1, <1>7, <2>1 DEF ValidTransitions, Active, Occupying
  <2>3. /\ n.st = op[r].status /\ n.del = o.del /\ n.post = o.post /\ n.emp = o.emp
        /\ n.start = o.start /\ n.end = o.end /\ n.buf = o.buf
    BY <1>1, <1>7 DEF Written, Order
  <2>4. o.st = "IN_PROGRESS" => ~Active(n)
    BY <2>1, <2>3 DEF ValidTransitions, Active, Occupying
  <2>5. t = [s EXCEPT !.held = t.held, !.started = t.started]
    <3>1. /\ s.post = t.post /\ s.emp = t.emp /\ s.start = t.start /\ s.end = t.end
          /\ s.buf = t.buf
      <4> HIDE DEF n, o
      <4>q. QED BY <1>s, <2>3
    <3>q. QED BY <1>s, <3>1, SlotUpdates
  <2>6. Calendar!Changed(op[r], cal')
    BY <1>3, <1>7, <1>s, <2>2, <2>3, <2>4, <2>5 DEF Calendar!Changed, cal
  <2>q. QED BY <2>6
<1>q. QED BY <1>1, <1>4, <1>5, <1>6, <1>7 DEF SerializableKinds

\* Writing an order's deletion or cancellation gives its slot up; the writes of
\* administrators leave every order alone.
LEMMA PlainWriteAllowed ==
  ASSUME CalendarInv, NEW r \in Req, PlainWrite(r)
  PROVE  /\ Calendar!Released(op[r], cal') \/ Calendar!Untouched(op[r], cal')
         /\ \A y \in Orders \ {op[r].row} : db'.orders[y] = db.orders[y]
         /\ \A y \in Orders : Exists(db'.orders[y]) => Exists(db.orders[y])
<1> DEFINE x == op[r].row
           k == op[r].kind
<1>1. /\ op[r] \in Op /\ k \notin SerializableKinds /\ db \in Db
      /\ k \in OrderWriteKinds => x \in Orders
      /\ k = "updatePost" => x \in Posts
      /\ k \in ProfileKinds => x \in Employees
  BY OpsAssumption DEF PlainWrite, CalendarInv, IInv, TypeOK, RequestOK, PlainPcs, Op
<1>2. db.orders \in [Orders -> Order]
  BY <1>1 DEF Db
<1>3. ASSUME NEW n \in Order, x \in Orders, db' = [db EXCEPT !.orders[x] = n],
             n.st = "ABSENT" \/ n.st = "CANCELLED" \/ n.st = db.orders[x].st
      PROVE  /\ \A y \in Orders \ {x} : db'.orders[y] = db.orders[y]
             /\ db'.orders[x] = n /\ cal[x] = Slot(db.orders[x]) /\ cal'[x] = Slot(n)
  <2>1. db'.orders[x] = n /\ \A y \in Orders \ {x} : db'.orders[y] = db.orders[y]
    BY <1>1, <1>3, RowWrite
  <2>q. QED BY <1>3, <2>1 DEF cal
<1>4. CASE k = "softDelete"
  <2> DEFINE n == [db.orders[x] EXCEPT !.del = TRUE]
  <2>1. x \in Orders /\ db' = [db EXCEPT !.orders[x] = n]
    BY <1>1, <1>4 DEF PlainWrite, OrderWriteKinds
  <2>2. /\ n \in Order /\ n.st = db.orders[x].st /\ ~Active(n)
        /\ n.post = db.orders[x].post /\ n.emp = db.orders[x].emp
        /\ n.start = db.orders[x].start /\ n.end = db.orders[x].end
        /\ n.buf = db.orders[x].buf
    BY <1>2, <2>1 DEF Order, Active
  <2> HIDE DEF n
  <2>3. /\ \A y \in Orders \ {x} : db'.orders[y] = db.orders[y]
        /\ db'.orders[x] = n /\ cal[x] = Slot(db.orders[x]) /\ cal'[x] = Slot(n)
    BY <1>3, <2>1, <2>2
  <2>4. Slot(n) = [Slot(db.orders[x]) EXCEPT !.held = FALSE]
    <3> DEFINE s == Slot(db.orders[x])
               t == Slot(n)
    <3>1. s \in SlotType /\ t \in SlotType
      BY <1>2, <2>1, <2>2, SlotTyped
    <3>2. /\ s.post = t.post /\ s.emp = t.emp /\ s.start = t.start /\ s.end = t.end
          /\ s.buf = t.buf /\ (s.started <=> t.started) /\ ~t.held
      BY <2>2, SlotFields
    <3> HIDE DEF s, t
    <3>3. t = [s EXCEPT !.held = FALSE]
      BY <3>1, <3>2, SlotUpdates
    <3>q. QED BY <3>3 DEF s, t
  <2>5. Calendar!Released(op[r], cal')
    BY <1>4, <2>3, <2>4 DEF Calendar!Released, cal
  <2>6. \A y \in Orders : Exists(db'.orders[y]) => Exists(db.orders[y])
    BY <2>2, <2>3 DEF Exists
  <2>q. QED BY <2>3, <2>5, <2>6
<1>5. CASE k = "confirmationTimeout"
  <2>1. /\ x \in Orders
        /\ db' = [db EXCEPT !.orders[x].st =
                    IF @ = "BOOKED_PENDING_CONFIRMATION" THEN "CANCELLED" ELSE @]
    BY <1>1, <1>5 DEF PlainWrite, OrderWriteKinds
  <2>2. CASE db.orders[x].st = "BOOKED_PENDING_CONFIRMATION"
    <3> DEFINE n == [db.orders[x] EXCEPT !.st = "CANCELLED"]
    <3>1. db' = [db EXCEPT !.orders[x] = n]
      BY <2>1, <2>2
    <3>2. /\ n \in Order /\ n.st = "CANCELLED" /\ ~Active(n)
          /\ n.post = db.orders[x].post /\ n.emp = db.orders[x].emp
          /\ n.start = db.orders[x].start /\ n.end = db.orders[x].end
          /\ n.buf = db.orders[x].buf
      BY <1>2, <2>1 DEF Order, Active, Status, Terminal, Occupying
    <3> HIDE DEF n
    <3>3. /\ \A y \in Orders \ {x} : db'.orders[y] = db.orders[y]
          /\ db'.orders[x] = n /\ cal[x] = Slot(db.orders[x]) /\ cal'[x] = Slot(n)
      BY <1>3, <2>1, <3>1, <3>2
    <3>4. ~Slot(db.orders[x]).started /\ Slot(n) = [Slot(db.orders[x]) EXCEPT !.held = FALSE]
      <4> DEFINE s == Slot(db.orders[x])
                 t == Slot(n)
      <4>1. s \in SlotType /\ t \in SlotType
        BY <1>2, <2>1, <3>2, SlotTyped
      <4>2. /\ s.post = t.post /\ s.emp = t.emp /\ s.start = t.start /\ s.end = t.end
            /\ s.buf = t.buf /\ ~s.started /\ ~t.started /\ ~t.held
        BY <2>2, <3>2, SlotFields
      <4> HIDE DEF s, t
      <4>3. t = [s EXCEPT !.held = FALSE]
        BY <4>1, <4>2, SlotUpdates
      <4>q. QED BY <4>2, <4>3 DEF s, t
    <3>5. Calendar!Released(op[r], cal')
      BY <1>5, <3>3, <3>4 DEF Calendar!Released, cal
    <3>6. \A y \in Orders : Exists(db'.orders[y]) => Exists(db.orders[y])
      BY <2>2, <3>3 DEF Exists
    <3>q. QED BY <3>3, <3>5, <3>6
  <2>3. CASE db.orders[x].st # "BOOKED_PENDING_CONFIRMATION"
    <3>1. \A y \in Orders : db'.orders[y] = db.orders[y]
      BY <1>1, <1>2, <2>1, <2>3 DEF Db, Order
    <3>2. cal'[x] = cal[x]
      BY SMTT(30), <2>1, <3>1 DEF cal
    <3>3. Calendar!Released(op[r], cal')
      BY <1>5, <3>2 DEF Calendar!Released, cal
    <3>q. QED BY <3>1, <3>3
  <2>q. QED BY <2>2, <2>3
<1>6. CASE k \notin OrderWriteKinds
  <2>1. db'.orders = db.orders
    BY <1>1, <1>6 DEF PlainWrite, Op, Kinds, AdminKinds, ProfileKinds, OrderWriteKinds, Db
  <2>2. cal' = cal
    BY <2>1 DEF cal
  <2>3. Calendar!Untouched(op[r], cal')
    BY <1>1, <1>6, <2>2
       DEF Calendar!Untouched, SerializableKinds, OrderWriteKinds, cal
  <2>q. QED BY <2>1, <2>3
<1>q. QED BY <1>4, <1>5, <1>6 DEF OrderWriteKinds

-----------------------------------------------------------------------------
(* Every step is a step of the calendar or changes nothing the callers see *)

\* What the calendar sees of the requests and of their answers.
seen == [r \in Req |-> IF pc[r] = "ready" THEN [kind |-> "none"] ELSE op[r]]

told == [r \in Req |-> CASE answer[r] = "none" -> "none"
                          [] answer[r] = "ok" -> "done"
                          [] OTHER -> "declined"]

\* A request that has been read and not answered is waiting in the calendar.
LEMMA OpenAsked ==
  ASSUME CalendarInv, NEW r \in Req, Open(r)
  PROVE  seen[r] = op[r] /\ seen[r] # Calendar!NothingAsked /\ told[r] = "none"
<1>1. op[r] \in Ops /\ op[r] \in Op
  BY OpsAssumption DEF CalendarInv, IInv, RequestOK, Open
<1>2. op[r].kind # "none"
  BY <1>1 DEF Op, Kinds, SerializableKinds, OrderWriteKinds, AdminKinds, ProfileKinds
<1>3. op[r] # [kind |-> "none"]
  BY <1>2
<1>4. answer[r] = "none"
  BY DEF CalendarInv, Answered, Open
<1>q. QED BY <1>3, <1>4 DEF Open, seen, told, Calendar!NothingAsked

\* The callers do not see the internal steps.
LEMMA InternalUnseen ==
  ASSUME CalendarInv, NEW r \in Req, Internal(r)
  PROVE  UNCHANGED <<cal, seen, told>>
<1>1. pc \in [Req -> Pcs] /\ UNCHANGED <<db, op, answer>> /\ Open(r)
  BY DEF CalendarInv, IInv, TypeOK, Internal
<1>2. \A q \in Req : pc'[q] = "ready" <=> pc[q] = "ready"
  BY <1>1 DEF Internal, Open
<1>q. QED BY <1>1, <1>2 DEF cal, seen, told

\* A declined request is declined in the calendar.
LEMMA DeclinedDeclines ==
  ASSUME CalendarInv, NEW r \in Req, Declined(r)
  PROVE  Calendar!Decline(r)
<1>1. /\ pc \in [Req -> Pcs] /\ answer \in [Req -> Answers]
      /\ UNCHANGED <<db, op>> /\ Open(r) /\ pc' = [pc EXCEPT ![r] = "done"]
  BY DEF CalendarInv, IInv, TypeOK, Declined
<1>2. PICK a \in Answers \ {"none", "ok"} : answer' = [answer EXCEPT ![r] = a]
  BY DEF Declined
<1>3. told' = [told EXCEPT ![r] = "declined"]
  BY <1>1, <1>2 DEF told
<1>4. cal' = cal /\ seen' = seen
  BY <1>1 DEF cal, seen, Open
<1>5. seen[r] # Calendar!NothingAsked /\ told[r] = "none"
  BY <1>1, OpenAsked
<1>q. QED BY <1>3, <1>4, <1>5 DEF Calendar!Decline, cal, seen, told

\* Submitting a request asks the calendar for it.
LEMMA SubmitAsks ==
  ASSUME CalendarInv, NEW r \in Req, NEW o \in Ops, Submit(r, o)
  PROVE  Calendar!Ask(r)
<1>1. /\ pc \in [Req -> Pcs] /\ op \in [Req -> Ops \cup {NoOp}] /\ pc[r] = "ready"
      /\ op' = [op EXCEPT ![r] = o] /\ UNCHANGED <<db, answer>>
  BY DEF CalendarInv, IInv, TypeOK, Submit
<1>2. pc'[r] # "ready" /\ \A q \in Req \ {r} : pc'[q] = pc[q]
  BY <1>1 DEF Submit, Goto
<1>3. seen[r] = Calendar!NothingAsked
  BY <1>1 DEF seen, Calendar!NothingAsked
<1>4. seen' = [seen EXCEPT ![r] = o]
  BY <1>1, <1>2 DEF seen
<1>5. cal' = cal /\ told' = told
  BY <1>1 DEF cal, told
<1>q. QED BY <1>3, <1>4, <1>5 DEF Calendar!Ask, cal, seen, told

\* A request that writes is answered in the same step.
LEMMA WriteServes ==
  ASSUME CalendarInv, NEW r \in Req, Open(r), op' = op,
         pc' = [pc EXCEPT ![r] = "done"], answer' = [answer EXCEPT ![r] = "ok"],
         \A y \in Orders \ {op[r].row} : db'.orders[y] = db.orders[y],
         \/ Calendar!Booked(op[r], cal') \/ Calendar!Moved(op[r], cal')
         \/ Calendar!Restored(op[r], cal') \/ Calendar!Changed(op[r], cal')
         \/ Calendar!Released(op[r], cal') \/ Calendar!Untouched(op[r], cal')
  PROVE  Calendar!Serve(r)
<1>1. pc \in [Req -> Pcs] /\ answer \in [Req -> Answers]
  BY DEF CalendarInv, IInv, TypeOK
<1>2. seen[r] = op[r] /\ seen[r] # Calendar!NothingAsked /\ told[r] = "none"
  BY OpenAsked
<1>3. told' = [told EXCEPT ![r] = "done"]
  BY <1>1 DEF told
<1>4. seen' = seen
  BY <1>1 DEF seen, Open
<1>5. Calendar!OnlyChanges(op[r].row, cal')
  BY DEF Calendar!OnlyChanges, cal
<1>q. QED BY <1>2, <1>3, <1>4, <1>5 DEF Calendar!Serve, cal, seen, told

\* Initial states map to initial states.
LEMMA CalendarInit == Init => CalendarInv /\ Calendar!CInit
<1> SUFFICES ASSUME Init PROVE CalendarInv /\ Calendar!CInit
  OBVIOUS
<1>1. CalendarInv
  BY InitIInv DEF Init, CalendarInv, FreshRow, OwnRow, Found, Answered, InTx, InTxPcs
<1>2. \A x, y \in Orders :
        x # y /\ Slot(db.orders[x]).held /\ Slot(db.orders[y]).held
          /\ Calendar!Compete(Slot(db.orders[x]), Slot(db.orders[y]))
        => Calendar!KeptApart(Slot(db.orders[x]), Slot(db.orders[y]))
  <2> SUFFICES ASSUME NEW x \in Orders, NEW y \in Orders, x # y,
                      Slot(db.orders[x]).held, Slot(db.orders[y]).held,
                      Calendar!Compete(Slot(db.orders[x]), Slot(db.orders[y]))
               PROVE  Calendar!KeptApart(Slot(db.orders[x]), Slot(db.orders[y]))
    OBVIOUS
  <2>1. Active(db.orders[x]) /\ Active(db.orders[y])
    BY DEF Slot
  <2>2. Uses(db.orders[x]) \cap Uses(db.orders[y]) # {}
    BY DEF Calendar!Compete, Slot, Uses
  <2>3. LET o == db.orders[x]
            p == db.orders[y]
        IN  Apart(o, p, IF o.buf <= p.buf THEN o.buf ELSE p.buf)
    BY <1>1, <2>1, <2>2 DEF CalendarInv, IInv, NoDoubleBooking
  <2>q. QED BY <2>3 DEF Apart, Calendar!KeptApart, Slot
<1>3. seen = [r \in Req |-> Calendar!NothingAsked] /\ told = [r \in Req |-> "none"]
  BY DEF Init, seen, told, Calendar!NothingAsked
<1>q. QED BY <1>1, <1>2, <1>3 DEF Calendar!CInit, cal, seen, told

\* Every step keeps the invariant and maps to a step or a stutter.
LEMMA CalendarNext ==
  CalendarInv /\ [Next]_vars => CalendarInv' /\ [Calendar!CNext]_(Calendar!cvars)
<1> SUFFICES ASSUME CalendarInv, [Next]_vars
             PROVE  CalendarInv' /\ [Calendar!CNext]_(Calendar!cvars)
  OBVIOUS
<1>1. IInv' /\ NoDoubleBooking'
  BY NextIInv DEF CalendarInv, IInv
<1>2. ASSUME NEW r \in Req, NEW o \in Ops, Submit(r, o)
      PROVE  CalendarInv' /\ [Calendar!CNext]_(Calendar!cvars)
  BY <1>1, <1>2, SubmitKeeps, SubmitAsks DEF Calendar!CNext
<1>3. ASSUME NEW r \in Req, Internal(r)
      PROVE  CalendarInv' /\ [Calendar!CNext]_(Calendar!cvars)
  <2>1. UNCHANGED Calendar!cvars
    BY <1>3, InternalUnseen DEF Calendar!cvars, cal, seen, told
  <2>q. QED BY <1>1, <1>3, <2>1, QuietKeeps
<1>4. ASSUME NEW r \in Req, Declined(r)
      PROVE  CalendarInv' /\ [Calendar!CNext]_(Calendar!cvars)
  BY <1>1, <1>4, QuietKeeps, DeclinedDeclines DEF Calendar!CNext
<1>5. ASSUME NEW r \in Req, Commit(r)
      PROVE  CalendarInv' /\ [Calendar!CNext]_(Calendar!cvars)
  <2>1. /\ Open(r) /\ op' = op /\ pc' = [pc EXCEPT ![r] = "done"]
        /\ answer' = [answer EXCEPT ![r] = "ok"]
        /\ op[r].row \in Orders /\ op[r].kind \in SerializableKinds
        /\ db.orders[op[r].row] \in Order
        /\ op[r].kind # "create" => db.orders[op[r].row] = Row(r)
        /\ op[r].kind \in {"reschedule", "updateStatus"} => Exists(Row(r))
        /\ ChecksPass(r)
        /\ \A y \in Orders \ {op[r].row} : db'.orders[y] = db.orders[y]
    BY <1>5, CommitRow
  <2>2. Calendar!Serve(r)
    BY <1>1, <1>5, <2>1, CommitAllowed, WriteServes
  <2>3. op[r].kind # "create" => Exists(db.orders[op[r].row])
    BY <2>1 DEF ChecksPass, SerializableKinds
  <2>4. \A q \in Req \ {r} : InTx(q) => tx'[q].view = tx[q].view
    <3> SUFFICES ASSUME NEW q \in Req \ {r}, InTx(q) PROVE tx'[q].view = tx[q].view
      OBVIOUS
    <3>1. tx[q] \in Tx
      BY DEF CalendarInv, IInv, TypeOK
    <3>q. QED BY <1>5, <3>1 DEF Commit, Publish, Tx
  <2>5. CalendarInv'
    BY <1>1, <2>1, <2>3, <2>4, WriteKeeps
  <2>q. QED BY <2>2, <2>5 DEF Calendar!CNext
<1>6. ASSUME NEW r \in Req, PlainWrite(r)
      PROVE  CalendarInv' /\ [Calendar!CNext]_(Calendar!cvars)
  <2>1. /\ Open(r) /\ op' = op /\ pc' = [pc EXCEPT ![r] = "done"]
        /\ answer' = [answer EXCEPT ![r] = "ok"]
    BY <1>6 DEF PlainWrite, Goto, Open
  <2>2. Calendar!Serve(r)
    BY <1>6, <2>1, PlainWriteAllowed, WriteServes
  <2>3. \A q \in Req \ {r} : InTx(q) => tx'[q].view = tx[q].view
    <3> SUFFICES ASSUME NEW q \in Req \ {r}, InTx(q) PROVE tx'[q].view = tx[q].view
      OBVIOUS
    <3>1. tx[q] \in Tx
      BY DEF CalendarInv, IInv, TypeOK
    <3>2. tx' = tx \/ tx' = Publish(r, op[r].row, {})
      BY <1>6 DEF PlainWrite
    <3>q. QED BY <3>1, <3>2 DEF Publish, Tx
  <2>4. CalendarInv'
    BY <1>1, <1>6, <2>1, <2>3, PlainWriteAllowed, WriteKeeps
  <2>q. QED BY <2>2, <2>4 DEF Calendar!CNext
<1>7. ASSUME NEW r \in Req, Step(r) \/ SpuriousFailure(r) \/ Timeout(r)
      PROVE  CalendarInv' /\ [Calendar!CNext]_(Calendar!cvars)
  BY <1>3, <1>4, <1>5, <1>6, <1>7, StepShape
<1>8. CASE UNCHANGED vars
  <2>1. CalendarInv'
    <3>1. \A r \in Req : Row(r)' = Row(r)
      BY <1>8 DEF vars, Row
    <3>2. \A r \in Req : FreshRow(r)' /\ OwnRow(r)' /\ Found(r)' /\ Answered(r)'
      BY <1>8, <3>1 DEF vars, CalendarInv, FreshRow, OwnRow, Found, Answered, InTx
    <3>q. QED BY <1>1, <3>2 DEF CalendarInv
  <2>2. UNCHANGED Calendar!cvars
    BY <1>8 DEF vars, Calendar!cvars
  <2>q. QED BY <2>1, <2>2
<1>q. QED BY <1>2, <1>7, <1>8 DEF Next, Quiescent

\* OrderReservation implements the calendar: for any number of requests,
\* posts, employees, orders and attempts, every request takes effect in one
\* step, exactly as asked and on what is free, or not at all.
THEOREM ReservationImplementsCalendar == Spec => ImplementsCalendar
BY CalendarInit, CalendarNext, PTL DEF Spec, ImplementsCalendar, Calendar!CSpec

-----------------------------------------------------------------------------
(* What the locks of a reservation hold *)

Resources == Posts \cup Employees

\* A resource that nobody wrote since the snapshot is what the snapshot shows,
\* and a lock keeps others from writing the row.
ResourcesFresh(r) ==
  /\ \A p \in Posts \ tx[r].dirty : db.post[p] = tx[r].view.post[p]
  /\ \A e \in Employees \ tx[r].dirty : db.emp[e] = tx[r].view.emp[e]
  /\ \A x \in Resources : x \in tx[r].held => x \notin tx[r].dirty

\* The post that is picked is in service as r sees it, and locked once it has
\* been; the employee is serving as r sees it, and locked, when r commits.
PicksLocked(r) ==
  /\ tx[r].post # None => tx[r].post \in OpenPosts(r)
  /\ tx[r].post # None /\ pc[r] # "lockPost" => tx[r].post \in tx[r].held
  /\ pc[r] = "commit" /\ tx[r].emp # None
       => tx[r].emp \in Serving(r) /\ tx[r].emp \in tx[r].held

\* Posts are locked in ascending order, an employee last of all.
LocksAscend(r) ==
  /\ \A p \in Posts : p \in tx[r].held => p \in tx[r].tried \cup {tx[r].post}
  /\ \A t \in tx[r].tried, p \in CandidatePosts(r) : t < p
  /\ pc[r] \in {"lockPost", "lockSlots"} =>
       /\ tx[r].post \in CandidatePosts(r)
       /\ \A p \in CandidatePosts(r) : tx[r].post <= p
  /\ pc[r] = "lockPost" => tx[r].post \notin tx[r].held
  /\ \A e \in Employees : e \in tx[r].held => pc[r] = "commit"

LocksOK(r) == InTx(r) => ResourcesFresh(r) /\ PicksLocked(r) /\ LocksAscend(r)

\* Somebody asks to activate the profile of e.
Reactivated(e) ==
  \E r \in Req : op[r].kind = "updateEmployee" /\ op[r].row = e /\ op[r].on

FreeOfOrders(e) == \A x \in Orders : Active(db.orders[x]) => db.orders[x].emp # e

\* A deletion that is under way found the profile inactive, and no order.
DeletionOK(r) ==
  /\ pc[r] = "ready" => op[r] = NoOp
  /\ op[r].kind = "deleteEmployee" /\ ~Reactivated(op[r].row) =>
       /\ pc[r] \in {"count", "write"} => ~db.emp[op[r].row].active
       /\ pc[r] = "write" => FreeOfOrders(op[r].row)

\* The inductive invariant of what follows.
LockInv ==
  /\ CalendarInv /\ DeletedEmployeeIsFree
  /\ \A r \in Req : LocksOK(r) /\ DeletionOK(r)

\* What r may still choose depends on its operation, its snapshot and the
\* posts it tried.
LEMMA ChoicesSame ==
  ASSUME NEW r, op'[r] = op[r], tx'[r].view = tx[r].view
  PROVE  /\ OpenPosts(r)' = OpenPosts(r) /\ Serving(r)' = Serving(r)
         /\ tx'[r].tried = tx[r].tried => CandidatePosts(r)' = CandidatePosts(r)
<1>1. OpenPosts(r)' = OpenPosts(r) /\ Serving(r)' = Serving(r)
  BY DEF OpenPosts, Configured, Serving
<1>2. Want(r)' = Want(r)
  BY ViewSame
<1>q. QED BY <1>1, <1>2 DEF CandidatePosts

\* A step of another request leaves the locks of q as they are: it writes no
\* row that q has locked.
LEMMA LocksFrame ==
  ASSUME NEW q \in Req, LocksOK(q), op'[q] = op[q], pc'[q] = pc[q],
         InTx(q) =>
           /\ tx'[q].view = tx[q].view /\ tx'[q].held = tx[q].held
           /\ tx'[q].tried = tx[q].tried /\ tx'[q].post = tx[q].post /\ tx'[q].emp = tx[q].emp
           /\ tx[q].dirty \subseteq tx'[q].dirty
           /\ \A x \in Resources : x \in tx[q].held /\ x \in tx'[q].dirty => x \in tx[q].dirty
           /\ \A p \in Posts \ tx'[q].dirty : db'.post[p] = db.post[p]
           /\ \A e \in Employees \ tx'[q].dirty : db'.emp[e] = db.emp[e]
  PROVE  LocksOK(q)'
<1> SUFFICES ASSUME InTx(q) PROVE ResourcesFresh(q)' /\ PicksLocked(q)' /\ LocksAscend(q)'
  BY DEF LocksOK, InTx
<1>1. ResourcesFresh(q) /\ PicksLocked(q) /\ LocksAscend(q)
  BY DEF LocksOK
<1>2. ResourcesFresh(q)'
  BY <1>1 DEF ResourcesFresh
<1>3. /\ OpenPosts(q)' = OpenPosts(q) /\ Serving(q)' = Serving(q)
      /\ CandidatePosts(q)' = CandidatePosts(q)
  BY ChoicesSame
<1>4. PicksLocked(q)' /\ LocksAscend(q)'
  BY <1>1, <1>3 DEF PicksLocked, LocksAscend
<1>q. QED BY <1>2, <1>4

\* A statement of r that writes no row and leaves the other requests alone.
LEMMA LocksLocal ==
  ASSUME LockInv, NEW r \in Req, UNCHANGED <<db, op>>,
         NEW l \in Pcs \ {"ready"}, pc' = [pc EXCEPT ![r] = l],
         op[r].kind = "deleteEmployee" => l = "done",
         NEW t, tx' = [tx EXCEPT ![r] = t], LocksOK(r)'
  PROVE  /\ \A q \in Req : LocksOK(q)' /\ DeletionOK(q)'
         /\ DeletedEmployeeIsFree'
<1>1. pc \in [Req -> Pcs] /\ tx \in [Req -> Tx \cup {NoTx}]
  BY DEF LockInv, CalendarInv, IInv, TypeOK
<1>2. ASSUME NEW q \in Req \ {r} PROVE LocksOK(q)'
  BY <1>1, LocksFrame DEF LockInv
<1>3. DeletedEmployeeIsFree'
  BY DEF LockInv, DeletedEmployeeIsFree
<1>4. ASSUME NEW q \in Req PROVE DeletionOK(q)'
  BY <1>1 DEF LockInv, DeletionOK, Reactivated, FreeOfOrders
<1>q. QED BY <1>2, <1>3, <1>4

\* Without a transaction there is nothing to lock.
LEMMA NoLocks ==
  ASSUME NEW r, ~InTx(r)
  PROVE  LocksOK(r)
BY DEF LocksOK

\* The parts of the invariant that a statement of r starts from.
LEMMA LockFacts ==
  ASSUME LockInv, NEW r \in Req
  PROVE  /\ tx \in [Req -> Tx \cup {NoTx}] /\ pc \in [Req -> Pcs] /\ db \in Db
         /\ op \in [Req -> Ops \cup {NoOp}]
         /\ RequestOK(r) /\ Progressed(r) /\ LocksOK(r) /\ DeletionOK(r)
         /\ InTx(r) => /\ tx[r] \in Tx /\ op[r].kind # "deleteEmployee" /\ op[r].row \in Orders
                       /\ ResourcesFresh(r) /\ PicksLocked(r) /\ LocksAscend(r)
<1>1. IInv
  BY DEF LockInv, CalendarInv
<1>2. InTx(r) => /\ tx[r] \in Tx /\ op[r].kind \in SerializableKinds /\ op[r].row \in Orders
  BY <1>1, OpenFacts, OpenTypes
<1>q. QED BY <1>1, <1>2 DEF LockInv, LocksOK, IInv, TypeOK, SerializableKinds

-----------------------------------------------------------------------------
(* Each statement of a transaction keeps the locks in order *)

\* A new attempt holds nothing.
LEMMA BeginLocks ==
  ASSUME LockInv, NEW r \in Req, Begin(r)
  PROVE  (\A q \in Req : LocksOK(q)' /\ DeletionOK(q)') /\ DeletedEmployeeIsFree'
<1> DEFINE l == IF op[r].kind \in {"reschedule", "updateStatus"} THEN "lockOrder" ELSE "validate"
           t == [NoTx EXCEPT !.view = db]
<1>1. /\ pc' = [pc EXCEPT ![r] = l] /\ tx' = [tx EXCEPT ![r] = t] /\ UNCHANGED <<db, op>>
      /\ op[r].kind # "deleteEmployee"
  BY LockFacts DEF Begin, Goto, RequestOK, SerializableKinds
<1>2. /\ tx'[r] = t /\ t.view = db /\ t.dirty = {} /\ t.held = {} /\ t.tried = {}
      /\ t.post = None /\ t.emp = None /\ pc'[r] \in {"lockOrder", "validate"}
  BY <1>1, LockFacts DEF NoTx
<1>3. LocksOK(r)'
  BY <1>1, <1>2 DEF LocksOK, ResourcesFresh, PicksLocked, LocksAscend
<1>4. l \in Pcs \ {"ready"}
  BY DEF Pcs, InTxPcs
<1> HIDE DEF l, t
<1>q. QED BY <1>1, <1>3, <1>4, LocksLocal

\* Locks on orders do not matter for posts and employees.
LEMMA OrderLocks ==
  ASSUME LockInv, NEW r \in Req, LockOrder(r) \/ LockOverlappingSlot(r), ~Reject(r)
  PROVE  (\A q \in Req : LocksOK(q)' /\ DeletionOK(q)') /\ DeletedEmployeeIsFree'
<1>1. PICK o \in Orders, l \in {"validate", "lockSlots"} :
        /\ InTx(r) /\ UNCHANGED <<db, op>> /\ tx' = [tx EXCEPT ![r].held = @ \cup {o}]
        /\ pc' = [pc EXCEPT ![r] = l] /\ pc[r] = (IF l = "validate" THEN "lockOrder" ELSE "lockSlots")
  <2>1. CASE LockOrder(r)
    <3>1. InTx(r)
      BY <2>1 DEF LockOrder, InTx, InTxPcs
    <3>q. QED BY <2>1, <3>1, LockFacts DEF LockOrder, Goto
  <2>2. CASE LockOverlappingSlot(r)
    <3>1. InTx(r) /\ pc[r] = "lockSlots"
      BY <2>2 DEF LockOverlappingSlot, InTx, InTxPcs
    <3>2. pc' = [pc EXCEPT ![r] = "lockSlots"] /\ UNCHANGED <<db, op>>
      BY <2>2, <3>1, LockFacts DEF LockOverlappingSlot
    <3>3. \E o \in Orders : tx' = [tx EXCEPT ![r].held = @ \cup {o}]
      BY <2>2 DEF LockOverlappingSlot, SlotsToLock, Overlapping
    <3>q. QED BY <3>1, <3>2, <3>3
  <2>q. QED BY <2>1, <2>2
<1> DEFINE t == [tx[r] EXCEPT !.held = @ \cup {o}]
<1>2. /\ t.view = tx[r].view /\ t.dirty = tx[r].dirty /\ t.held = tx[r].held \cup {o}
      /\ t.tried = tx[r].tried /\ t.post = tx[r].post /\ t.emp = tx[r].emp
  BY <1>1, LockFacts DEF Tx
<1>3. tx' = [tx EXCEPT ![r] = t] /\ tx'[r] = t /\ pc'[r] = l
  BY <1>1, LockFacts
<1>4. o \notin Resources
  BY ConstantsAssumption DEF Resources
<1>5. /\ ResourcesFresh(r) /\ PicksLocked(r) /\ LocksAscend(r)
  BY <1>1, LockFacts
<1>6. ResourcesFresh(r)'
  BY <1>1, <1>2, <1>3, <1>4, <1>5 DEF ResourcesFresh
<1>7. /\ OpenPosts(r)' = OpenPosts(r) /\ Serving(r)' = Serving(r)
      /\ CandidatePosts(r)' = CandidatePosts(r)
  BY <1>1, <1>2, <1>3, ChoicesSame
<1>8. PicksLocked(r)'
  BY <1>1, <1>2, <1>3, <1>5, <1>7 DEF PicksLocked
<1>9. LocksAscend(r)'
  <2>1. tx[r].post # None => tx[r].post \in Posts
    BY <1>5 DEF PicksLocked, OpenPosts
  <2>q. QED BY <1>1, <1>2, <1>3, <1>4, <1>5, <1>7 DEF LocksAscend, Resources
<1>10. LocksOK(r)'
  BY <1>6, <1>8, <1>9 DEF LocksOK
<1>q. QED BY <1>1, <1>3, <1>10, LockFacts, LocksLocal DEF Pcs, InTxPcs

\* A statement of r that only moves on and keeps what the picks need.
LEMMA MovesOn ==
  ASSUME LockInv, NEW r \in Req, InTx(r), NEW l \in InTxPcs, Goto(r, l),
         l \notin {"lockPost", "lockSlots"}, pc[r] # "commit",
         l = "commit" => tx[r].emp = None, pc[r] = "lockPost" => l = "lockPost",
         UNCHANGED <<db, op, tx>>
  PROVE  (\A q \in Req : LocksOK(q)' /\ DeletionOK(q)') /\ DeletedEmployeeIsFree'
<1>1. /\ pc' = [pc EXCEPT ![r] = l] /\ tx' = [tx EXCEPT ![r] = tx[r]] /\ tx'[r] = tx[r]
      /\ pc'[r] = l
  BY LockFacts DEF Goto
<1>2. ResourcesFresh(r) /\ PicksLocked(r) /\ LocksAscend(r)
  BY LockFacts
<1>3. /\ OpenPosts(r)' = OpenPosts(r) /\ Serving(r)' = Serving(r)
      /\ CandidatePosts(r)' = CandidatePosts(r)
  BY ChoicesSame
<1>4. ResourcesFresh(r)'
  BY <1>2 DEF ResourcesFresh
<1>5. PicksLocked(r)' /\ LocksAscend(r)'
  BY <1>1, <1>2, <1>3 DEF PicksLocked, LocksAscend
<1>6. LocksOK(r)'
  BY <1>4, <1>5 DEF LocksOK
<1>q. QED BY <1>1, <1>6, LockFacts, LocksLocal DEF Pcs, InTxPcs

\* resolveWorkPost picks the first candidate.
LEMMA PostLocks ==
  ASSUME LockInv, NEW r \in Req, ResolveWorkPost(r), ~Reject(r)
  PROVE  (\A q \in Req : LocksOK(q)' /\ DeletionOK(q)') /\ DeletedEmployeeIsFree'
<1>1. pc[r] = "post" /\ InTx(r) /\ tx[r].post = None /\ UNCHANGED <<db, op>>
  BY LockFacts DEF ResolveWorkPost, InTx, InTxPcs, Progressed
<1>2. CASE Goto(r, "employee") /\ UNCHANGED <<db, op, tx>>
  BY <1>1, <1>2, MovesOn DEF InTxPcs
<1>3. ASSUME NEW p \in CandidatePosts(r), \A q \in CandidatePosts(r) : p <= q,
             tx' = [tx EXCEPT ![r].post = p], Goto(r, "lockPost")
      PROVE  (\A q \in Req : LocksOK(q)' /\ DeletionOK(q)') /\ DeletedEmployeeIsFree'
  <2> DEFINE t == [tx[r] EXCEPT !.post = p]
  <2>1. /\ t.view = tx[r].view /\ t.dirty = tx[r].dirty /\ t.held = tx[r].held
        /\ t.tried = tx[r].tried /\ t.post = p /\ t.emp = tx[r].emp
    BY <1>1, LockFacts DEF Tx
  <2>2. /\ tx' = [tx EXCEPT ![r] = t] /\ tx'[r] = t /\ pc'[r] = "lockPost"
        /\ pc' = [pc EXCEPT ![r] = "lockPost"]
    BY <1>3, LockFacts DEF Goto
  <2>3. ResourcesFresh(r) /\ PicksLocked(r) /\ LocksAscend(r)
    BY <1>1, LockFacts
  <2>4. /\ OpenPosts(r)' = OpenPosts(r) /\ Serving(r)' = Serving(r)
        /\ CandidatePosts(r)' = CandidatePosts(r)
    BY <1>1, <2>1, <2>2, ChoicesSame
  <2>5. p \in OpenPosts(r) /\ p \in Posts /\ p \notin tx[r].tried
    BY DEF CandidatePosts, OpenPosts
  <2>6. ResourcesFresh(r)'
    BY <1>1, <2>1, <2>2, <2>3 DEF ResourcesFresh
  <2>7. PicksLocked(r)'
    BY <2>1, <2>2, <2>4, <2>5 DEF PicksLocked
  <2>8. p \notin tx[r].held
    BY <1>1, <2>3, <2>5, ConstantsAssumption DEF LocksAscend
  <2>9. LocksAscend(r)'
    <3>1. \A x \in Posts : x \in tx'[r].held => x \in tx'[r].tried \cup {tx'[r].post}
      BY <1>1, <2>1, <2>2, <2>3, ConstantsAssumption DEF LocksAscend
    <3>2. \A x \in tx'[r].tried, y \in CandidatePosts(r)' : x < y
      BY <2>1, <2>2, <2>3, <2>4 DEF LocksAscend
    <3>3. \A e \in Employees : e \notin tx'[r].held
      BY <1>1, <2>1, <2>2, <2>3 DEF LocksAscend
    <3>4. \A x \in CandidatePosts(r)' : p <= x
      BY <1>3, <2>4
    <3> HIDE DEF t
    <3>q. QED BY <2>1, <2>2, <2>4, <2>8, <3>1, <3>2, <3>3, <3>4 DEF LocksAscend
  <2>10. LocksOK(r)'
    BY <2>6, <2>7, <2>9 DEF LocksOK
  <2>q. QED BY <1>1, <2>2, <2>10, LockFacts, LocksLocal DEF Pcs, InTxPcs
<1>q. QED BY <1>2, <1>3 DEF ResolveWorkPost

\* lockWorkPost takes the lock on the post that was picked.
LEMMA WorkPostLocks ==
  ASSUME LockInv, NEW r \in Req, LockWorkPost(r)
  PROVE  (\A q \in Req : LocksOK(q)' /\ DeletionOK(q)') /\ DeletedEmployeeIsFree'
<1> DEFINE t == [tx[r] EXCEPT !.held = @ \cup {tx[r].post}]
<1>1. /\ pc[r] = "lockPost" /\ InTx(r) /\ tx[r].post \in Posts /\ UNCHANGED <<db, op>>
      /\ tx[r].post \notin tx[r].dirty
  BY LockFacts DEF LockWorkPost, InTx, InTxPcs, Progressed, Lockable
<1>2. /\ t.view = tx[r].view /\ t.dirty = tx[r].dirty /\ t.held = tx[r].held \cup {tx[r].post}
      /\ t.tried = tx[r].tried /\ t.post = tx[r].post /\ t.emp = tx[r].emp
  BY <1>1, LockFacts DEF Tx
<1>3. /\ tx' = [tx EXCEPT ![r] = t] /\ tx'[r] = t /\ pc'[r] = "lockSlots"
      /\ pc' = [pc EXCEPT ![r] = "lockSlots"]
  BY LockFacts DEF LockWorkPost, Goto
<1>4. ResourcesFresh(r) /\ PicksLocked(r) /\ LocksAscend(r)
  BY <1>1, LockFacts
<1>5. /\ OpenPosts(r)' = OpenPosts(r) /\ Serving(r)' = Serving(r)
      /\ CandidatePosts(r)' = CandidatePosts(r)
  BY <1>1, <1>2, <1>3, ChoicesSame
<1> HIDE DEF t
<1>6. ResourcesFresh(r)'
  BY <1>1, <1>2, <1>3, <1>4 DEF ResourcesFresh
<1>7. PicksLocked(r)'
  BY <1>1, <1>2, <1>3, <1>4, <1>5 DEF PicksLocked
<1>8. LocksAscend(r)'
  <2>1. \A e \in Employees : e # tx[r].post
    BY <1>1, ConstantsAssumption
  <2>q. QED BY <1>1, <1>2, <1>3, <1>4, <1>5, <2>1 DEF LocksAscend
<1>9. LocksOK(r)'
  BY <1>6, <1>7, <1>8 DEF LocksOK
<1>q. QED BY <1>1, <1>3, <1>9, LockFacts, LocksLocal DEF Pcs, InTxPcs

\* countOverlapping: the post is kept, or given up and never tried again.
LEMMA CountLocks ==
  ASSUME LockInv, NEW r \in Req, CountOverlapping(r)
  PROVE  (\A q \in Req : LocksOK(q)' /\ DeletionOK(q)') /\ DeletedEmployeeIsFree'
<1>1. pc[r] = "lockSlots" /\ InTx(r) /\ tx[r].post \in Posts /\ UNCHANGED <<db, op>>
  BY LockFacts DEF CountOverlapping, InTx, InTxPcs, Progressed
<1>2. ResourcesFresh(r) /\ PicksLocked(r) /\ LocksAscend(r)
  BY <1>1, LockFacts
<1>3. CASE Overlapping(r, tx[r].post) = {}
  <2> DEFINE t == [tx[r] EXCEPT !.reads = @ \cup {Window(r, tx[r].post)}]
  <2>1. /\ t.view = tx[r].view /\ t.dirty = tx[r].dirty /\ t.held = tx[r].held
        /\ t.tried = tx[r].tried /\ t.post = tx[r].post /\ t.emp = tx[r].emp
    BY <1>1, LockFacts DEF Tx
  <2>2. /\ tx' = [tx EXCEPT ![r] = t] /\ tx'[r] = t /\ pc'[r] = "employee"
        /\ pc' = [pc EXCEPT ![r] = "employee"]
    BY <1>3, LockFacts DEF CountOverlapping, Goto
  <2> HIDE DEF t
  <2>3. /\ OpenPosts(r)' = OpenPosts(r) /\ Serving(r)' = Serving(r)
        /\ CandidatePosts(r)' = CandidatePosts(r)
    BY <1>1, <2>1, <2>2, ChoicesSame
  <2>4. ResourcesFresh(r)'
    BY <1>1, <1>2, <2>1, <2>2 DEF ResourcesFresh
  <2>5. PicksLocked(r)' /\ LocksAscend(r)'
    BY <1>1, <1>2, <2>1, <2>2, <2>3 DEF PicksLocked, LocksAscend
  <2>6. LocksOK(r)'
    BY <2>4, <2>5 DEF LocksOK
  <2>q. QED BY <1>1, <2>2, <2>6, LockFacts, LocksLocal DEF Pcs, InTxPcs
<1>4. CASE Overlapping(r, tx[r].post) # {}
  <2> DEFINE t == [tx[r] EXCEPT !.reads = @ \cup {Window(r, tx[r].post)},
                                !.tried = @ \cup {tx[r].post}, !.post = None]
  <2>1. /\ t.view = tx[r].view /\ t.dirty = tx[r].dirty /\ t.held = tx[r].held
        /\ t.tried = tx[r].tried \cup {tx[r].post} /\ t.post = None /\ t.emp = tx[r].emp
    BY <1>1, LockFacts DEF Tx
  <2>2. /\ tx' = [tx EXCEPT ![r] = t] /\ tx'[r] = t /\ pc'[r] = "post"
        /\ pc' = [pc EXCEPT ![r] = "post"]
    BY <1>4, LockFacts DEF CountOverlapping, Goto
  <2> HIDE DEF t
  <2>3. OpenPosts(r)' = OpenPosts(r) /\ Serving(r)' = Serving(r) /\ Want(r)' = Want(r)
    BY <1>1, <2>1, <2>2, ChoicesSame, ViewSame
  <2>4. CandidatePosts(r)' = CandidatePosts(r) \ {tx[r].post}
    BY <2>1, <2>2, <2>3 DEF CandidatePosts
  <2>5. ResourcesFresh(r)'
    BY <1>1, <1>2, <2>1, <2>2 DEF ResourcesFresh
  <2>6. PicksLocked(r)'
    BY <2>1, <2>2 DEF PicksLocked
  <2>7. LocksAscend(r)'
    <3>1. \A p \in Posts : p \in tx'[r].held => p \in tx'[r].tried \cup {tx'[r].post}
      BY <1>2, <2>1, <2>2 DEF LocksAscend
    <3>2. \A p \in CandidatePosts(r) \ {tx[r].post} : tx[r].post < p
      <4>1. \A p \in CandidatePosts(r) : p \in Nat /\ tx[r].post <= p
        BY <1>1, <1>2, ConstantsAssumption DEF LocksAscend, CandidatePosts, OpenPosts
      <4>2. tx[r].post \in Nat
        BY <1>1, ConstantsAssumption
      <4>3. ASSUME NEW p \in CandidatePosts(r) \ {tx[r].post} PROVE tx[r].post < p
        <5>1. p \in Nat /\ tx[r].post <= p /\ p # tx[r].post
          BY <4>1
        <5>q. QED BY <4>2, <5>1
      <4>q. QED BY <4>3
    <3>3. \A x \in tx'[r].tried, p \in CandidatePosts(r)' : x < p
      BY <1>2, <2>1, <2>2, <2>4, <3>2 DEF LocksAscend
    <3>4. \A e \in Employees : e \notin tx'[r].held
      BY <1>1, <1>2, <2>1, <2>2 DEF LocksAscend
    <3>q. QED BY <2>2, <3>1, <3>3, <3>4 DEF LocksAscend
  <2>8. LocksOK(r)'
    BY <2>5, <2>6, <2>7 DEF LocksOK
  <2>q. QED BY <1>1, <2>2, <2>8, LockFacts, LocksLocal DEF Pcs, InTxPcs
<1>q. QED BY <1>3, <1>4

\* reserveEmployee chooses; nothing is locked yet.
LEMMA ChoiceLocks ==
  ASSUME LockInv, NEW r \in Req, ChooseEmployee(r), ~Reject(r)
  PROVE  (\A q \in Req : LocksOK(q)' /\ DeletionOK(q)') /\ DeletedEmployeeIsFree'
<1>1. pc[r] = "employee" /\ InTx(r) /\ tx[r].emp = None /\ UNCHANGED <<db, op>>
  BY LockFacts DEF ChooseEmployee, InTx, InTxPcs, Progressed
<1>2. CASE Goto(r, "commit") /\ UNCHANGED tx
  BY <1>1, <1>2, MovesOn DEF InTxPcs
<1>3. ASSUME NEW e \in Employees, tx' = [tx EXCEPT ![r].emp = e], Goto(r, "lockEmployee")
      PROVE  (\A q \in Req : LocksOK(q)' /\ DeletionOK(q)') /\ DeletedEmployeeIsFree'
  <2> DEFINE t == [tx[r] EXCEPT !.emp = e]
  <2>1. /\ t.view = tx[r].view /\ t.dirty = tx[r].dirty /\ t.held = tx[r].held
        /\ t.tried = tx[r].tried /\ t.post = tx[r].post
    BY <1>1, LockFacts DEF Tx
  <2>2. /\ tx' = [tx EXCEPT ![r] = t] /\ tx'[r] = t /\ pc'[r] = "lockEmployee"
        /\ pc' = [pc EXCEPT ![r] = "lockEmployee"]
    BY <1>3, LockFacts DEF Goto
  <2> HIDE DEF t
  <2>3. ResourcesFresh(r) /\ PicksLocked(r) /\ LocksAscend(r)
    BY <1>1, LockFacts
  <2>4. /\ OpenPosts(r)' = OpenPosts(r) /\ CandidatePosts(r)' = CandidatePosts(r)
    BY <1>1, <2>1, <2>2, ChoicesSame
  <2>5. ResourcesFresh(r)'
    BY <1>1, <2>1, <2>2, <2>3 DEF ResourcesFresh
  <2>6. PicksLocked(r)' /\ LocksAscend(r)'
    BY <1>1, <2>1, <2>2, <2>3, <2>4 DEF PicksLocked, LocksAscend
  <2>7. LocksOK(r)'
    BY <2>5, <2>6 DEF LocksOK
  <2>q. QED BY <1>1, <2>2, <2>7, LockFacts, LocksLocal DEF Pcs, InTxPcs
<1>q. QED BY <1>2, <1>3 DEF ChooseEmployee

\* The employee is locked and still serving.
LEMMA EmployeeLocks ==
  ASSUME LockInv, NEW r \in Req, LockEmployee(r), ~Reject(r)
  PROVE  (\A q \in Req : LocksOK(q)' /\ DeletionOK(q)') /\ DeletedEmployeeIsFree'
<1> DEFINE t == [tx[r] EXCEPT !.held = @ \cup {tx[r].emp},
                              !.reads = @ \cup {Window(r, tx[r].emp)}]
<1>1. /\ pc[r] = "lockEmployee" /\ InTx(r) /\ tx[r].emp \in Employees /\ UNCHANGED <<db, op>>
      /\ tx[r].emp \notin tx[r].dirty /\ tx[r].emp \in Serving(r)
  BY LockFacts DEF LockEmployee, InTx, InTxPcs, Progressed, Lockable, Eligible
<1>2. /\ t.view = tx[r].view /\ t.dirty = tx[r].dirty /\ t.held = tx[r].held \cup {tx[r].emp}
      /\ t.tried = tx[r].tried /\ t.post = tx[r].post /\ t.emp = tx[r].emp
  BY <1>1, LockFacts DEF Tx
<1>3. /\ tx' = [tx EXCEPT ![r] = t] /\ tx'[r] = t /\ pc'[r] = "commit"
      /\ pc' = [pc EXCEPT ![r] = "commit"]
  BY LockFacts DEF LockEmployee, Goto
<1> HIDE DEF t
<1>4. ResourcesFresh(r) /\ PicksLocked(r) /\ LocksAscend(r)
  BY <1>1, LockFacts
<1>5. /\ OpenPosts(r)' = OpenPosts(r) /\ Serving(r)' = Serving(r)
      /\ CandidatePosts(r)' = CandidatePosts(r)
  BY <1>1, <1>2, <1>3, ChoicesSame
<1>6. ResourcesFresh(r)'
  BY <1>1, <1>2, <1>3, <1>4 DEF ResourcesFresh
<1>7. PicksLocked(r)'
  BY <1>1, <1>2, <1>3, <1>4, <1>5 DEF PicksLocked
<1>8. LocksAscend(r)'
  <2>1. \A p \in Posts : p # tx[r].emp
    BY <1>1, ConstantsAssumption
  <2>q. QED BY <1>1, <1>2, <1>3, <1>4, <1>5, <2>1 DEF LocksAscend
<1>9. LocksOK(r)'
  BY <1>6, <1>7, <1>8 DEF LocksOK
<1>q. QED BY <1>1, <1>3, <1>9, LockFacts, LocksLocal DEF Pcs, InTxPcs

\* A transaction that ends without a commit gives everything back.
LEMMA EndLocks ==
  ASSUME LockInv, NEW r \in Req, UNCHANGED <<db, op>>, NEW l \in {"begin", "done"},
         pc' = [pc EXCEPT ![r] = l], tx' = [tx EXCEPT ![r] = NoTx],
         l = "begin" => InTx(r)
  PROVE  (\A q \in Req : LocksOK(q)' /\ DeletionOK(q)') /\ DeletedEmployeeIsFree'
<1>1. ~InTx(r)'
  BY LockFacts DEF InTx, InTxPcs
<1>2. LocksOK(r)'
  BY <1>1 DEF LocksOK
<1>3. l \in Pcs \ {"ready"} /\ (op[r].kind = "deleteEmployee" => l = "done")
  BY LockFacts DEF Pcs
<1>q. QED BY <1>2, <1>3, LocksLocal

\* Refused, repeated or timed out.
LEMMA EndedLocks ==
  ASSUME LockInv, NEW r \in Req, Reject(r) \/ (InTx(r) /\ Retry(r)) \/ Timeout(r)
  PROVE  (\A q \in Req : LocksOK(q)' /\ DeletionOK(q)') /\ DeletedEmployeeIsFree'
BY EndLocks DEF Reject, Retry, Timeout, Answer, Goto

\* Every statement of a transaction but the commit.
LEMMA StatementLocks ==
  ASSUME LockInv, NEW r \in Req,
         \/ Begin(r) \/ LockOrder(r) \/ Validate(r) \/ FailValidation(r)
         \/ ResolveWorkPost(r) \/ LockWorkPost(r) \/ LockOverlappingSlot(r)
         \/ CountOverlapping(r) \/ ChooseEmployee(r) \/ LockEmployee(r)
         \/ SerializationFailure(r) \/ DeadlockVictim(r) \/ SpuriousFailure(r) \/ Timeout(r)
  PROVE  (\A q \in Req : LocksOK(q)' /\ DeletionOK(q)') /\ DeletedEmployeeIsFree'
<1>1. CASE Reject(r) \/ (InTx(r) /\ Retry(r)) \/ Timeout(r)
  BY <1>1, EndedLocks
<1>2. CASE Validate(r)
  <2> DEFINE l == IF Reserves(r) THEN "post" ELSE "commit"
  <2>1. /\ pc[r] = "validate" /\ InTx(r) /\ UNCHANGED <<db, op, tx>> /\ Goto(r, l)
        /\ tx[r].emp = None
    BY <1>2, LockFacts DEF Validate, InTx, InTxPcs, Progressed
  <2>2. l \in {"post", "commit"}
    OBVIOUS
  <2> HIDE DEF l
  <2>q. QED BY <2>1, <2>2, MovesOn DEF InTxPcs
<1>3. FailValidation(r) => Reject(r)
  BY DEF FailValidation
<1>4. SerializationFailure(r) \/ DeadlockVictim(r) \/ SpuriousFailure(r) => InTx(r) /\ Retry(r)
  BY DEF SerializationFailure, DeadlockVictim, SpuriousFailure
<1>q. QED BY <1>1, <1>2, <1>3, <1>4, BeginLocks, OrderLocks, PostLocks, WorkPostLocks, CountLocks,
             ChoiceLocks, EmployeeLocks

\* A deletion of a profile that goes on has found what DeletionOK says.
LEMMA PlainLocks ==
  ASSUME LockInv, NEW r \in Req, PlainFind(r) \/ CountAssigned(r)
  PROVE  (\A q \in Req : LocksOK(q)' /\ DeletionOK(q)') /\ DeletedEmployeeIsFree'
<1>1. CASE Reject(r)
  BY <1>1, EndedLocks
<1>2. ASSUME NEW l \in {"count", "write"}, Goto(r, l), UNCHANGED <<db, op, tx>>, ~InTx(r),
             DeletionOK(r)'
      PROVE  (\A q \in Req : LocksOK(q)' /\ DeletionOK(q)') /\ DeletedEmployeeIsFree'
  <2>1. pc'[r] = l /\ \A q \in Req \ {r} : pc'[q] = pc[q]
    BY <1>2, LockFacts DEF Goto
  <2>2. ASSUME NEW q \in Req \ {r} PROVE LocksOK(q)'
    BY <1>2, <2>1, LockFacts, LocksFrame
  <2>3. LocksOK(r)'
    BY <2>1 DEF LocksOK, InTx, InTxPcs
  <2>4. ASSUME NEW q \in Req \ {r} PROVE DeletionOK(q)'
    BY <1>2, <2>1, LockFacts DEF DeletionOK, Reactivated, FreeOfOrders
  <2>5. DeletedEmployeeIsFree'
    BY <1>2 DEF LockInv, DeletedEmployeeIsFree
  <2>q. QED BY <1>2, <2>2, <2>3, <2>4, <2>5
<1>3. CASE PlainFind(r) /\ ~Reject(r)
  <2>1. /\ pc[r] = "find" /\ ~InTx(r) /\ UNCHANGED <<db, op, tx>>
        /\ Goto(r, IF op[r].kind = "deleteEmployee" THEN "count" ELSE "write")
        /\ op[r].kind = "deleteEmployee" => ~db.emp[op[r].row].active
    BY <1>3, LockFacts DEF PlainFind, InTx, InTxPcs
  <2>2. DeletionOK(r)'
    BY <2>1, LockFacts DEF Goto, DeletionOK
  <2>q. QED BY <1>2, <2>1, <2>2
<1>4. CASE CountAssigned(r) /\ ~Reject(r)
  <2>1. /\ pc[r] = "count" /\ ~InTx(r) /\ UNCHANGED <<db, op, tx>> /\ Goto(r, "write")
        /\ FreeOfOrders(op[r].row)
    BY <1>4, LockFacts DEF CountAssigned, InTx, InTxPcs, FreeOfOrders
  <2>2. DeletionOK(r)'
    BY <2>1, LockFacts DEF Goto, DeletionOK, Reactivated, FreeOfOrders
  <2>q. QED BY <1>2, <2>1, <2>2
<1>q. QED BY <1>1, <1>3, <1>4

-----------------------------------------------------------------------------
(* The writes *)

\* What a plain write does to orders, posts and employees.
LEMMA PlainWriteShape ==
  ASSUME LockInv, NEW r \in Req, PlainWrite(r)
  PROVE  /\ op' = op /\ pc' = [pc EXCEPT ![r] = "done"]
         /\ \A x \in Orders : Active(db'.orders[x]) =>
              Active(db.orders[x]) /\ db'.orders[x].post = db.orders[x].post
                /\ db'.orders[x].emp = db.orders[x].emp
         /\ \A p \in Posts : p # op[r].row => db'.post[p] = db.post[p]
         /\ \A e \in Employees : e # op[r].row => db'.emp[e] = db.emp[e]
         /\ \A e \in Employees : db'.emp[e].active => db.emp[e].active \/ Reactivated(e)
         /\ \A e \in Employees : db'.emp[e].del =>
              db.emp[e].del \/ (op[r].kind = "deleteEmployee" /\ op[r].row = e)
<1> DEFINE x == op[r].row
           k == op[r].kind
<1>1. op' = op /\ pc' = [pc EXCEPT ![r] = "done"] /\ pc[r] = "write"
  BY DEF PlainWrite, Goto
<1>2. /\ op[r] \in Op /\ db \in Db /\ op[r].on \in BOOLEAN /\ k \in Kinds /\ k \notin SerializableKinds
      /\ k \in OrderWriteKinds => x \in Orders
      /\ k = "updatePost" => x \in Posts
      /\ k \in ProfileKinds => x \in Employees
  BY <1>1, LockFacts, OpsAssumption DEF RequestOK, PlainPcs, Op
<1>3. /\ db.orders \in [Orders -> Order] /\ db.post \in [Posts -> BOOLEAN]
      /\ db.emp \in [Employees -> Profile]
  BY <1>2 DEF Db
<1>4. CASE k = "softDelete"
  <2>1. x \in Orders /\ db' = [db EXCEPT !.orders[x].del = TRUE]
    BY <1>2, <1>4 DEF PlainWrite, OrderWriteKinds
  <2>2. /\ db'.post = db.post /\ db'.emp = db.emp
        /\ \A y \in Orders \ {x} : db'.orders[y] = db.orders[y]
        /\ ~Active(db'.orders[x])
    BY <1>2, <1>3, <2>1 DEF Db, Order, Active
  <2>q. QED BY <1>1, <2>2
<1>5. CASE k = "confirmationTimeout"
  <2>1. /\ x \in Orders
        /\ db' = [db EXCEPT !.orders[x].st =
                    IF @ = "BOOKED_PENDING_CONFIRMATION" THEN "CANCELLED" ELSE @]
    BY <1>2, <1>5 DEF PlainWrite, OrderWriteKinds
  <2>2. /\ db'.post = db.post /\ db'.emp = db.emp
        /\ \A y \in Orders \ {x} : db'.orders[y] = db.orders[y]
        /\ db'.orders[x].post = db.orders[x].post /\ db'.orders[x].emp = db.orders[x].emp
        /\ db'.orders[x].del = db.orders[x].del
        /\ db'.orders[x].st \in {"CANCELLED", db.orders[x].st}
    BY <1>2, <1>3, <2>1 DEF Db, Order
  <2>q. QED BY <1>1, <2>2 DEF Active, Occupying
<1>6. CASE k = "updatePost"
  <2>1. db' = [db EXCEPT !.post[x] = op[r].on]
    BY <1>6 DEF PlainWrite
  <2>2. /\ db'.orders = db.orders /\ db'.emp = db.emp
        /\ \A p \in Posts : p # x => db'.post[p] = db.post[p]
    BY <1>2, <1>3, <2>1 DEF Db
  <2>q. QED BY <1>1, <2>2
<1>7. CASE k = "updateEmployee"
  <2>1. x \in Employees /\ db' = [db EXCEPT !.emp[x].active = op[r].on]
    BY <1>2, <1>7 DEF PlainWrite, ProfileKinds
  <2>2. /\ db'.orders = db.orders /\ db'.post = db.post
        /\ \A e \in Employees : e # x => db'.emp[e] = db.emp[e]
        /\ db'.emp[x].del = db.emp[x].del /\ db'.emp[x].active = op[r].on
    BY <1>2, <1>3, <2>1 DEF Db, Profile
  <2>3. op[r].on => Reactivated(x)
    BY <1>7 DEF Reactivated
  <2>q. QED BY <1>1, <2>2, <2>3
<1>8. CASE k = "deleteEmployee"
  <2>1. x \in Employees /\ db' = [db EXCEPT !.emp[x].del = TRUE]
    BY <1>2, <1>8 DEF PlainWrite, ProfileKinds
  <2>2. /\ db'.orders = db.orders /\ db'.post = db.post
        /\ \A e \in Employees : e # x => db'.emp[e] = db.emp[e]
        /\ db'.emp[x].active = db.emp[x].active
    BY <1>2, <1>3, <2>1 DEF Db, Profile
  <2>q. QED BY <1>1, <1>8, <2>2
<1>8a. CASE k = "updateWorker"
  <2>1. x \in Employees /\ db' = [db EXCEPT !.emp[x].worker = op[r].on]
    BY <1>2, <1>8a DEF PlainWrite, ProfileKinds
  <2>2. /\ db'.orders = db.orders /\ db'.post = db.post
        /\ \A e \in Employees : e # x => db'.emp[e] = db.emp[e]
        /\ db'.emp[x].active = db.emp[x].active /\ db'.emp[x].del = db.emp[x].del
    BY <1>2, <1>3, <2>1 DEF Db, Profile
  <2>q. QED BY <1>1, <2>2
<1>9. CASE k \in {"updateUser", "updateBranch", "updateSettings"}
  <2>1. \/ db' = [db EXCEPT !.user[op[r].emp] = op[r].on]
        \/ db' = [db EXCEPT !.branch = op[r].on]
        \/ db' = [db EXCEPT !.buffer = op[r].buf]
    BY <1>9 DEF PlainWrite
  <2>2. db'.orders = db.orders /\ db'.post = db.post /\ db'.emp = db.emp
    BY <1>2, <2>1 DEF Db
  <2>q. QED BY <1>1, <2>2
<1>q. QED BY <1>2, <1>4, <1>5, <1>6, <1>7, <1>8, <1>8a, <1>9
        DEF Kinds, OrderWriteKinds, AdminKinds, ProfileKinds

\* Publishing a row nobody else has locked leaves the locks of the others.
LEMMA PublishLocks ==
  ASSUME LockInv, NEW r \in Req, op' = op, pc' = [pc EXCEPT ![r] = "done"],
         NEW x, NEW peer, tx' = Publish(r, x, peer), x \in Resources => Free(r, x),
         \A p \in Posts : p # x => db'.post[p] = db.post[p],
         \A e \in Employees : e # x => db'.emp[e] = db.emp[e]
  PROVE  \A q \in Req : LocksOK(q)'
<1>1. LocksOK(r)'
  BY LockFacts DEF LocksOK, InTx, InTxPcs
<1>2. ASSUME NEW q \in Req \ {r} PROVE LocksOK(q)'
  <2>1. LocksOK(q) /\ op'[q] = op[q] /\ pc'[q] = pc[q]
    BY LockFacts
  <2>2. CASE ~InTx(q)
    BY <2>1, <2>2, LocksFrame
  <2>3. CASE InTx(q)
    <3>1. tx'[q] = [tx[q] EXCEPT !.dirty = @ \cup {x}, !.peers = @ \cup peer] /\ tx[q] \in Tx
      BY <2>3, LockFacts DEF Publish
    <3>2. /\ tx'[q].view = tx[q].view /\ tx'[q].held = tx[q].held /\ tx'[q].tried = tx[q].tried
          /\ tx'[q].post = tx[q].post /\ tx'[q].emp = tx[q].emp
          /\ tx'[q].dirty = tx[q].dirty \cup {x}
      BY <3>1 DEF Tx
    <3>3. x \in Resources => x \notin tx[q].held
      BY DEF Free
    <3>q. QED BY <2>1, <3>2, <3>3, LocksFrame
  <2>q. QED BY <2>2, <2>3
<1>q. QED BY <1>1, <1>2

\* Administrators wait for the locks of the reservations, and a profile is
\* deleted only with no order on it.
LEMMA PlainWriteLocks ==
  ASSUME LockInv, NEW r \in Req, PlainWrite(r)
  PROVE  (\A q \in Req : LocksOK(q)' /\ DeletionOK(q)') /\ DeletedEmployeeIsFree'
<1> DEFINE x == op[r].row
           k == op[r].kind
<1>1. /\ op' = op /\ pc' = [pc EXCEPT ![r] = "done"] /\ pc[r] = "write"
      /\ \A y \in Orders : Active(db'.orders[y]) =>
           Active(db.orders[y]) /\ db'.orders[y].post = db.orders[y].post
             /\ db'.orders[y].emp = db.orders[y].emp
      /\ \A p \in Posts : p # x => db'.post[p] = db.post[p]
      /\ \A e \in Employees : e # x => db'.emp[e] = db.emp[e]
      /\ \A e \in Employees : db'.emp[e].active => db.emp[e].active \/ Reactivated(e)
      /\ \A e \in Employees : db'.emp[e].del =>
           db.emp[e].del \/ (k = "deleteEmployee" /\ x = e)
  BY PlainWriteShape DEF PlainWrite
<1>2. x \in Resources => Free(r, x)
  <2>1. op[r] \in Ops
    BY <1>1, LockFacts DEF RequestOK
  <2>2. k = "confirmationTimeout" => x \in Orders
    BY <2>1, OpsAssumption DEF OrderWriteKinds
  <2>3. x = None \/ Free(r, x) \/ k = "confirmationTimeout"
    BY DEF PlainWrite
  <2>q. QED BY <2>2, <2>3, ConstantsAssumption DEF Resources
<1>3. \A q \in Req : LocksOK(q)'
  <2>1. CASE tx' = Publish(r, x, {})
    BY ZenonT(60), <1>1, <1>2, <2>1, PublishLocks
  <2>2. CASE tx' = tx /\ db' = db
    <3>1. LocksOK(r)'
      BY <1>1, LockFacts DEF LocksOK, InTx, InTxPcs
    <3>2. ASSUME NEW q \in Req \ {r} PROVE LocksOK(q)'
      BY <1>1, <2>2, LockFacts, LocksFrame
    <3>q. QED BY <3>1, <3>2
  <2>q. QED BY <2>1, <2>2 DEF PlainWrite
<1>4. \A e : Reactivated(e)' <=> Reactivated(e)
  BY <1>1 DEF Reactivated
<1>5. \A e : FreeOfOrders(e) => FreeOfOrders(e)'
  BY <1>1 DEF FreeOfOrders
<1>6. ASSUME NEW q \in Req PROVE DeletionOK(q)'
  <2>1. pc'[q] # "ready" \/ pc'[q] = pc[q]
    BY <1>1, LockFacts
  <2>2. DeletionOK(q) /\ op'[q] = op[q]
    BY <1>1, LockFacts
  <2>3. pc'[q] = "ready" => op'[q] = NoOp
    BY <1>1, <2>2, LockFacts DEF DeletionOK
  <2>4. CASE op[q].kind = "deleteEmployee" /\ ~Reactivated(op[q].row)
    <3>1. pc'[q] \in {"count", "write"} => pc'[q] = pc[q] /\ op[q].row \in Employees
      BY <1>1, <2>4, LockFacts, OpsAssumption DEF RequestOK, ProfileKinds
    <3>q. QED BY <1>1, <1>4, <1>5, <2>2, <2>3, <2>4, <3>1 DEF DeletionOK
  <2>5. CASE ~(op[q].kind = "deleteEmployee" /\ ~Reactivated(op[q].row))
    BY <1>4, <2>2, <2>3, <2>5 DEF DeletionOK
  <2>q. QED BY <2>4, <2>5
<1>7. DeletedEmployeeIsFree'
  <2> SUFFICES ASSUME NEW y \in Orders, Active(db'.orders[y]), db'.orders[y].emp # None,
                      db'.emp[db'.orders[y].emp].del
               PROVE  Reactivated(db'.orders[y].emp)
    BY <1>1 DEF DeletedEmployeeIsFree, Reactivated
  <2> DEFINE e == db.orders[y].emp
  <2>1. Active(db.orders[y]) /\ db'.orders[y].emp = e /\ e # None
    BY <1>1
  <2>2. e \in Employees
    BY <2>1, LockFacts DEF Db, Order
  <2>3. db.emp[e].del => Reactivated(e)
    BY <2>1 DEF LockInv, DeletedEmployeeIsFree, Reactivated
  <2>4. k = "deleteEmployee" /\ x = e => Reactivated(e)
    BY <1>1, <2>1, LockFacts DEF DeletionOK, FreeOfOrders
  <2>q. QED BY <1>1, <2>1, <2>2, <2>3, <2>4
<1>q. QED BY <1>3, <1>6, <1>7

\* What the columns an UPDATE sets, and those it leaves, are afterwards.
LEMMA WrittenColumns ==
  ASSUME NEW d \in Order, NEW p, NEW e, NEW s, NEW f, NEW b
  PROVE  /\ LET w == [d EXCEPT !.post = p, !.emp = e, !.start = s, !.end = f, !.buf = b]
            IN  w.post = p /\ w.emp = e
         /\ LET w == [d EXCEPT !.del = FALSE, !.buf = b]
            IN  w.st = d.st /\ w.post = d.post /\ w.emp = d.emp
         /\ LET w == [d EXCEPT !.st = s]
            IN  w.post = d.post /\ w.emp = d.emp
BY DEF Order

\* The post and the profile a commit reserves are in service: they were when
\* they were locked, and the locks have kept the administrators out since.  The
\* branch and the user were in the snapshot.
LEMMA CommitOpens ==
  ASSUME LockInv, NEW r \in Req, Commit(r), NEW x \in Orders, Reserved(x)
  PROVE  /\ RowsInService(db'.orders[x])
         /\ pc[r] = "commit" /\ op[r].row = x /\ RestInService(r, db'.orders[x])
<1> DEFINE o == db'.orders[x]
<1>1. /\ op[r] \in Op /\ op[r].kind \in SerializableKinds /\ op[r].row \in Orders
      /\ db.orders[op[r].row] \in Order /\ pc[r] = "commit" /\ InTx(r) /\ ChecksPass(r)
      /\ op[r].kind # "create" => db.orders[op[r].row] = Row(r)
      /\ op[r].kind \in {"reschedule", "updateStatus"} => Exists(Row(r)) /\ ~Row(r).del
      /\ Reserves(r) => /\ Want(r).post # AutoAssign => tx[r].post = Want(r).post
                        /\ Want(r).emp # AutoAssign => tx[r].emp = Want(r).emp
      /\ db'.orders[op[r].row] = Written(r)
      /\ \A y \in Orders \ {op[r].row} : db'.orders[y] = db.orders[y]
  BY CommitRow DEF LockInv, Commit, InTx, InTxPcs
<1>2. x = op[r].row /\ o = Written(r)
  BY <1>1 DEF Reserved
<1>3. o.post = tx[r].post /\ o.emp = tx[r].emp /\ tx[r].view.branch
  <2>1. CASE op[r].kind = "create"
    BY <1>1, <1>2, <2>1 DEF Written, ChecksPass
  <2>2. CASE op[r].kind = "reschedule"
    <3>1. Written(r) = [db.orders[x] EXCEPT !.post = tx[r].post, !.emp = tx[r].emp,
                          !.start = Want(r).start, !.end = Want(r).end, !.buf = Buffer(r)]
      BY <1>2, <2>2 DEF Written
    <3>2. db.orders[x] \in Order
      BY <1>1, <1>2
    <3>3. tx[r].view.branch
      BY <1>1, <2>2 DEF ChecksPass
    <3>q. QED BY <1>2, <3>1, <3>2, <3>3, WrittenColumns
  <2>3. CASE op[r].kind = "restore"
    <3>1. \E b : Written(r) = [db.orders[x] EXCEPT !.del = FALSE, !.buf = b]
      BY <1>2, <2>3 DEF Written
    <3>2. o.st = Row(r).st /\ o.post = Row(r).post /\ o.emp = Row(r).emp
      <4>1. db.orders[x] \in Order /\ db.orders[x] = Row(r)
        BY <1>1, <1>2, <2>3
      <4>2. PICK b : Written(r) = [db.orders[x] EXCEPT !.del = FALSE, !.buf = b]
        BY <3>1
      <4>q. QED BY <1>2, <4>1, <4>2, WrittenColumns
    <3>3. Reserves(r)
      BY <2>3, <3>2 DEF Reserves, Reserved, Active, Occupying, Terminal
    <3>4. Want(r).post = Row(r).post /\ Want(r).emp = Row(r).emp
      BY <2>3 DEF Want
    <3>5. Row(r).post # AutoAssign /\ Row(r).emp # AutoAssign
      BY <1>1, <2>3, ConstantsAssumption DEF Order
    <3>6. tx[r].view.branch
      BY <1>1, <2>3, <3>3 DEF ChecksPass, Reserves
    <3>q. QED BY <1>1, <3>2, <3>3, <3>4, <3>5, <3>6
  <2>4. CASE op[r].kind = "updateStatus"
    <3>1. Written(r) = [db.orders[x] EXCEPT !.st = op[r].status]
      BY <1>2, <2>4 DEF Written
    <3>2. o.post = db.orders[x].post /\ o.emp = db.orders[x].emp
      BY <1>1, <1>2, <3>1 DEF Order
    <3>3. db.orders[x].st \in Occupying /\ ~db.orders[x].del
      BY <1>1, <1>2, <2>4 DEF ChecksPass, ValidTransitions, Occupying
    <3>q. QED BY <3>2, <3>3 DEF Reserved, Active, Uses
  <2>q. QED BY <1>1, <2>1, <2>2, <2>3, <2>4 DEF SerializableKinds
<1>4. ResourcesFresh(r) /\ PicksLocked(r)
  BY <1>1, LockFacts
<1>5. tx[r].post # None => db.post[tx[r].post]
  <2> SUFFICES ASSUME tx[r].post # None PROVE db.post[tx[r].post]
    OBVIOUS
  <2>1. tx[r].post \in Posts /\ tx[r].view.post[tx[r].post] /\ tx[r].post \in tx[r].held
    BY <1>1, <1>4 DEF PicksLocked, OpenPosts
  <2>2. tx[r].post \notin tx[r].dirty
    BY <1>4, <2>1 DEF ResourcesFresh, Resources
  <2>3. db.post[tx[r].post] = tx[r].view.post[tx[r].post]
    BY <1>4, <2>1, <2>2 DEF ResourcesFresh
  <2>q. QED BY <2>1, <2>3
<1>6. tx[r].emp # None =>
        /\ db.emp[tx[r].emp].active /\ ~db.emp[tx[r].emp].del
        /\ db.emp[tx[r].emp].worker /\ tx[r].view.user[tx[r].emp]
  <2> DEFINE e == tx[r].emp
  <2> SUFFICES ASSUME e # None
               PROVE  /\ db.emp[e].active /\ ~db.emp[e].del
                      /\ db.emp[e].worker /\ tx[r].view.user[e]
    OBVIOUS
  <2>1. /\ e \in Employees /\ e \in tx[r].held
        /\ tx[r].view.emp[e].active /\ ~tx[r].view.emp[e].del
        /\ tx[r].view.emp[e].worker /\ tx[r].view.user[e]
    BY <1>1, <1>4 DEF PicksLocked, Serving, Configured
  <2>2. e \notin tx[r].dirty
    BY <1>4, <2>1 DEF ResourcesFresh, Resources
  <2>3. db.emp[e] = tx[r].view.emp[e]
    BY <1>4, <2>1, <2>2 DEF ResourcesFresh
  <2>q. QED BY <2>1, <2>3
<1>q. QED BY <1>1, <1>2, <1>3, <1>5, <1>6 DEF RowsInService, RestInService

\* An order that is active after a commit was so before, with its employee, or
\* its employee is in service.
LEMMA CommitEmployees ==
  ASSUME LockInv, NEW r \in Req, Commit(r), NEW x \in Orders, NEW e \in Employees,
         Active(db'.orders[x]), db'.orders[x].emp = e
  PROVE  \/ Active(db.orders[x]) /\ db.orders[x].emp = e
         \/ db.emp[e].active /\ ~db.emp[e].del
<1>1. e # None /\ e \notin Posts
  BY ConstantsAssumption
<1>2. CASE Reserved(x)
  BY <1>1, <1>2, CommitOpens DEF RowsInService
<1>3. CASE ~Reserved(x)
  <2>1. Active(db.orders[x]) /\ Uses(db'.orders[x]) = Uses(db.orders[x])
    BY <1>3 DEF Reserved
  <2>2. e \in Uses(db.orders[x])
    BY <1>1, <2>1 DEF Uses
  <2>3. db.orders[x].post \in Posts \cup {None}
    BY LockFacts DEF Db, Order
  <2>q. QED BY <1>1, <2>1, <2>2, <2>3 DEF Uses
<1>q. QED BY <1>2, <1>3

\* A commit writes one order and frees the locks.
LEMMA CommitLocks ==
  ASSUME LockInv, NEW r \in Req, Commit(r)
  PROVE  (\A q \in Req : LocksOK(q)' /\ DeletionOK(q)') /\ DeletedEmployeeIsFree'
<1>1. /\ op' = op /\ pc' = [pc EXCEPT ![r] = "done"] /\ op[r].row \in Orders
      /\ db' = [db EXCEPT !.orders[op[r].row] = Written(r)] /\ db'.orders[op[r].row] = Written(r)
      /\ Written(r) \in Order
      /\ \A y \in Orders \ {op[r].row} : db'.orders[y] = db.orders[y]
  BY CommitRow DEF LockInv, Commit
<1>2. db'.post = db.post /\ db'.emp = db.emp
  BY <1>1, LockFacts DEF Db
<1>3. \A q \in Req : LocksOK(q)'
  <2>1. op[r].row \notin Resources
    BY <1>1, ConstantsAssumption DEF Resources
  <2>2. \E peer : tx' = Publish(r, op[r].row, peer)
    BY DEF Commit
  <2>q. QED BY <1>1, <1>2, <2>1, <2>2, PublishLocks
<1>4. \A e : Reactivated(e)' <=> Reactivated(e)
  BY <1>1 DEF Reactivated
<1>5. ASSUME NEW q \in Req PROVE DeletionOK(q)'
  <2>1. DeletionOK(q) /\ op'[q] = op[q] /\ (pc'[q] = pc[q] \/ pc'[q] = "done")
    BY <1>1, LockFacts
  <2>2. CASE pc[q] = "write" /\ op[q].kind = "deleteEmployee" /\ ~Reactivated(op[q].row)
    <3>1. op[q].row \in Employees
      BY <2>2, LockFacts, OpsAssumption DEF RequestOK, ProfileKinds
    <3>2. ~db.emp[op[q].row].active /\ FreeOfOrders(op[q].row)
      BY <2>1, <2>2 DEF DeletionOK
    <3>3. FreeOfOrders(op[q].row)'
      <4> SUFFICES ASSUME NEW y \in Orders, Active(db'.orders[y]), db'.orders[y].emp = op[q].row
                   PROVE  FALSE
        BY <2>1 DEF FreeOfOrders
      <4>q. QED BY <3>1, <3>2, CommitEmployees DEF FreeOfOrders
    <3>q. QED BY <1>2, <2>1, <2>2, <3>2, <3>3 DEF DeletionOK
  <2>3. CASE ~(pc[q] = "write" /\ op[q].kind = "deleteEmployee" /\ ~Reactivated(op[q].row))
    BY <1>2, <1>4, <2>1, <2>3 DEF DeletionOK
  <2>q. QED BY <2>2, <2>3
<1>6. DeletedEmployeeIsFree'
  <2> SUFFICES ASSUME NEW y \in Orders, Active(db'.orders[y]), db'.orders[y].emp # None,
                      db'.emp[db'.orders[y].emp].del
               PROVE  Reactivated(db'.orders[y].emp)
    BY <1>1 DEF DeletedEmployeeIsFree, Reactivated
  <2> DEFINE e == db'.orders[y].emp
  <2>1. e \in Employees
    BY <1>1, LockFacts DEF Db, Order
  <2>2. Active(db.orders[y]) /\ db.orders[y].emp = e
    BY <1>2, <2>1, CommitEmployees
  <2>q. QED BY <1>2, <2>2 DEF LockInv, DeletedEmployeeIsFree, Reactivated
<1>q. QED BY <1>3, <1>5, <1>6

\* A request comes in.
LEMMA SubmitLocks ==
  ASSUME LockInv, NEW r \in Req, NEW o \in Ops, Submit(r, o)
  PROVE  (\A q \in Req : LocksOK(q)' /\ DeletionOK(q)') /\ DeletedEmployeeIsFree'
<1>1. /\ pc[r] = "ready" /\ op[r] = NoOp /\ op' = [op EXCEPT ![r] = o]
      /\ UNCHANGED <<db, tx>> /\ \A q \in Req \ {r} : pc'[q] = pc[q] /\ op'[q] = op[q]
      /\ op'[r] = o /\ pc'[r] \in {"begin", "find", "write"}
      /\ o.kind = "deleteEmployee" => pc'[r] = "find"
  BY LockFacts DEF Submit, Goto, DeletionOK, SerializableKinds, ProfileKinds
<1>2. ASSUME NEW e, Reactivated(e) PROVE Reactivated(e)'
  <2>1. PICK q \in Req : op[q].kind = "updateEmployee" /\ op[q].row = e /\ op[q].on
    BY <1>2 DEF Reactivated
  <2>2. q # r
    BY <1>1, <2>1 DEF NoOp
  <2>q. QED BY <1>1, <2>1, <2>2 DEF Reactivated
<1>3. \A q \in Req : LocksOK(q)'
  <2>1. LocksOK(r)'
    BY <1>1 DEF LocksOK, InTx, InTxPcs
  <2>2. ASSUME NEW q \in Req \ {r} PROVE LocksOK(q)'
    BY <1>1, LockFacts, LocksFrame
  <2>q. QED BY <2>1, <2>2
<1>4. ASSUME NEW q \in Req \ {r} PROVE DeletionOK(q)'
  BY <1>1, <1>2, LockFacts DEF DeletionOK, FreeOfOrders
<1>5. DeletionOK(r)'
  BY <1>1 DEF DeletionOK
<1>6. DeletedEmployeeIsFree'
  BY ZenonT(120), <1>1, <1>2 DEF LockInv, DeletedEmployeeIsFree, Reactivated
<1>q. QED BY <1>3, <1>4, <1>5, <1>6

-----------------------------------------------------------------------------
(* What follows for the posts, the employees and their locks *)

\* The database opens with no lock and nothing under way.
LEMMA InitLocks == Init => LockInv
<1> SUFFICES ASSUME Init PROVE LockInv
  OBVIOUS
<1>1. CalendarInv
  BY CalendarInit
<1>2. DeletedEmployeeIsFree
  BY InitDbAssumption DEF Init, DeletedEmployeeIsFree
<1>3. \A r \in Req : LocksOK(r) /\ DeletionOK(r)
  BY DEF Init, LocksOK, DeletionOK, InTx, InTxPcs, NoOp
<1>q. QED BY <1>1, <1>2, <1>3 DEF LockInv

\* Every step keeps the locks in order.
LEMMA NextLocks == LockInv /\ [Next]_vars => LockInv'
<1> SUFFICES ASSUME LockInv, [Next]_vars PROVE LockInv'
  OBVIOUS
<1>1. CalendarInv'
  BY CalendarNext DEF LockInv
<1> DEFINE Kept == (\A q \in Req : LocksOK(q)' /\ DeletionOK(q)') /\ DeletedEmployeeIsFree'
<1>2. ASSUME NEW r \in Req, NEW o \in Ops, Submit(r, o) PROVE Kept
  BY <1>2, SubmitLocks
<1>3. ASSUME NEW r \in Req, Step(r) \/ SpuriousFailure(r) \/ Timeout(r) PROVE Kept
  BY <1>3, StatementLocks, CommitLocks, PlainLocks, PlainWriteLocks DEF Step
<1>4. ASSUME UNCHANGED vars PROVE Kept
  <2>1. ASSUME NEW q \in Req PROVE LocksOK(q)' /\ DeletionOK(q)'
    BY <1>4, LockFacts, LocksFrame DEF vars, DeletionOK, Reactivated, FreeOfOrders
  <2>2. DeletedEmployeeIsFree'
    BY <1>4 DEF vars, LockInv, DeletedEmployeeIsFree
  <2>q. QED BY <2>1, <2>2
<1>5. Kept
  <2> HIDE DEF Kept
  <2>q. QED BY <1>2, <1>3, <1>4 DEF Next, Quiescent
<1>q. QED BY <1>1, <1>5 DEF LockInv

\* The post and the profile that a reservation takes are in service when it
\* commits, whatever the administrators wrote since they were checked; the
\* branch and the employee's user are in service in the attempt's snapshot.
THEOREM ReservationsAreServed == Spec => ReservesOpenResources
<1> DEFINE Served(x) ==
      /\ RowsInService(db'.orders[x])
      /\ \E r \in Req : /\ pc[r] = "commit" /\ op[r].row = x
                        /\ RestInService(r, db'.orders[x])
<1>1. LockInv /\ [Next]_vars => [\A x \in Orders : Reserved(x) => Served(x)]_vars
  <2> SUFFICES ASSUME LockInv, [Next]_vars, NEW x \in Orders, Reserved(x)
               PROVE  Served(x)
    OBVIOUS
  <2>1. db' # db
    BY DEF Reserved
  <2>2. ASSUME NEW r \in Req, PlainWrite(r) PROVE FALSE
    BY <2>2, PlainWriteShape DEF Reserved, Uses
  <2>3. PICK r \in Req : Commit(r)
    <3>1. ASSUME NEW r \in Req, Step(r) \/ SpuriousFailure(r) \/ Timeout(r) PROVE Commit(r)
      BY <2>1, <2>2, <3>1, StepShape DEF LockInv, Internal, Declined
    <3>2. PICK r \in Req : Step(r) \/ SpuriousFailure(r) \/ Timeout(r)
      BY <2>1 DEF Next, Submit, Quiescent, vars
    <3>q. QED BY <3>1, <3>2
  <2>q. QED BY <2>3, CommitOpens
<1>q. QED BY InitLocks, NextLocks, <1>1, PTL DEF Spec, ReservesOpenResources

\* No active order is left with a deleted profile, although the deletion only
\* counts the orders before it writes, unless somebody asks for the profile to
\* be active again in between.
THEOREM DeletionLeavesNoOrder == Spec => []DeletedEmployeeIsFree
<1>1. LockInv => DeletedEmployeeIsFree
  BY DEF LockInv
<1>q. QED BY InitLocks, NextLocks, <1>1, PTL DEF Spec

\* A transaction that waits for another one at a post has picked the lower
\* post, if the other one waits at a post or an employee too.
LEMMA WaitsAscend ==
  ASSUME LockInv, NEW r \in Req, NEW q \in Req, WaitsFor(r, q),
         pc[r] \notin {"lockOrder", "lockSlots", "commit"}, InTx(q), pc[q] # "commit"
  PROVE  /\ pc[r] = "lockPost" /\ tx[r].post \in Nat
         /\ pc[q] = "lockPost" => tx[q].post \in Nat /\ tx[r].post < tx[q].post
<1>1. InTx(r) /\ Awaited(r) # {} /\ Awaited(r) \cap tx[q].held # {}
  BY DEF WaitsFor
<1>2. Progressed(r) /\ LocksAscend(q)
  BY <1>1, LockFacts
<1>3. pc[r] \in {"lockPost", "lockEmployee"}
  BY <1>1 DEF Awaited
<1>4. pc[r] # "lockEmployee"
  <2> SUFFICES ASSUME pc[r] = "lockEmployee" PROVE FALSE
    OBVIOUS
  <2>1. tx[r].emp \in Employees /\ tx[r].emp \in tx[q].held
    BY <1>1, <1>2 DEF Awaited, Progressed
  <2>q. QED BY <1>2, <2>1 DEF LocksAscend
<1>5. pc[r] = "lockPost" /\ tx[r].post \in Posts /\ tx[r].post \in tx[q].held
  BY <1>1, <1>2, <1>3, <1>4 DEF Awaited, Progressed
<1>6. ASSUME pc[q] = "lockPost" PROVE tx[q].post \in Nat /\ tx[r].post < tx[q].post
  <2>1. tx[q].post \in CandidatePosts(q) /\ tx[q].post \notin tx[q].held
    BY <1>2, <1>6 DEF LocksAscend
  <2>2. tx[r].post \in tx[q].tried
    BY <1>2, <1>5, <2>1 DEF LocksAscend
  <2>3. tx[q].post \in Posts
    BY <2>1 DEF CandidatePosts, OpenPosts
  <2>q. QED BY <1>2, <2>1, <2>2, <2>3, ConstantsAssumption DEF LocksAscend
<1>q. QED BY <1>5, <1>6, ConstantsAssumption

\* The smaller-than relation that the library's theorem on it speaks of.
LEMMA LessRelation == OpToRel(<, Nat) = {ss \in Nat \X Nat : ss[1] < ss[2]}
BY DEF OpToRel

\* A set of naturals has a smallest member.
LEMMA LeastMember ==
  ASSUME NEW S \in SUBSET Nat, S # {}
  PROVE  \E n \in S : \A m \in S : n <= m
<1> DEFINE R == OpToRel(<, Nat)
<1>1. IsWellFoundedOn(R, Nat)
  BY NatLessThanWellFounded
<1>2. \A x, y \in Nat : x < y => <<x, y>> \in R
  BY LessRelation
<1> HIDE DEF R
<1>3. PICK n \in S : \A m \in S : ~(<<m, n>> \in R)
  BY <1>1, WFMin
<1>4. ASSUME NEW m \in S PROVE n <= m
  <2>1. m \in Nat /\ n \in Nat /\ ~(m < n)
    BY <1>2, <1>3
  <2>q. QED BY <2>1
<1>q. QED BY <1>4

\* In a cycle of transactions that wait for posts and employees only, each
\* would wait for a higher post than the one it waits at: without the lowest,
\* the others would be a cycle of their own.
LEMMA LocksInOrder == LockInv => ResourceLocksOrdered
<1> SUFFICES ASSUME LockInv, NEW C \in SUBSET Req, WaitCycle(C),
                    \A r \in C : pc[r] \notin {"lockOrder", "lockSlots", "commit"}
             PROVE  FALSE
  BY DEF ResourceLocksOrdered
<1>1. /\ C # {} /\ \A r \in C : \E q \in C : WaitsFor(r, q)
      /\ \A S \in SUBSET C : S # {} /\ (\A r \in S : \E q \in S : WaitsFor(r, q)) => S = C
  BY DEF WaitCycle
<1>2. \A r \in C : r \in Req /\ InTx(r) /\ pc[r] # "commit"
  BY <1>1 DEF WaitsFor
<1>3. \A r \in C : pc[r] = "lockPost" /\ tx[r].post \in Nat
  BY <1>1, <1>2, WaitsAscend
<1>4. \A r, q \in C : WaitsFor(r, q) => tx[r].post < tx[q].post
  BY <1>2, <1>3, WaitsAscend
<1>5. PICK low \in C : \A r \in C : tx[low].post <= tx[r].post
  <2> DEFINE S == {tx[r].post : r \in C}
  <2>1. S \in SUBSET Nat /\ S # {}
    BY <1>1, <1>3
  <2>2. PICK n \in S : \A m \in S : n <= m
    BY <2>1, LeastMember
  <2>q. QED BY <2>2
<1>6. \A r \in C : \E q \in C \ {low} : WaitsFor(r, q)
  <2> SUFFICES ASSUME NEW r \in C PROVE \E q \in C \ {low} : WaitsFor(r, q)
    OBVIOUS
  <2>1. PICK q \in C : WaitsFor(r, q)
    BY <1>1
  <2>2. tx[low].post <= tx[r].post /\ tx[r].post < tx[q].post
    BY <1>4, <1>5, <2>1
  <2>3. tx[low].post \in Nat /\ tx[r].post \in Nat /\ tx[q].post \in Nat
    BY <1>3
  <2>4. q # low
    BY <2>2, <2>3
  <2>q. QED BY <2>1, <2>4
<1>7. C \ {low} # {} /\ \A r \in C \ {low} : \E q \in C \ {low} : WaitsFor(r, q)
  BY <1>5, <1>6
<1>q. QED BY <1>1, <1>5, <1>7

\* Posts are locked in ascending order and before the employee, so that the
\* locks on posts and employees alone never make transactions wait in a circle.
THEOREM PostsLockedInOrder == Spec => []ResourceLocksOrdered
BY InitLocks, NextLocks, LocksInOrder, PTL DEF Spec
=============================================================================
