------------------------- MODULE MCOrderReservation -------------------------
(***************************************************************************)
(* Instances of OrderReservation for TLC: one branch, two work posts, one  *)
(* or two employees, four orders and two or three requests.                *)
(***************************************************************************)
EXTENDS OrderReservation, TLC

MCPosts == {1, 2}
OneEmployee == {11}
TwoEmployees == {11, 12}
MCOrders == {21, 22, 23, 24}

\* Employee 12 starts too late for the first slots of the day.
MCShiftStart == [e \in Employees |-> IF e = 11 THEN 0 ELSE 2]
MCShiftEnd == [e \in Employees |-> 6]

Booking(st, del, p, e, s, f) ==
  [st |-> st, del |-> del, post |-> p, emp |-> e, start |-> s, end |-> f,
   buf |-> 0]

DbWith(o21, o22, b) ==
  [orders |-> [x \in Orders |-> IF x = 21 THEN o21 ELSE IF x = 22 THEN o22 ELSE Absent],
   post |-> [p \in Posts |-> TRUE],
   emp |-> [e \in Employees |-> [active |-> TRUE, del |-> FALSE, worker |-> TRUE]],
   user |-> [e \in Employees |-> TRUE],
   branch |-> TRUE, buffer |-> b]

\* Order 21 holds post 1 and order 22 was deleted at the same time on that
\* post; or 21 was deleted and 22 has no post and no employee yet.  Orders 23
\* and 24 are still to come.
RaceDb ==
  { DbWith(Booking("BOOKED", FALSE, 1, 11, 0, 2),
           Booking("BOOKED_PENDING_CONFIRMATION", TRUE, 1, None, 0, 2), 1),
    DbWith(Booking("BOOKED", TRUE, 2, 11, 0, 2),
           Booking("BOOKED", FALSE, None, None, 0, 2), 0) }

\* Bookings race with each other, with status changes and deletions, and with
\* administrators who switch posts, employees, users and the branch off.
RaceOps ==
  { CreateOp(23, AutoAssign, AutoAssign, 2, 2, "BOOKED"),
    CreateOp(24, 1, 11, 1, 2, "BOOKED_PENDING_CONFIRMATION"),
    RescheduleOp(21, 2, Keep, 0),
    RescheduleOp(22, Keep, 11, 1),
    RowOp("restore", 21),
    RowOp("restore", 22),
    UpdateStatusOp(21, "IN_PROGRESS"),
    UpdateStatusOp(22, "NO_SHOW"),
    RowOp("softDelete", 21),
    RowOp("confirmationTimeout", 22),
    SettingsOp(0),
    SwitchOp("updatePost", 2, FALSE),
    SwitchOp("updateEmployee", 11, FALSE),
    SwitchOp("updateEmployee", 11, TRUE),
    SwitchOp("updateWorker", 11, FALSE),
    UserOp(11, FALSE),
    RowOp("deleteEmployee", 11),
    SwitchOp("updateBranch", None, FALSE) }

\* Both posts are taken at time 0, and requests cross each other's locks.
LockDb ==
  { DbWith(Booking("BOOKED", FALSE, 1, 11, 0, 2),
           Booking("BOOKED", FALSE, 2, 12, 0, 2), 0) }

LockOps ==
  { CreateOp(23, AutoAssign, AutoAssign, 1, 1, "BOOKED"),
    CreateOp(24, AutoAssign, AutoAssign, 1, 1, "BOOKED"),
    RescheduleOp(21, 2, 12, 2),
    RescheduleOp(22, 1, 11, 2),
    RescheduleOp(21, 1, Keep, 1),
    UpdateStatusOp(21, "CANCELLED"),
    RowOp("softDelete", 22) }

Perms == Permutations(Req)
=============================================================================
