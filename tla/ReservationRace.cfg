CONSTANTS
  Req = {r1, r2, r3}
  None = None
  AutoAssign = AutoAssign
  Keep = Keep
  Orders <- MCOrders
  Posts <- MCPosts
  Employees <- OneEmployee
  ShiftStart <- MCShiftStart
  ShiftEnd <- MCShiftEnd
  Ops <- RaceOps
  InitDb <- RaceDb
  MAX_RESERVATION_ATTEMPTS = 2
SPECIFICATION Spec
SYMMETRY Perms
INVARIANT TypeOK
INVARIANT NoDoubleBooking
INVARIANT DeletedEmployeeIsFree
PROPERTY ReservesOpenResources
PROPERTY ImplementsCalendar
