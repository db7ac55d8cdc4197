CONSTANTS
  Req = {r1, r2}
  None = None
  AutoAssign = AutoAssign
  Keep = Keep
  Orders <- MCOrders
  Posts <- MCPosts
  Employees <- TwoEmployees
  ShiftStart <- MCShiftStart
  ShiftEnd <- MCShiftEnd
  Ops <- LockOps
  InitDb <- LockDb
  MAX_RESERVATION_ATTEMPTS = 3
SPECIFICATION FairSpec
INVARIANT ResourceLocksOrdered
PROPERTY EveryRequestAnswered
