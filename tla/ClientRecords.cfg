CONSTANTS
  Clients = {c1, c2}
  Vehicles = {v1, v2}
  Orders = {o1}
  Services = {s1}
  Posts = {w1}
  Branches = {b1}
  BranchOf <- MCBranchOf
  Phones = {phone}
  Plates = {plate}
  Requests = {r1, r2}
  MaxDeletes = 1
  None = None
SPECIFICATION FairSpec
CHECK_DEADLOCK FALSE
INVARIANT BookingsShareClient
INVARIANT OwnershipKept
PROPERTY RestoreHolds
PROPERTY PurgedUnlessBlocked
