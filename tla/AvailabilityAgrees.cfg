CONSTANTS
  Posts = {p1, p2}
  Employees = {e1, e2}
  Null = Null
  Day = 8
  Durations = {1, 2}
  Settings <- SomeSettings
  Profiles <- SomeProfiles
  MaxOrders = 2
SPECIFICATION ASpec
SYMMETRY Perms
INVARIANT HidesNothingBookable
INVARIANT OffersWhatIsBookable
