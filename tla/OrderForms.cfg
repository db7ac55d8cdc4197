CONSTANTS
  b1 = b1
  d1 = d1
  p1 = p1
  Branches = {b1}
  Dates = {d1, d2}
  Clients = {c1, c2}
  Known = {c1}
  Vehicles = {v1}
  Services = {s1, s2}
  Slots <- MCSlots
  Posts = {p1}
  Duration <- MCDuration
  Links <- MCLinks
  MaxFlight = 2
  None = None
  Answers <- MCAnswers
  Today = d1
  MaxClock = 1
  MaxOutside = 1
  Workers = {w1}
  DaysOff = {d2}
SPECIFICATION Spec
SYMMETRY ServiceSymmetry
INVARIANT OwnVehicle
INVARIANT OnePostAtATime
INVARIANT PostFitsChoices
PROPERTY PostsFittingSlot
PROPERTY LateClientKeepsPick
