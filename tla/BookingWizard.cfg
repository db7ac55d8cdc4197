CONSTANTS
  Branches = {b1}
  Dates = {d1}
  Times <- MCTimes
  Services = {s1, s2}
  Kept = {s1}
  Catalogs <- MCCatalogs
  None = None
  Jobs = {j1}
  MaxAnswers = 2
  MaxOutside = 2
SPECIFICATION Spec
PROPERTY MovesOnWithOfferedSlot
PROPERTY EditCancelsConfirmation
CHECK_DEADLOCK FALSE
