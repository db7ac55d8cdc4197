CONSTANTS
  Callers = {cron, d1, d2, c1}
  Cron = cron
  Demand = {d1, d2}
  Readers = {r1, r2}
  Null = Null
  Default = Default
  MaxPrice = 1
  Unlisted = {1}
  failureThreshold = 2
  MaxFailures = 2
SPECIFICATION PSpec
INVARIANT RefreshShared
PROPERTY RecoversWithService
PROPERTY TripsOnOutage
PROPERTY ReadersAnswered
PROPERTY PricesCatchUp
