CONSTANTS
  Tasks = {t1}
  Nothing = Nothing
  Tiers = {"STARTER", "BUSINESS"}
  PlanLimits <- MCPlanLimits
  Quantities = {0, 1}
  Moves = {"renew", "portalCancel", "pastDue", "recover", "pause", "resume", "portalPlan", "end"}
  Ops = {"changePlan", "manageAddon", "cancel", "reactivate"}
  Ordered = TRUE
  MaxEvents = 4
  MaxFaults = 1
  Horizon = 1
SPECIFICATION SFairSpec
INVARIANT STypeOK
PROPERTY ConvergesInOrder
CHECK_DEADLOCK FALSE
