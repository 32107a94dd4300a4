SPECIFICATION LoadSpec
INVARIANTS
  RunAccounts
  ScheduleExact
  PercentileExact
  PlanCovers
