SPECIFICATION JobSpec
CONSTANTS
  MaxPortfolio = 2
  CronTask = cron
  ManualTasks = {m1}
  Requests = {r1}
  NoTask = NoTask
  MaxVersion = 1
INVARIANTS
  OneRunAtATime
  CompletedCoversAll
  TornOnlyAfterFailure
  StuckOnlyAfterLoss
PROPERTIES
  LockIsReleased
