CONSTANTS
  a = a
  Symbols = {a}
  Allocations <- MCAllocations
  Closing <- MCClosing
  Value = 8
  Horizons = {1}
  MaxGap = 1
  FetchedRows = 2
  ExpiryDays = 2
  MaxDay = 3
  MaxRecommendations = 1
  MaxDecisions = 1
  MaxCommands = 1
  MaxFaults = 1
  Weights = {1, 2}
  Prices = {2, 3}
  Base = 12
  Period = 2
  LastDay = 4
  MaxAdvice = 1
  MaxResets = 1
  Plans <- MCPlans
  Decisions = {"APPROVED", "REJECTED"}
  Returns <- UpAndDown
  ModelReturns = {0}
  AdvisedReturns = {0}
  Executions <- MCExecutions
  HorizonSettings <- MCHorizonSettings
  PeriodDays = 2
  EnoughDecisions = 2
  TieBand = 1
  MaxGradeGap = 1
  Overdue = 1
  LastHalfDay = 5
  MaxAdvised = 1
  MaxDecided = 2
  MaxGrades = 2
  MaxFills = 2
  Tables = {"transactions", "repairs", "optimizer_history", "recommendations"}
  MaxPortfolios = 3
  MaxRows = 3
  MaxWriters = 1
SPECIFICATION EvaluationSpec
CHECK_DEADLOCK FALSE
PROPERTIES
  NewPortfolioIsEmpty
