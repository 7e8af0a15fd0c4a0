CONSTANTS
  aot = aot
  bbl = bbl
  cpall = cpall
  delta = delta
  tech = tech
  other = other
  Symbols = {aot, bbl}
  Sector <- MCSector
  Place <- MCPlace
  Portfolios <- MCPortfolios
  Labels = {"BUY", "HOLD", "REDUCE", "SELL"}
  Targets = {0, 9, 14}
  Envelopes <- MCEnvelopes
  Whole = 20
  Slack = 1
  Drift = 3
  CooldownDays = 1
  Instruments = {aot, bbl, cpall, delta}
  Rank <- MCRank
  Holdings <- MCHoldings
  Balances = {0, 50}
  Deployments <- MCDeployments
  Registries <- MCRegistries
  Payloads <- MCPayloads
  ReducePart = 4
  Epsilon = 1
  Precision = 100
  Currency = "THB"
  MaxCalls = 2
  CurrentFor = 1
  StaleFor = 2
  MaxTime = 1
  Stocks = {aot, bbl, cpall}
  SectorOf <- MCSectorOf
  Watched = {aot, bbl}
  Unsorted = other
  SectorLimits <- MCSectorLimits
  GlobalLimit = 400
  Analyses <- MCAnalyses
  Personas <- MCPersonas
  Readings <- MCReadings
  MaxDays = 3
  FirstDays <- MCFirstDays
  Baskets <- MCBaskets
  Multipliers = {0, 15}
  Moves = {60, 100}
  FirstBooks <- MCFirstBooks
  Deposit = 400
  MaxDisturbances = 1
  MaxAdvice = 2
SPECIFICATION PlanningSpec
CHECK_DEADLOCK FALSE
INVARIANTS
  ReleasesMatchShares
