SPECIFICATION JobsSpec
CONSTANTS
  b1 = b1
  b2 = b2
  s1 = s1
  s2 = s2
  r1 = r1
  r2 = r2
  p1 = p1
  Batches = {b1, b2}
  Jobs = {b1}
  Listed <- MCListed
  Symbols = {s1, s2}
  Permits = 1
  Threads = 1
  Runs = {r1, r2}
  Portfolios = {p1}
  PortfolioOf <- MCPortfolioOf
  ColumnsOf <- MCColumnsOf
  PatchedOf <- MCPatchedOf
  IndexesOf <- MCIndexesOf
  Stocks = {s1, s2}
  FirstDatabases <- MCFirstDatabases
  MaxPortfolio = 3
  MaxShares = 2
  MaxChanges = 3
  StaleAfter = 3
  Retention = 2
INVARIANTS
  AnalysesAreAccountedFor
  ProgressIsTruthful
PROPERTIES
  JobsSettle
  InterruptionsShowInIndexesOnly
CHECK_DEADLOCK FALSE
