SPECIFICATION SnapshotsSpec
CONSTANTS
  Generations = {r1}
  Prices = {1, 2}
  Costs = {1}
  CashMoves <- UpAndDown
  ShareMoves <- UpAndDown
  StartCash = 1
  StartShares = 0
  MaxDay = 3
  MaxTxs = 2
  MaxWrites = 3
  Closes = {1, 2}
  ImportCosts = {2}
  Opening = 2
  LastDate = 3
  MaxEntries = 3
  MaxGenerations = 2
  MaxRewrites = 1
INVARIANTS
  ReturnsStripFlows
  RowsAddUp
  RewrittenReturnsChain
  RebuiltReturnsArePerformance
CHECK_DEADLOCK FALSE
