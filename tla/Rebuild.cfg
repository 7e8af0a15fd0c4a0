SPECIFICATION RebuildSpec
CONSTANTS
  s1 = s1
  Symbols = {s1}
  NoSymbol = NoSymbol
  Canonical <- Identity
  SellTolerance = 1
  Dust = 2
  Clients = {}
  Quantities = {3}
  Amounts = {1}
  Days = {1}
  MaxLedger = 3
INVARIANTS
  PortfolioFollowsEffectiveLedger
PROPERTIES
  RebuildKeepsItsPlan
  RebuildPassesTheGate
  RepairsLeaveOne
CHECK_DEADLOCK FALSE
