SPECIFICATION Spec
CONSTANTS
  s1 = s1
  Symbols = {s1}
  NoSymbol = NoSymbol
  Canonical <- Identity
  SellTolerance = 1
  Dust = 2
  Clients = {c1}
  Quantities = {3}
  Amounts = {1}
  Days = {1, 2}
  MaxLedger = 2
PROPERTIES
  BuyReducesCash
CHECK_DEADLOCK FALSE
