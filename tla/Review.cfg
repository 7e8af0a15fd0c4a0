SPECIFICATION ReviewSpec
CONSTANTS
  Keys = {k1, k2, k3, k4, k5}
  termA = termA
  termB = termB
  Symbols = {termA, termB}
  Contents <- MCContents
  MaxRevisions = 3
  NoPayload = NoPayload
  MaxAuthenticationAge = 2
  MaxStatusAge = 1
  MaxGrantAge = 1
  Lifetimes = {1, 2}
  MaxTime = 2
  MaxEvents = 2
  p1 = p1
  p2 = p2
  None = None
  Payloads = {p1, p2}
  t1 = t1
  Terms = {t1}
  Certificates <- MCCertificates
  AllowUnverifiable = TRUE
  MaxIssued = 2
  MaxFacts = 2
  x = x
  y = y
  z = z
  RegistrySymbols = {x, y, z}
  Listings <- MCListings
  Manual <- MCManual
  LotEvidence <- MCLotEvidence
  MaxCommits = 2
  MaxEvidence = 2
INVARIANTS
  ExecutionIsAuthorized
  CommandsTakeEffectOnce
  LossTakesEffect
  CertificatesSettle
  PreparationIsInformed
  ManifestsKeepTheRegistry
PROPERTIES
  ImplementsRevisions
  SymbolsKeepTheirListing
CHECK_DEADLOCK FALSE
