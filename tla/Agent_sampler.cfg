SPECIFICATION Spec
CONSTANTS
  Names = {a}
  MaxSent = 2
  MaxCycles = 2
  StatsFail = TRUE
  Metrics = 2
INVARIANTS
  TypeOK
  RatesHonest
  OnceDelivers
  ScrapeOneCycle
PROPERTIES
  StopsOnSignal
