SPECIFICATION Spec
CONSTANTS
  Conns = {c1, c2, c3}
  MaxConns = 1
INVARIANTS
  TypeOK
  Accounting
  SocketsBounded
  CleanServeResult
  AtMostOneEscapes
PROPERTIES
  LimiterSpec
  EveryDialDecided
  NothingLeaks
  SignalExitsUnlessEscaped
