SPECIFICATION Spec
CONSTANTS
  Conns = {c1, c2}
  MaxConns = 1
PROPERTY SignalExits
