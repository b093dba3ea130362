SPECIFICATION Spec
CONSTANTS
  NaN = NaN
  Unset = Unset
  bas = bas
  bms = bms
  srv = srv
  lan = lan
  Args <- StartArgs
  Lines <- FileLines
  MaxLines = 3
  MaxPort = 6
INVARIANTS
  LabelsRight
  RefusesExactly
PROPERTIES
  StartsOrEnds
