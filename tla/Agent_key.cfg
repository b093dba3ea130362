SPECIFICATION Spec
CONSTANTS
  Second = 2
  Interval = 7
  MaxBusy = 10
  MaxLate = 3
INVARIANTS
  FreshKey
PROPERTIES
  KeySurvivesOneSkip
