SPECIFICATION Spec
CONSTANTS
  NaN = NaN
  Args <- UpArgs
  Tags = {"modbus-slave", "other"}
  MaxPort = 3
  MaxCount = 2
  MaxTries = 2
  MaxCommands = 2
  MaxVersion = 2
INVARIANT UpRunsItsImage
