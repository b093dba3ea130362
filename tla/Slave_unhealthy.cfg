SPECIFICATION Spec
CONSTANTS
  NaN = NaN
  Args <- UpArgs
  Tags = {"modbus-slave"}
  MaxPort = 3
  MaxCount = 2
  MaxTries = 2
  MaxCommands = 2
  MaxVersion = 1
INVARIANT UpAllHealthy
