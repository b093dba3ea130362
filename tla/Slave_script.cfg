SPECIFICATION Spec
CONSTANTS
  NaN = NaN
  Args <- UpArgs
  Tags = {"modbus-slave", "other"}
  MaxPort = 3
  MaxCount = 2
  MaxTries = 3
  MaxCommands = 3
  MaxVersion = 2
INVARIANTS
  TypeOK
  UpDelivers
  UpFresh
PROPERTIES
  ScriptEnds
