SPECIFICATION Spec
CONSTANTS
  Addresses = {"", "0.0.0.0", "127.0.0.1", "10.0.0.1", "::", "[::]", "::1"}
  Paths = {"", "/run/modbus/state.json", "/state"}
  Launches <- PortInEnv
  MaxRestarts = 0
INVARIANT ServingPasses
