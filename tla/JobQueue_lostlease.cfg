SPECIFICATION Spec
CONSTANTS
  Jobs = {j1}
  Keyed = {}
  Workers = {w1, w2}
  None = none
  Faults = {"late_heartbeat"}
  MaxFaults = 1
INVARIANTS
  OneProcessorPerJob
