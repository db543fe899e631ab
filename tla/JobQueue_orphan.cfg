SPECIFICATION FairSpec
CONSTANTS
  Jobs = {j1}
  Keyed = {}
  Workers = {w1, w2}
  None = none
  Faults = {"window_crash"}
  MaxFaults = 1
PROPERTIES
  JobsFinish
