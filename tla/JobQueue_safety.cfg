SPECIFICATION Spec
CONSTANTS
  Jobs = {j1, j2}
  Keyed = {}
  Workers = {w1, w2}
  None = none
  Faults = {"crash", "push_error", "job_error", "release_error", "slow_segment"}
  MaxFaults = 1
SYMMETRY JobAndWorkerSymmetry
INVARIANTS
  QueueHasNoDuplicates
  MarkersAreBacked
  ProcessorsOwnTheLease
  NotDoneWhileProcessed
PROPERTIES
  DoneLeftOnlyByStaleWriters
