SPECIFICATION Spec
CONSTANTS
  Jobs = {j1, j2}
  Keyed = {j1, j2}
  Workers = {w1, w2, w3}
  None = none
  Faults = {"crash", "window_crash", "push_error", "late_heartbeat", "slow_segment", "job_error", "release_error"}
  MaxFaults = 2
SYMMETRY JobAndWorkerSymmetry
INVARIANTS
  GaugeCountsOwnedLeases
  OneRowPerKey
PROPERTIES
  OnlyOwnerReleases
  ImplementsDedupQueue
