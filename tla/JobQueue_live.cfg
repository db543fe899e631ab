SPECIFICATION LiveSpec
CONSTANTS
  Jobs = {j1, j2}
  Keyed = {}
  Workers = {w1, w2}
  None = none
  Faults = {"crash", "push_error", "job_error", "release_error", "slow_segment", "late_heartbeat", "lost_reply"}
  MaxFaults = 1
PROPERTIES
  JobsFinish
  CancelEndsTheJob
