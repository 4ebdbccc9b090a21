SPECIFICATION Spec
CONSTANTS
  Channels = {c1}
  Tasks = {t1, t2}
  Limit = 1
  MaxMsgs = 1
  MaxOut = 1
  Workloads <- MCWorkloads
INVARIANTS
  ClaimedOnce
