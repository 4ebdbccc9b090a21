SPECIFICATION FairSpec
CONSTANTS
  Channels = {c1}
  Tasks = {t1}
  Limit = 1
  MaxMsgs = 1
  MaxOut = 1
  Workloads <- MCWorkloads
PROPERTIES
  CloseStopsPump
  CallsResolve
