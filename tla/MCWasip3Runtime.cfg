SPECIFICATION Spec
CONSTANTS
  Channels = {c1}
  Tasks = {t1, t2}
  Limit = 2
  MaxMsgs = 3
  MaxOut = 1
  Workloads <- MCWorkloads
SYMMETRY TaskSymmetry
INVARIANTS
  TypeOK
  OverMeansClosed
  BacklogInOrder
  BytesExact
  NoLostWakeup
  NoSendDiscarded
PROPERTIES
  EndingIsFinal
  ImplementsContract
