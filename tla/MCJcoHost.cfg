SPECIFICATION FairSpec
CONSTANTS
  Receivers = {r1, r2}
  Stream = stream
  Senders = {s1, t1}
  Streamed = {t1}
  Sizes = {1, 2}
  Limit = 1
  MaxMsgs = 2
  MaxOut = 0
  MaxItems = 2
INVARIANTS
  TypeOK
  SendBufferBounded
  NoWaitWhenConnected
PROPERTIES
  CallsReturn
  ImplementsContract
CHECK_DEADLOCK FALSE
