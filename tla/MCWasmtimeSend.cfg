SPECIFICATION FairSpec
CONSTANTS
  Receivers = {r1}
  Senders = {t1}
  Stream = s
  None = none
  Limit = 1
  Sizes = {1}
  MaxMsgs = 0
PROPERTIES
  SendsReturn
