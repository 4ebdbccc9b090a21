SPECIFICATION FairSpec
CONSTANTS
  Receivers = {r1}
  Senders = {t1}
  Stream = s
  None = none
  Limit = 1
  Sizes = {1, 2}
  MaxMsgs = 3
INVARIANTS
  BudgetExact
PROPERTIES
  ReceivesReturn
  ImplementsContract
