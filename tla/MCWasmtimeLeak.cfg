SPECIFICATION FairSpec
CONSTANTS
  Local = {}
  Remote = {}
  Calls = {k}
  Waits = {w}
  MaxBegun = 1
PROPERTIES
  NoLeak
CHECK_DEADLOCK FALSE
