SPECIFICATION FairSpec
CONSTANTS
  Local = {a, b}
  Remote = {x, y}
  Calls = {k}
  Waits = {v, w}
  MaxBegun = 2
INVARIANTS
  OfferCovers
  NoMissedTransition
  StreamsEndLast
PROPERTIES
  OffersReturn
  TearsDown
CHECK_DEADLOCK FALSE
