SPECIFICATION FairSpec
CONSTANTS
  Rooms = {r1}
  Roles = {"offerer"}
  Blobs = {b1, b2}
  NoBlob = NoBlob
  Gets = {q1}
  MaxRooms = 1
  MaxBlobs = 1
  BlobBound = 2
  GenBound = 2
INVARIANTS
  TypeOK
  AnswersAgree
  MissesOnlyWhenReplaced
PROPERTIES
  GetsAnswered
