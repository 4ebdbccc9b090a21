SPECIFICATION SessionFairSpec
CONSTANTS
  Rooms = {r1}
  Room = r1
  Roles = {"offerer", "answerer"}
  Blobs <- MCBlobs
  NoBlob = 0
  Gets = {"answerer"}
  MaxRooms = 0
  MaxBlobs = 0
  BlobBound = 2
  GenBound = 1
  SendBound = 3
PROPERTIES
  ImplementsContract
  DoneArrives
