SPECIFICATION FairSpec
CONSTANTS
  Divisions = {d0, d1}
  LinkDiv = d0
  Writers = {w1}
  MaxMsgs = 3
  PipeCap = 2
  MaxDgrams = 2
CHECK_DEADLOCK FALSE
INVARIANTS NoUnheardDatagram AwokenInOrder CallbackOrder
PROPERTIES AwokenEventuallyRead
