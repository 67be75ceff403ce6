SPECIFICATION FairSpec
CONSTANTS
  m1 = m1
  m2 = m2
  m3 = m3
  NoMsg = NoMsg
  MAXIMUM_FIFO_SIZE = 2
  Writers = {w1}
  Msgs = {m1, m2, m3}
  Size <- SizeTwoOne
  K = 1
  Proto = "tcp"
  Faults = {"destroy"}
  MaxIn = 0
INVARIANTS TypeOK
PROPERTIES ImplementsOrderedTx QueuedEventuallySent ClosingEventuallyClosed
