SPECIFICATION Spec
CONSTANTS
  m1 = m1
  m2 = m2
  m3 = m3
  NoMsg = NoMsg
  MAXIMUM_FIFO_SIZE = 2
  Writers = {w1, w2}
  Msgs = {m1, m2}
  Size <- SizeTwo
  K = 1
  Proto = "tcp"
  Faults = {}
  MaxIn = 0
INVARIANTS WholeFrames
