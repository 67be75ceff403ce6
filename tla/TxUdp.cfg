SPECIFICATION Spec
CONSTANTS
  m1 = m1
  m2 = m2
  m3 = m3
  NoMsg = NoMsg
  MAXIMUM_FIFO_SIZE = 2
  Writers = {w1}
  Msgs = {m1, m2, m3}
  Size <- SizeOne
  K = 1
  Proto = "udp"
  Faults = {}
  MaxIn = 0
PROPERTIES PopOnlySent
