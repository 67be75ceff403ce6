SPECIFICATION FairSpec
CONSTANTS
  Headers = {0, 1, 2}
  TCP_BUFFER_SIZE = 5
  TCP_MAXIMUM_PACKET_SIZE = 10
  NPackets = 2
  UserSizes <- AllSizes
CHECK_DEADLOCK FALSE
INVARIANTS BufferBounds DeliveredExactly MalformedCloses
PROPERTIES EventuallyDelivered
