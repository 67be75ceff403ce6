SPECIFICATION FairSpec
CONSTANTS
  Links = {l1, l2}
  Users = {u1, u2}
  Creators = {u1}
  Workers = {u2}
  Protocols = {"tcp", "udp"}
  Uninits = {"tcp"}
  Fds = {1, 2}
  MaxLeak = 1
CHECK_DEADLOCK FALSE
INVARIANTS ListSafe CallbacksOnce SocketsApart UninitComplete
PROPERTIES ClosingEventuallyGone ImplementsObject
