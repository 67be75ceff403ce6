SPECIFICATION FairSpec
CONSTANTS
  Conns = {c1, c2, c3}
  MaxFds = 2
  Faults = {"enfile", "aborted", "oom", "destroy", "attach"}
CHECK_DEADLOCK FALSE
INVARIANTS NoLostAccept
PROPERTIES ListenerProgress
