SPECIFICATION ListenerSpec
CONSTANTS
  Conns = {c1, c2, c3}
  MaxFds = 2
  Faults = {}
CHECK_DEADLOCK FALSE
PROPERTIES ListenerRetained
