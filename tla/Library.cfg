SPECIFICATION FairSpec
CONSTANTS
  Users = {u1, u2}
  Starters = {u1, u2}
  Creators = {u2}
  Stoppers = {u1}
  PoolCalls = {"attach"}
  MaxObjs = 2
  MaxTasks = 1
CHECK_DEADLOCK FALSE
INVARIANTS InitPromises UndefinedForCause TasksAccounted
PROPERTIES StopEventuallyOver
