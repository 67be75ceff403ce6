SPECIFICATION FairSpec
CONSTANTS
  Hows = {"connect", "connect2", "accept"}
  FaultSets = {{"fail", "fin", "reset", "destroy"},
               {"fail", "fin", "reset", "destroy", "oom"},
               {"fail", "immediate", "fin", "reset", "destroy", "oom"}}
  MaxData = 2
CHECK_DEADLOCK FALSE
INVARIANTS CallbackOrder NoUnheardInput DueDelivered
PROPERTIES HangupEventuallyClosed ConnectAnswered
