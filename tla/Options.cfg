SPECIFICATION Spec
CONSTANTS
  Threads = {t1, t2}
  Groups = {g1, g2}
  MaxCalls = 3
  Templates <- MCTemplates
  NoTemplate <- MCNoTemplate
CHECK_DEADLOCK FALSE
INVARIANTS SettingsKept ReadsWhole FrameFits
