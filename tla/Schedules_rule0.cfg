SPECIFICATION ScheduleSpec
CONSTANTS
  Users = {ana, ben}
  Workers = {w1, w2}
  Crons = {"minutely"}
  Fires <- MCFires
  NoUser = nobody
  MaxTime = 2
  MaxRows = 2
  MaxManual = 1
  MaxQueue = 2
  MaxUpsets = 2
SYMMETRY Alike
INVARIANT EveryRuleIsAnswered
CHECK_DEADLOCK FALSE
