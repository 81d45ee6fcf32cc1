SPECIFICATION FairSpec
CONSTANTS
  d1 = d1
  d2 = d2
  t1 = t1
  t2 = t2
  t3 = t3
  Devices = {d1, d2}
  Fleet = fleet
  Activities = {t1, t2, t3}
  None = None
  MaxPending = 2
  MaxDevices = 2
INVARIANTS TypeOK OneAtATime CountsMatch
PROPERTIES TakesTurns EveryTaskStarts
