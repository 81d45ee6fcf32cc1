SPECIFICATION Spec
CONSTANTS
  d1 = d1
  d2 = d2
  t1 = t1
  t2 = t2
  t3 = t3
  Devices = {d1}
  Fleet = fleet
  Activities = {t1, t2, t3}
  None = None
  MaxPending = 2
  MaxDevices = 1
INVARIANT AllOneAtATime
