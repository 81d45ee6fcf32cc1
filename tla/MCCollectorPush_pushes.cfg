SPECIFICATION FairSpec
CONSTANTS
  MinGap = 2
  MaxPushes = 4
  MaxTime = 4
  MaxSteps = 1
  MaxToggles = 1
INVARIANTS TypeOK NewestIsChecked
PROPERTIES InOrderAndApart PushesResolve
\* The bounds end every behaviour.
CHECK_DEADLOCK FALSE
