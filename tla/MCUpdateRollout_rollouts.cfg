SPECIFICATION FairSpec
CONSTANTS
  NumDevices = 3
  BatchSize = 2
  StopOnFailure = TRUE
  MaxEvents = 3
INVARIANTS TypeOK 
PROPERTIES NothingAfterFailure RolloutEnds
\* The bounds end every behaviour: nothing is left to do once they are spent.
CHECK_DEADLOCK FALSE
