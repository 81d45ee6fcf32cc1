SPECIFICATION FairSpec
CONSTANTS
  c1 = c1
  c2 = c2
  Calls = {c1, c2}
  Admin = TRUE
  MaxSessions = 2
  MaxDecisions = 1
  MaxAsks = 2
  MaxInbound = 1
INVARIANTS TypeOK OnlyCurrentWorks OwnAnswer ContextIsLive
PROPERTIES BusyOnlyWhenFull CallsEnd
\* The bounds end every behaviour.
CHECK_DEADLOCK FALSE
