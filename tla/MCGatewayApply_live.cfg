SPECIFICATION FairSpec
CONSTANTS
  s1 = s1
  s2 = s2
  a = a
  b = b
  c = c
  Sections = {s1}
  Guarded = {}
  Contents = {a, b}
  Modes = {"agent", "admin_and_agent"}
  Checked = FALSE
  KeepsConfirmed = FALSE
  WindowEdits = FALSE
  MaxChain = 1
  MaxPending = 2
  MaxDetached = 0
  DetachedOn = {}
  MaxJobs = 1
  MaxSessions = 2
  MaxEdits = 1
  MaxRouterEdits = 0
  MaxTimeouts = 1
  MaxCrashes = 0
PROPERTIES JobsEnd
\* The bounds end every behaviour: nothing is left to do once they are spent.
CHECK_DEADLOCK FALSE
