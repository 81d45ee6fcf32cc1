SPECIFICATION Spec
CONSTANTS
  s1 = s1
  s2 = s2
  a = a
  b = b
  c = c
  Sections = {s1, s2}
  Guarded = {s2}
  Contents = {a, b}
  Modes = {"agent"}
  Checked = FALSE
  KeepsConfirmed = FALSE
  WindowEdits = FALSE
  MaxChain = 2
  MaxPending = 2
  MaxDetached = 1
  DetachedOn = {"chainNext"}
  MaxJobs = 2
  MaxSessions = 2
  MaxEdits = 2
  MaxRouterEdits = 0
  MaxTimeouts = 0
  MaxCrashes = 0
INVARIANTS TaskHoldsJob OneOpen
PROPERTIES KeepsPromise CarriedRowsHold
SYMMETRY Symmetry
\* The bounds end every behaviour: nothing is left to do once they are spent.
CHECK_DEADLOCK FALSE
