SPECIFICATION Spec
CONSTANTS
  s1 = s1
  s2 = s2
  a = a
  b = b
  c = c
  Sections = {s1}
  Guarded = {}
  Contents = {a, b, c}
  Modes = {"agent"}
  Checked = FALSE
  KeepsConfirmed = FALSE
  WindowEdits = TRUE
  MaxChain = 1
  MaxPending = 2
  MaxDetached = 0
  DetachedOn = {}
  MaxJobs = 1
  MaxSessions = 2
  MaxEdits = 1
  MaxRouterEdits = 2
  MaxTimeouts = 0
  MaxCrashes = 0
INVARIANTS NoUnseenEditOverwritten
SYMMETRY Symmetry
\* The bounds end every behaviour: nothing is left to do once they are spent.
CHECK_DEADLOCK FALSE
