SPECIFICATION Spec
CONSTANTS
  MaxJobs = 1
  MaxRestages = 1
  MaxEvents = 1
INVARIANTS OneOpenJob
\* The bounds end every behaviour: nothing is left to do once they are spent.
CHECK_DEADLOCK FALSE
