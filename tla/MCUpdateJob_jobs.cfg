SPECIFICATION FairSpec
CONSTANTS
  MaxJobs = 1
  MaxRestages = 1
  MaxEvents = 2
INVARIANTS TypeOK OneOpenUnlessReopened VerdictIsTrue NeverBoth
PROPERTIES InstallsOpenJobs KeyGivenBack
\* The bounds end every behaviour: nothing is left to do once they are spent.
CHECK_DEADLOCK FALSE
