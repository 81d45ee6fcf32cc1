SPECIFICATION Spec
CONSTANTS
  a = a
  b = b
  c = c
  Alerts = {a, b, c}
  Grouping = TRUE
  FlapThresholds = {1, 2}
  MaxItems = 2
  MaxEvents = 4
INVARIANTS TypeOK AlarmStands NoAlarmAfterAllClear
SYMMETRY Symmetry
\* The bounds end every behaviour: nothing is left to do once they are spent.
CHECK_DEADLOCK FALSE
