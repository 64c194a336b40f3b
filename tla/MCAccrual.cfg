SPECIFICATION Spec
CONSTANTS
  Editors = {e1}
  Readers = {r1, r2}
  Created = 1
  MaxDay = 2
  MaxItems = 2
  Straddle = FALSE
  Parallel = FALSE
  Schedules <- BothRules
  NoSchedule = NoSchedule
  MaxPeriods = 5
SYMMETRY Symmetry
INVARIANT BilledAsOfDue
INVARIANT NoDayBilledTwice
PROPERTY CaughtUp
PROPERTY PastIsFixed
