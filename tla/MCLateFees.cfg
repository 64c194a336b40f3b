SPECIFICATION Spec
CONSTANTS
  Readers = {r1, r2}
  MaxDay = 2
  MaxPayments = 1
  MaxUndos = 1
  Base = 2
  FixedFee = 3
  Grace = 0
  Cap = 2
  Switches = TRUE
  Straddle = FALSE
SYMMETRY Symmetry
INVARIANT FinedOncePerDate
INVARIANT KnownPaidIsNotFined
 
PROPERTY MissedIsFined
