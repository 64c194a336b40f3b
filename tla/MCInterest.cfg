SPECIFICATION Spec
CONSTANTS
  MaxPeriods = 10
  MaxPayments = 6
  Readers = {r1, r2}
  Schedule <- ScheduleDef
  Terms0 <- Terms0Def
  Opening = 40
  Days <- DaysDef
  Rates = {0}
  Installments = {30}
  Charges = {8}
  Payments = {25}
  Adjustments = {5}
  Fees = {7}
  Hours = {3}
  BankDates <- BankDatesDef
  Differences <- DifferencesDef
  DateWindow = 60
  MaxEntries = 4
  MaxEdits = 1
SYMMETRY Symmetry
PROPERTY ChargedOnPrincipal
INVARIANT DueDaysKeep
INVARIANT BalanceAddsUp
INVARIANT ForecastHolds
INVARIANT SuggestionIsLeast
CHECK_DEADLOCK FALSE
