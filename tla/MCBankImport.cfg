SPECIFICATION Spec
CONSTANTS
  DateLayouts <- OneLayout
  Users = {u1, u2, u3}
  Requests = {r1, r2}
  Files = {"june", "july"}
  File <- TwoFiles
  Mappings <- Turned
  Texts = {"ren"}
  Containing <- RentOnly
  MaxPending = 2
  Attempts = 2
  MaxTokens = 3
  MaxImports = 2
  MaxFaults = 1
  MaxChanges = 2
SYMMETRY Symmetry
INVARIANT CountsAddUp
INVARIANT RuleCatches
INVARIANT NeverDeadlocked
INVARIANT EvictedByMany
PROPERTY ImplementsStatements
CHECK_DEADLOCK FALSE
