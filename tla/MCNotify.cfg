SPECIFICATION FairSpec
CONSTANTS
  Ticks = {1, 2}
  Places <- TwoPlaces
  RoleOf <- Roles
  Reachable <- TwoPlaces
  Dues <- OneDue
  Leads <- BothLeads
  Lookback = 1
  MaxPerTick = 1
  LastDay = 1
  MaxPayments = 1
  MaxChanges = 1
  MaxMishaps = 1
INVARIANT ToldOnce
INVARIANT ClaimedWasTold
INVARIANT RetractedIsNotTold
PROPERTY QuietMeansDone
PROPERTY EveryoneIsTold
