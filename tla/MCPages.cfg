SPECIFICATION Spec
CONSTANTS
  Users = {ann, bob, cid}
  Admins = {ann, cid}
  Trusted = {cid}
  Creator = bob
  Payee = ann
  Kind = "services"
  Lines = {1, 2}
  PostedOn <- Posted
  Received <- Bank
  Named = {1}
  Paid = {95, 100}
  Charged = {100}
  Methods = {"transfer"}
  ItemIds = {i1}
  Prices = {60}
  Settings <- MCSettings
  Defaults <- MCDefaults
  LastDay = 1
  MaxRequests = 4
  RecentShown = 20
INVARIANT OfferedIsAccepted
INVARIANT FilterAgrees
INVARIANT SuggestionsAreFair
INVARIANT DecisionIsReversible
CHECK_DEADLOCK FALSE
