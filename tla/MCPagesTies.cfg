SPECIFICATION Spec
CONSTANTS
  Users = {ann, bob, cid}
  Admins = {ann, cid}
  Trusted = {cid}
  Creator = bob
  Payee = ann
  Kind = "services"
  Lines = {1, 2}
  PostedOn <- SameDay
  Received <- Bank
  Named = {}
  Paid = {95, 105}
  Charged = {100}
  Methods = {"transfer"}
  ItemIds = {i1}
  Prices = {60}
  Settings <- MCSettings
  Defaults <- MCDefaults
  LastDay = 0
  MaxRequests = 4
  RecentShown = 20
INVARIANT TiePairsConfirmable
CHECK_DEADLOCK FALSE
