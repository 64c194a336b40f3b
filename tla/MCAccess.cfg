SPECIFICATION AccessSpec
CONSTANTS
  Accounts = {u1, u2, u3}
  Requests = {r1, r2}
  MaxTokens = 2
  MaxPasswords = 2
  MaxChanges = 4
SYMMETRY Symmetry
INVARIANT AdminRemains
INVARIANT ChangeEndsOthers
INVARIANT DeactivationEndsSessions
PROPERTY MadeByAdmins
CHECK_DEADLOCK FALSE
