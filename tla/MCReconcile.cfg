SPECIFICATION Spec
CONSTANTS
  Requests = {q1, q2}
  l1 = l1
  l2 = l2
  Lines = {l1, l2}
  Bank <- TwoLines
  Amounts = {2, 3}
  Tolerance = 1
  MaxPosted = 3
  MaxMatches = 2
  MaxReviews = 1
SYMMETRY Symmetry
INVARIANT OneDecision
INVARIANT LineTellsTheTruth
INVARIANT DifferenceFollowsMatch
INVARIANT RefusedIsUndone
INVARIANT BalanceExplained
