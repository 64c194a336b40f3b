\* No symmetry: it is not sound for liveness.
SPECIFICATION FairSpec
CONSTANTS
  Procs = {p1, p2}
  Tabs = {t1}
  FormKeys = {k1}
  Cycles = {d1}
  Amounts = {1}
  MaxSeq = 4
INVARIANTS
  ClaimedTogether
PROPERTIES
  TruthfulReply
  ImplementsBook
  EveryPostingAnswered
