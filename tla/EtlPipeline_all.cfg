\* Two runs over three sources, one request of binlist.net a run; and three
\* points of the quality's history. After the last run, and when time is at its
\* bound, the system stops.
SPECIFICATION Spec
CONSTANTS
  b1 = b1
  b2 = b2
  us = us
  ca = ca
  i1 = i1
  i2 = i2
  k1 = k1
  Missing = Missing
  Unasked = Unasked
  NoData = NoData
  Failed = Failed
  Code = {us, ca}
  Issuer = {i1, i2}
  BankCode = {k1}
  Bins <- TwoBins
  Listings <- MCListings
  Answers <- MCAnswers
  Limit = 1
  MaxRuns = 2
  Request = {1, 2}
  Days <- MCDays
  MaxPoints = 3
  MaxTime = 2
  NoMetrics = NoMetrics
INVARIANTS DisagreementIsReviewed MajorityOutvotes TrendIsNotInvented
PROPERTY LaterRunKeeps
CHECK_DEADLOCK FALSE
