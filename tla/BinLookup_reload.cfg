\* Readers of one BIN beside two runs that load it.
SPECIFICATION FairSpec
CONSTANTS
  b1 = b1  b2 = b2  l1 = l1  l2 = l2  v1 = v1  q1 = q1  q2 = q2  p1 = p1  p2 = p2
  Bin = {b1}
  Load = {l1, l2}
  VersionOf <- OneVersion
  Records <- LoadB1
  Partial <- NoneOf
  Invalid <- NoneOf
  Original = {}
  Process = {p1, p2}
  Reader = {q1, q2}
  Home <- TwoProcesses
  Wants <- OnlyB1
  Bits <- SharedBits
  Faults = {}
  Nobody = Nobody  None = None  Unknown = Unknown  Null = Null  Error = Error
INVARIANT TableFollowsRuns
PROPERTY StaleEntriesDie
\* The script and the readers may all be done.
CHECK_DEADLOCK FALSE
