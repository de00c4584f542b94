\* A reader of two BINs, of which the second is missing and sets the bits of the
\* first, beside a run of the loader and its rollback.
SPECIFICATION Spec
CONSTANTS
  b1 = b1  b2 = b2  l1 = l1  l2 = l2  v1 = v1  q1 = q1  q2 = q2  p1 = p1  p2 = p2
  Bin = {b1, b2}
  Load = {l1}
  VersionOf <- OneVersion
  Records <- LoadB1
  Partial <- PartialB1
  Invalid <- NoneOf
  Original = {b1}
  Process = {p1}
  Reader = {q1}
  Home <- OneProcess
  Wants <- Both
  Bits <- SharedBits
  Faults = {"db", "etl", "redis", "restart"}
  Nobody = Nobody  None = None  Unknown = Unknown  Null = Null  Error = Error
INVARIANT NothingMadeUp
\* The script and the readers may all be done.
CHECK_DEADLOCK FALSE
