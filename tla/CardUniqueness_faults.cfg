\* Everything that can go wrong, two requests sharing a connection pool.
SPECIFICATION Spec
CONSTANTS
  r1 = r1  r2 = r2  r3 = r3  n1 = n1  n2 = n2  p1 = p1  p2 = p2
  Request = {r1, r2}
  Card = {c1, c2}
  Conn = {n1, n2}
  Process = {p1}
  Home <- OneProcess
  MaxRetries = 2
  Faults = {"db", "cache", "lease", "recycle", "crash"}
  NoRequest = NoRequest
  NoCard = NoCard
SYMMETRY CardSymmetry
PROPERTY RegistryRefined
CHECK_DEADLOCK FALSE
