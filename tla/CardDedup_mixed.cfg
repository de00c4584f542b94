\* A call of each kind in two processes, with every fault.
SPECIFICATION Spec
CONSTANTS
  r1 = r1  r2 = r2  r3 = r3  r4 = r4  s1 = s1  s2 = s2  s3 = s3  s4 = s4  p1 = p1  p2 = p2
  Request = {r1, r2, r3, r4}
  Slot = {s1, s2, s3, s4}
  Card = {c1, c2}
  Process = {p1, p2}
  Kind <- AllKinds
  Owner <- AllSlots
  Home <- AllHomes
  MaxRetries = 1
  Faults = {"db", "cache", "evict"}
  NoRequest = NoRequest
  NoCard = NoCard
SYMMETRY CardSymmetry
INVARIANT LocalHitIsTrue
CHECK_DEADLOCK FALSE
