\* Leases long enough: exclusive reservations across two processes.
SPECIFICATION Spec
CONSTANTS
  r1 = r1  r2 = r2  r3 = r3  n1 = n1  n2 = n2  p1 = p1  p2 = p2
  Request = {r1, r2, r3}
  Card = {c1, c2}
  Conn = {n1, n2}
  Process = {p1, p2}
  Home <- TwoProcesses
  MaxRetries = 1
  Faults = {"cache", "recycle", "crash"}
  NoRequest = NoRequest
  NoCard = NoCard
INVARIANT ReservationBacked FreshUntilCreate
CHECK_DEADLOCK FALSE
