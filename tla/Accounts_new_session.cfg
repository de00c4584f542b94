SPECIFICATION Spec
CONSTANTS
  r1 = r1
  r2 = r2
  p1 = p1
  p2 = p2
  Request = {r1, r2}
  Proc = {p1, p2}
  ProcOf <- MCProcOf
  Profile <- MCProfile
  TokenLife = 2
  BlacklistLife = 2
  MaxStored = 3
  MaxResets = 2
INVARIANT NewSessionRefreshes
