SPECIFICATION Spec
CONSTANTS
  u1 = u1
  f1 = f1
  f2 = f2
  r1 = r1
  r2 = r2
  Users = {u1}
  Families = {f1, f2}
  MaxGen = 3
  Requests = {r1, r2}
  Offered = {"login", "refresh", "logout", "replay", "bloquear", "redefinir"}
  SingleFlight = {f1}
  Nobody = Nobody
SYMMETRY Symmetry
INVARIANTS TypeOK OneLiveToken
PROPERTIES ImplementsFamilies BlockedStaysOut
