SPECIFICATION Spec
CONSTANTS
  u1 = u1
  u2 = u2
  u3 = u3
  p1 = p1
  p2 = p2
  p3 = p3
  r1 = r1
  r2 = r2
  r3 = r3
  Users = {u1, u2, u3}
  People = {p1, p2, p3}
  Tokens = {}
  Requests = {r1, r2, r3}
  Founders = {u1, u2}
  Offered = {"bloquear", "desbloquear", "semear"}
  Development = TRUE
  UpdateLocksKey = FALSE
  Nobody = Nobody
SYMMETRY Symmetry
INVARIANTS TypeOK TriggerIsBackstop
PROPERTY ImplementsGestorGuard
