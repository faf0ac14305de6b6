SPECIFICATION Spec
CONSTANTS
  u1 = u1
  u2 = u2
  p1 = p1
  p2 = p2
  t1 = t1
  r1 = r1
  r2 = r2
  Users = {u1, u2}
  People = {p1, p2}
  Tokens = {t1}
  Requests = {r1, r2}
  Founders = {u1}
  Offered = {"bloquear", "convidar", "ativar", "desbloquear", "login"}
  Development = FALSE
  UpdateLocksKey = FALSE
  Nobody = Nobody
SYMMETRY Symmetry
PROPERTY GrantSpentOnce
