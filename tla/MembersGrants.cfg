SPECIFICATION Spec
CONSTANTS
  u1 = u1
  u2 = u2
  u3 = u3
  p1 = p1
  p2 = p2
  t1 = t1
  t2 = t2
  r1 = r1
  r2 = r2
  Users = {u1, u2, u3}
  People = {p1, p2}
  Tokens = {t1, t2}
  Requests = {r1, r2}
  Founders = {}
  Offered = {"bootstrap", "convidar", "reemitir", "solicitar", "ativar", "redefinir", "desativar", "expirar"}
  Development = FALSE
  UpdateLocksKey = TRUE
  Nobody = Nobody
SYMMETRY Symmetry
INVARIANTS CredentialConsistency OneOpenGrant 
PROPERTY BootstrapOnlyWithoutGestor
