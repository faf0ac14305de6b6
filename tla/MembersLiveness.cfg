SPECIFICATION FairSpec
CONSTANTS
  u1 = u1
  u2 = u2
  p1 = p1
  p2 = p2
  t1 = t1
  r1 = r1
  r2 = r2
  Users = {u1, u2}
  People = {p1, p2}
  Tokens = {t1}
  Requests = {r1, r2}
  Founders = {u1, u2}
  Offered = {"desativar", "solicitar", "login", "refresh", "logout"}
  Development = FALSE
  UpdateLocksKey = FALSE
  Nobody = Nobody
PROPERTY RequestsFinish
