SPECIFICATION FairSpec
CONSTANTS
  r1 = r1
  r2 = r2
  c1 = c1
  c2 = c2
  Requests = {r1, r2}
  Conexoes = {c1, c2}
  Threads = {1, 2}
  Rotas = {"login", "me", "atas"}
  Nobody = Nobody
INVARIANTS TypeOK NoneLeaked RefusedAsRecorded SuccessIsKept RestartSparesNewcomers BlockedIsRefused
PROPERTIES EveryRequestEnds
