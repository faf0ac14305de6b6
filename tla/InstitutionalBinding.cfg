SPECIFICATION Spec
CONSTANTS
  u1 = u1
  u2 = u2
  p1 = p1
  p2 = p2
  s1 = s1
  s2 = s2
  b1 = b1
  f1 = f1
  f2 = f2
  c1 = c1
  c2 = c2
  Users = {u1, u2}
  People = {p1, p2}
  Subjects = {s1, s2}
  Browsers = {b1}
  Flows = {f1, f2}
  Calls = {c1, c2}
  Nobody = Nobody
SYMMETRY Symmetry
INVARIANTS TypeOK OwnCodeOnly IdentityConsistent EmailChangeDoesNotOrphan AnsweredAsRecorded
