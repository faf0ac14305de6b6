SPECIFICATION Spec
CONSTANTS
  a1 = a1
  a2 = a2
  n1 = n1
  n2 = n2
  c1 = c1
  c2 = c2
  r1 = r1
  r2 = r2
  Atas = {a1, a2}
  Numeros = {n1, n2}
  Cnpjs = {c1, c2}
  Days = {1, 2, 3}
  Starts = {1}
  Totals = {8}
  Values = {1}
  Window = 1
  Requests = {r1, r2}
  Nobody = Nobody
  FirstYear = 2027
  LastYear = 2028
  AlertDays = 90
SYMMETRY Symmetry
INVARIANTS TypeOK ViewsAgree ReajusteFallsDue
PROPERTIES ImplementsLifecycle AuditTellsTheBefore
