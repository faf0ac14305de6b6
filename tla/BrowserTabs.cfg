CONSTANTS
    t1 = t1
    t2 = t2
    c1 = c1
    c2 = c2
    Nobody = Nobody
    Tabs = {t1, t2}
    Calls = {c1, c2}
    p1 = p1
    p2 = p2
    Pedidos = {p1, p2}
    MaxToken = 2
    HasLocks = TRUE

SPECIFICATION FairSpec

INVARIANTS TypeOK OneTokenAlive
PROPERTY ReplayHasAReason
PROPERTY CallsSettle
