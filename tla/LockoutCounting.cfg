SPECIFICATION Spec
CONSTANTS
  t1 = t1
  t2 = t2
  t3 = t3
  MaxAttempts = 3
  Window = 5
  Lock = 5
  Attempts = {t1, t2, t3}
  MaxDuration = 2
  MaxTime = 20
  Nobody = Nobody
SYMMETRY Symmetry
INVARIANTS TypeOK GuessesBounded LockFollowsLastFailure FreshStartAfterLock
CHECK_DEADLOCK FALSE
