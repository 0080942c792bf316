SPECIFICATION FairSpec
CONSTANTS
  a1 = a1  a2 = a2  b1 = b1
  p = p  q = q
  Caller = {a1, a2, b1}
  Process = {p, q}
  Home <- CallerHome
  Faulty = {q}
  Ttl = 3
  Nobody = Nobody
INVARIANTS
  LapsesAreLogged
  HealthyKeepsLease
PROPERTIES
  KeepsPromise
  CallsAreAnswered
CHECK_DEADLOCK FALSE
