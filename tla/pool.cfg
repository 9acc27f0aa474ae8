SPECIFICATION Spec
CONSTANTS
  Procs = {p1, p2, p3}
  Databases = {d1, d2}
  Credentials = {c1, c2}
  Saved = {"s1", "s2", "s3", "s4"}
  NoSaved = "none"
  NoPool = NoPool
  CloseErrors = TRUE
  MaxCalls = 4
SYMMETRY Interchangeable
INVARIANTS
  TypeOK
  ReachableMatch
  NoClosedPoolServed
PROPERTIES
  ImplementsCache
