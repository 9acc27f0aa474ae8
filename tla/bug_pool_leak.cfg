SPECIFICATION Spec
CONSTANTS
  Procs = {p1}
  Databases = {d1}
  Credentials = {c1, c2}
  Saved = {"s1", "s2"}
  NoSaved = "none"
  NoPool = NoPool
  CloseErrors = FALSE
  MaxCalls = 2
SYMMETRY Interchangeable
INVARIANTS
  NoLeakedPool
