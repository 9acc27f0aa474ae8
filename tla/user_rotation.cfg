SPECIFICATION Spec
CONSTANTS
  Engines = {"e1", "e2"}
  Databases = {"db1", "db2"}
  EngineOf <- TwoDatabases
  Prefixes = {"A"}
  ImportUsers = {}
  ImportPasswords = {}
  Attributes = {"x"}
  Passwords = {1, 2, 3, 4, 5, 6, 7}
  MaxClock = 3
  Plans <- RotationPlans
INVARIANTS
  TypeOK
  PublishedWorks
  NoOrphanRole
PROPERTIES
  CurrentRoleKept
