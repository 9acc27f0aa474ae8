SPECIFICATION FairSpec
CONSTANTS
  Engines = {"e1"}
  Databases = {"db1", "db2"}
  EngineOf <- SharedEngine
  Prefixes = {"A", "B"}
  ImportUsers = {}
  ImportPasswords = {}
  Attributes = {"x", "y"}
  Passwords = {1, 2, 3, 4, 5, 6, 7}
  MaxClock = 1
  Plans <- EditPlans
INVARIANTS
  SecretsMatch
  RightsMatch
  NoOrphanRole
  NothingLeft
PROPERTIES
  DeletionCompletes
  EditsSettle
