SPECIFICATION FairSpec
CONSTANTS
  Engines = {"e1"}
  Databases = {"db1"}
  EngineOf <- OneDatabase
  Prefixes = {"A"}
  ImportUsers = {"u", "v"}
  ImportPasswords = {1, 2}
  Attributes = {"x"}
  Passwords = {1, 2, 3, 4, 5, 6, 7}
  MaxClock = 3
  Plans <- RecoveryPlans
INVARIANTS
  PublishedWorks
  NoOrphanRole
PROPERTIES
  LiveRoleUntouched
  ConvergesUnused
