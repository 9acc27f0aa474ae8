SPECIFICATION Spec
CONSTANTS
  Engines = {"e1"}
  Databases = {"db1"}
  EngineOf <- OneDatabase
  Prefixes = {"A"}
  ImportUsers = {}
  ImportPasswords = {}
  Attributes = {"x"}
  Passwords = {1, 2, 3, 4, 5, 6, 7}
  MaxClock = 1
  Plans <- LostPlans
INVARIANTS
  PublishedWorks
