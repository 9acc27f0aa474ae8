SPECIFICATION FairSpec
CONSTANTS
  Engines = {"e1"}
  Databases = {"db1"}
  EngineOf <- OneDatabase
  Prefixes = {"A"}
  ImportUsers = {}
  ImportPasswords = {}
  Attributes = {"x"}
  Passwords = {1, 2, 3, 4, 5, 6, 7}
  MaxClock = 2
  Plans <- StuckPlans
PROPERTIES
  Converges
