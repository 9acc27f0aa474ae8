SPECIFICATION FairSpec
CONSTANTS
  Hosts = {1, 2}
  Secrets = {"s1", "s2"}
  GoodSecrets = {"s1"}
  Databases = {"postgres", "a"}
  DefaultDatabase = "postgres"
  Clients = {"d"}
  Plans <- EnginePlans
INVARIANTS
  TypeOK
  PoolsFollow
  PingedAsAsked
  NoPoolLeft
PROPERTIES
  WaitHonoured
  DeletionCompletes
  Converges
  FailureNoticed
