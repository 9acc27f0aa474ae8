SPECIFICATION FairSpec
CONSTANTS
  Resources = {"r1", "r2"}
  Names = {"a", "b"}
  Masters = {"m"}
  Schemas = {"public", "s"}
  Extensions = {"x"}
  Plans <- DatabasePlans
INVARIANTS
  TypeOK
  Provisioned
  NoOrphanGroupRole
  ReadyInPlace
  NothingLeft
PROPERTIES
  DeletionCompletes
  Converges
