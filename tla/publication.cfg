SPECIFICATION FairSpec
CONSTANTS
  PubNames = {"p", "q"}
  SlotNames = {"p", "q", "s"}
  Schemas = {"s1", "s2"}
  Tables <- ThreeTables
  Selections <- SomeSelections
  Owners = {"o1", "o2"}
  Plans <- PublicationPlans
INVARIANTS
  TypeOK
  PublishedAsAsked
  NoOrphanPublication
  NothingLeft
PROPERTIES
  NoIdleUpdate
  DeletionCompletes
  Converges
