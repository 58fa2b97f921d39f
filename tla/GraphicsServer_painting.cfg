CONSTANTS
  Content <- SomeContent
  MaxTrans = 4
SPECIFICATION FairSpec
INVARIANTS
  TypeOK
  OneOwner
  DirtyMeansWaiting
  PersistentUnderFrame
PROPERTIES
  ScaleCatchesUp
  ImplementsCanvas
  EventuallyShown
CHECK_DEADLOCK FALSE
