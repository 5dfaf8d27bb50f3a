SPECIFICATION Spec
CONSTANTS
  Keys = {"a", "b", "c", "d", "e"}
  Hash <- MCHash
  MaxSize = 32
  MaxDib = 1
  MaxMove = 1
  Sizes = {0, 3}
  Ats = {0, 31}
INVARIANTS TypeOK EmptyBucketLeft Reachable RobinHood
PROPERTIES ImplementsSet NoSpaceExplosion
