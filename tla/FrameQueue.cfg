SPECIFICATION FairSpec
CONSTANTS
  MaxFrames = 14
  Burst = 6
INVARIANTS
  TypeOK
  LatestFrames
  BacklogBounded
PROPERTIES
  NeverBackwards
  DrawnIsRecent
  NeverBlankAgain
  LastFrameShown
  ImplementsPicture
