CONSTANTS
  MaxUser = 3
  MaxLoad = 3
  MaxAdd = 1
  MaxUrls = 2
SPECIFICATION FairSpec
INVARIANTS TypeOK ViewFollows
PROPERTIES   SliderReleased
CHECK_DEADLOCK FALSE
