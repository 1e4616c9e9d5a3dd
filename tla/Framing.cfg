SPECIFICATION FairSpec
CONSTANTS
  MaxStream = 6
  MaxFrame = 3
  BufSize = 2
INVARIANTS
  LinesWhole
  LimitExact
  EndTold
PROPERTIES
  ImplementsQueue
  LinesArrive
