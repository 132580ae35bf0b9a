\* A screen of two cells by three lines; the main write and one handler.
SPECIFICATION FairSpec
CONSTANTS
  Columns = 2
  MaxY = 6
  Scale = 2
  Uninitialised = {TRUE, FALSE}
  MaxText = 2
  MaxDepth = 3
  MaxWrites = 3
INVARIANTS
  TypeOK
  PaintsInside
  ColourOfCritical
PROPERTIES
  InterruptsKept
  WritesReturn
CHECK_DEADLOCK FALSE
