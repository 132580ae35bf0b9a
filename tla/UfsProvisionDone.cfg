\* A size whose number of allocation units ends in the byte 255, and a rest.
SPECIFICATION FairSpec
CONSTANTS
  NumLuns = 3
  MaxRetries = 3
  Targets <- EdgeTargets
  Layouts <- NewLayouts
  Geometry <- LargeDevice
  Byte = 256
  Word = 16777216
  Outcomes = {"answered"}
INVARIANT
  DoneMeansConfigured
CHECK_DEADLOCK FALSE
