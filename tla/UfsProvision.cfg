\* Queries that are answered, fail, or are given up without an answer.
SPECIFICATION FairSpec
CONSTANTS
  NumLuns = 3
  MaxRetries = 3
  Targets <- SmallTargets
  Layouts <- AnyLayouts
  Geometry <- SmallDevice
  Byte = 256
  Word = 16777216
  Outcomes = {"answered", "failed", "silent"}
INVARIANTS
  TypeOK
  QuietRunConfigures
PROPERTIES
  ConfiguredUntouched
  Finishes
\* The function returns once.
CHECK_DEADLOCK FALSE
