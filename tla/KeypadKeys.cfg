\* Any presses of the three keys, and resets, with polls at uneven intervals.
SPECIFICATION FairSpec
CONSTANTS
  Debounce = 2
  RepeatAfter = 3
  LongAfter = 4
  Deltas = {1, 3}
INVARIANTS
  TypeOK
  CombinationIsFresh
PROPERTIES
  ReportedOnce
  KeysSettle
