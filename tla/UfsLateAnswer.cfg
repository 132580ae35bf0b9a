\* A command that is answered after its time-out, while the next one waits.
SPECIFICATION FairSpec
CONSTANTS
  Scalars = {}
  Descriptors = {}
  Blocks = {"block"}
  Values = {0, 1}
  Zero = 0
  Polls = 0
  Answers = {"done"}
INVARIANT
  CommandReportsItsResult
