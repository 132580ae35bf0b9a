\* Late answers, stale interrupts, fatal errors, refusals.
SPECIFICATION FairSpec
CONSTANTS
  Scalars = {"bBootLunEn"}
  Descriptors = {}
  Blocks = {"block"}
  Values = {0, 1}
  Zero = 0
  Polls = 1
  Answers = {"done", "refused", "check"}
INVARIANTS
  TypeOK
  AnsweredOnce
PROPERTY
  CallReturns
