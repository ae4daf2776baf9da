SPECIFICATION FairSpec
CONSTANTS
  o1 = o1
  o2 = o2
  Ops = {o1, o2}
  MaxSession = 2
  ChannelLimit = 2
  Other = Other
  NoEvent = NoEvent
  NoOp = NoOp
  NoJob = NoJob
  Initialise = Initialise
  Inspection = Inspection
CHECK_DEADLOCK FALSE
INVARIANTS
  MutationsAreAwaited
  OnlyApprovedRun
  ApprovalsRecorded
PROPERTIES
  AnsweredAsShown
  QuitCompletes
