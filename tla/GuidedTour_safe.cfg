SPECIFICATION Spec
CONSTANTS
  First = 31
  Last = 33
  ObservationLimit = 2
  NoJob = NoJob
INVARIANTS
  LessonsEarned
  GuidedWithoutTools
  ModeNoticeKept
