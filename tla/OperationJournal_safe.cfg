SPECIFICATION Spec
CONSTANTS
  NOps = 2
  Keep = 0
  MaxRecoveries = 2
CHECK_DEADLOCK FALSE
INVARIANTS
  EffectHasIntent
  JournalTruthful
PROPERTIES
  UnknownIsKept
