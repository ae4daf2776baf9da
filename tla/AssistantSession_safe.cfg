CONSTANTS
    Symbols <- MCSymbols
    MaxInput = 6
    Frames <- MCFrames
    MaxFrames = 4
    Schema <- MCSchema
    None = None
    MaxBatch = 2
    Acts <- MCActs
    Ops = {o1}
    NoOp = NoOp
    MaxCalls = 2
    MaxContext = 5
    MaxHandles = 1
    Limit = 1
    Capped = TRUE
    Reserve = 1
    MaxTurns = 3
SPECIFICATION Spec
INVARIANTS BudgetKept HistoryPaired OneHolder AnswersReadWhole
PROPERTIES StoppedOffersNothing

CHECK_DEADLOCK FALSE
