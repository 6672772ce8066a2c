SPECIFICATION StoreSpec
CONSTANTS
    a = a
    b = b
    Steps <- TwoSteps
    Plans <- SmallPlans
    Owners = {w1}
    NoOwner = NoOwner
    CapacityReasons = {tenantFull}
    MaxFence = 2
INVARIANTS NothingBeforePlanning QueuedAfterDependencies OneFinalEvent
PROPERTIES ExecutionRightIsUnique TerminalIsFinal OutcomeIsFinal
CHECK_DEADLOCK FALSE
