SPECIFICATION LiveSpec
CONSTANTS
    Actors = {"x", "y", "z"}
    Setups <- SmallSetups
    BatchSize = 2
INVARIANTS NoStepLost StepRunsOnce ApprovedBeforePublish
PROPERTIES Settles
CHECK_DEADLOCK FALSE
