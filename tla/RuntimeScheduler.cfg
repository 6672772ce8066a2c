SPECIFICATION FairSpec
CONSTANTS
    Dispatchers = {"d1", "d2"}
    Callers = {"c1"}
    Schedules <- SmallSchedules
    Horizon = 2
    MaxTime = 2
    MaxRevision = 4
    MaxCalls = 2
    MaxFaults = 1
CHECK_DEADLOCK FALSE
INVARIANTS SlotFiredOnce OnceRunsOnce PublicationIsFenced
PROPERTIES DueIsHandled
