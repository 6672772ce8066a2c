SPECIFICATION FairSpec
CONSTANTS
    s1 = s1
    s2 = s2
    i1 = i1
    i2 = i2
    Sessions = {s1, s2}
    Invocations = {i1, i2}
    Layouts <- SharedOrApart
    Modes = {"local", "durable"}
    Handlers = {h1}
    Scanners = {p1}
    MaxRevision = 2
    MaxFaults = 1
CHECK_DEADLOCK FALSE
INVARIANTS OneActiveInvocation OneAnswer CompletionHasMessage
PROPERTIES FinishedIsFinal EventuallyFinished
