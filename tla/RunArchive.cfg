SPECIFICATION FairSpec
CONSTANTS
    Scanners = {p1, p2}
    Messages = {m1, m2}
    HotRetention = 2
    ArchiveBy = 2
    MaxTime = 5
    MaxFaults = 1
CHECK_DEADLOCK FALSE
INVARIANTS HistoryIsKept RetiredIsQuiet
PROPERTIES EventuallyConfirmed
