SPECIFICATION FairSpec
CONSTANTS
    s1 = s1
    s2 = s2
    p1 = p1
    p2 = p2
    Subscribers = {s1, s2}
    Pollers = {p1, p2}
    Publishers = {1}
    Setups <- SmallSetups
    MaxRetry = 2
CHECK_DEADLOCK FALSE
INVARIANTS  NothingForgotten ExhaustedIsDeadLettered
PROPERTIES EventuallySettled KeepsChain
