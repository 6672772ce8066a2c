SPECIFICATION FairSpec
CONSTANTS
    Runs = {r1, r2}
    Workers = {w1, w2}
    Tokens = {t1, t2, t3}
    Policies <- TwoPolicies
    None = None
    LeaseTTL = 2
INVARIANTS LimitsHold HealthyKeepsSlot
PROPERTIES OrphansLapse
