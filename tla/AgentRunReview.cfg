SPECIFICATION Spec
CONSTANTS
    a = a
    b = b
    w1 = w1
    w2 = w2
    o = o
    Steps <- OneStep
    Plans <- OnePlan
    Owners = {o}
    NoOwner = NoOwner
    CapacityReasons = {tenantFull}
    MaxFence = 2
    Workers = {w1}
    Services = {s1}
    OwnerOf <- SoloOwner
    MaxFaults = 1
INVARIANTS ReclaimedUncertainNeedsReview
