SPECIFICATION FairSpec
CONSTANTS
    a = a
    b = b
    w1 = w1
    w2 = w2
    o = o
    Steps <- OneStep
    Plans <- OnePlan
    Owners = {o}
    NoOwner = NoOwner
    CapacityReasons = {tenantFull}
    MaxFence = 4
    Workers = {w1}
    Services = {s1}
    OwnerOf <- SoloOwner
    MaxFaults = 1
PROPERTIES EventuallyTerminal
