\* Two requests for one key and one for another, one force halt; or two
\* requests at a time on one slot and two force halts, failures or crashes.
CONSTANTS
    lastJob = j3
    firstKey = slot
    secondKey = model
    Jobs = {j1, j2, j3}
    Keys = {slot, model}
    KeyOf <- TwoKeys
    NoJob = NoJob
    MaxHalts = 1
    MaxCrashes = 0
    MaxDbErrors = 0
    Slots = {s1}
    GPUs = {g1}
    TP = 1
    Requests = {r1, r2}
    Kinds = {"create", "down", "restart"}
    NoReq = NoReq
    MaxTroubles = 2
SPECIFICATION MCSpec
PROPERTIES ImplementsJobService KeysFreed EndsUnlessForced RequestedResolves
CHECK_DEADLOCK FALSE
