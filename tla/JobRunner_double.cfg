\* Two requests for one key and one force halt: two handlers at once.
CONSTANTS
    lastJob = j2
    firstKey = slot
    secondKey = model
    Jobs = {j1, j2}
    Keys = {slot}
    KeyOf <- OneKey
    NoJob = NoJob
    MaxHalts = 1
    MaxCrashes = 0
    MaxDbErrors = 0
SPECIFICATION Spec
INVARIANT OneHandlerPerKey
CHECK_DEADLOCK FALSE
