\* One job and one force halt: the finalizer and the halt each read the row
\* before the other commits.
CONSTANTS
    lastJob = j1
    firstKey = slot
    secondKey = model
    Jobs = {j1}
    Keys = {slot}
    KeyOf <- OneKey
    NoJob = NoJob
    MaxHalts = 1
    MaxCrashes = 0
    MaxDbErrors = 0
SPECIFICATION Spec
PROPERTY CancelledNotOverwritten
CHECK_DEADLOCK FALSE
