\* Three requests for one key, two force halts, a restart and a failing
\* transaction.
CONSTANTS
    lastJob = j3
    firstKey = slot
    secondKey = model
    Jobs = {j1, j2, j3}
    Keys = {slot}
    KeyOf <- OneKey
    NoJob = NoJob
    MaxHalts = 2
    MaxCrashes = 1
    MaxDbErrors = 1
SYMMETRY SymmetricJobs
SPECIFICATION Spec
INVARIANTS OneInFlight NoLeakedLock NoOrphanRow FirstHaltFindsTask
CHECK_DEADLOCK FALSE
