\* One create and one failure: the row stays requested.
CONSTANTS
    Slots = {s1}
    GPUs = {g1}
    TP = 1
    Requests = {r1}
    Kinds = {"create"}
    NoReq = NoReq
    MaxTroubles = 1
SPECIFICATION Spec
INVARIANT JobDecidesRow
CHECK_DEADLOCK FALSE
