\* Two creates at a time on two slots and two GPUs, nothing goes wrong.
CONSTANTS
    Slots = {s1, s2}
    GPUs = {g1, g2}
    TP = 1
    Requests = {r1, r2}
    Kinds = {"create"}
    NoReq = NoReq
    MaxTroubles = 0
SYMMETRY Symmetries
SPECIFICATION Spec
INVARIANT NoDoubleBooking
CHECK_DEADLOCK FALSE
