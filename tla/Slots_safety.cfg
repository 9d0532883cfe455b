\* Two requests at a time on two slots and two GPUs, and one
\* force halt, failure or crash; or two requests for a new slot on a host of
\* three GPUs, two starts or stops and one tick of the clock.
CONSTANTS
    Slots = {s1, s2}
    GPUs = {g1, g2}
    TP = 1
    Requests = {r1, r2}
    Kinds = {"create", "down", "restart"}
    NoReq = NoReq
    MaxTroubles = 1
    Gpus = {0, 2, 3}
    Callers = {c1, c2}
    Ports = {8110, 8111}
    HostTtl = 2
    Ttl = 1
    MaxTime = 1
    MaxCalls = 2
    MaxEvents = 2
SYMMETRY MCSymmetries
SPECIFICATION MCSpec
INVARIANTS RowMatchesContainer SharedGpuHasReason SeenAfterChange PortsDistinct
PROPERTY ImplementsSlotService
CHECK_DEADLOCK FALSE
