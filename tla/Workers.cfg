\* Two users, two requests of each and two windows, with phases of one or two
\* ticks; two bench jobs on models of five context lengths and two engines, in
\* two seconds, and a list with room for one run; one model of three files, two
\* requests at a time, four operations and one failure, failed deletion or crash.
CONSTANTS
    NUsers = 2
    RampUp = 1
    Steady = 1
    RampDown = 2
    MaxRequests = 2
    MaxWindows = 2
    Streams <- MCStreams
    Jobs = {j1, j2}
    Engines = {1, 2}
    MaxListed = 1
    ModelLengths = {0, 575, 577, 2600, 9000}
    MaxSecond = 1
    Config = config
    Weights = {w1, w2}
    Requests = {r1, r2}
    NoReq = NoReq
    MaxOps = 4
    MaxTroubles = 1
SPECIFICATION MCSpec
INVARIANTS WindowsAddUp OutputsAgree FiguresSplitRequests OneMoreAfterSwitchOff
           EstimatesFit SucceededIsListed SucceededPullIsComplete
PROPERTIES LoadTestEnds ImplementsPullService RegistryConverges
CHECK_DEADLOCK FALSE
