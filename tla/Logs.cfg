\* Export: three timestamps with up to three lines each, pages of two lines,
\* two failures or stops.  Report: five lines of two containers in three
\* buckets, room for one container in a list, a limit the server grants,
\* refuses or refuses twice, one failure or stop.  Sink: six records, room for
\* three in the queue and two in a batch, one failure.
CONSTANTS
    LastNs = 2
    MaxPerNs = 3
    PageLimit = 2
    FallbackLimit = 1
    ServerLimit = 2
    MaxTroubles = 2
    LogLines <- mcLines
    MaxLines = {2, 3}
    ReportFallback = 2
    ServerLimits = {1, 2, 3}
    MaxBuckets = 1
    MaxTotals = 1
    MaxContainers = 1
    MaxFaults = 1
    QueueMax = 3
    PreMax = 2
    BatchMax = 2
    MaxRecords = 6
    MaxFailures = 1
SPECIFICATION MCSpec
INVARIANTS ExportComplete NewestOrTold InOrderOnce StopWritesAll
PROPERTIES ExportDelivers ReportDelivers ImplementsLogPipe ExportEnds QueuedIsWritten
CHECK_DEADLOCK FALSE
