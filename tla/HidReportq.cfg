CONSTANTS
    NQueues = 1
    Subs = {s1, s2}
    NoSub = NoSub
    NReports = 3
    MaxEnqueued = 2
    MaxReportMax = 2
    MaxAdds = 3
SPECIFICATION FairSpec
INVARIANTS TypeOK WindowExact NoStarvation
PROPERTIES QueuedLeaves KeepsStreams
