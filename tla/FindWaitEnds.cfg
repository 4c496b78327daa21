SPECIFICATION FairSpec
CONSTANTS
    NULL = NULL
    Cores = {0}
    MaxJobs = 1
    JobsMax <- OnePart
    Clients = {c1}
    Channels = {ch1}
    MaxChains = 1
    Requests <- WaitRequests
    Causes = {"STP"}
PROPERTIES
    WaitEnds
CHECK_DEADLOCK FALSE
