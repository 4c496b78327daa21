SPECIFICATION FairSpec
CONSTANTS
    NULL = NULL
    Cores = {0, 1}
    MaxJobs = 2
    JobsMax <- OnePart
    Clients = {c1}
    Channels = {ch1}
    MaxChains = 1
    Requests <- WaitRequests
    Causes = {"STP"}
PROPERTIES
    JobCompletes
CHECK_DEADLOCK FALSE
