SPECIFICATION Spec
CONSTANTS
    NULL = NULL
    Cores = {0, 1}
    MaxJobs = 2
    JobsMax <- OnePart
    Clients = {c1}
    Channels = {ch1}
    MaxChains = 1
    Requests <- ChainRequests
    Causes = {"STP", "ERR"}
INVARIANTS
    TypeOK
    AdmittedFindsPart
PROPERTIES
    ServiceSpec
CHECK_DEADLOCK FALSE
