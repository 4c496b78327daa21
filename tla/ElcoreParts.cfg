SPECIFICATION Spec
CONSTANTS
    NULL = NULL
    Cores = {0}
    MaxJobs = 3
    JobsMax <- TwoParts
    Clients = {c1}
    Channels = {ch1}
    MaxChains = 1
    Requests <- CancelRequests
    Causes = {"STP"}
    BankSize = 8
    StackSize = 3
    Programs <- SmallPrograms
INVARIANTS
    PartsExclusive
    BytesExclusive
    FreedIsUnqueued
PROPERTIES
    UsesJobList
CHECK_DEADLOCK FALSE
