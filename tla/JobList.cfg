SPECIFICATION JobSpec
CONSTANTS
    NULL = NULL
    Cores = {0, 1}
    MaxJobs = 4
    JobsMax <- MCJobsMax
INVARIANTS
    JobTypeOK
    CountsMatchLive
    Acyclic
    NoDangling
CHECK_DEADLOCK FALSE
