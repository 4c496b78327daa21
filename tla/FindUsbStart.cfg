SPECIFICATION Spec
CONSTANTS
    NULL = NULL
    control = control
    bulk = bulk
    int = int
    bulkSplit = bulkSplit
    Eps = {control, bulk, int}
    Kind <- MCKind
    Split = {}
    Faulty = {int}
    Aborted = {}
    Elems = {x1, x2}
    NumChan = 2
    Retries = 2
    MaxPulses = 1
INVARIANTS
    StartsLiveElement
CHECK_DEADLOCK FALSE
