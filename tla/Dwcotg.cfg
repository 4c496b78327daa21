SPECIFICATION FairSpec
CONSTANTS
    NULL = NULL
    control = control
    bulk = bulk
    int = int
    bulkSplit = bulkSplit
    Eps = {control, bulkSplit, int}
    Kind <- MCKind
    Split = {bulkSplit}
    Faulty = {control, int}
    Aborted = {bulkSplit, int}
    Elems = {x1}
    NumChan = 1
    Retries = 2
    MaxPulses = 1
INVARIANTS
    UsbTypeOK
    ChannelsOwned
PROPERTIES
    ControlReturns
CHECK_DEADLOCK FALSE
