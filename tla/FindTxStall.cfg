SPECIFICATION FairSpec
CONSTANTS
    NULL = NULL
    small = small
    holes = holes
    huge = huge
    Packets <- MCPackets
    Frags <- MCFrags
    Huge = {huge}
    NumTx = 4
    TxReap = 2
    MinNumTx = 2
PROPERTIES
    TriedLater
CHECK_DEADLOCK FALSE
