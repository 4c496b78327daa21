SPECIFICATION FairSpec
CONSTANTS
    NULL = NULL
    small = small
    holes = holes
    huge = huge
    Packets <- MCPackets
    Frags <- MCFrags
    Huge = {huge}
    NumTx = 4
    TxReap = 2
    MinNumTx = 2
INVARIANTS
    TxTypeOK
    RingAccounting
    OwnedIsHeld
    NoMbufLost
    FramesWhole
PROPERTIES
    TxFifoSpec
    RingDrains
CHECK_DEADLOCK FALSE
