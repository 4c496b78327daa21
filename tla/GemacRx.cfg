SPECIFICATION Spec
CONSTANTS
    NULL = NULL
    Mbufs = {m1, m2, m3, m4}
    Frames = {short, long}
    Long = {long}
    NumRx = 3
    MaxInits = 2
SYMMETRY Symmetry
INVARIANTS
    RxTypeOK
    ClustersExclusive
    SomebodyLooks
PROPERTIES
    RxFifoSpec
CHECK_DEADLOCK FALSE
