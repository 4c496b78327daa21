SPECIFICATION FairSpec
CONSTANTS
    NULL = NULL
    Mbufs = {m1, m2, m3}
    Frames = {short}
    Long = {}
    NumRx = 2
    MaxInits = 2
PROPERTIES
    ReceptionResumes
CHECK_DEADLOCK FALSE
