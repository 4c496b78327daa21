SPECIFICATION FairSpec
CONSTANTS
    Channels = {0, 1}
    Transfers <- MCTransfers
INVARIANTS
    SdmaTypeOK
    DoneIsDone
    ProgramFits
PROPERTIES
    CopyWaitEnds
