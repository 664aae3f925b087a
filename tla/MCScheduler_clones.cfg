CONSTANTS
    NumCores = 6
    NumFuncs = 3
    Type <- ClonesType
    InIndexNumber <- ClonesNumber
    MaxKni = 6
    StopDedicatedCore = FALSE
    Off = FALSE
    OffRemove = FALSE
    Anyway = TRUE
    MaxRecv = 2
    MaxSpeed = 2
SPECIFICATION FairSpec
INVARIANTS CoresAccounted AttemptsSound
PROPERTY StopCompletes
