CONSTANTS
    NumCores = 6
    NumFuncs = 2
    Type <- QueuesType
    InIndexNumber <- QueuesNumber
    MaxKni = 1
    StopDedicatedCore = TRUE
    Off = FALSE
    OffRemove = FALSE
    Anyway = TRUE
    MaxRecv = 2
    MaxSpeed = 0
SPECIFICATION FairSpec
PROPERTY StopCompletes
