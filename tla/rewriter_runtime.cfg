SPECIFICATION FairSpec
CONSTANTS
    a = a
    b = b
    NoModel = NoModel
    Models <- MCModels
    Preload <- MCPreload
    IdleUnload = TRUE
    MaxGeneration = 7
INVARIANTS
    LateCallbackSparesModel
    IdleRuntimeIsSound
PROPERTIES
    IdleModelIsUnloaded
CHECK_DEADLOCK FALSE
