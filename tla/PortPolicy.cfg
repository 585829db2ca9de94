SPECIFICATION Spec
CONSTANTS
    SinkCaps <- BoardCaps
    HighCap = FALSE
    Algorithm = "MAX_POWER"
    Offers <- Capabilities
INVARIANTS
    TypeOK
    RequestIsSound
    RequestIsBest
    RevisionIsRespected
    VersionIsAgreed
    OneAnswer
PROPERTIES
    CapsAreAnswered
