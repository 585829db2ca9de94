SPECIFICATION FairSpec
CONSTANT RetryLimit = 2
INVARIANTS
    TypeOK
    RecoveryIsRunning
    DischargeIsTimed
PROPERTIES
    PolicySpec
    RecoveryEnds
    GivesUp
