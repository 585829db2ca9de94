SPECIFICATION Spec
CONSTANTS
    Volts <- BandVolts
    Supplies <- TwoSupplies
    Levels <- BoardLevels
    Rsense = 50
    Trips = {"uvp", "ocp"}
INVARIANTS
    TypeOK
    StopIsFinal
    OcpFollowsCurrent
    DrawWithinBudget
    OverTempStops
PROPERTIES
    StallHasCause
    RampProgresses
