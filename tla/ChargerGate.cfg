SPECIFICATION Spec
CONSTANTS
    Volts <- GateVolts
    PreMinutes = 1
    NormalMinutes = 1
    Hazards = {"uvp", "ocp", "vbus", "brownout"}
PROPERTIES
    GateSpec
    FullIsLatched
    SwitchOnQualified
INVARIANT LoopIsProtected
