SPECIFICATION Spec
CONSTANTS
    Volts <- NoneOkFull
    PreMinutes = 1
    NormalMinutes = 1
    Hazards = {"brownout"}
PROPERTY FetAfterPeriod
