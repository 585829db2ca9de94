SPECIFICATION FairSpec
CONSTANTS
    Volts <- NoneOkFull
    PreMinutes = 1
    NormalMinutes = 1
    Hazards = {"uvp"}
PROPERTY UvpIsRetried
