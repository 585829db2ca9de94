SPECIFICATION FairSpec
CONSTANTS
    Volts <- LowFull
    PreMinutes = 1
    NormalMinutes = 2
    Hazards = {"ovp"}
PROPERTIES
    ChargeIsTimeLimited
    ChargingStarts
    ChargeTimeShrinks
