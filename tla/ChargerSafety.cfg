SPECIFICATION Spec
CONSTANTS
    Volts <- SafetyVolts
    PreMinutes = 1
    NormalMinutes = 1
    Hazards = {"ovp", "ntc", "brownout", "renegotiate"}
INVARIANTS
    TypeOK
    RestingIsOff
    DetachedIsOff
    FaultIsOff
    DebounceIsOff
    SwitchIsGuarded
    ActiveIsPowered
    TimedCharging
