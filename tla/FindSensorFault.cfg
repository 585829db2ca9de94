SPECIFICATION Spec
CONSTANTS
    Volts <- BandVolts
    Supplies <- TwoSupplies
    Levels <- FaultyLevels
    Rsense = 50
    Trips = {}
PROPERTIES
    HotNeverRelaxes
