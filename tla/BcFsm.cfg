SPECIFICATION FairSpec
CONSTANTS
    SnkSel = {"APPLE", "BC12"}
    Sources = {"SDP", "CDP", "DCP", "APPLE_LOW", "APPLE_2_1A", "APPLE_2_4A"}
INVARIANTS TypeOK OneAtATime
PROPERTIES SupplyIsReal AttachIsFresh DetectionEnds
