SPECIFICATION Spec
CONSTANTS
    SnkSel = {"BC12"}
    Sources = {"SDP"}
INVARIANT CurAmpIsActive
