------------------------- MODULE MCBatteryCharger -------------------------
(* Instances of the charger for TLC. *)
EXTENDS BatteryCharger

(* Absent, charging, full. *)
NoneOkFull == {0, 17000, 20750}

(* Absent, precharge, full when charged before, full. *)
GateVolts == {0, 12000, 20200, 20750}

(* Absent, bad, charging, full. *)
SafetyVolts == {0, 5000, 17000, 20750}

(* Precharge, full. *)
LowFull == {12000, 20750}
=============================================================================
