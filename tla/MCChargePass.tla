---------------------------- MODULE MCChargePass ----------------------------
(* Instances of the charging pass for TLC. *)
EXTENDS ChargePass

(* Discharged, charging, full. *)
BandVolts == {14000, 17000, 20750}

(* 40 W, whose budget is the lowest limit for a full battery only, and 4.5 W,    *)
(* which do not suffice.                                                     *)
TwoSupplies == {[volt |-> 20000, curr |-> 200], [volt |-> 5000, curr |-> 90]}

(* About 25 and 101 degrees at NTCP0, which takes it through all its states; the *)
(* theorems cover both sensors.                                              *)
BoardLevels == [ntcp0 |-> {250, 135}, ntcp1 |-> {250}]

(* A short circuit, or more than 115 degrees, too. *)
FaultyLevels == [ntcp0 |-> {250, 135, 100}, ntcp1 |-> {250}]

(* Every reading within the table is understood. *)
ASSUME ThermistorReadsHeat ==
    \A s \in Sensors, level \in AdcLevels :
        IsOverTemp(s, level) /\ Millivolts(level) >= VoltMap[TableCount]
            => Temperature(level) \in OtpThreshold[s]..127

(* The conversion of every voltage is right to within a degree, and it never   *)
(* falls while the voltage does.                                             *)
ASSUME ThermistorIsAccurate == \A mv \in 0..5000 : IsAccurate(mv)
ASSUME ThermistorIsMonotone ==
    \A mv \in VoltMap[TableCount]..(VoltMap[1] - 1) : VoltTempMap(mv) >= VoltTempMap(mv + 1)
=============================================================================
