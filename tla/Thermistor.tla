----------------------------- MODULE Thermistor -----------------------------
(***************************************************************************)
(* The board thermistors NTCP0 and NTCP1: the conversion of a voltage to a   *)
(* temperature (src/app/thermistor.c with the table of src/main.c) and the   *)
(* throttling by temperature (src/solution/solution_tasks.c).  Operators     *)
(* only; ChargePass runs them.                                              *)
(***************************************************************************)
EXTENDS Integers, Sequences

Sensors == {"ntcp0", "ntcp1"}

(* gl_thermistor_volt_map: the voltage in mV at 20, 25, ... 115 degrees.     *)
VoltMap == <<4848, 4806, 4756, 4696, 4623, 4538, 4438, 4324, 4194, 4049,
             3889, 3715, 3529, 3334, 3131, 2925, 2718, 2513, 2312, 2118>>
BaseTemp == 20
Resolution == 5
TableCount == Len(VoltMap)

SafeTemp == 25       \* SAFE_DEFAULT_TEMPERATURE
SensorFault == 255   \* THROTTLE_SENSOR_FAULT

(* The 8-bit ADC measures against a supply of 5 V. *)
AdcLevels == 0..255
Millivolts(level) == (level * 5000) \div 256

(* The search starts in the half of the table that holds the voltage. *)
Half(mv) ==
    IF mv <= VoltMap[(TableCount \div 2) + 1]
    THEN ((TableCount \div 2) + 1)..TableCount
    ELSE 1..((TableCount \div 2) + 1)

EntryTemp(i) == BaseTemp + Resolution * (i - 1)

(* Between two entries the temperature grows by one degree with every fifth  *)
(* part of their distance, rounded down.                                     *)
Interpolated(i, mv) ==
    LET degree == (VoltMap[i - 1] - VoltMap[i]) \div Resolution
    IN  EntryTemp(i - 1) + (VoltMap[i - 1] - mv) \div degree

(* ccg_volt_temp_map: the byte it returns. *)
VoltTempMap(mv) ==
    IF mv > VoltMap[1] THEN SafeTemp
    ELSE IF mv < VoltMap[TableCount] THEN SensorFault
    ELSE LET first == CHOOSE i \in Half(mv) :
                          /\ mv >= VoltMap[i]
                          /\ \A j \in Half(mv) : mv >= VoltMap[j] => i <= j
         IN  IF first - 1 \in Half(mv) THEN Interpolated(first, mv) ELSE EntryTemp(first)

(* The callers keep the byte in an int8_t. *)
AsInt8(byte) == IF byte > 127 THEN byte - 256 ELSE byte
Temperature(level) == AsInt8(VoltTempMap(Millivolts(level)))

-----------------------------------------------------------------------------
TempStates == {"NORMAL", "LIMITED", "OTP"}

HotThreshold == [ntcp0 |-> 70, ntcp1 |-> 85]
OtpThreshold == [ntcp0 |-> 85, ntcp1 |-> 100]
Hysteresis == [ntcp0 |-> 10, ntcp1 |-> 10]

(* Mutant: the throttled state does not watch the over-temperature threshold. *)
Throttle_NoOtp(s, state, temp) ==
    CASE state = "NORMAL" /\ temp >= HotThreshold[s] -> "LIMITED"
      [] state = "LIMITED" /\ temp < HotThreshold[s] - Hysteresis[s] -> "NORMAL"
      [] state = "OTP" /\ temp < OtpThreshold[s] - Hysteresis[s] -> "LIMITED"
      [] OTHER -> state

(* The state after a measurement: one step up or down at a time. *)
Throttle(s, state, temp) ==
    CASE state = "NORMAL" /\ temp >= HotThreshold[s] -> "LIMITED"
      [] state = "LIMITED" /\ temp >= OtpThreshold[s] -> "OTP"
      [] state = "LIMITED" /\ temp < HotThreshold[s] - Hysteresis[s] -> "NORMAL"
      [] state = "OTP" /\ temp < OtpThreshold[s] - Hysteresis[s] -> "LIMITED"
      [] OTHER -> state

Smaller(a, b) == IF a < b THEN a ELSE b

(* What a sensor leaves of the current rating: half of it, 2 A at most. *)
Throttled(rating, state) ==
    IF state = "LIMITED" THEN Smaller(rating \div 2, 200) ELSE rating

-----------------------------------------------------------------------------
(* What the table says, for comparison: the temperature lies on the line     *)
(* between two neighbouring entries, to within one degree.                   *)
Neighbours(i, mv) == VoltMap[i] >= mv /\ mv >= VoltMap[i + 1]
OnLine(i, mv, t) ==
    LET gap == VoltMap[i] - VoltMap[i + 1]
        above == (t - EntryTemp(i)) * gap - Resolution * (VoltMap[i] - mv)
    IN  -gap <= above /\ above <= gap

IsAccurate(mv) ==
    \A i \in 1..(TableCount - 1) :
        Neighbours(i, mv) => OnLine(i, mv, VoltTempMap(mv))

(* A voltage as low as the table has at the over-temperature threshold. *)
IsOverTemp(s, level) ==
    Millivolts(level) <= VoltMap[((OtpThreshold[s] - BaseTemp) \div Resolution) + 1]
=============================================================================
