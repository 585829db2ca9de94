------------------------- MODULE ChargePass_proofs -------------------------
(***************************************************************************)
(* Proofs about the interrupted charging pass for every set of voltages,     *)
(* contracts and readings, every sense resistor and every choice of           *)
(* protections that may trip.                                               *)
(***************************************************************************)
EXTENDS ChargePass, Thermistor_proofs

-----------------------------------------------------------------------------
(* Arithmetic: what the code computes are naturals. *)

LEMMA DivType == ASSUME NEW a \in Nat, NEW b \in Nat \ {0} PROVE a \div b \in Nat
OBVIOUS

LEMMA ProductType == ASSUME NEW a \in Nat, NEW b \in Nat PROVE a * b \in Nat
OBVIOUS

LEMMA ScaledType == ASSUME NEW current \in Nat PROVE Scaled(current) \in Nat
BY DivType, RsenseAssumption DEF Scaled, IdealRsense

LEMMA StepType == Step \in Nat /\ Scaled(MinCurrent) = Step
BY ScaledType DEF Step, MinCurrent

LEMMA PowerType ==
    ASSUME NEW s \in [volt : Nat, curr : Nat]
    PROVE  OutputPower(s) \in Nat
<1>. DEFINE converted == (s.volt * s.curr * 93) \div 100
            tolerated == (converted * 95) \div 100
<1>1. s.volt * s.curr \in Nat
  BY ProductType
<1>2. converted \in Nat
  BY <1>1, DivType
<1>3. tolerated \in Nat
  BY <1>2, DivType
<1>. QED
  BY <1>3, DivType DEF OutputPower

LEMMA AffordableType == SenseType /\ BudgetType => Affordable \in Nat
BY DivType DEF SenseType, BudgetType, Affordable, VbattHyst

LEMMA ThrottledType ==
    ASSUME NEW rating \in Nat, NEW state
    PROVE  Throttled(rating, state) \in Nat
BY DivType DEF Throttled, Smaller

LEMMA RatingType == Rating \in Nat
BY ThrottledType DEF Rating, MaxCurrent

LEMMA LimitType ==
    ASSUME SenseType, BudgetType
    PROVE  /\ Limit \in Nat
           /\ Limit <= Affordable /\ Limit <= Rating /\ Limit <= MaxCurrent
<1>. DEFINE affordable == Affordable
            rating == Rating
<1>1. affordable \in Nat /\ rating \in Nat
  BY AffordableType, RatingType
<1>2. Limit = Smaller(Smaller(affordable, rating), MaxCurrent)
  BY DEF Limit
<1>. HIDE DEF affordable, rating
<1>3. Limit \in Nat /\ Limit <= affordable /\ Limit <= rating /\ Limit <= MaxCurrent
  BY <1>1, <1>2 DEF Smaller, MaxCurrent
<1>. QED
  BY <1>3 DEF affordable, rating

LEMMA RampedType ==
    ASSUME SenseType, BudgetType
    PROVE  /\ Ramped(Limit) \in Nat
           /\ \/ Ramped(Limit) = Limit
              \/ Ramped(Limit) = iout + Step /\ iout + Step <= Limit - Step
<1>. DEFINE limit == Limit
<1>1. limit \in Nat /\ Step \in Nat /\ iout \in Nat
  BY LimitType, StepType DEF BudgetType
<1>2. Ramped(limit) = IF limit > iout + Step /\ limit - (iout + Step) >= Step
                      THEN iout + Step ELSE limit
  BY DEF Ramped
<1>. HIDE DEF limit
<1>3. \/ Ramped(limit) = limit
      \/ Ramped(limit) = iout + Step /\ iout + Step <= limit - Step
  BY <1>1, <1>2
<1>. QED
  BY <1>1, <1>3 DEF limit

LEMMA TargetType ==
    ASSUME SenseType, BudgetType, NEW mode
    PROVE  Target(mode) \in Nat
BY LimitType, RampedType, ScaledType DEF Target, MinCurrent

-----------------------------------------------------------------------------
(* Type correctness. *)

LEMMA Frame ==
    ASSUME TypeOK
    PROVE  /\ UNCHANGED <<pc, branch, chg, alt>> => StateType'
           /\ UNCHANGED senseVars => SenseType'
           /\ UNCHANGED <<flagVars, timing, stopped>> => FlagType'
           /\ UNCHANGED <<budgetVars, iout, contract>> => BudgetType'
           /\ UNCHANGED <<hwVars, loopVars>> => HwType'
<1>1. UNCHANGED <<pc, branch, chg, alt>> => StateType'
  BY DEF TypeOK, StateType
<1>2. UNCHANGED senseVars => SenseType'
  BY DEF TypeOK, SenseType, senseVars
<1>3. UNCHANGED <<flagVars, timing, stopped>> => FlagType'
  BY DEF TypeOK, FlagType, flagVars
<1>4. UNCHANGED <<budgetVars, iout, contract>> => BudgetType'
  BY DEF TypeOK, BudgetType, budgetVars
<1>5. UNCHANGED <<hwVars, loopVars>> => HwType'
  BY DEF TypeOK, HwType, hwVars, loopVars
<1>. QED
  BY <1>1, <1>2, <1>3, <1>4, <1>5

LEMMA HwDisableType ==
    ASSUME TypeOK, HwDisable, UNCHANGED loopVars
    PROVE  HwType'
BY DEF TypeOK, HwType, HwDisable, loopVars

LEMMA ResetType ==
    ASSUME TypeOK, Reset, UNCHANGED <<passVars, loopVars>>
    PROVE  StateType' /\ HwType'
BY DEF TypeOK, StateType, HwType, Reset, HwDisable, States, Early, AltStates, passVars, loopVars

LEMMA SenseIsTyped == TypeOK /\ Sense => TypeOK'
<1>. SUFFICES ASSUME TypeOK, Sense PROVE TypeOK'
  OBVIOUS
<1>1. PICK reading : Monitor(reading)
  BY DEF Sense
<1>2. ASSUME NEW s \in Sensors PROVE ntc'[s] \in TempStates /\ hot'[s] \in 0..2
  <2>1. ntc'[s] = Throttle(s, ntc[s], Temperature(reading[s])) /\ ntc[s] \in TempStates
    BY <1>1, <1>2 DEF Monitor, TypeOK, SenseType
  <2>2. ntc'[s] \in TempStates
    BY <2>1 DEF Throttle, TempStates
  <2>3. hot[s] \in 0..2
        /\ (hot'[s] = Smaller(hot[s] + 1, 2) \/ hot'[s] = 0)
    BY <1>1, <1>2 DEF Monitor, TypeOK, SenseType
  <2>4. hot'[s] \in 0..2
    BY <2>3 DEF Smaller
  <2>. QED
    BY <2>2, <2>4
<1>3. SenseType'
  <2>1. vbat' \in Nat /\ low' = low
    BY <1>1, VoltsAssumption DEF Monitor, Sense
  <2>2. ntc' \in [Sensors -> TempStates] /\ hot' \in [Sensors -> 0..2]
    BY <1>1, <1>2 DEF Monitor
  <2>. QED
    BY <2>1, <2>2 DEF SenseType, TypeOK
<1>4. FlagType'
  BY <1>1 DEF Monitor, Sense, TypeOK, FlagType, Flags
<1>5. StateType'
  BY DEF Sense, TypeOK, StateType, States, Early, Steps
<1>6. HwType'
  BY HwDisableType, Frame DEF Sense
<1>7. BudgetType'
  BY Frame DEF Sense
<1>. QED
  BY <1>3, <1>4, <1>5, <1>6, <1>7 DEF TypeOK

LEMMA AttemptIsTyped == TypeOK /\ AttemptCase => TypeOK'
<1>. SUFFICES ASSUME TypeOK, AttemptCase PROVE TypeOK'
  OBVIOUS
<1>1. contract \in [volt : Nat, curr : Nat]
  BY SuppliesAssumption DEF TypeOK, BudgetType, NoContract
<1>2. pwr' \in Nat /\ iout' \in Nat /\ contract' = contract
  BY <1>1, PowerType, StepType DEF AttemptCase
<1>3. pwrOk' \in BOOLEAN
  BY DEF AttemptCase, Sufficient
<1>4. BudgetType'
  BY <1>2, <1>3 DEF BudgetType, TypeOK
<1>5. StateType'
  <2>1. Band \in AltStates
    BY DEF Band, AltStates
  <2>. QED
    BY <2>1 DEF AttemptCase, Return, GoOn, TypeOK, StateType, Steps
<1>6. SenseType' /\ FlagType'
  BY Frame DEF AttemptCase, measuredVars, flagVars, TypeOK, FlagType
<1>7. HwType'
  BY DEF AttemptCase, TypeOK, HwType, loopVars
<1>. QED
  BY <1>4, <1>5, <1>6, <1>7 DEF TypeOK

LEMMA LoopIsTyped == TypeOK /\ LoopCase => TypeOK'
<1>. SUFFICES ASSUME TypeOK, LoopCase PROVE TypeOK'
  OBVIOUS
<1>1. iout' \in Nat /\ UNCHANGED <<budgetVars, contract>>
  BY TargetType DEF LoopCase, TypeOK, BudgetType
<1>2. BudgetType'
  BY <1>1 DEF TypeOK, BudgetType, budgetVars
<1>3. StateType'
  BY DEF LoopCase, NextMode, Return, GoOn, TypeOK, StateType, AltStates, Steps
<1>4. FlagType'
  BY DEF LoopCase, measuredVars, flagVars, TypeOK, FlagType
<1>5. SenseType' /\ HwType'
  BY Frame DEF LoopCase, measuredVars
<1>. QED
  BY <1>2, <1>3, <1>4, <1>5 DEF TypeOK

LEMMA TypeInductive == TypeOK /\ [Next]_vars => TypeOK'
<1>. SUFFICES ASSUME TypeOK, [Next]_vars PROVE TypeOK'
  OBVIOUS
<1>. USE DEF passVars, stateVars, measuredVars, Return, GoOn
<1>1. CASE UNCHANGED vars
  BY <1>1, Frame DEF vars, TypeOK
<1>2. CASE Begin
  BY <1>2, Frame DEF Begin, TypeOK, StateType, Steps
<1>3. CASE WriteFlag
  BY <1>3, Frame DEF WriteFlag, TypeOK, StateType, Steps, SenseType, FlagType, Flags, Protections
<1>4. CASE InitCase
  BY <1>4, Frame DEF InitCase, TypeOK, StateType, Steps, States, Early, HwType, pathVars, loopVars
<1>5. CASE SetVbatCase
  BY <1>5, Frame DEF SetVbatCase, TypeOK, StateType, Steps, HwType, hwVars
<1>6. CASE Commit \/ WaitCase \/ DelayCase \/ NotChargingCase
  BY <1>6, Frame DEF Commit, WaitCase, DelayCase, NotChargingCase, TypeOK, StateType, Steps, States,
                     Active
<1>7. CASE SetIbatCase
  BY <1>7, Frame DEF SetIbatCase, TypeOK, StateType, Steps, States, Active, HwType
<1>8. CASE FetCase
  BY <1>8, Frame DEF FetCase, TypeOK, StateType, Steps, HwType, Protections, loopVars
<1>9. CASE FetClose
  BY <1>9, Frame DEF FetClose, TypeOK, StateType, Steps, States, Active, HwType, Protections, loopVars
<1>10. CASE RcpCase
  BY <1>10, Frame DEF RcpCase, TypeOK, StateType, Steps, States, Active, HwType, Protections, loopVars
<1>11. CASE FullCase
  BY <1>11, Frame, HwDisableType
     DEF FullCase, TypeOK, StateType, Steps, States, Early, AltStates, FlagType, flagVars
<1>12. CASE LoopDisarm
  BY <1>12, Frame DEF LoopDisarm, TypeOK, StateType, Steps, HwType, loopVars
<1>13. CASE LoopStart
  BY <1>13, Frame DEF LoopStart, TypeOK, StateType, Steps, HwType, hwVars
<1>14. ASSUME NEW p \in Trips, Trip(p) PROVE TypeOK'
  BY <1>14, Frame, HwDisableType, TripsAssumption DEF Trip, TypeOK, FlagType, Flags, flagVars
<1>15. CASE VbtrDone
  BY <1>15, Frame DEF VbtrDone, TypeOK, StateType, States, Active, HwType, hwVars
<1>16. CASE IbtrDone
  <2>1. ocpLevel' \in Nat
    BY <1>16 DEF IbtrDone, OcpSetting, OneAmp, TypeOK, BudgetType
  <2>. QED
    BY <1>16, <2>1, Frame DEF IbtrDone, TypeOK, HwType, Protections
<1>17. CASE BattTmrExpire \/ BbReady
  BY <1>17, Frame DEF BattTmrExpire, BbReady, TypeOK, HwType, loopVars
<1>18. CASE TimeoutEnd
  BY <1>18, Frame, HwDisableType DEF TimeoutEnd, TypeOK, StateType, States, Early, FlagType
<1>19. CASE VbusFault
  BY <1>19, Frame, ResetType DEF VbusFault, TypeOK
<1>20. CASE BrownOutRetry
  BY <1>20, Frame, HwDisableType DEF BrownOutRetry, TypeOK
<1>21. ASSUME NEW s \in Supplies, Contract(s) PROVE TypeOK'
  BY <1>21, Frame DEF Contract, TypeOK, BudgetType, budgetVars
<1>22. CASE HardReset
  BY <1>22, Frame, ResetType DEF HardReset, TypeOK, BudgetType, budgetVars
<1>23. CASE Disconnect
  BY <1>23, Frame, ResetType DEF Disconnect, TypeOK, BudgetType, FlagType, MinCurrent
<1>. QED
  BY <1>1, <1>2, <1>3, <1>4, <1>5, <1>6, <1>7, <1>8, <1>9, <1>10, <1>11, <1>12, <1>13, <1>14,
     <1>15, <1>16, <1>17, <1>18, <1>19, <1>20, <1>21, <1>22, <1>23,
     SenseIsTyped, AttemptIsTyped, LoopIsTyped
     DEF Next, SolnTask, Monitoring, Preparing, Looping, Interrupt, PortEvent

(* However a pass is interrupted, the variables keep their types: the current and *)
(* the power budget stay naturals, whatever the measurements.                  *)
THEOREM TypeCorrect == Spec => []TypeOK
<1>1. Init => TypeOK
  <2>0. 0 \in Nat /\ FALSE \in BOOLEAN /\ NoContract \in Supplies \cup {NoContract}
    OBVIOUS
  <2>1. Init => StateType
    BY DEF Init, StateType, Steps, States, Early, AltStates
  <2>2. Init => SenseType
    BY DEF Init, SenseType, TempStates
  <2>3. Init => FlagType
    BY DEF Init, FlagType
  <2>4. Init => BudgetType
    BY <2>0, Zenon DEF Init, BudgetType
  <2>5. Init => HwType
    BY <2>0, Zenon DEF Init, HwType
  <2>. QED
    BY <2>1, <2>2, <2>3, <2>4, <2>5 DEF TypeOK
<1>. QED
  BY <1>1, TypeInductive, PTL DEF Spec

-----------------------------------------------------------------------------
(* What an interrupt can and cannot change under a running case. *)

Inside == {"body", "commit", "close", "disarm", "start"}
Closed == {"RCP_DELAY", "RCP_DELAY1", "CHARGE_LOOP"}

(* The case that runs is that of the state, unless an interrupt has reset the     *)
(* machine, with the converter off, or a transition has completed; the switch is *)
(* closed only in the last three states; the voltage protections can trip only   *)
(* with the switch closed, or about to be.                                     *)
PassInv ==
    /\ pc \in Inside => \/ chg \in {branch, "INIT"}
                        \/ branch = "SET_VBAT_WAIT" /\ chg = "SET_IBAT"
    /\ pc = "commit" => branch \in {"ATTACHED_SNK", "SET_VBAT"}
    /\ pc = "close" => branch = "ENA_BAT_FET"
    /\ pc \in {"disarm", "start"} => branch = "CHARGE_LOOP"
    /\ pc \in Inside /\ branch \in Active /\ bb # "OFF" => chg # "INIT"
    /\ fet => chg \in Closed /\ charging
    /\ pc \in Inside /\ branch \notin Closed => ~fet
    /\ armed \cap {"ovp", "uvp"} # {} => fet \/ pc = "close"

LEMMA PassInductive == TypeOK /\ PassInv /\ [Next]_vars => PassInv'
<1>. SUFFICES ASSUME TypeOK, PassInv, [Next]_vars PROVE PassInv'
  OBVIOUS
<1>. USE DEF PassInv, Inside, Closed, Active, passVars, stateVars, hwVars, Return, GoOn, In
<1>1. CASE UNCHANGED vars
  BY <1>1 DEF vars
<1>2. CASE Begin \/ WriteFlag
  BY <1>2 DEF Begin, WriteFlag
<1>3. CASE Sense
  BY <1>3 DEF Sense, HwDisable
<1>4. CASE InitCase \/ AttemptCase
  BY <1>4 DEF InitCase, AttemptCase, pathVars
<1>5. CASE SetVbatCase \/ Commit \/ WaitCase
  BY <1>5 DEF SetVbatCase, Commit, WaitCase
<1>6. CASE SetIbatCase
  BY <1>6 DEF SetIbatCase
<1>7. CASE FetCase \/ FetClose
  BY <1>7 DEF FetCase, FetClose
<1>8. CASE DelayCase \/ NotChargingCase \/ LoopStart
  BY <1>8 DEF DelayCase, NotChargingCase, LoopStart
<1>9. CASE RcpCase
  BY <1>9 DEF RcpCase
<1>10. CASE LoopCase
  BY <1>10 DEF LoopCase
<1>11. CASE FullCase
  BY <1>11 DEF FullCase, HwDisable
<1>12. CASE LoopDisarm
  BY <1>12 DEF LoopDisarm
<1>13. ASSUME NEW p \in Trips, Trip(p) PROVE PassInv'
  BY <1>13 DEF Trip, HwDisable
<1>14. CASE VbtrDone
  BY <1>14 DEF VbtrDone
<1>15. CASE IbtrDone
  BY <1>15 DEF IbtrDone
<1>16. CASE BattTmrExpire \/ BbReady
  BY <1>16 DEF BattTmrExpire, BbReady
<1>17. CASE TimeoutEnd \/ BrownOutRetry
  BY <1>17 DEF TimeoutEnd, BrownOutRetry, HwDisable
<1>18. CASE VbusFault
  BY <1>18 DEF VbusFault, Reset, HwDisable
<1>19. ASSUME NEW s \in Supplies, Contract(s) PROVE PassInv'
  BY <1>19 DEF Contract
<1>20. CASE HardReset \/ Disconnect
  BY <1>20 DEF HardReset, Disconnect, Reset, HwDisable
<1>. QED
  BY <1>1, <1>2, <1>3, <1>4, <1>5, <1>6, <1>7, <1>8, <1>9, <1>10, <1>11, <1>12, <1>13, <1>14,
     <1>15, <1>16, <1>17, <1>18, <1>19, <1>20
     DEF Next, SolnTask, Monitoring, Preparing, Looping, Interrupt, PortEvent

LEMMA PassInvariant == Spec => [](TypeOK /\ PassInv)
<1>1. Init => PassInv
  BY DEF Init, PassInv, Inside
<1>. QED
  BY <1>1, PassInductive, TypeCorrect, PTL DEF Spec

-----------------------------------------------------------------------------
(* The end of an attempt. *)

Prep == {"SET_VBAT", "SET_VBAT_WAIT", "SET_IBAT", "ENA_BAT_FET"}

(* A flag that the monitors do not wipe. *)
Sticky == faults \cap {"ovp", "uvp", "rcp"} # {} \/ expired

(* An attempt that was ended stands in a state in which the switch was closed, or  *)
(* has a flag that lasts: OCP, whose flag may be wiped, trips with the switch    *)
(* closed only.                                                              *)
StopInv ==
    /\ stopped /\ fet => chg = "RCP_DELAY" /\ Sticky /\ pc \in {"idle", "flag", "sense"}
    /\ stopped /\ chg \in Prep => expired \/ (pc = "close" /\ Sticky)
    /\ stopped /\ pc \in Inside /\ branch \in Prep => expired \/ (pc = "close" /\ Sticky)
    /\ stopped /\ pc = "commit" => expired

LEMMA StopInductive == TypeOK /\ PassInv /\ StopInv /\ [Next]_vars => StopInv'
<1>. SUFFICES ASSUME TypeOK, PassInv, StopInv, [Next]_vars PROVE StopInv'
  OBVIOUS
<1>. USE DEF PassInv, StopInv, Prep, Sticky, Inside, Closed, Active, passVars, stateVars, hwVars, Return, GoOn, In
<1>1. CASE UNCHANGED vars
  BY <1>1 DEF vars, flagVars
<1>2. CASE Begin \/ WriteFlag
  BY <1>2 DEF Begin, WriteFlag, flagVars
<1>3. CASE Sense
  <2>1. PICK reading : Monitor(reading)
    BY <1>3 DEF Sense
  <2>2. faults' = (faults \ Sensors) \cup {s \in Sensors : ntc'[s] = "OTP"}
    BY <2>1 DEF Monitor
  <2>. QED
    BY <1>3, <2>2 DEF Sense, HwDisable, Faulty, HoldsInInit, Sensors
<1>4. CASE InitCase
  BY <1>4 DEF InitCase, pathVars, measuredVars, flagVars
<1>5. CASE AttemptCase
  BY <1>5 DEF AttemptCase, measuredVars, flagVars
<1>6. CASE SetVbatCase \/ Commit \/ WaitCase
  BY <1>6 DEF SetVbatCase, Commit, WaitCase, measuredVars, flagVars
<1>7. CASE SetIbatCase
  BY <1>7 DEF SetIbatCase, measuredVars, flagVars
<1>8. CASE FetCase \/ FetClose
  BY <1>8 DEF FetCase, FetClose, measuredVars, flagVars
<1>9. CASE DelayCase \/ RcpCase
  BY <1>9 DEF DelayCase, RcpCase, measuredVars, flagVars
<1>10. CASE NotChargingCase \/ LoopCase
  BY <1>10 DEF NotChargingCase, LoopCase, measuredVars, flagVars
<1>11. CASE FullCase
  BY <1>11 DEF FullCase, HwDisable, measuredVars, flagVars
<1>12. CASE LoopDisarm \/ LoopStart
  BY <1>12 DEF LoopDisarm, LoopStart, measuredVars, flagVars
<1>13. ASSUME NEW p \in Trips, Trip(p) PROVE StopInv'
  BY <1>13, TripsAssumption DEF Trip, CanTrip, HwDisable, Protections
<1>14. CASE VbtrDone
  BY <1>14 DEF VbtrDone, measuredVars, flagVars
<1>15. CASE IbtrDone
  BY <1>15 DEF IbtrDone, measuredVars, flagVars
<1>16. CASE BattTmrExpire \/ BbReady
  BY <1>16 DEF BattTmrExpire, BbReady, measuredVars, flagVars
<1>17. CASE TimeoutEnd \/ BrownOutRetry
  BY <1>17 DEF TimeoutEnd, BrownOutRetry, HwDisable, measuredVars, flagVars
<1>18. CASE VbusFault
  BY <1>18 DEF VbusFault, Reset, HwDisable, measuredVars, flagVars
<1>19. ASSUME NEW s \in Supplies, Contract(s) PROVE StopInv'
  BY <1>19 DEF Contract, measuredVars, flagVars
<1>20. CASE HardReset \/ Disconnect
  BY <1>20 DEF HardReset, Disconnect, Reset, HwDisable, measuredVars, flagVars
<1>. QED
  BY <1>1, <1>2, <1>3, <1>4, <1>5, <1>6, <1>7, <1>8, <1>9, <1>10, <1>11, <1>12, <1>13, <1>14,
     <1>15, <1>16, <1>17, <1>18, <1>19, <1>20
     DEF Next, SolnTask, Monitoring, Preparing, Looping, Interrupt, PortEvent

(* A protection or a timeout ends the attempt for good: the pass that it           *)
(* interrupts may close the switch once more, but then a flag is set that makes   *)
(* the next pass open it.                                                     *)
THEOREM StopSafety == Spec => []StopIsFinal
<1>1. Init => StopInv
  BY DEF Init, StopInv
<1>2. StopInv => StopIsFinal
  BY DEF StopInv, StopIsFinal, Sticky, Faulty
<1>. QED
  BY <1>1, <1>2, StopInductive, PassInvariant, PTL DEF Spec

-----------------------------------------------------------------------------
(* The level of OCP. *)

Late == {"ENA_BAT_FET", "RCP_DELAY", "RCP_DELAY1", "CHARGE_LOOP"}

(* Once a transition has been started, OCP is armed for the present current when    *)
(* it is over; a case of these states that still runs has not been reset while    *)
(* the converter is on.                                                       *)
OcpInv ==
    chg \in Late /\ bb # "OFF" /\ ~ibtr /\ pc \notin {"disarm", "start"}
        => "ocp" \in armed /\ ocpLevel = OcpSetting

LEMMA OcpInductive == TypeOK /\ PassInv /\ OcpInv /\ [Next]_vars => OcpInv'
<1>. SUFFICES ASSUME TypeOK, PassInv, OcpInv, [Next]_vars PROVE OcpInv'
  OBVIOUS
<1>0. iout' = iout => OcpSetting' = OcpSetting
  BY DEF OcpSetting
<1>. USE DEF PassInv, OcpInv, Late, loopVars, Inside, Closed, Active, passVars, stateVars, hwVars, Return, GoOn, In
<1>1. CASE UNCHANGED vars
  BY <1>0, <1>1 DEF vars, flagVars
<1>2. CASE Begin \/ WriteFlag
  BY <1>0, <1>2 DEF Begin, WriteFlag, flagVars
<1>3. CASE Sense
  <2>1. PICK reading : Monitor(reading)
    BY <1>0, <1>3 DEF Sense
  <2>2. faults' = (faults \ Sensors) \cup {s \in Sensors : ntc'[s] = "OTP"}
    BY <2>1 DEF Monitor
  <2>. QED
    BY <1>0, <1>3, <2>2 DEF Sense, HwDisable, Faulty, HoldsInInit, Sensors
<1>4. CASE InitCase
  BY <1>0, <1>4 DEF InitCase, pathVars, measuredVars, flagVars
<1>5. CASE AttemptCase
  BY <1>0, <1>5 DEF AttemptCase, measuredVars, flagVars
<1>6. CASE SetVbatCase \/ Commit \/ WaitCase
  BY <1>0, <1>6 DEF SetVbatCase, Commit, WaitCase, measuredVars, flagVars
<1>7. CASE SetIbatCase
  BY <1>0, <1>7 DEF SetIbatCase, measuredVars, flagVars
<1>8. CASE FetCase \/ FetClose
  BY <1>0, <1>8 DEF FetCase, FetClose, measuredVars, flagVars
<1>9. CASE DelayCase \/ RcpCase
  BY <1>0, <1>9 DEF DelayCase, RcpCase, measuredVars, flagVars
<1>10. CASE NotChargingCase \/ LoopCase
  BY <1>0, <1>10 DEF NotChargingCase, LoopCase, measuredVars, flagVars
<1>11. CASE FullCase
  BY <1>0, <1>11 DEF FullCase, HwDisable, measuredVars, flagVars
<1>12. CASE LoopDisarm \/ LoopStart
  BY <1>0, <1>12 DEF LoopDisarm, LoopStart, measuredVars, flagVars
<1>13. ASSUME NEW p \in Trips, Trip(p) PROVE OcpInv'
  BY <1>0, <1>13, TripsAssumption DEF Trip, CanTrip, HwDisable, Protections
<1>14. CASE VbtrDone
  BY <1>0, <1>14 DEF VbtrDone, measuredVars, flagVars
<1>15. CASE IbtrDone
  BY <1>0, <1>15 DEF IbtrDone, measuredVars, flagVars
<1>16. CASE BattTmrExpire \/ BbReady
  BY <1>0, <1>16 DEF BattTmrExpire, BbReady, measuredVars, flagVars
<1>17. CASE TimeoutEnd \/ BrownOutRetry
  BY <1>0, <1>17 DEF TimeoutEnd, BrownOutRetry, HwDisable, measuredVars, flagVars
<1>18. CASE VbusFault
  BY <1>0, <1>18 DEF VbusFault, Reset, HwDisable, measuredVars, flagVars
<1>19. ASSUME NEW s \in Supplies, Contract(s) PROVE OcpInv'
  BY <1>0, <1>19 DEF Contract, measuredVars, flagVars
<1>20. CASE HardReset \/ Disconnect
  BY <1>0, <1>20 DEF HardReset, Disconnect, Reset, HwDisable, measuredVars, flagVars
<1>. QED
  BY <1>0, <1>1, <1>2, <1>3, <1>4, <1>5, <1>6, <1>7, <1>8, <1>9, <1>10, <1>11, <1>12, <1>13, <1>14,
     <1>15, <1>16, <1>17, <1>18, <1>19, <1>20
     DEF Next, SolnTask, Monitoring, Preparing, Looping, Interrupt, PortEvent

(* While the converter is on in the charge loop, OCP is armed for the current set   *)
(* last, but for the steps that start a transition and the transition.         *)
THEOREM OcpSafety == Spec => []OcpFollowsCurrent
<1>1. Init => OcpInv
  BY DEF Init, OcpInv, Late
<1>2. OcpInv => OcpFollowsCurrent
  BY DEF OcpInv, OcpFollowsCurrent, Late
<1>. QED
  BY <1>1, <1>2, OcpInductive, PassInvariant, PTL DEF Spec

-----------------------------------------------------------------------------
(* The power budget. *)

WithinBounds(current) ==
    /\ current <= Affordable + Step
    /\ current <= Rating + Step
    /\ current <= MaxCurrent + Step
Bounded == WithinBounds(iout)

(* The first current, and one within a step of the limit, are within bounds. *)
LEMMA LimitIsBound ==
    ASSUME TypeOK, NEW current \in Nat, current = Step \/ current <= Limit + Step
    PROVE  WithinBounds(current)
<1>. DEFINE affordable == Affordable
            rating == Rating
            limit == Limit
<1>1. /\ affordable \in Nat /\ rating \in Nat /\ Step \in Nat /\ limit \in Nat
      /\ limit <= affordable /\ limit <= rating /\ limit <= MaxCurrent
  BY AffordableType, RatingType, StepType, LimitType DEF TypeOK
<1>2. current = Step \/ current <= limit + Step
  OBVIOUS
<1>3. /\ current <= affordable + Step /\ current <= rating + Step
      /\ current <= MaxCurrent + Step
  <2>. HIDE DEF affordable, rating, limit
  <2>. QED
    BY <1>1, <1>2 DEF MaxCurrent
<1>. QED
  BY <1>3 DEF WithinBounds

(* The inductive invariant: the first current stays until the charge loop, and in   *)
(* it until the precharge mode ends; the loop leaves a bounded current, which     *)
(* only the next measurement can make too large.                              *)
BudgetInv ==
    /\ chg \in Active \ {"CHARGE_LOOP"} => iout = Step
    /\ pc \in {"body", "close"} /\ branch \in Active \ {"CHARGE_LOOP"} => iout = Step
    /\ pc = "commit" => iout = Step
    /\ alt = "INIT_CHARGE" => iout = Step
    /\ pc # "body" /\ chg = "CHARGE_LOOP" /\ fet => Bounded

LEMMA LoopBounds ==
    ASSUME TypeOK, BudgetInv, LoopCase
    PROVE  Bounded'
<1>. DEFINE limit == Limit
            target == Target(NextMode)
<1>1. UNCHANGED <<vbat, pwr, ntc>>
  BY DEF LoopCase, measuredVars, senseVars, budgetVars
<1>2. Affordable' = Affordable /\ Rating' = Rating
  BY <1>1 DEF Affordable, Rating
<1>3. limit \in Nat /\ Step \in Nat /\ iout \in Nat /\ target \in Nat
  BY LimitType, StepType, TargetType DEF TypeOK, BudgetType
<1>4. \/ iout' = target
      \/ iout' = iout /\ Abs(iout - target) < Step
  <2>1. IF Abs(iout - target) >= Step THEN iout' = target ELSE iout' = iout
    BY DEF LoopCase
  <2>2. Abs(iout - target) \in Int
    BY <1>3 DEF Abs
  <2>. QED
    BY <1>3, <2>1, <2>2
<1>5. ASSUME NextMode = "INIT_CHARGE" PROVE iout' = Step
  <2>1. alt = "INIT_CHARGE"
    BY <1>5 DEF NextMode
  <2>2. target = Step /\ iout = Step
    BY <1>5, <2>1, StepType DEF Target, BudgetInv
  <2>3. iout' = Step
    BY <1>4, <2>2
  <2>. QED
    BY <1>3, <2>2, <2>3
<1>6. ASSUME NextMode # "INIT_CHARGE" PROVE iout' <= limit + Step
  <2>1. target <= limit
    <3>1. target = limit \/ target = Ramped(Limit)
      BY <1>6 DEF Target
    <3>2. target = limit \/ target <= limit - Step
      BY <3>1, RampedType DEF TypeOK
    <3>. QED
      BY <1>3, <3>2
  <2>2. iout' <= limit + Step
    <3>. HIDE DEF limit, target
    <3>. QED
      BY <1>3, <1>4, <2>1 DEF Abs
  <2>. QED
    BY <2>2
<1>7. iout' \in Nat
  BY <1>3, <1>4
<1>8. WithinBounds(iout')
  BY <1>5, <1>6, <1>7, LimitIsBound
<1>. QED
  BY <1>2, <1>8 DEF WithinBounds, Bounded

LEMMA BudgetInductive == TypeOK /\ PassInv /\ BudgetInv /\ [Next]_vars => BudgetInv'
<1>. SUFFICES ASSUME TypeOK, PassInv, BudgetInv, [Next]_vars PROVE BudgetInv'
  OBVIOUS
<1>0. /\ UNCHANGED <<iout, vbat, pwr, ntc>> => Bounded' = Bounded
      /\ UNCHANGED <<iout, senseVars, budgetVars>> => Bounded' = Bounded
      /\ UNCHANGED <<iout, measuredVars, budgetVars>> => Bounded' = Bounded
  BY DEF Bounded, WithinBounds, Affordable, Rating, senseVars, budgetVars, measuredVars
<1>. USE DEF PassInv, BudgetInv, loopVars, Inside, Closed, Active, passVars, stateVars, hwVars, Return, GoOn, In
<1>1. CASE UNCHANGED vars
  BY <1>0, <1>1 DEF vars, flagVars
<1>2. CASE Begin \/ WriteFlag
  <2>1. UNCHANGED <<iout, vbat, pwr, ntc, alt>>
    BY <1>2 DEF Begin, WriteFlag, senseVars, budgetVars
  <2>. QED
    BY <1>0, <1>2, <2>1 DEF Begin, WriteFlag
<1>3. CASE Sense
  <2>1. PICK reading : Monitor(reading)
    BY <1>0, <1>3 DEF Sense
  <2>2. faults' = (faults \ Sensors) \cup {s \in Sensors : ntc'[s] = "OTP"}
    BY <2>1 DEF Monitor
  <2>. QED
    BY <1>0, <1>3, <2>2 DEF Sense, HwDisable, Faulty, HoldsInInit, Sensors
<1>4. CASE InitCase
  BY <1>0, <1>4 DEF InitCase, pathVars, measuredVars, flagVars
<1>5. CASE AttemptCase
  <2>1. iout' = Step
    BY <1>5, StepType DEF AttemptCase
  <2>. QED
    BY <1>5, <2>1 DEF AttemptCase
<1>6. CASE SetVbatCase \/ Commit \/ WaitCase
  BY <1>0, <1>6 DEF SetVbatCase, Commit, WaitCase, measuredVars, flagVars
<1>7. CASE SetIbatCase
  BY <1>0, <1>7 DEF SetIbatCase, measuredVars, flagVars
<1>8. CASE FetCase \/ FetClose
  BY <1>0, <1>8 DEF FetCase, FetClose, measuredVars, flagVars
<1>9. CASE DelayCase \/ RcpCase
  <2>1. iout = Step /\ UNCHANGED <<iout, alt, fet, vbat, pwr, ntc>>
    BY <1>9 DEF DelayCase, RcpCase, measuredVars, senseVars, budgetVars
  <2>2. Bounded'
    BY <1>0, <2>1, StepType, LimitIsBound DEF Bounded
  <2>. QED
    BY <1>9, <2>1, <2>2 DEF DelayCase, RcpCase
<1>10. CASE NotChargingCase
  BY <1>0, <1>10 DEF NotChargingCase, measuredVars, flagVars
<1>21. CASE LoopCase
  <2>1. alt' = NextMode /\ UNCHANGED <<chg, fet, vbat, pwr, ntc>>
    BY <1>21 DEF LoopCase, measuredVars, senseVars, budgetVars
  <2>2. alt' = "INIT_CHARGE" => alt = "INIT_CHARGE"
    BY <2>1 DEF NextMode
  <2>3. alt' = "INIT_CHARGE" => iout' = Step
    BY <1>21, <2>1, <2>2, StepType DEF LoopCase, Target
  <2>4. Bounded'
    BY <1>21, LoopBounds
  <2>. QED
    BY <1>21, <2>1, <2>3, <2>4 DEF LoopCase
<1>11. CASE FullCase
  BY <1>0, <1>11 DEF FullCase, HwDisable, measuredVars, flagVars
<1>12. CASE LoopDisarm \/ LoopStart
  BY <1>0, <1>12 DEF LoopDisarm, LoopStart, measuredVars, flagVars
<1>13. ASSUME NEW p \in Trips, Trip(p) PROVE BudgetInv'
  BY <1>0, <1>13, TripsAssumption DEF Trip, CanTrip, HwDisable, Protections
<1>14. CASE VbtrDone
  BY <1>0, <1>14 DEF VbtrDone, measuredVars, flagVars
<1>15. CASE IbtrDone
  BY <1>0, <1>15 DEF IbtrDone, measuredVars, flagVars
<1>16. CASE BattTmrExpire \/ BbReady
  BY <1>0, <1>16 DEF BattTmrExpire, BbReady, measuredVars, flagVars
<1>17. CASE TimeoutEnd \/ BrownOutRetry
  BY <1>0, <1>17 DEF TimeoutEnd, BrownOutRetry, HwDisable, measuredVars, flagVars
<1>18. CASE VbusFault
  BY <1>0, <1>18 DEF VbusFault, Reset, HwDisable, measuredVars, flagVars
<1>19. ASSUME NEW s \in Supplies, Contract(s) PROVE BudgetInv'
  BY <1>0, <1>19 DEF Contract, measuredVars, flagVars
<1>20. CASE HardReset \/ Disconnect
  BY <1>0, <1>20 DEF HardReset, Disconnect, Reset, HwDisable, measuredVars, flagVars
<1>. QED
  BY <1>1, <1>2, <1>3, <1>4, <1>5, <1>6, <1>7, <1>8, <1>9, <1>10, <1>11, <1>12, <1>13, <1>14,
     <1>15, <1>16, <1>17, <1>18, <1>19, <1>20, <1>21
     DEF Next, SolnTask, Monitoring, Preparing, Looping, Interrupt, PortEvent

(* After every pass the charging current is within a step of what the contract, the *)
(* throttling and the charger allow, for every sequence of voltages, temperatures *)
(* and interrupts.                                                            *)
THEOREM BudgetSafety == Spec => []DrawWithinBudget
<1>1. Init => BudgetInv
  BY DEF Init, BudgetInv, Active
<1>2. BudgetInv => DrawWithinBudget
  BY DEF BudgetInv, DrawWithinBudget, Resting, Bounded, WithinBounds
<1>. QED
  BY <1>1, <1>2, BudgetInductive, PassInvariant, PTL DEF Spec

-----------------------------------------------------------------------------
(* How an attempt comes to stand still. *)

(* An over-temperature flag holds the machine in INIT. *)
SensorInv == faults \cap Sensors # {} => chg = "INIT" /\ pc \in {"idle", "flag", "sense"}

LEMMA SensorInductive == TypeOK /\ PassInv /\ SensorInv /\ [Next]_vars => SensorInv'
<1>. SUFFICES ASSUME TypeOK, PassInv, SensorInv, [Next]_vars PROVE SensorInv'
  OBVIOUS
<1>. USE DEF PassInv, SensorInv, Inside, Closed, Active, passVars, stateVars, hwVars, Return, GoOn, In
<1>1. CASE UNCHANGED vars
  BY <1>1 DEF vars, flagVars
<1>2. CASE Begin \/ WriteFlag
  BY <1>2 DEF Begin, WriteFlag, flagVars, Sensors
<1>3. CASE Sense
  <2>1. PICK reading : Monitor(reading)
    BY <1>3 DEF Sense
  <2>2. faults' = (faults \ Sensors) \cup {s \in Sensors : ntc'[s] = "OTP"}
    BY <2>1 DEF Monitor
  <2>. QED
    BY <1>3, <2>2 DEF Sense, HwDisable, Faulty, HoldsInInit, Sensors
<1>4. CASE InitCase
  BY <1>4 DEF InitCase, pathVars, measuredVars, flagVars
<1>5. CASE AttemptCase
  BY <1>5 DEF AttemptCase, measuredVars, flagVars
<1>6. CASE SetVbatCase \/ Commit \/ WaitCase
  BY <1>6 DEF SetVbatCase, Commit, WaitCase, measuredVars, flagVars
<1>7. CASE SetIbatCase
  BY <1>7 DEF SetIbatCase, measuredVars, flagVars
<1>8. CASE FetCase \/ FetClose
  BY <1>8 DEF FetCase, FetClose, measuredVars, flagVars
<1>9. CASE DelayCase \/ RcpCase
  BY <1>9 DEF DelayCase, RcpCase, measuredVars, flagVars
<1>10. CASE NotChargingCase \/ LoopCase
  BY <1>10 DEF NotChargingCase, LoopCase, measuredVars, flagVars
<1>11. CASE FullCase
  BY <1>11 DEF FullCase, HwDisable, measuredVars, flagVars
<1>12. CASE LoopDisarm \/ LoopStart
  BY <1>12 DEF LoopDisarm, LoopStart, measuredVars, flagVars
<1>13. ASSUME NEW p \in Trips, Trip(p) PROVE SensorInv'
  BY <1>13, TripsAssumption DEF Trip, HwDisable, Protections, Sensors
<1>14. CASE VbtrDone
  BY <1>14 DEF VbtrDone, measuredVars, flagVars
<1>15. CASE IbtrDone
  BY <1>15 DEF IbtrDone, measuredVars, flagVars
<1>16. CASE BattTmrExpire \/ BbReady
  BY <1>16 DEF BattTmrExpire, BbReady, measuredVars, flagVars
<1>17. CASE TimeoutEnd \/ BrownOutRetry
  BY <1>17 DEF TimeoutEnd, BrownOutRetry, HwDisable, measuredVars, flagVars
<1>18. CASE VbusFault
  BY <1>18 DEF VbusFault, Reset, HwDisable, measuredVars, flagVars
<1>19. ASSUME NEW s \in Supplies, Contract(s) PROVE SensorInv'
  BY <1>19 DEF Contract, measuredVars, flagVars
<1>20. CASE HardReset \/ Disconnect
  BY <1>20 DEF HardReset, Disconnect, Reset, HwDisable, measuredVars, flagVars
<1>. QED
  BY <1>1, <1>2, <1>3, <1>4, <1>5, <1>6, <1>7, <1>8, <1>9, <1>10, <1>11, <1>12, <1>13, <1>14,
     <1>15, <1>16, <1>17, <1>18, <1>19, <1>20
     DEF Next, SolnTask, Monitoring, Preparing, Looping, Interrupt, PortEvent

Explained ==
    ~Stuck /\ Stuck' =>
        \/ In("commit", "SET_VBAT") /\ ~vbtr
        \/ In("commit", "ATTACHED_SNK") /\ bb = "OFF"
        \/ pc = "flag" /\ "ocp" \in faults
        \/ pc \in {"body", "commit", "close"} /\ chg # branch
        \/ BrownOutRetry

LEMMA StallSteps == TypeOK /\ PassInv /\ SensorInv /\ Next => Explained
<1>. SUFFICES ASSUME TypeOK, PassInv, SensorInv, Next PROVE Explained
  OBVIOUS
<1>. USE DEF PassInv, SensorInv, Explained, Stuck, Faulty, loopVars, Inside, Closed, Active, passVars, stateVars, hwVars, Return, GoOn, In
<1>2. CASE Begin \/ WriteFlag
  BY <1>2 DEF Begin, WriteFlag, flagVars
<1>3. CASE Sense
  <2>1. PICK reading : Monitor(reading)
    BY <1>3 DEF Sense
  <2>2. faults' = (faults \ Sensors) \cup {s \in Sensors : ntc'[s] = "OTP"}
    BY <2>1 DEF Monitor
  <2>. QED
    BY <1>3, <2>2 DEF Sense, HwDisable, HoldsInInit, Sensors
<1>4. CASE InitCase
  BY <1>4 DEF InitCase, pathVars, measuredVars, flagVars
<1>5. CASE AttemptCase
  BY <1>5 DEF AttemptCase, measuredVars, flagVars
<1>6. CASE SetVbatCase \/ Commit \/ WaitCase
  BY <1>6 DEF SetVbatCase, Commit, WaitCase, measuredVars, flagVars
<1>7. CASE SetIbatCase
  BY <1>7 DEF SetIbatCase, measuredVars, flagVars
<1>8. CASE FetCase \/ FetClose
  BY <1>8 DEF FetCase, FetClose, measuredVars, flagVars
<1>9. CASE DelayCase \/ RcpCase
  BY <1>9 DEF DelayCase, RcpCase, measuredVars, flagVars
<1>10. CASE NotChargingCase \/ LoopCase
  BY <1>10 DEF NotChargingCase, LoopCase, measuredVars, flagVars
<1>11. CASE FullCase
  BY <1>11 DEF FullCase, HwDisable, measuredVars, flagVars
<1>12. CASE LoopDisarm \/ LoopStart
  BY <1>12 DEF LoopDisarm, LoopStart, measuredVars, flagVars
<1>13. ASSUME NEW p \in Trips, Trip(p) PROVE Explained
  BY <1>13, TripsAssumption DEF Trip, CanTrip, HwDisable, Protections
<1>14. CASE VbtrDone
  BY <1>14 DEF VbtrDone, measuredVars, flagVars
<1>15. CASE IbtrDone
  BY <1>15 DEF IbtrDone, measuredVars, flagVars
<1>16. CASE BattTmrExpire \/ BbReady
  BY <1>16 DEF BattTmrExpire, BbReady, measuredVars, flagVars
<1>17. CASE TimeoutEnd \/ BrownOutRetry
  BY <1>17 DEF TimeoutEnd, BrownOutRetry, HwDisable, measuredVars, flagVars
<1>18. CASE VbusFault
  BY <1>18 DEF VbusFault, Reset, HwDisable, measuredVars, flagVars
<1>19. ASSUME NEW s \in Supplies, Contract(s) PROVE Explained
  BY <1>19 DEF Contract, measuredVars, flagVars
<1>20. CASE HardReset \/ Disconnect
  BY <1>20 DEF HardReset, Disconnect, Reset, HwDisable, measuredVars, flagVars
<1>. QED
  BY <1>2, <1>3, <1>4, <1>5, <1>6, <1>7, <1>8, <1>9, <1>10, <1>11, <1>12, <1>13, <1>14,
     <1>15, <1>16, <1>17, <1>18, <1>19, <1>20
     DEF Next, SolnTask, Monitoring, Preparing, Looping, Interrupt, PortEvent

(* An attempt comes to stand still without a flag in the five ways named, and in no *)
(* other.                                                                    *)
THEOREM StallCauses == Spec => StallHasCause
<1>1. Init => SensorInv
  BY DEF Init, SensorInv
<1>2. TypeOK /\ PassInv /\ SensorInv /\ [Next]_vars => [Explained]_vars
  BY StallSteps
<1>. QED
  BY <1>1, <1>2, SensorInductive, PassInvariant, PTL DEF Spec, StallHasCause, Explained

-----------------------------------------------------------------------------
(* The ramp. *)

(* Only the loop, a new attempt and a disconnection set the current. *)
LEMMA CurrentSteps ==
    ASSUME Next, iout' # iout
    PROVE  LoopCase \/ AttemptCase \/ Disconnect
BY DEF Next, SolnTask, Monitoring, Preparing, Looping, Interrupt, PortEvent, Begin, WriteFlag, Sense,
       InitCase, SetVbatCase, Commit, WaitCase, SetIbatCase, FetCase, FetClose, DelayCase, RcpCase,
       NotChargingCase, FullCase, LoopDisarm, LoopStart, Trip, VbtrDone, IbtrDone, BattTmrExpire,
       BbReady, TimeoutEnd, VbusFault, BrownOutRetry, Contract, HardReset

(* In CC mode the current is set to the limit, or one step up with another step to  *)
(* go, for every budget, battery voltage and throttling.                        *)
THEOREM RampSafety == Spec => RampProgresses
<1>. DEFINE Progress ==
        iout' # iout /\ In("body", "CHARGE_LOOP") /\ NextMode = "CC_MODE" =>
            \/ iout' = Limit
            \/ iout' = iout + Step /\ iout' <= Limit - Step
<1>1. TypeOK /\ [Next]_vars => [Progress]_vars
  <2>. SUFFICES ASSUME TypeOK, Next, iout' # iout, In("body", "CHARGE_LOOP"), NextMode = "CC_MODE"
                PROVE  Progress
    OBVIOUS
  <2>1. LoopCase
    BY CurrentSteps DEF In, AttemptCase, Disconnect
  <2>2. iout' = Ramped(Limit)
    BY <2>1 DEF LoopCase, Target
  <2>. QED
    BY <2>2, RampedType DEF TypeOK
<1>. QED
  BY <1>1, TypeCorrect, PTL DEF Spec, RampProgresses

-----------------------------------------------------------------------------
(* The thermistors. *)

(* The inductive invariant: the throttling is a reading behind at most, and its last *)
(* state is a fault flag.                                                      *)
HeatInv ==
    \A s \in Sensors :
        /\ hot[s] # 0 => ntc[s] # "NORMAL"
        /\ hot[s] = 2 => ntc[s] = "OTP"
        /\ ntc[s] = "OTP" => s \in faults

LEMMA HeatSense ==
    ASSUME ReadingsWithinTable, TypeOK, HeatInv, Sense
    PROVE  HeatInv'
<1>1. PICK reading \in [ntcp0 : Levels["ntcp0"], ntcp1 : Levels["ntcp1"]] : Monitor(reading)
  BY DEF Sense
<1>2. SUFFICES ASSUME NEW s \in Sensors
               PROVE  /\ hot'[s] # 0 => ntc'[s] # "NORMAL"
                      /\ hot'[s] = 2 => ntc'[s] = "OTP"
                      /\ ntc'[s] = "OTP" => s \in faults'
  BY DEF HeatInv
<1>. DEFINE temp == Temperature(reading[s])
<1>3. /\ ntc'[s] = Throttle(s, ntc[s], temp)
      /\ hot'[s] = IF IsOverTemp(s, reading[s]) THEN Smaller(hot[s] + 1, 2) ELSE 0
      /\ ntc'[s] = "OTP" => s \in faults'
  BY <1>1 DEF Monitor
<1>4. reading[s] \in Levels[s]
  BY <1>1 DEF Sensors
<1>5. ntc[s] \in TempStates /\ hot[s] \in 0..2
  BY DEF TypeOK, SenseType
<1>6. CASE IsOverTemp(s, reading[s])
  <2>1. temp \in OtpThreshold[s]..127
    BY <1>4, <1>6, LevelsAssumption, HeatIsRead DEF ReadingsWithinTable
  <2>. HIDE DEF temp
  <2>2. /\ ntc[s] = "NORMAL" => ntc'[s] = "LIMITED"
        /\ ntc[s] = "LIMITED" => ntc'[s] = "OTP"
        /\ ntc[s] = "OTP" => ntc'[s] = "OTP"
    BY <1>3, <2>1 DEF Throttle, HotThreshold, OtpThreshold, Hysteresis, Sensors
  <2>3. hot'[s] = 2 => hot[s] # 0
    BY <1>3, <1>5, <1>6 DEF Smaller
  <2>. QED
    BY <1>3, <1>5, <2>2, <2>3 DEF TempStates, HeatInv
<1>7. CASE ~IsOverTemp(s, reading[s])
  BY <1>3, <1>7
<1>. QED
  BY <1>6, <1>7

LEMMA HeatInductive ==
    ASSUME ReadingsWithinTable, TypeOK, HeatInv, [Next]_vars
    PROVE  HeatInv'
<1>1. CASE Sense
  BY <1>1, HeatSense
<1>2. ASSUME UNCHANGED <<ntc, hot>>, faults \cap Sensors \subseteq faults'
      PROVE  HeatInv'
  BY <1>2 DEF HeatInv
<1>3. Protections \cap Sensors = {} /\ "ocp" \notin Sensors
  BY DEF Protections, Sensors
<1>4. CASE UNCHANGED vars
  BY <1>2, <1>4 DEF vars, senseVars, flagVars
<1>5. CASE ~Sense /\ Next
  <2>1. UNCHANGED <<ntc, hot>>
    BY <1>5 DEF Next, SolnTask, Monitoring, Preparing, Looping, Interrupt, PortEvent, Begin, WriteFlag,
       InitCase, AttemptCase, SetVbatCase, Commit, WaitCase, SetIbatCase, FetCase, FetClose, DelayCase,
       RcpCase, NotChargingCase, LoopCase, FullCase, LoopDisarm, LoopStart, Trip, VbtrDone, IbtrDone,
       BattTmrExpire, BbReady, TimeoutEnd, VbusFault, BrownOutRetry, Contract, HardReset, Disconnect,
       measuredVars, senseVars
  <2>2. faults \cap Sensors \subseteq faults'
    BY <1>3, <1>5 DEF Next, SolnTask, Monitoring, Preparing, Looping, Interrupt, PortEvent, Begin,
       WriteFlag, InitCase, AttemptCase, SetVbatCase, Commit, WaitCase, SetIbatCase, FetCase, FetClose,
       DelayCase, RcpCase, NotChargingCase, LoopCase, FullCase, LoopDisarm, LoopStart, Trip, VbtrDone,
       IbtrDone, BattTmrExpire, BbReady, TimeoutEnd, VbusFault, BrownOutRetry, Contract, HardReset,
       Disconnect, measuredVars, flagVars
  <2>. QED
    BY <1>2, <2>1, <2>2
<1>. QED
  BY <1>1, <1>4, <1>5

(* A board that reads over-temperature twice in a row is not charging, provided    *)
(* that no reading lies beyond the table: such a reading does not count as hot.   *)
THEOREM HeatSafety == ASSUME ReadingsWithinTable PROVE Spec => []OverTempStops
<1>1. Init => HeatInv /\ SensorInv
  BY DEF Init, HeatInv, SensorInv
<1>2. TypeOK /\ HeatInv /\ [Next]_vars => HeatInv'
  BY HeatInductive
<1>3. TypeOK /\ PassInv /\ SensorInv /\ HeatInv => OverTempStops
  <2>. SUFFICES ASSUME TypeOK, PassInv, SensorInv, HeatInv, fet, NEW s \in Sensors
                PROVE  hot[s] < 2
    BY DEF OverTempStops
  <2>1. s \notin faults
    BY DEF SensorInv, PassInv, Closed
  <2>2. hot[s] # 2 /\ hot[s] \in 0..2
    BY <2>1 DEF HeatInv, TypeOK, SenseType
  <2>. QED
    BY <2>2
<1>. QED
  BY <1>1, <1>2, <1>3, SensorInductive, PassInvariant, PTL DEF Spec
=============================================================================
