----------------------- MODULE BatteryCharger_proofs -----------------------
(***************************************************************************)
(* Proofs about the charger state machine for every set of sampled          *)
(* voltages, every timeout length and every choice of hazards.              *)
(***************************************************************************)
EXTENDS BatteryCharger, TLAPS

-----------------------------------------------------------------------------
(* Steps that the state machine, the flags and the power path do not see. *)
Quiet ==
    \/ AdcStart \/ AdcRequest \/ AdcRewind
    \/ AdcDelayDone \/ SarInterrupt \/ MonTmrExpire

(* The events that run Reset. *)
ResetEvent ==
    \/ PeDisabled \/ HardReset \/ BcDetected \/ VbusFault
    \/ PortDisable \/ ErrorRecovery \/ Disconnect

quietVars == <<chg, alt, faults, timeoutExpired, pwrOk, pack, debounce, hwVars,
               loopVars, timeoutVars, port, bod>>

(* The steps of the specification, in the groups the proofs go through. *)
LEMMA StepCases ==
    Next => \/ Quiet \/ SolnPass
            \/ DebounceExpire \/ BattTmrExpire \/ MinuteTick
            \/ BbReady \/ VbtrDone \/ IbtrDone
            \/ \E p \in Protections : ProtectionTrip(p)
            \/ BrownOut \/ BrownOutRetry
            \/ Connect \/ Contract \/ ContractLost \/ ResetEvent
BY DEF Next, SolnTask, PortEvent, Quiet, ResetEvent

LEMMA QuietSteps == Quiet => UNCHANGED quietVars
BY DEF Quiet, quietVars, AdcStart, AdcRequest, AdcRewind, AdcOnly, AdcDelayDone,
       SarInterrupt, MonTmrExpire, statusVars

LEMMA ResetSteps ==
    ASSUME ResetEvent, FlagType, PortType
    PROVE  /\ Reset
           /\ faults' \subseteq faults
           /\ pwrOk' \in {FALSE, pwrOk}
           /\ port' \in PortStates
BY DEF ResetEvent, PeDisabled, HardReset, BcDetected, VbusFault, PortDisable,
       ErrorRecovery, Disconnect, PortStates, Attached, FlagType, PortType

-----------------------------------------------------------------------------
(* Type correctness. *)

(* What a step leaves alone keeps its type. *)
LEMMA Frame ==
    ASSUME TypeOK
    PROVE  /\ UNCHANGED <<chg, alt>> => ModeType'
           /\ UNCHANGED statusVars => FlagType'
           /\ UNCHANGED adcVars => AdcType'
           /\ UNCHANGED <<monTmr, debounce>> => TaskTimerType'
           /\ UNCHANGED hwVars => HwType'
           /\ UNCHANGED loopVars => LoopType'
           /\ UNCHANGED timeoutVars => TimeoutType'
           /\ UNCHANGED <<port, bod>> => PortType'
<1>1. UNCHANGED <<chg, alt>> => ModeType'
  BY DEF TypeOK, ModeType
<1>2. UNCHANGED statusVars => FlagType'
  BY DEF TypeOK, FlagType, statusVars
<1>3. UNCHANGED adcVars => AdcType'
  BY DEF TypeOK, AdcType, adcVars
<1>4. UNCHANGED <<monTmr, debounce>> => TaskTimerType'
  BY DEF TypeOK, TaskTimerType
<1>5. UNCHANGED hwVars => HwType'
  BY DEF TypeOK, HwType, hwVars
<1>6. UNCHANGED loopVars => LoopType'
  BY DEF TypeOK, LoopType, loopVars
<1>7. UNCHANGED timeoutVars => TimeoutType'
  BY DEF TypeOK, TimeoutType, timeoutVars
<1>8. UNCHANGED <<port, bod>> => PortType'
  BY DEF TypeOK, PortType
<1>. QED
  BY <1>1, <1>2, <1>3, <1>4, <1>5, <1>6, <1>7, <1>8

LEMMA HwDisableType == HwDisable => HwType'
BY DEF HwDisable, HwType

LEMMA TimeoutCmdType ==
    ASSUME TypeOK, NEW s \in {"STOP", "PRECHARGE", "NORMAL"}, TimeoutCmd(s)
    PROVE  TimeoutType'
BY MinutesAssumption DEF TypeOK, TimeoutType, TimeoutCmd, StartValue, timeoutVars

(* The flags soln_task works with are known flags. *)
LEMMA MonitoredType ==
    ASSUME TypeOK, NEW ibat, NEW hot
    PROVE  Monitored(ibat, hot) \subseteq Protections \cup {"ntc"}
BY DEF TypeOK, FlagType, Monitored, Protections

LEMMA PassType ==
    ASSUME TypeOK, NEW seen, seen \subseteq Protections \cup {"ntc"}, NEW ibat,
           Pass(seen, ibat), adc' = "DONE", pack' = Pack,
           UNCHANGED <<adcPending, adcDelay, scanning, vbat, monTmr, bod>>
    PROVE  TypeOK'
<1>1. AdcType'
  BY DEF TypeOK, AdcType
<1>2. pack' \in {"NO_BATTERY", "BATTERY_PRESENT"}
  BY DEF Pack
<1>3. CASE RejectPass(seen)
  BY <1>1, <1>2, <1>3, Frame
     DEF RejectPass, TypeOK, FlagType, TaskTimerType, Protections
<1>4. CASE NoBatteryPass(seen)
  <2>1. TimeoutType'
    BY <1>4, TimeoutCmdType DEF NoBatteryPass
  <2>2. HwType'
    BY <1>4, HwDisableType DEF NoBatteryPass, TypeOK, HwType
  <2>3. ModeType' /\ PortType'
    BY <1>4 DEF NoBatteryPass, InitStep, TypeOK, ModeType, PortType, PortStates,
                AltStates, Resting
  <2>. QED
    BY <1>1, <1>2, <1>4, <2>1, <2>2, <2>3, Frame
       DEF NoBatteryPass, TypeOK, FlagType, TaskTimerType, Protections
<1>5. CASE FaultPass(seen)
  BY <1>1, <1>2, <1>5, Frame, HwDisableType
     DEF FaultPass, HwDisableIf, TypeOK, ModeType, FlagType, TaskTimerType, PortType,
         Resting
<1>6. CASE IdlePass(seen)
  BY <1>1, <1>2, <1>6, Frame
     DEF IdlePass, Switch, TypeOK, ModeType, FlagType, TaskTimerType, PortType, Resting
<1>7. CASE InitPass(seen)
  <2>1. ModeType' /\ PortType'
    BY <1>7 DEF InitPass, InitStep, TypeOK, ModeType, PortType, PortStates, Resting
  <2>. QED
    BY <1>1, <1>2, <1>7, <2>1, Frame
       DEF InitPass, Switch, TypeOK, FlagType, TaskTimerType, HwType
<1>8. CASE AttachedPass(seen)
  <2>1. Band \in AltStates
    BY DEF Band, AltStates
  <2>2. ModeType'
    BY <1>8, <2>1 DEF AttachedPass, TypeOK, ModeType, AltStates, Active
  <2>3. FlagType'
    BY <1>2, <1>8 DEF AttachedPass, Switch, TypeOK, FlagType
  <2>4. HwType'
    BY <1>8 DEF AttachedPass, TypeOK, HwType
  <2>. QED
    BY <1>1, <1>8, <2>2, <2>3, <2>4, Frame
       DEF AttachedPass, Switch, TypeOK, TaskTimerType, PortType
<1>9. CASE SetVbatPass(seen)
  BY <1>1, <1>2, <1>9, Frame
     DEF SetVbatPass, Switch, TypeOK, ModeType, FlagType, TaskTimerType, LoopType,
         PortType, Active
<1>10. CASE WaitPass(seen)
  BY <1>1, <1>2, <1>10, Frame
     DEF WaitPass, Switch, TypeOK, FlagType, TaskTimerType, PortType
<1>11. CASE SetIbatPass(seen)
  BY <1>1, <1>2, <1>11, Frame
     DEF SetIbatPass, Switch, TypeOK, ModeType, FlagType, TaskTimerType, HwType,
         LoopType, PortType, Active
<1>12. CASE EnaBatFetPass(seen)
  <2>1. HwType'
    BY <1>12, Frame DEF EnaBatFetPass, OutEnable, TypeOK, HwType, Protections
  <2>. QED
    BY <1>1, <1>2, <1>12, <2>1, Frame
       DEF EnaBatFetPass, Switch, TypeOK, ModeType, FlagType, TaskTimerType,
           PortType, Active
<1>13. CASE RcpDelayPass(seen)
  <2>1. HwType' /\ ModeType'
    BY <1>13 DEF RcpDelayPass, TypeOK, HwType, ModeType, Protections, Active
  <2>. QED
    BY <1>1, <1>2, <1>13, <2>1, Frame
       DEF RcpDelayPass, Switch, TypeOK, FlagType, TaskTimerType, PortType
<1>14. CASE ChargePass(seen, ibat)
  <2>1. TimeoutType'
    BY <1>14, TimeoutCmdType, Frame DEF ChargePass, ModeTimeout
  <2>2. ModeType'
    BY <1>14 DEF ChargePass, NextMode, TypeOK, ModeType, AltStates
  <2>3. HwType' /\ LoopType'
    BY <1>14 DEF ChargePass, TypeOK, HwType, LoopType
  <2>. QED
    BY <1>1, <1>2, <1>14, <2>1, <2>2, <2>3, Frame
       DEF ChargePass, Switch, TypeOK, FlagType, TaskTimerType, PortType
<1>15. CASE FullPass(seen, ibat)
  <2>1. TimeoutType'
    BY <1>15, TimeoutCmdType DEF FullPass
  <2>2. ModeType'
    BY <1>15 DEF FullPass, ModeType, AltStates, Resting
  <2>. QED
    BY <1>1, <1>2, <1>15, <2>1, <2>2, Frame, HwDisableType
       DEF FullPass, Switch, TypeOK, FlagType, TaskTimerType, PortType
<1>16. CASE NotChargingPass(seen)
  BY <1>1, <1>2, <1>16, Frame
     DEF NotChargingPass, Switch, TypeOK, FlagType, TaskTimerType, PortType
<1>. QED
  BY <1>3, <1>4, <1>5, <1>6, <1>7, <1>8, <1>9, <1>10, <1>11, <1>12, <1>13, <1>14,
     <1>15, <1>16 DEF Pass

LEMMA ResetType ==
    ASSUME TypeOK, Reset, faults' \subseteq faults, pwrOk' \in {FALSE, pwrOk},
           port' \in PortStates
    PROVE  TypeOK'
<1>1. ModeType' /\ FlagType' /\ PortType'
  BY DEF Reset, TypeOK, ModeType, FlagType, PortType, AltStates, Resting
<1>2. TaskTimerType' /\ HwType'
  BY HwDisableType DEF Reset, TypeOK, TaskTimerType, HwType
<1>. QED
  BY <1>1, <1>2, Frame DEF Reset, TypeOK

LEMMA TypeInductive == TypeOK /\ [Next]_vars => TypeOK'
<1>. SUFFICES ASSUME TypeOK, [Next]_vars PROVE TypeOK'
  OBVIOUS
<1>1. CASE AdcStart
  BY <1>1, Frame DEF AdcStart, AdcOnly, TypeOK, AdcType, TaskTimerType
<1>2. CASE AdcRequest
  BY <1>2, Frame DEF AdcRequest, AdcOnly, TypeOK, AdcType, TaskTimerType
<1>3. CASE AdcRewind
  BY <1>3, Frame DEF AdcRewind, AdcOnly, TypeOK, AdcType, TaskTimerType
<1>4. CASE AdcDelayDone
  BY <1>4, Frame DEF AdcDelayDone, TypeOK, AdcType
<1>5. CASE SarInterrupt
  BY <1>5, Frame DEF SarInterrupt, TypeOK, AdcType
<1>6. CASE MonTmrExpire \/ DebounceExpire
  BY <1>6, Frame DEF MonTmrExpire, DebounceExpire, TypeOK, TaskTimerType
<1>7. CASE BattTmrExpire \/ BbReady
  BY <1>7, Frame DEF BattTmrExpire, BbReady, TypeOK, HwType
<1>8. CASE MinuteTick
  <2>1. TimeoutType'
    <3>1. CASE minutes > 1
      BY <1>8, <3>1 DEF MinuteTick, TypeOK, TimeoutType
    <3>2. CASE ~(minutes > 1)
      BY <1>8, <3>2, TimeoutCmdType DEF MinuteTick
    <3>. QED
      BY <3>1, <3>2
  <2>2. HwType' /\ ModeType' /\ FlagType'
    BY <1>8, Frame, HwDisableType DEF MinuteTick, TypeOK, ModeType, FlagType, Resting
  <2>. QED
    BY <1>8, <2>1, <2>2, Frame DEF MinuteTick, TypeOK
<1>9. CASE VbtrDone
  BY <1>9, Frame DEF VbtrDone, TypeOK, ModeType, LoopType, Active
<1>10. CASE IbtrDone
  BY <1>10, Frame DEF IbtrDone, TypeOK, HwType, LoopType, Protections
<1>11. ASSUME NEW p \in Protections, ProtectionTrip(p) PROVE TypeOK'
  BY <1>11, Frame, HwDisableType DEF ProtectionTrip, TypeOK, FlagType
<1>12. CASE BrownOut
  BY <1>12, Frame DEF BrownOut, TypeOK, PortType
<1>13. CASE BrownOutRetry
  BY <1>13, Frame, HwDisableType DEF BrownOutRetry, HwDisableIf, TypeOK, PortType
<1>14. CASE Connect
  <2>1. ModeType' /\ AdcType' /\ TaskTimerType' /\ HwType' /\ PortType'
    BY <1>14 DEF Connect, TypeOK, ModeType, AdcType, TaskTimerType, HwType, PortType,
                 Resting, PortStates
  <2>. QED
    BY <1>14, <2>1, Frame DEF Connect, TypeOK
<1>15. CASE Contract \/ ContractLost
  BY <1>15, Frame DEF Contract, ContractLost, TypeOK, PortType, PortStates
<1>16. CASE ResetEvent
  BY <1>16, ResetSteps, ResetType DEF TypeOK
<1>17. CASE SolnPass
  <2>1. PICK ibat \in Currents, hot \in NtcVerdicts : Pass(Monitored(ibat, hot), ibat)
    BY <1>17 DEF SolnPass
  <2>. QED
    BY <1>17, <2>1, MonitoredType, PassType DEF SolnPass
<1>18. CASE UNCHANGED vars
  BY <1>18, Frame DEF vars, TypeOK
<1>. QED
  BY <1>1, <1>2, <1>3, <1>4, <1>5, <1>6, <1>7, <1>8, <1>9, <1>10, <1>11, <1>12,
     <1>13, <1>14, <1>15, <1>16, <1>17, <1>18, StepCases DEF Quiet

(* The variables of the charger keep their types whatever the environment does, *)
(* the minute count never leaves the naturals.                              *)
THEOREM TypeCorrect == Spec => []TypeOK
<1>1. Init => TypeOK
  <2>1. Init => ModeType /\ PortType
    BY DEF Init, ModeType, PortType, Resting, AltStates, PortStates
  <2>2. Init => FlagType /\ AdcType /\ TaskTimerType
    BY DEF Init, FlagType, AdcType, TaskTimerType
  <2>3. Init => HwType
    BY DEF Init, HwType
  <2>4. Init => LoopType
    BY DEF Init, LoopType
  <2>5. Init => tstate \in {"STOP", "PRECHARGE", "NORMAL"} /\ minTmr \in BOOLEAN
    BY DEF Init
  <2>6. Init => minutes \in Nat
    <3>1. Init => minutes = 0
      BY DEF Init
    <3>. QED
      BY <3>1
  <2>. QED
    BY <2>1, <2>2, <2>3, <2>4, <2>5, <2>6 DEF TypeOK, TimeoutType
<1>. QED
  BY <1>1, TypeInductive, PTL DEF Spec

-----------------------------------------------------------------------------
(* Safety of the power path. *)

(* The inductive invariant.  The events switch nothing off in INIT, and a pass  *)
(* that is rejected switches nothing off either: both are safe only because the *)
(* machine rests whenever the port is empty, the battery is new or debounced,   *)
(* and because resting means off.                                            *)
PathInv ==
    /\ RestingIsOff
    /\ port \in {"DETACHED", "DISABLED"} => chg \in {"IDLE", "INIT"}
    /\ pack = "NO_BATTERY" \/ debounce => chg \in Resting
    /\ FaultIsOff
    /\ SwitchIsGuarded
    /\ ActiveIsPowered

LEMMA PathInit == Init => PathInv
BY DEF Init, PathInv, RestingIsOff, FaultIsOff, SwitchIsGuarded, ActiveIsPowered,
       PathOff, Resting, Active

(* Whatever switches the path off and does not start the machine keeps it. *)
LEMMA PathAfterHwDisable ==
    ASSUME TypeOK, PathInv, HwDisable, chg' \in {chg, "INIT"},
           chg' = "INIT" \/ UNCHANGED <<port, pwrOk, pack, debounce>>
    PROVE  PathInv'
<1>1. (RestingIsOff /\ FaultIsOff /\ SwitchIsGuarded)'
  BY DEF HwDisable, RestingIsOff, FaultIsOff, SwitchIsGuarded, PathOff
<1>2. CASE chg' = "INIT"
  BY <1>1, <1>2 DEF PathInv, ActiveIsPowered, Resting, Active
<1>3. CASE chg' = chg /\ UNCHANGED <<port, pwrOk, pack, debounce>>
  BY <1>1, <1>3 DEF PathInv, ActiveIsPowered
<1>. QED
  BY <1>2, <1>3

LEMMA PathPass ==
    ASSUME TypeOK, PathInv, NEW ibat \in Currents, NEW hot \in NtcVerdicts,
           Pass(Monitored(ibat, hot), ibat), pack' = Pack
    PROVE  PathInv'
<1>. DEFINE seen == Monitored(ibat, hot)
<1>. USE DEF PathInv, RestingIsOff, FaultIsOff, SwitchIsGuarded, ActiveIsPowered,
             PathOff, Resting, Active
<1>1. CASE RejectPass(seen)
  BY <1>1 DEF RejectPass, Debouncing, JustInserted, hwVars
<1>2. CASE NoBatteryPass(seen)
  <2>1. CASE chg \in Active
    BY <1>2, <2>1 DEF NoBatteryPass, InitStep, Powered, HwDisable
  <2>2. CASE chg \in Resting
    BY <1>2, <2>2 DEF NoBatteryPass, InitStep, Powered, TypeOK, HwType
  <2>. QED
    BY <2>1, <2>2 DEF TypeOK, ModeType
<1>3. CASE FaultPass(seen)
  BY <1>3 DEF FaultPass, HwDisableIf, HwDisable, hwVars
<1>4. CASE IdlePass(seen)
  BY <1>4 DEF IdlePass, Switch, hwVars
<1>5. CASE InitPass(seen)
  BY <1>5 DEF InitPass, Switch, InitStep, Powered, TypeOK, HwType, Pack
<1>6. CASE AttachedPass(seen)
  BY <1>6 DEF AttachedPass, Switch, Faulty, Powered, Pack, Debouncing, TypeOK, HwType
<1>7. CASE SetVbatPass(seen)
  BY <1>7 DEF SetVbatPass, Switch, Faulty, Pack, hwVars
<1>8. CASE WaitPass(seen)
  BY <1>8 DEF WaitPass, Switch, Faulty, Pack, hwVars
<1>9. CASE SetIbatPass(seen)
  BY <1>9 DEF SetIbatPass, Switch, Faulty, Pack
<1>10. CASE EnaBatFetPass(seen)
  BY <1>10 DEF EnaBatFetPass, Switch, Faulty, Pack, OutEnable, hwVars
<1>11. CASE RcpDelayPass(seen)
  BY <1>11 DEF RcpDelayPass, Switch, Faulty, Pack
<1>12. CASE ChargePass(seen, ibat)
  BY <1>12 DEF ChargePass, Switch, Faulty, Pack
<1>13. CASE FullPass(seen, ibat)
  BY <1>13 DEF FullPass, Switch, Faulty, Pack, HwDisable
<1>14. CASE NotChargingPass(seen)
  BY <1>14 DEF NotChargingPass, Switch, Faulty, Pack, hwVars
<1>. QED
  BY <1>1, <1>2, <1>3, <1>4, <1>5, <1>6, <1>7, <1>8, <1>9, <1>10, <1>11, <1>12,
     <1>13, <1>14 DEF Pass

LEMMA PathReset ==
    ASSUME TypeOK, PathInv, Reset, faults' \subseteq faults, pwrOk' \in {FALSE, pwrOk}
    PROVE  PathInv'
BY DEF TypeOK, ModeType, Reset, HwDisable, PathInv, RestingIsOff, FaultIsOff,
       SwitchIsGuarded, ActiveIsPowered, PathOff, Resting, Active

LEMMA PathInductive == TypeOK /\ PathInv /\ [Next]_vars => PathInv'
<1>. SUFFICES ASSUME TypeOK, PathInv, [Next]_vars PROVE PathInv'
  OBVIOUS
<1>. USE DEF PathInv, RestingIsOff, FaultIsOff, SwitchIsGuarded, ActiveIsPowered,
             PathOff, Resting, Active, statusVars, hwVars
<1>1. CASE Quiet \/ UNCHANGED vars
  BY <1>1, QuietSteps DEF quietVars, vars
<1>2. CASE SolnPass
  BY <1>2, PathPass DEF SolnPass
<1>3. CASE DebounceExpire \/ BattTmrExpire \/ BbReady \/ BrownOut
  BY <1>3 DEF DebounceExpire, BattTmrExpire, BbReady, BrownOut
<1>4. CASE MinuteTick
  <2>1. CASE minutes > 1
    BY <1>4, <2>1 DEF MinuteTick
  <2>2. CASE ~(minutes > 1)
    BY <1>4, <2>2, PathAfterHwDisable DEF MinuteTick
  <2>. QED
    BY <2>1, <2>2
<1>5. CASE VbtrDone
  BY <1>5 DEF VbtrDone
<1>6. CASE IbtrDone
  BY <1>6 DEF IbtrDone
<1>7. ASSUME NEW p \in Protections, ProtectionTrip(p) PROVE PathInv'
  BY <1>7, PathAfterHwDisable DEF ProtectionTrip
<1>8. CASE BrownOutRetry
  <2>1. CASE Attached
    BY <1>8, <2>1, PathAfterHwDisable DEF BrownOutRetry, HwDisableIf
  <2>2. CASE ~Attached
    BY <1>8, <2>2 DEF BrownOutRetry, HwDisableIf
  <2>. QED
    BY <2>1, <2>2
<1>9. CASE Connect
  BY <1>9 DEF Connect, TypeOK, HwType
<1>10. CASE Contract \/ ContractLost
  BY <1>10 DEF Contract, ContractLost, Powered
<1>11. CASE ResetEvent
  BY <1>11, ResetSteps, PathReset DEF TypeOK
<1>. QED
  BY <1>1, <1>2, <1>3, <1>4, <1>5, <1>6, <1>7, <1>8, <1>9, <1>10, <1>11, StepCases

LEMMA PathInvariant == Spec => [](TypeOK /\ PathInv)
<1>1. TypeOK /\ PathInv /\ [Next]_vars => (TypeOK /\ PathInv)'
  BY TypeInductive, PathInductive
<1>2. Spec => []TypeOK
  BY TypeCorrect
<1>3. Init => PathInv
  BY PathInit
<1>. QED
  BY <1>1, <1>2, <1>3, PTL DEF Spec

(* No fault flag and no expired timeout is ever latched while the converter or  *)
(* the battery switch is on.                                                 *)
THEOREM FaultSafety == Spec => []FaultIsOff
<1>1. PathInv => FaultIsOff
  BY DEF PathInv
<1>. QED
  BY <1>1, PathInvariant, PTL

(* Nothing stays on at a port that is empty or disabled, whatever ended the      *)
(* connection.                                                               *)
THEOREM DetachedSafety == Spec => []DetachedIsOff
<1>1. PathInv => DetachedIsOff
  BY DEF PathInv, RestingIsOff, DetachedIsOff, Resting
<1>. QED
  BY <1>1, PathInvariant, PTL

(* The power flag that gates the supervision of the current is set in every      *)
(* active state, although two events clear it at any moment.                   *)
THEOREM PowerSafety == Spec => []ActiveIsPowered
<1>1. PathInv => ActiveIsPowered
  BY DEF PathInv
<1>. QED
  BY <1>1, PathInvariant, PTL

(* A port without partner and a resting machine have the power path off, so the *)
(* events may skip soln_batt_chgr_hw_disable in state INIT.                    *)
THEOREM RestingSafety == Spec => [](RestingIsOff /\ DetachedIsOff)
<1>1. PathInv => RestingIsOff /\ DetachedIsOff
  BY DEF PathInv, RestingIsOff, DetachedIsOff, PathOff, Resting
<1>. QED
  BY <1>1, PathInvariant, PTL

(* Rejecting the measurements of a battery that bounces leaves nothing on. *)
THEOREM DebounceSafety == Spec => []DebounceIsOff
<1>1. PathInv => DebounceIsOff
  BY DEF PathInv, RestingIsOff, DebounceIsOff, PathOff
<1>. QED
  BY <1>1, PathInvariant, PTL

(* The switch is closed only behind both voltage protections, its flag tells    *)
(* its position, and software watches the current of every active state.       *)
THEOREM SwitchSafety == Spec => [](SwitchIsGuarded /\ ActiveIsPowered)
<1>1. PathInv => SwitchIsGuarded /\ ActiveIsPowered
  BY DEF PathInv
<1>. QED
  BY <1>1, PathInvariant, PTL

-----------------------------------------------------------------------------
(* Closing the switch. *)

(* Only a pass in ENA_BAT_FET closes the switch. *)
LEMMA SwitchOnStep ==
    ASSUME TypeOK, Next, ~fet, fet'
    PROVE  /\ SolnPass
           /\ \E ibat \in Currents, hot \in NtcVerdicts :
                 EnaBatFetPass(Monitored(ibat, hot))
<1>1. CASE SolnPass
  <2>1. PICK ibat \in Currents, hot \in NtcVerdicts : Pass(Monitored(ibat, hot), ibat)
    BY <1>1 DEF SolnPass
  <2>. DEFINE seen == Monitored(ibat, hot)
  <2>2. ~RejectPass(seen) /\ ~NoBatteryPass(seen) /\ ~FaultPass(seen)
    BY DEF RejectPass, NoBatteryPass, FaultPass, HwDisableIf, HwDisable, hwVars
  <2>3. ~IdlePass(seen) /\ ~InitPass(seen) /\ ~AttachedPass(seen)
    BY DEF IdlePass, InitPass, AttachedPass, hwVars
  <2>4. ~SetVbatPass(seen) /\ ~WaitPass(seen) /\ ~SetIbatPass(seen) /\ ~RcpDelayPass(seen)
    BY DEF SetVbatPass, WaitPass, SetIbatPass, RcpDelayPass, hwVars
  <2>5. ~ChargePass(seen, ibat) /\ ~FullPass(seen, ibat) /\ ~NotChargingPass(seen)
    BY DEF ChargePass, FullPass, NotChargingPass, HwDisable, hwVars
  <2>. QED
    BY <1>1, <2>1, <2>2, <2>3, <2>4, <2>5 DEF Pass
<1>2. ~Quiet
  BY QuietSteps DEF quietVars, hwVars
<1>3. ~DebounceExpire /\ ~BattTmrExpire /\ ~BbReady /\ ~VbtrDone /\ ~IbtrDone
  BY DEF DebounceExpire, BattTmrExpire, BbReady, VbtrDone, IbtrDone, hwVars
<1>4. ~MinuteTick /\ ~BrownOut /\ ~BrownOutRetry
  BY DEF MinuteTick, BrownOut, BrownOutRetry, HwDisableIf, HwDisable, hwVars
<1>5. ~(\E p \in Protections : ProtectionTrip(p))
  BY DEF ProtectionTrip, HwDisable
<1>6. ~Connect /\ ~Contract /\ ~ContractLost
  BY DEF Connect, Contract, ContractLost, hwVars
<1>7. ~ResetEvent
  BY ResetSteps DEF Reset, HwDisable, TypeOK
<1>. QED
  BY <1>1, <1>2, <1>3, <1>4, <1>5, <1>6, <1>7, StepCases

-----------------------------------------------------------------------------
(* The charge timeout. *)

(* The inductive invariant: an active machine works in a mode it found in        *)
(* ATTACHED_SNK, and reaches constant voltage only in the loop, through a pass in *)
(* CC_MODE, the one that starts the normal timeout.                             *)
TimedInv ==
    /\ fet => chg \in Active
    /\ chg \in Active => \/ alt \in {"INIT_CHARGE", "CC_MODE"}
                         \/ chg = "CHARGE_LOOP" /\ alt = "CV_MODE" /\ tstate = "NORMAL"
    /\ minTmr <=> tstate # "STOP"
    /\ tstate # "STOP" => minutes \in 1..StartValue(tstate)
    /\ timeoutExpired => tstate = "STOP"

(* A command keeps timer and state together, and the count in its range. *)
LEMMA TimeoutCmdTimer ==
    ASSUME TimedInv, NEW s, TimeoutCmd(s)
    PROVE  /\ tstate' = s /\ (minTmr' <=> s # "STOP")
           /\ s # "STOP" => minutes' \in 1..StartValue(s)
<1>1. CASE s = tstate
  BY <1>1 DEF TimedInv, TimeoutCmd, timeoutVars
<1>2. CASE s # tstate
  <2>1. StartValue(s) \in Nat \ {0}
    BY MinutesAssumption DEF StartValue
  <2>2. tstate' = s /\ (minTmr' <=> s # "STOP")
    BY <1>2, Zenon DEF TimeoutCmd
  <2>3. s # "STOP" => minutes' = StartValue(s)
    BY <1>2, Zenon DEF TimeoutCmd
  <2>. QED
    BY <2>1, <2>2, <2>3
<1>. QED
  BY <1>1, <1>2

LEMMA TimedPass ==
    ASSUME TypeOK, TimedInv, NEW ibat \in Currents, NEW hot \in NtcVerdicts,
           Pass(Monitored(ibat, hot), ibat)
    PROVE  TimedInv'
<1>. DEFINE seen == Monitored(ibat, hot)
<1>. USE DEF TimedInv, Active
<1>1. CASE RejectPass(seen)
  BY <1>1 DEF RejectPass, hwVars, timeoutVars
<1>2. CASE NoBatteryPass(seen)
  <2>1. tstate' = "STOP" /\ minTmr' = FALSE
    BY <1>2, TimeoutCmdTimer DEF NoBatteryPass, TimeoutCmd, timeoutVars, TypeOK, TimeoutType
  <2>2. ~fet'
    BY <1>2 DEF NoBatteryPass, HwDisable
  <2>. QED
    BY <1>2, <2>1, <2>2 DEF NoBatteryPass, InitStep
<1>3. CASE FaultPass(seen)
  BY <1>3 DEF FaultPass, HwDisableIf, HwDisable, hwVars, timeoutVars
<1>4. CASE IdlePass(seen) \/ InitPass(seen) \/ SetVbatPass(seen) \/ WaitPass(seen)
  BY <1>4 DEF IdlePass, InitPass, InitStep, SetVbatPass, WaitPass, Switch, hwVars, timeoutVars
<1>5. CASE AttachedPass(seen)
  BY <1>5 DEF AttachedPass, Switch, timeoutVars
<1>6. CASE SetIbatPass(seen) \/ EnaBatFetPass(seen) \/ RcpDelayPass(seen)
  BY <1>6 DEF SetIbatPass, EnaBatFetPass, RcpDelayPass, OutEnable, Switch, hwVars, timeoutVars
<1>7. CASE ChargePass(seen, ibat)
  <2>1. ~timeoutExpired /\ UNCHANGED <<timeoutExpired, fet, chg>> /\ chg = "CHARGE_LOOP"
    BY <1>7 DEF ChargePass, Switch, Faulty
  <2>2. CASE alt = "INIT_CHARGE"
    BY <1>7, <2>1, <2>2, TimeoutCmdTimer DEF ChargePass, ModeTimeout, NextMode
  <2>3. CASE alt = "CC_MODE"
    BY <1>7, <2>1, <2>3, TimeoutCmdTimer DEF ChargePass, ModeTimeout, NextMode
  <2>4. CASE alt = "CV_MODE"
    BY <1>7, <2>1, <2>4 DEF ChargePass, ModeTimeout, NextMode, timeoutVars
  <2>. QED
    BY <2>1, <2>2, <2>3, <2>4
<1>8. CASE FullPass(seen, ibat)
  BY <1>8, TimeoutCmdTimer DEF FullPass, Switch, HwDisable
<1>9. CASE NotChargingPass(seen)
  BY <1>9 DEF NotChargingPass, Switch, hwVars, timeoutVars
<1>. QED
  BY <1>1, <1>2, <1>3, <1>4, <1>5, <1>6, <1>7, <1>8, <1>9 DEF Pass

LEMMA TimedInductive == TypeOK /\ PathInv /\ TimedInv /\ [Next]_vars => TimedInv'
<1>. SUFFICES ASSUME TypeOK, PathInv, TimedInv, [Next]_vars PROVE TimedInv'
  OBVIOUS
<1>. USE DEF TimedInv, Active, statusVars, hwVars, timeoutVars
<1>1. CASE Quiet \/ UNCHANGED vars
  BY <1>1, QuietSteps DEF quietVars, vars
<1>2. CASE SolnPass
  BY <1>2, TimedPass DEF SolnPass
<1>3. CASE DebounceExpire \/ BattTmrExpire \/ BbReady \/ BrownOut \/ VbtrDone \/ IbtrDone
  BY <1>3 DEF DebounceExpire, BattTmrExpire, BbReady, BrownOut, VbtrDone, IbtrDone
<1>4. CASE MinuteTick
  <2>1. CASE minutes > 1
    <3>1. tstate # "STOP" /\ minutes' = minutes - 1
      BY <1>4, <2>1 DEF MinuteTick
    <3>2. StartValue(tstate) \in Nat /\ StartValue(tstate)' = StartValue(tstate)
      BY <1>4, <2>1, MinutesAssumption DEF StartValue, MinuteTick
    <3>3. minutes' \in 1..StartValue(tstate)'
      BY <2>1, <3>1, <3>2
    <3>. QED
      BY <1>4, <2>1, <3>3 DEF MinuteTick
  <2>2. CASE ~(minutes > 1)
    BY <1>4, <2>2, TimeoutCmdTimer DEF MinuteTick, HwDisable
  <2>. QED
    BY <2>1, <2>2
<1>5. ASSUME NEW p \in Protections, ProtectionTrip(p) PROVE TimedInv'
  BY <1>5 DEF ProtectionTrip, HwDisable
<1>6. CASE BrownOutRetry
  BY <1>6 DEF BrownOutRetry, HwDisableIf, HwDisable
<1>7. CASE Connect
  BY <1>7 DEF Connect, PathInv, RestingIsOff, PathOff, Resting
<1>8. CASE Contract \/ ContractLost
  BY <1>8 DEF Contract, ContractLost
<1>9. CASE ResetEvent
  <2>1. Reset
    BY <1>9, ResetSteps DEF TypeOK
  <2>. QED
    BY <2>1 DEF Reset, HwDisable, PathInv, RestingIsOff, PathOff, Resting
<1>. QED
  BY <1>1, <1>2, <1>3, <1>4, <1>5, <1>6, <1>7, <1>8, <1>9, StepCases

(* Constant-voltage charging always runs under the normal timeout, the minute    *)
(* timer runs exactly while a timeout is counted, the count is then between one   *)
(* and its start value, and an expired timeout has no count running.             *)
THEOREM TimeoutSafety == Spec => []TimedCharging
<1>1. Init => TimedInv
  BY DEF Init, TimedInv, Active
<1>2. TimedInv => TimedCharging
  BY DEF TimedInv, TimedCharging
<1>. QED
  BY <1>1, <1>2, PathInvariant, TimedInductive, PTL DEF Spec

-----------------------------------------------------------------------------
(* The switch closes only on a battery known before the pass and confirmed by   *)
(* it, after the debounce, over no latched fault and no expired timeout, with a *)
(* partner and the power flag, in a mode that ATTACHED_SNK charges in.          *)
THEOREM SwitchQualification == Spec => SwitchOnQualified
<1>. DEFINE Qualified == ~fet /\ fet' => /\ pack = "BATTERY_PRESENT" /\ pack' = pack
                                         /\ ~debounce
                                         /\ faults' = {} /\ ~timeoutExpired
                                         /\ Attached /\ pwrOk /\ alt \in Chosen
<1>1. TypeOK /\ PathInv /\ TimedInv /\ [Next]_vars => [Qualified]_vars
  <2>. SUFFICES ASSUME TypeOK, PathInv, TimedInv, Next, ~fet, fet' PROVE Qualified
    OBVIOUS
  <2>1. PICK ibat \in Currents, hot \in NtcVerdicts :
            EnaBatFetPass(Monitored(ibat, hot))
    BY SwitchOnStep
  <2>2. pack' = Pack
    BY SwitchOnStep DEF SolnPass
  <2>3. chg = "ENA_BAT_FET"
    BY <2>1 DEF EnaBatFetPass
  <2>4. Attached /\ pwrOk
    BY <2>3 DEF PathInv, ActiveIsPowered, Active, Attached, PortStates, TypeOK, PortType
  <2>5. alt \in Chosen
    BY <2>3 DEF TimedInv, Active, Chosen
  <2>. QED
    BY <2>1, <2>2, <2>4, <2>5 DEF EnaBatFetPass, Switch, Debouncing, Faulty, Pack, PathInv,
                      Resting, TypeOK, FlagType
<1>2. Init => TimedInv
  BY DEF Init, TimedInv, Active
<1>. QED
  BY <1>1, <1>2, PathInvariant, TimedInductive, PTL DEF Spec, SwitchOnQualified

-----------------------------------------------------------------------------
(* The recharge threshold. *)

LEMMA FullPassCases ==
    ASSUME TypeOK, NEW seen, NEW ibat, Pass(seen, ibat), alt = "CHARGE_FULL", alt' # alt
    PROVE  vbat < RechargeThreshold \/ ~Powered
<1>0. vbat \in Nat
  BY VoltsAssumption DEF TypeOK, AdcType
<1>1. CASE NoBatteryPass(seen)
  BY <1>0, <1>1 DEF NoBatteryPass, Present, RemovalThreshold, RechargeThreshold
<1>2. CASE AttachedPass(seen)
  <2>1. CASE ~Powered
    BY <2>1
  <2>2. CASE Powered
    <3>1. alt' = Band
      BY <1>2, <2>2 DEF AttachedPass
    <3>. QED
      BY <1>0, <3>1 DEF Band, UvpThreshold, DischargedVolt, RechargeThreshold
  <2>. QED
    BY <2>1, <2>2
<1>3. ~RejectPass(seen) /\ ~FaultPass(seen) /\ ~IdlePass(seen) /\ ~InitPass(seen)
  BY DEF RejectPass, FaultPass, IdlePass, InitPass
<1>4. ~SetVbatPass(seen) /\ ~WaitPass(seen) /\ ~SetIbatPass(seen)
  BY DEF SetVbatPass, WaitPass, SetIbatPass
<1>5. ~EnaBatFetPass(seen) /\ ~RcpDelayPass(seen) /\ ~NotChargingPass(seen)
  BY DEF EnaBatFetPass, RcpDelayPass, NotChargingPass
<1>6. ~ChargePass(seen, ibat) /\ ~FullPass(seen, ibat)
  BY DEF ChargePass, FullPass, NextMode
<1>. QED
  BY <1>1, <1>2, <1>3, <1>4, <1>5, <1>6 DEF Pass

(* A battery charged full is only charged again below the recharge threshold,    *)
(* after a removal, or after an event that renewed or took the supply.          *)
THEOREM RechargeHysteresis == Spec => FullIsLatched
<1>. DEFINE Latched == alt = "CHARGE_FULL" /\ alt' # alt =>
                          \/ vbat < RechargeThreshold \/ ~Powered
                          \/ chg' = "INIT" /\ ~monTmr'
<1>1. TypeOK /\ [Next]_vars => [Latched]_vars
  <2>. SUFFICES ASSUME TypeOK, Next, alt = "CHARGE_FULL", alt' # alt PROVE Latched
    OBVIOUS
  <2>1. CASE SolnPass
    BY <2>1, FullPassCases DEF SolnPass
  <2>2. CASE ResetEvent
    BY <2>2, ResetSteps DEF Reset, TypeOK
  <2>3. ~Quiet
    BY QuietSteps DEF quietVars
  <2>4. ~DebounceExpire /\ ~BattTmrExpire /\ ~BbReady /\ ~VbtrDone /\ ~IbtrDone /\ ~MinuteTick
    BY DEF DebounceExpire, BattTmrExpire, BbReady, VbtrDone, IbtrDone, MinuteTick
  <2>5. ~BrownOut /\ ~BrownOutRetry /\ ~Connect /\ ~Contract /\ ~ContractLost
    BY DEF BrownOut, BrownOutRetry, Connect, Contract, ContractLost
  <2>6. ~(\E p \in Protections : ProtectionTrip(p))
    BY DEF ProtectionTrip
  <2>. QED
    BY <2>1, <2>2, <2>3, <2>4, <2>5, <2>6, StepCases
<1>. QED
  BY <1>1, TypeCorrect, PTL DEF Spec, FullIsLatched

-----------------------------------------------------------------------------
(* The time a battery may still be charged. *)

LEMMA MinutesLeftFrame ==
    ASSUME TypeOK, UNCHANGED <<alt, timeoutVars>>
    PROVE  MinutesLeft' <= MinutesLeft
<1>1. MinutesLeft \in Nat
  BY MinutesAssumption DEF MinutesLeft, TypeOK, TimeoutType
<1>2. MinutesLeft' = MinutesLeft
  BY DEF MinutesLeft, timeoutVars
<1>. QED
  BY <1>1, <1>2

(* A pass that charges may start a timeout, and then takes it from what the mode   *)
(* it is in has still in front of it.                                        *)
LEMMA MinutesLeftInLoop ==
    ASSUME TypeOK, TimedInv, NEW seen, NEW ibat, ChargePass(seen, ibat)
    PROVE  MinutesLeft' <= MinutesLeft
<1>. USE MinutesAssumption
     DEF MinutesLeft, ModeTimeout, TimeoutCmd, StartValue, timeoutVars
<1>0. minutes \in Nat /\ tstate \in {"STOP", "PRECHARGE", "NORMAL"}
  BY DEF TypeOK, TimeoutType
<1>1. ModeTimeout /\ alt' = NextMode(ibat) /\ alt' # "CHARGE_FULL"
  BY DEF ChargePass
<1>2. CASE alt = "INIT_CHARGE"
  <2>1. tstate' = "PRECHARGE" /\ alt' \in {"INIT_CHARGE", "CC_MODE"}
    BY <1>1, <1>2 DEF NextMode
  <2>2. minutes' = IF tstate = "PRECHARGE" THEN minutes ELSE PreMinutes
    BY <1>1, <1>2
  <2>. QED
    BY <1>0, <1>2, <2>1, <2>2
<1>3. CASE alt = "CC_MODE"
  <2>1. tstate' = "NORMAL" /\ alt' \in {"CC_MODE", "CV_MODE"}
    BY <1>1, <1>3 DEF NextMode
  <2>2. minutes' = IF tstate = "NORMAL" THEN minutes ELSE NormalMinutes
    BY <1>1, <1>3
  <2>. QED
    BY <1>0, <1>3, <2>1, <2>2
<1>4. CASE alt = "CV_MODE"
  <2>1. UNCHANGED <<alt, timeoutVars>>
    BY <1>1, <1>4 DEF NextMode
  <2>. QED
    BY <2>1, MinutesLeftFrame
<1>. QED
  BY <1>2, <1>3, <1>4 DEF ChargePass, TimedInv, Active

(* Every other pass that finds the switch closed and leaves it closed changes     *)
(* neither the mode nor the timeout.                                         *)
LEMMA MinutesLeftPass ==
    ASSUME TypeOK, PathInv, TimedInv, NEW ibat \in Currents, NEW hot \in NtcVerdicts,
           Pass(Monitored(ibat, hot), ibat), fet, fet'
    PROVE  MinutesLeft' <= MinutesLeft
<1>. DEFINE seen == Monitored(ibat, hot)
<1>0. chg \in Active
  BY DEF TimedInv
<1>1. CASE RejectPass(seen) \/ SetVbatPass(seen) \/ WaitPass(seen) \/ SetIbatPass(seen)
  BY <1>1, MinutesLeftFrame DEF RejectPass, SetVbatPass, WaitPass, SetIbatPass
<1>2. CASE EnaBatFetPass(seen) \/ RcpDelayPass(seen) \/ NotChargingPass(seen)
  BY <1>2, MinutesLeftFrame DEF EnaBatFetPass, RcpDelayPass, NotChargingPass
<1>3. CASE ChargePass(seen, ibat)
  BY <1>3, MinutesLeftInLoop
<1>4. ~NoBatteryPass(seen) /\ ~FaultPass(seen) /\ ~FullPass(seen, ibat)
  BY <1>0 DEF NoBatteryPass, FaultPass, FullPass, HwDisableIf, HwDisable
<1>5. ~IdlePass(seen) /\ ~InitPass(seen) /\ ~AttachedPass(seen)
  BY <1>0 DEF IdlePass, InitPass, AttachedPass, Active
<1>. QED
  BY <1>1, <1>2, <1>3, <1>4, <1>5 DEF Pass

(* While the battery is charged, no step ever lengthens the time it may still be   *)
(* charged, and every minute shortens it: the safety half of                     *)
(* ChargeIsTimeLimited, for every length of the two timeouts.                   *)
THEOREM ChargeTimeSafety == Spec => ChargeTimeShrinks
<1>. DEFINE Shrinks == fet /\ fet' => /\ MinutesLeft' <= MinutesLeft
                                      /\ MinuteTick => MinutesLeft' < MinutesLeft
<1>1. TypeOK /\ PathInv /\ TimedInv /\ [Next]_vars => [Shrinks]_vars
  <2>. SUFFICES ASSUME TypeOK, PathInv, TimedInv, Next, fet, fet' PROVE Shrinks
    OBVIOUS
  <2>1. CASE MinuteTick
    <3>1. minutes > 1 /\ minutes' = minutes - 1 /\ UNCHANGED <<alt, tstate>>
      BY <2>1 DEF MinuteTick, HwDisable
    <3>2. tstate # "STOP" /\ minutes \in Nat
      BY <2>1 DEF MinuteTick, TimedInv, TypeOK, TimeoutType
    <3>. QED
      BY <3>1, <3>2, MinutesAssumption DEF MinutesLeft
  <2>2. CASE SolnPass
    <3>1. MinutesLeft' <= MinutesLeft
      BY <2>2, MinutesLeftPass DEF SolnPass
    <3>. QED
      BY <3>1, <2>1
  <2>3. CASE \/ Quiet \/ DebounceExpire \/ BattTmrExpire \/ BbReady \/ VbtrDone \/ IbtrDone
             \/ BrownOut \/ BrownOutRetry \/ Connect \/ Contract \/ ContractLost
    <3>1. UNCHANGED <<alt, timeoutVars>>
      BY <2>3, QuietSteps
         DEF quietVars, DebounceExpire, BattTmrExpire, BbReady, VbtrDone, IbtrDone,
             BrownOut, BrownOutRetry, Connect, Contract, ContractLost
    <3>. QED
      BY <3>1, <2>1, MinutesLeftFrame
  <2>4. ~(\E p \in Protections : ProtectionTrip(p))
    BY DEF ProtectionTrip, HwDisable
  <2>5. ~ResetEvent
    BY ResetSteps DEF Reset, HwDisable, TypeOK, PathInv, RestingIsOff, PathOff, Resting
  <2>. QED
    BY <2>1, <2>2, <2>3, <2>4, <2>5, StepCases
<1>2. Init => TimedInv
  BY DEF Init, TimedInv, Active
<1>. QED
  BY <1>1, <1>2, PathInvariant, TimedInductive, PTL DEF Spec, ChargeTimeShrinks
=============================================================================
