-------------------------- MODULE ChargeGate_proofs --------------------------
(***************************************************************************)
(* The charger implements ChargeGate, whatever the environment does between two  *)
(* passes: proofs of the refinement and of the protections in the charge loop,   *)
(* also when a brown-out retry switches off behind the state machine.           *)
(***************************************************************************)
EXTENDS BatteryCharger_proofs

-----------------------------------------------------------------------------
(* How steps of the charger map to steps of the gate. *)

(* An active machine that is not sent away has no fault in sight, and none        *)
(* latched while its converter is on.                                        *)
LEMMA ActiveSwitch ==
    ASSUME TypeOK, PathInv, NEW ibat, NEW hot,
           Switch(Monitored(ibat, hot)), chg \in Active
    PROVE  /\ Monitored(ibat, hot) = {} /\ ~timeoutExpired
           /\ bb # "OFF" => faults = {}
           /\ pack = "BATTERY_PRESENT" /\ Pack = pack
<1>1. Monitored(ibat, hot) = {} /\ ~timeoutExpired
  BY DEF Switch, Faulty, Active
<1>2. bb # "OFF" => faults = {}
  BY DEF PathInv, FaultIsOff, PathOff
<1>3. pack = "BATTERY_PRESENT" /\ Pack = pack
  BY DEF Switch, Pack, PathInv, Resting, Active, TypeOK, FlagType
<1>. QED
  BY <1>1, <1>2, <1>3

(* A step after which the converter is off forgets an expired timeout only with the  *)
(* battery.                                                                  *)
LEMMA OffMaps ==
    ASSUME bb' = "OFF", timeoutExpired' \in BOOLEAN,
           timeoutExpired /\ ~timeoutExpired' => pack' = "NO_BATTERY"
    PROVE  Gate!Off
BY DEF PowerPath, Gate!Off

(* A step that keeps the path as it is keeps what the gate sees. *)
LEMMA KeepMaps ==
    ASSUME bb' = "OFF" <=> bb = "OFF",
           UNCHANGED <<fet, faults, timeoutExpired, pack>>
    PROVE  UNCHANGED Gate!vars
BY DEF PowerPath, Gate!vars

LEMMA PassMaps ==
    ASSUME TypeOK, TypeOK', PathInv, PathInv',
           NEW ibat \in Currents, NEW hot \in NtcVerdicts,
           Pass(Monitored(ibat, hot), ibat), pack' = Pack
    PROVE  [Gate!Next]_(Gate!vars)
<1>. DEFINE seen == Monitored(ibat, hot)
<1>. timeoutExpired' \in BOOLEAN
  BY DEF TypeOK, FlagType
<1>1. CASE RejectPass(seen)
  <2>1. PathOff'
    BY <1>1 DEF RejectPass, PathInv, RestingIsOff
  <2>. QED
    BY <1>1, <2>1, OffMaps DEF RejectPass, PathOff, Gate!Next
<1>2. CASE NoBatteryPass(seen)
  <2>1. PathOff'
    BY <1>2 DEF NoBatteryPass, InitStep, PathInv, RestingIsOff, Resting
  <2>. QED
    BY <1>2, <2>1, OffMaps DEF NoBatteryPass, PathOff, Pack, Gate!Next
<1>3. CASE FaultPass(seen) \/ IdlePass(seen) \/ InitPass(seen) \/ FullPass(seen, ibat)
  <2>1. PathOff'
    BY <1>3 DEF FaultPass, IdlePass, InitPass, InitStep, FullPass, PathInv, RestingIsOff,
                Resting
  <2>. QED
    BY <1>3, <2>1, OffMaps DEF PathOff, FaultPass, IdlePass, InitPass, FullPass, Switch, Gate!Next
<1>4. CASE AttachedPass(seen)
  <2>1. PathOff /\ fet' = fet /\ timeoutExpired' = timeoutExpired
    BY <1>4 DEF AttachedPass, Switch, PathInv, RestingIsOff, Resting
  <2>2. CASE bb' = "OFF"
    BY <2>1, <2>2, OffMaps DEF PathOff, Gate!Next
  <2>3. CASE bb' # "OFF"
    <3>1. seen = {} /\ ~timeoutExpired /\ faults' = {} /\ Pack = "BATTERY_PRESENT"
      BY <1>4 DEF AttachedPass, Switch, Faulty, Pack
    <3>2. pack = "BATTERY_PRESENT"
      BY <1>4 DEF AttachedPass, Switch, Debouncing, JustInserted, TypeOK, FlagType
    <3>. QED
      BY <2>1, <2>3, <3>1, <3>2 DEF PathOff, PowerPath, Gate!Prepare, Gate!Next
  <2>. QED
    BY <2>2, <2>3
<1>5. CASE EnaBatFetPass(seen)
  <2>1. /\ seen = {} /\ ~timeoutExpired /\ (bb # "OFF" => faults = {})
        /\ pack = "BATTERY_PRESENT" /\ Pack = pack
    BY <1>5, ActiveSwitch DEF EnaBatFetPass, Active
  <2>2. faults' = {} /\ timeoutExpired' = timeoutExpired /\ bb' = bb
    BY <1>5, <2>1 DEF EnaBatFetPass, Switch, OutEnable, hwVars
  <2>3. CASE bb = "OFF"
    BY <2>1, <2>2, <2>3, OffMaps DEF Gate!Next
  <2>4. CASE bb # "OFF" /\ fet' = fet
    BY <2>1, <2>2, <2>4, KeepMaps
  <2>5. CASE bb # "OFF" /\ ~fet /\ fet'
    BY <2>1, <2>2, <2>5 DEF PowerPath, Gate!SwitchOn, Gate!Next
  <2>6. fet' \in {fet, TRUE}
    BY <1>5 DEF EnaBatFetPass, OutEnable, hwVars
  <2>. QED
    BY <2>3, <2>4, <2>5, <2>6 DEF TypeOK, HwType
<1>6. CASE \/ SetVbatPass(seen) \/ WaitPass(seen) \/ SetIbatPass(seen)
           \/ RcpDelayPass(seen) \/ ChargePass(seen, ibat) \/ NotChargingPass(seen)
  <2>1. chg \in Active /\ Switch(seen) /\ UNCHANGED <<bb, fet, timeoutExpired>>
        /\ faults' = seen
    BY <1>6 DEF SetVbatPass, WaitPass, SetIbatPass, RcpDelayPass, ChargePass,
                NotChargingPass, Switch, Active, hwVars
  <2>2. seen = {} /\ (bb # "OFF" => faults = {}) /\ Pack = pack
    BY <2>1, ActiveSwitch
  <2>3. CASE bb = "OFF"
    BY <2>1, <2>2, <2>3, OffMaps DEF Gate!Next
  <2>4. CASE bb # "OFF"
    BY <2>1, <2>2, <2>4, KeepMaps
  <2>. QED
    BY <2>3, <2>4
<1>. QED
  BY <1>1, <1>2, <1>3, <1>4, <1>5, <1>6 DEF Pass

LEMMA StepMaps ==
    ASSUME TypeOK, TypeOK', PathInv, PathInv', [Next]_vars
    PROVE  [Gate!Next]_(Gate!vars)
<1>. timeoutExpired' \in BOOLEAN
  BY DEF TypeOK, FlagType
<1>1. CASE Quiet \/ UNCHANGED vars
  BY <1>1, QuietSteps, KeepMaps DEF quietVars, vars, statusVars, hwVars
<1>2. CASE SolnPass
  BY <1>2, PassMaps DEF SolnPass
<1>3. CASE DebounceExpire \/ BattTmrExpire \/ VbtrDone \/ IbtrDone \/ Contract
           \/ ContractLost \/ Connect
  BY <1>3, KeepMaps DEF DebounceExpire, BattTmrExpire, VbtrDone, IbtrDone, Contract,
                        ContractLost, Connect, statusVars, hwVars
<1>4. CASE BbReady
  BY <1>4, KeepMaps DEF BbReady, statusVars
<1>5. CASE MinuteTick
  <2>1. CASE minutes > 1
    BY <1>5, <2>1, KeepMaps DEF MinuteTick, hwVars
  <2>2. CASE ~(minutes > 1)
    BY <1>5, <2>2, OffMaps DEF MinuteTick, HwDisable, PathOff, Gate!Next
  <2>. QED
    BY <2>1, <2>2
<1>6. ASSUME NEW p \in Protections, ProtectionTrip(p) PROVE Gate!Next
  BY <1>6, OffMaps DEF ProtectionTrip, HwDisable, PathOff, Gate!Next
<1>7. CASE BrownOut \/ BrownOutRetry
  BY <1>7, KeepMaps, OffMaps DEF BrownOut, BrownOutRetry, HwDisableIf, HwDisable, statusVars, hwVars,
                                Gate!Next
<1>8. CASE ResetEvent
  <2>1. Reset
    BY <1>8, ResetSteps DEF TypeOK
  <2>2. PathOff'
    BY <2>1 DEF Reset, PathInv, RestingIsOff, Resting
  <2>. QED
    BY <2>1, <2>2, OffMaps DEF Reset, PathOff, Gate!Next
<1>. QED
  BY <1>1, <1>2, <1>3, <1>4, <1>5, <1>6, <1>7, <1>8, StepCases

(* Whatever happens, brown-outs included, the battery is powered in two steps,    *)
(* towards a known battery and over no fault; every fault ends it, and an expired *)
(* timeout is forgotten only with the battery.                                *)
THEOREM GateRefinement == Spec => GateSpec
<1>1. Init => Gate!Init
  BY DEF Init, Gate!Init, PowerPath
<1>2. TypeOK /\ PathInv /\ TypeOK' /\ PathInv' /\ [Next]_vars => [Gate!Next]_(Gate!vars)
  BY StepMaps
<1>. QED
  BY <1>1, <1>2, PathInvariant, PTL DEF Spec, GateSpec, Gate!Spec

-----------------------------------------------------------------------------
(* The protections of the charge loop. *)

(* The inductive invariant: with the converter on, OCP is armed or about to be      *)
(* armed from the moment the switch may close; the switch stays closed only in     *)
(* the states that lead to the loop, at whose entry RCP is armed.               *)
LoopInv ==
    /\ chg = "ENA_BAT_FET" /\ bb # "OFF" => ibtr \/ "ocp" \in armed
    /\ fet => /\ chg \in {"RCP_DELAY", "RCP_DELAY1", "CHARGE_LOOP"}
              /\ bb # "OFF" => ibtr \/ "ocp" \in armed
              /\ chg = "CHARGE_LOOP" => "rcp" \in armed

LEMMA LoopPass ==
    ASSUME TypeOK, PathInv, LoopInv, NEW ibat \in Currents, NEW hot \in NtcVerdicts,
           Pass(Monitored(ibat, hot), ibat)
    PROVE  LoopInv'
<1>. DEFINE seen == Monitored(ibat, hot)
<1>1. CASE RejectPass(seen)
  BY <1>1 DEF RejectPass, LoopInv, hwVars, loopVars
<1>2. CASE NoBatteryPass(seen)
  BY <1>2 DEF NoBatteryPass, InitStep, HwDisable, LoopInv, Active
<1>3. CASE FaultPass(seen)
  BY <1>3 DEF FaultPass, HwDisableIf, HwDisable, hwVars, LoopInv, Active
<1>4. CASE IdlePass(seen) \/ InitPass(seen)
  BY <1>4 DEF IdlePass, InitPass, InitStep, LoopInv, hwVars
<1>5. CASE AttachedPass(seen)
  BY <1>5 DEF AttachedPass, LoopInv
<1>6. CASE SetVbatPass(seen) \/ WaitPass(seen)
  BY <1>6 DEF SetVbatPass, WaitPass, LoopInv, hwVars, loopVars
<1>7. CASE SetIbatPass(seen)
  BY <1>7 DEF SetIbatPass, LoopInv
<1>8. CASE EnaBatFetPass(seen)
  BY <1>8 DEF EnaBatFetPass, OutEnable, LoopInv, hwVars, loopVars
<1>9. CASE RcpDelayPass(seen)
  BY <1>9 DEF RcpDelayPass, LoopInv, loopVars
<1>10. CASE ChargePass(seen, ibat)
  BY <1>10 DEF ChargePass, LoopInv
<1>11. CASE FullPass(seen, ibat)
  BY <1>11 DEF FullPass, HwDisable, LoopInv
<1>12. CASE NotChargingPass(seen)
  BY <1>12 DEF NotChargingPass, LoopInv, hwVars, loopVars
<1>. QED
  BY <1>1, <1>2, <1>3, <1>4, <1>5, <1>6, <1>7, <1>8, <1>9, <1>10, <1>11, <1>12 DEF Pass

LEMMA LoopInductive ==
    ASSUME TypeOK, PathInv, LoopInv, [Next]_vars
    PROVE  LoopInv'
<1>. USE DEF LoopInv, hwVars, loopVars
<1>1. CASE Quiet \/ UNCHANGED vars
  BY <1>1, QuietSteps DEF quietVars, vars
<1>2. CASE SolnPass
  BY <1>2, LoopPass DEF SolnPass
<1>3. CASE DebounceExpire \/ BattTmrExpire \/ BbReady
  BY <1>3 DEF DebounceExpire, BattTmrExpire, BbReady
<1>4. CASE VbtrDone \/ IbtrDone
  BY <1>4 DEF VbtrDone, IbtrDone
<1>5. CASE MinuteTick
  BY <1>5 DEF MinuteTick, HwDisable
<1>6. ASSUME NEW p \in Protections, ProtectionTrip(p) PROVE LoopInv'
  BY <1>6 DEF ProtectionTrip, HwDisable
<1>7. CASE BrownOut \/ BrownOutRetry
  BY <1>7 DEF BrownOut, BrownOutRetry, HwDisableIf, HwDisable
<1>8. CASE Connect
  BY <1>8 DEF Connect, PathInv, RestingIsOff, PathOff, Resting
<1>9. CASE Contract \/ ContractLost
  BY <1>9 DEF Contract, ContractLost
<1>10. CASE ResetEvent
  <2>1. Reset
    BY <1>10, ResetSteps DEF TypeOK
  <2>. QED
    BY <2>1 DEF Reset, HwDisable, PathInv, RestingIsOff, PathOff, Resting
<1>. QED
  BY <1>1, <1>2, <1>3, <1>4, <1>5, <1>6, <1>7, <1>8, <1>9, <1>10, StepCases

(* A battery is charged in the loop under all four protections, but for the time    *)
(* of a current transition, brown-outs or not.                                 *)
THEOREM LoopSafety == Spec => []LoopIsProtected
<1>1. Init => LoopInv
  BY DEF Init, LoopInv
<1>2. TypeOK /\ PathInv /\ LoopInv /\ [Next]_vars => LoopInv'
  BY LoopInductive
<1>3. TypeOK /\ PathInv /\ LoopInv => LoopIsProtected
  BY DEF TypeOK, HwType, Protections, PathInv, SwitchIsGuarded, LoopInv, PowerPath, LoopIsProtected
<1>. QED
  BY <1>1, <1>2, <1>3, PathInvariant, PTL DEF Spec
=============================================================================
