--------------------------- MODULE BatteryCharger ---------------------------
(***************************************************************************)
(* The charger state machine of the solution layer: soln_task, the          *)
(* protection callbacks, the charge timeout and the port events that reset  *)
(* it (src/solution/solution.c, src/solution/solution_tasks.c).             *)
(*                                                                         *)
(* One call of soln_task from the main loop, one interrupt or soft-timer    *)
(* callback, and one stack event are one step each.  All interrupts have    *)
(* the same priority, so a callback is never preempted; the preemption of   *)
(* soln_task by a callback in the middle of a pass is not modelled here.    *)
(*                                                                         *)
(* Currents, BB voltages and powers are abstracted to what the control      *)
(* compares them with; the battery voltage keeps its millivolts, sampled    *)
(* from Volts.  Timers have no duration: a running timer may expire at any  *)
(* moment, so every order of expirations is explored.                       *)
(***************************************************************************)
EXTENDS Naturals

CONSTANTS
    Volts,          \* battery voltages the SAR ADC can report, in mV
    PreMinutes,     \* PRE_CHARGE_TIMER_VALUE
    NormalMinutes,  \* NORMAL_CHARGE_TIMER_VALUE
    Hazards         \* what the environment may do, a subset of AllHazards

Protections == {"ovp", "uvp", "ocp", "rcp"}
AllHazards == Protections \cup {"ntc", "brownout", "vbus", "renegotiate"}

ASSUME VoltsAssumption == Volts \subseteq Nat
ASSUME MinutesAssumption == PreMinutes \in Nat \ {0} /\ NormalMinutes \in Nat \ {0}
ASSUME HazardsAssumption == Hazards \subseteq AllHazards

(* Thresholds, in mV. *)
RemovalThreshold == 1000     \* BATTERY_REMOVAL_THRESHOLD
UvpThreshold == 10000        \* PRIMARY_VBATT_UVP_THRESHOLD
DischargedVolt == 15000      \* TOTAL_VBATT_DISCHARGED_SNK
RechargeThreshold == 20000   \* TOTAL_VBATT_RECHARGE_THRESH
MaxAllowedVolt == 20750      \* TOTAL_VBATT_MAX_ALLOWED_VOLT

VARIABLES
    chg,            \* gl_sln_batt_chg_state
    alt,            \* gl_sln_batt_chg_alt_state
    faults,         \* the batt_*_fault_active and ntcp*_otp_fault_active flags that are set
    timeoutExpired, \* batt_stat->timeout_expired
    charging,       \* batt_stat->cur_batt_charging_status
    pwrOk,          \* batt_stat->is_vbus_pwr_sufficient
    pack,           \* batt_stat->batt_pack_type
    adc,            \* adc_state of soln_task
    adcPending,     \* batt_stat->adc_pending
    adcDelay,       \* the ADC enable delay timer runs
    scanning,       \* sar_is_scanning
    vbat,           \* adcResult->vbat
    monTmr,         \* SOLN_BATT_MONITOR_TASK timer runs
    debounce,       \* SOLN_BATT_MONITOR_DEBOUNCE timer runs
    battTmr,        \* BATT_TIMER; "EXPIRED" and "STOPPED" are both "not running" to the code
    bb,             \* the buck-boost converter
    fet,            \* the battery switch, pin B1_VOUT_DC_EN_H
    armed,          \* the hardware protections that are enabled
    vbtr,           \* a VBTR voltage transition is in progress
    ibtr,           \* an IBTR current transition is in progress
    tstate,         \* charging_timeout_state
    minutes,        \* charging_timeout_counter
    minTmr,         \* the 1-minute timer runs
    port,           \* what the stack knows of the Type-C port
    bod             \* brown-out: {"armed"} detector on, {"check"} retry timer runs

statusVars == <<faults, timeoutExpired, pwrOk, pack>>
adcVars == <<adc, adcPending, adcDelay, scanning, vbat>>
hwVars == <<bb, fet, armed, charging, battTmr>>
timeoutVars == <<tstate, minutes, minTmr>>
loopVars == <<vbtr, ibtr>>
vars == <<chg, alt, statusVars, adcVars, monTmr, debounce, hwVars, loopVars,
          timeoutVars, port, bod>>

(* batt_chg_state_t without ATTACHED_SRC and END_OF_CHARGE, which no code of *)
(* the sink-only build assigns.                                             *)
Resting == {"IDLE", "INIT", "ATTACHED_SNK"}
Active == {"SET_VBAT", "SET_IBAT", "SET_VBAT_WAIT", "ENA_BAT_FET",
           "RCP_DELAY", "RCP_DELAY1", "CHARGE_LOOP"}
AltStates == {"LOOK4BATTERY", "BAD_BATTERY", "INIT_CHARGE", "CC_MODE",
              "CHARGE_FULL", "CV_MODE"}

(* WEAK and STRONG: a PD contract or a BC 1.2 supply, below and above the   *)
(* minimal power.                                                           *)
PortStates == {"DISABLED", "DETACHED", "ATTACHED", "WEAK", "STRONG"}
Attached == port \in {"ATTACHED", "WEAK", "STRONG"}
Powered == port \in {"WEAK", "STRONG"}

Present == vbat > RemovalThreshold

ModeType == chg \in Resting \cup Active /\ alt \in AltStates
FlagType ==
    /\ faults \subseteq Protections \cup {"ntc"}
    /\ timeoutExpired \in BOOLEAN
    /\ pwrOk \in BOOLEAN
    /\ pack \in {"NO_BATTERY", "BATTERY_PRESENT"}
AdcType ==
    /\ adc \in {"IDLE", "START_CONVERSION", "WAIT_RESULT", "DONE"}
    /\ adcPending \in BOOLEAN
    /\ adcDelay \in BOOLEAN
    /\ scanning \in BOOLEAN
    /\ vbat \in Volts \cup {0}
TaskTimerType == monTmr \in BOOLEAN /\ debounce \in BOOLEAN
HwType ==
    /\ bb \in {"OFF", "STARTING", "READY"}
    /\ fet \in BOOLEAN
    /\ armed \subseteq Protections
    /\ charging \in BOOLEAN
    /\ battTmr \in {"STOPPED", "RUNNING", "EXPIRED"}
LoopType == vbtr \in BOOLEAN /\ ibtr \in BOOLEAN
TimeoutType ==
    /\ tstate \in {"STOP", "PRECHARGE", "NORMAL"}
    /\ minutes \in Nat
    /\ minTmr \in BOOLEAN
PortType == port \in PortStates /\ bod \subseteq {"armed", "check"}

TypeOK ==
    /\ ModeType /\ FlagType /\ AdcType /\ TaskTimerType
    /\ HwType /\ LoopType /\ TimeoutType /\ PortType

-----------------------------------------------------------------------------
(* Commands to the power path and to the charge timeout. *)

(* Mutant: the buck-boost is forgotten. *)
HwDisable_LeavesBb ==
    /\ fet' = FALSE
    /\ armed' = {}
    /\ charging' = FALSE
    /\ battTmr' = "STOPPED"
    /\ UNCHANGED bb

(* soln_batt_chgr_hw_disable: BB off, switch off, every protection disarmed. *)
HwDisable ==
    /\ bb' = "OFF"
    /\ fet' = FALSE
    /\ armed' = {}
    /\ charging' = FALSE
    /\ battTmr' = "STOPPED"

HwDisableIf(c) == IF c THEN HwDisable ELSE UNCHANGED hwVars

(* Mutant: only overvoltage is watched. *)
OutEnable_NoUvp ==
    /\ armed' = armed \cup {"ovp"}
    /\ fet' = TRUE
    /\ charging' = TRUE
    /\ UNCHANGED <<bb, battTmr>>

(* BATT_CHGE_BB_OUT_EN: the voltage protections first, then the switch. *)
OutEnable ==
    /\ armed' = armed \cup {"ovp", "uvp"}
    /\ fet' = TRUE
    /\ charging' = TRUE
    /\ UNCHANGED <<bb, battTmr>>

StartValue(s) == IF s = "PRECHARGE" THEN PreMinutes ELSE NormalMinutes

(* Mutant: a repeated command restarts the count. *)
TimeoutCmd_Restarts(s) ==
    /\ tstate' = s
    /\ minutes' = IF s = "STOP" THEN minutes ELSE StartValue(s)
    /\ minTmr' = (s # "STOP")

(* charging_timeout_cmd: nothing happens unless the state changes. *)
TimeoutCmd(s) ==
    IF s = tstate THEN UNCHANGED timeoutVars
    ELSE /\ tstate' = s
         /\ minutes' = IF s = "STOP" THEN minutes ELSE StartValue(s)
         /\ minTmr' = (s # "STOP")

-----------------------------------------------------------------------------
Init ==
    /\ chg = "IDLE"
    /\ alt = "LOOK4BATTERY"
    /\ faults = {}
    /\ timeoutExpired = FALSE
    /\ charging = FALSE
    /\ pwrOk = FALSE
    /\ pack = "NO_BATTERY"
    /\ adc = "IDLE"
    /\ adcPending = FALSE
    /\ adcDelay = FALSE
    /\ scanning = FALSE
    /\ vbat = 0
    /\ monTmr = FALSE
    /\ debounce = FALSE
    /\ battTmr = "STOPPED"
    /\ bb = "OFF"
    /\ fet = FALSE
    /\ armed = {}
    /\ vbtr = FALSE
    /\ ibtr = FALSE
    /\ tstate = "STOP"
    /\ minutes = 0
    /\ minTmr = FALSE
    /\ port = "DETACHED"
    /\ bod = {}

-----------------------------------------------------------------------------
(* soln_task up to the verdict of adc_state: one measurement per period. *)

AdcOnly(next) ==
    /\ adc' = next
    /\ UNCHANGED <<chg, alt, statusVars, scanning, vbat, debounce, hwVars,
                   loopVars, timeoutVars, port, bod>>

AdcStart ==
    /\ adc = "IDLE" /\ ~monTmr
    /\ monTmr' = TRUE
    /\ UNCHANGED <<adcPending, adcDelay>>
    /\ AdcOnly("START_CONVERSION")

AdcRequest ==
    /\ adc = "START_CONVERSION"
    /\ adcPending' = TRUE
    /\ adcDelay' = TRUE
    /\ UNCHANGED monTmr
    /\ AdcOnly("WAIT_RESULT")

AdcRewind ==
    /\ adc = "DONE"
    /\ UNCHANGED <<adcPending, adcDelay, monTmr>>
    /\ AdcOnly("IDLE")

(* battery_measure_sar_adc_start_cb and battery_measure_intr_handler. *)
AdcDelayDone ==
    /\ adcDelay
    /\ adcDelay' = FALSE
    /\ scanning' = TRUE
    /\ UNCHANGED <<chg, alt, statusVars, adc, adcPending, vbat, monTmr, debounce,
                   hwVars, loopVars, timeoutVars, port, bod>>

SarInterrupt ==
    /\ scanning
    /\ scanning' = FALSE
    /\ vbat' \in Volts
    /\ adcPending' = FALSE
    /\ UNCHANGED <<chg, alt, statusVars, adc, adcDelay, monTmr, debounce,
                   hwVars, loopVars, timeoutVars, port, bod>>

-----------------------------------------------------------------------------
(* A pass of soln_task: the call that finds a finished measurement.  Every   *)
(* pass first runs soln_battery_charger_task, whose inputs are the measured  *)
(* current and the two board thermistors.                                   *)

Currents == {"LOW", "NOMINAL"} \cup (IF "ocp" \in Hazards THEN {"OVER"} ELSE {})

(* Whether a board thermistor is in its over-temperature state. *)
NtcVerdicts == IF "ntc" \in Hazards THEN BOOLEAN ELSE {FALSE}

(* The flags after soln_battery_charger_task.  The current is only measured  *)
(* while the charger is active with sufficient power and no OCP is latched.  *)
Monitored(ibat, hot) ==
    (faults \ {"ntc"})
        \cup (IF hot THEN {"ntc"} ELSE {})
        \cup (IF chg \in Active /\ pwrOk /\ ibat = "OVER" THEN {"ocp"} ELSE {})

Pack == IF Present THEN "BATTERY_PRESENT" ELSE "NO_BATTERY"

(* A battery that just appeared, or one that appeared less than the debounce *)
(* period ago.                                                              *)
JustInserted == Present /\ pack = "NO_BATTERY"
Debouncing == JustInserted \/ debounce

(* What is left of soln_task once the flags are `seen`, by the verdicts.     *)
RejectPass(seen) ==
    /\ Debouncing
    /\ debounce' = TRUE
    /\ faults' = seen \ Protections
    /\ UNCHANGED <<chg, alt, timeoutExpired, pwrOk, hwVars, loopVars, timeoutVars, port>>

(* State BATT_CHG_INIT: restart a disabled port, wait for a supply. *)
InitStep ==
    /\ port' = IF port = "DISABLED" THEN "DETACHED" ELSE port
    /\ chg' = IF Powered THEN "ATTACHED_SNK" ELSE "INIT"

(* Mutant: the power path is left to the fault callbacks. *)
NoBatteryPass_LeavesHw(seen) ==
    /\ ~Debouncing /\ ~Present
    /\ faults' = seen \ Protections
    /\ alt' = "LOOK4BATTERY"
    /\ timeoutExpired' = FALSE
    /\ TimeoutCmd("STOP")
    /\ InitStep
    /\ UNCHANGED <<hwVars, debounce, pwrOk, loopVars>>

(* No battery: everything is forgotten, the timeout included, and the pass   *)
(* goes on in state INIT.                                                   *)
NoBatteryPass(seen) ==
    /\ ~Debouncing /\ ~Present
    /\ faults' = seen \ Protections
    /\ alt' = "LOOK4BATTERY"
    /\ timeoutExpired' = FALSE
    /\ IF chg \in Active THEN HwDisable
       ELSE /\ charging' = FALSE
            /\ UNCHANGED <<bb, fet, armed, battTmr>>
    /\ TimeoutCmd("STOP")
    /\ InitStep
    /\ UNCHANGED <<debounce, pwrOk, loopVars>>

(* Mutant: the board thermistors are missing from the condition. *)
Faulty_NoNtc(seen) == seen \cap Protections # {} \/ timeoutExpired

Faulty(seen) == seen # {} \/ timeoutExpired
HoldsInInit(seen) == seen \cap {"ocp", "ovp", "ntc"} # {} \/ timeoutExpired

(* The battery-at-fault branch that ends in a return. *)
FaultPass(seen) ==
    /\ ~Debouncing /\ Present /\ Faulty(seen)
    /\ \/ chg \in Active \cup {"ATTACHED_SNK"}
       \/ chg = "INIT" /\ HoldsInInit(seen)
    /\ faults' = seen
    /\ chg' = "INIT"
    /\ HwDisableIf(chg \in Active)
    /\ UNCHANGED <<alt, timeoutExpired, debounce, pwrOk, loopVars, timeoutVars, port>>

(* The passes that reach the state switch with a battery. *)
Switch(seen) ==
    /\ ~Debouncing /\ Present
    /\ \/ ~Faulty(seen)
       \/ chg = "INIT" /\ ~HoldsInInit(seen)
       \/ chg = "IDLE"
    /\ faults' = seen
    /\ UNCHANGED <<timeoutExpired, debounce>>

IdlePass(seen) ==
    /\ Switch(seen)
    /\ chg = "IDLE"
    /\ chg' = "INIT"
    /\ UNCHANGED <<alt, pwrOk, hwVars, loopVars, timeoutVars, port>>

InitPass(seen) ==
    /\ Switch(seen)
    /\ chg = "INIT"
    /\ charging' = FALSE
    /\ InitStep
    /\ UNCHANGED <<alt, pwrOk, bb, fet, armed, battTmr, loopVars, timeoutVars>>

(* Mutant: no memory of having charged the battery. *)
Band_NoHysteresis ==
    IF vbat < UvpThreshold THEN "BAD_BATTERY"
    ELSE IF vbat < DischargedVolt THEN "INIT_CHARGE"
    ELSE IF vbat < MaxAllowedVolt THEN "CC_MODE"
    ELSE "CHARGE_FULL"

(* The charging mode the battery voltage calls for; a battery charged by us  *)
(* waits for the recharge threshold.                                        *)
Band ==
    IF vbat < UvpThreshold THEN "BAD_BATTERY"
    ELSE IF vbat < DischargedVolt THEN "INIT_CHARGE"
    ELSE IF \/ vbat < RechargeThreshold
            \/ vbat < MaxAllowedVolt /\ alt # "CHARGE_FULL"
         THEN "CC_MODE"
    ELSE "CHARGE_FULL"

AttachedPass(seen) ==
    /\ Switch(seen)
    /\ chg = "ATTACHED_SNK"
    /\ charging' = FALSE
    /\ IF ~Powered
       THEN /\ alt' = "LOOK4BATTERY"
            /\ UNCHANGED <<chg, pwrOk, bb>>
       ELSE /\ pwrOk' = (port = "STRONG")
            /\ alt' = IF pwrOk' THEN Band ELSE alt
            /\ IF pwrOk' /\ Band \in {"INIT_CHARGE", "CC_MODE"}
               THEN /\ bb' = IF bb = "OFF" THEN "STARTING" ELSE bb
                    /\ chg' = "SET_VBAT"
               ELSE UNCHANGED <<chg, bb>>
    /\ UNCHANGED <<fet, armed, battTmr, loopVars, timeoutVars, port>>

SetVbatPass(seen) ==
    /\ Switch(seen)
    /\ chg = "SET_VBAT"
    /\ IF bb = "READY"
       THEN /\ vbtr' = TRUE
            /\ chg' = "SET_VBAT_WAIT"
       ELSE UNCHANGED <<vbtr, chg>>
    /\ UNCHANGED <<alt, pwrOk, hwVars, ibtr, timeoutVars, port>>

WaitPass(seen) ==
    /\ Switch(seen)
    /\ chg = "SET_VBAT_WAIT"
    /\ UNCHANGED <<chg, alt, pwrOk, hwVars, loopVars, timeoutVars, port>>

SetIbatPass(seen) ==
    /\ Switch(seen)
    /\ chg = "SET_IBAT"
    /\ ibtr' = TRUE
    /\ battTmr' = "RUNNING"
    /\ chg' = "ENA_BAT_FET"
    /\ UNCHANGED <<alt, pwrOk, bb, fet, armed, charging, vbtr, timeoutVars, port>>

(* Mutant: the flags are not looked at once the transitions have started. *)
EnaBatFetPass_Blind(seen) ==
    /\ ~Debouncing /\ Present
    /\ chg = "ENA_BAT_FET"
    /\ faults' = seen
    /\ IF battTmr # "RUNNING"
       THEN OutEnable /\ chg' = "RCP_DELAY"
       ELSE UNCHANGED <<hwVars, chg>>
    /\ UNCHANGED <<alt, timeoutExpired, debounce, pwrOk, loopVars, timeoutVars, port>>

EnaBatFetPass(seen) ==
    /\ Switch(seen)
    /\ chg = "ENA_BAT_FET"
    /\ IF battTmr # "RUNNING"
       THEN OutEnable /\ chg' = "RCP_DELAY"
       ELSE UNCHANGED <<hwVars, chg>>
    /\ UNCHANGED <<alt, pwrOk, loopVars, timeoutVars, port>>

RcpDelayPass(seen) ==
    /\ Switch(seen)
    /\ \/ /\ chg = "RCP_DELAY"
          /\ chg' = "RCP_DELAY1"
          /\ UNCHANGED armed
       \/ /\ chg = "RCP_DELAY1"
          /\ chg' = "CHARGE_LOOP"
          /\ armed' = armed \cup {"rcp"}
    /\ UNCHANGED <<alt, pwrOk, bb, fet, charging, battTmr, loopVars, timeoutVars, port>>

(* Mutant: the precharge timeout is never replaced by the normal one. *)
ModeTimeout_PreOnly == IF alt = "INIT_CHARGE" THEN TimeoutCmd("PRECHARGE")
                       ELSE UNCHANGED timeoutVars

(* First switch of CHARGE_LOOP: the timeout the mode runs under, and the     *)
(* next mode.                                                               *)
ModeTimeout == IF alt = "INIT_CHARGE" THEN TimeoutCmd("PRECHARGE")
               ELSE IF alt = "CC_MODE" THEN TimeoutCmd("NORMAL")
               ELSE UNCHANGED timeoutVars

NextMode(ibat) ==
    CASE alt = "INIT_CHARGE" /\ vbat >= DischargedVolt -> "CC_MODE"
      [] alt = "CC_MODE" /\ vbat >= MaxAllowedVolt -> "CV_MODE"
      [] alt = "CV_MODE" /\ ibat = "LOW" -> "CHARGE_FULL"
      [] OTHER -> alt

ChargePass(seen, ibat) ==
    /\ Switch(seen)
    /\ chg = "CHARGE_LOOP" /\ charging
    /\ NextMode(ibat) # "CHARGE_FULL"
    /\ alt' = NextMode(ibat)
    /\ ModeTimeout
    \* a change of the current target disarms OCP until IBTR completes
    /\ \/ UNCHANGED <<armed, ibtr>>
       \/ armed' = armed \ {"ocp"} /\ ibtr' = TRUE
    /\ UNCHANGED <<chg, pwrOk, bb, fet, charging, battTmr, vbtr, port>>

FullPass(seen, ibat) ==
    /\ Switch(seen)
    /\ chg = "CHARGE_LOOP" /\ charging
    /\ NextMode(ibat) = "CHARGE_FULL"
    /\ alt' = "CHARGE_FULL"
    /\ HwDisable
    /\ TimeoutCmd("STOP")
    /\ chg' = "ATTACHED_SNK"
    /\ UNCHANGED <<pwrOk, loopVars, port>>

NotChargingPass(seen) ==
    /\ Switch(seen)
    /\ chg = "CHARGE_LOOP" /\ ~charging
    /\ UNCHANGED <<chg, alt, pwrOk, hwVars, loopVars, timeoutVars, port>>

Pass(seen, ibat) ==
    \/ RejectPass(seen)
    \/ NoBatteryPass(seen)
    \/ FaultPass(seen)
    \/ IdlePass(seen)
    \/ InitPass(seen)
    \/ AttachedPass(seen)
    \/ SetVbatPass(seen)
    \/ WaitPass(seen)
    \/ SetIbatPass(seen)
    \/ EnaBatFetPass(seen)
    \/ RcpDelayPass(seen)
    \/ ChargePass(seen, ibat)
    \/ FullPass(seen, ibat)
    \/ NotChargingPass(seen)

SolnPass ==
    /\ adc = "WAIT_RESULT" /\ ~adcPending
    /\ adc' = "DONE"
    /\ pack' = Pack
    /\ \E ibat \in Currents, hot \in NtcVerdicts :
          Pass(Monitored(ibat, hot), ibat)
    /\ UNCHANGED <<adcPending, adcDelay, scanning, vbat, monTmr, bod>>

SolnTask == AdcStart \/ AdcRequest \/ AdcRewind \/ SolnPass

-----------------------------------------------------------------------------
(* Soft timers and power-path interrupts. *)

MonTmrExpire ==
    /\ monTmr
    /\ monTmr' = FALSE
    /\ UNCHANGED <<chg, alt, statusVars, adcVars, debounce, hwVars, loopVars,
                   timeoutVars, port, bod>>

DebounceExpire ==
    /\ debounce
    /\ debounce' = FALSE
    /\ UNCHANGED <<chg, alt, statusVars, adcVars, monTmr, hwVars, loopVars,
                   timeoutVars, port, bod>>

BattTmrExpire ==
    /\ battTmr = "RUNNING"
    /\ battTmr' = "EXPIRED"
    /\ UNCHANGED <<chg, alt, statusVars, adcVars, monTmr, debounce, bb, fet, armed,
                   charging, loopVars, timeoutVars, port, bod>>

(* Mutant: the last minute is not the end. *)
MinuteTick_NoEnd ==
    /\ minTmr
    /\ minutes' = minutes - 1
    /\ UNCHANGED <<chg, alt, statusVars, adcVars, monTmr, debounce, hwVars, loopVars,
                   tstate, minTmr, port, bod>>

(* timer_minute_tick_cb *)
MinuteTick ==
    /\ minTmr
    /\ IF minutes > 1
       THEN /\ minutes' = minutes - 1
            /\ UNCHANGED <<chg, timeoutExpired, hwVars, tstate, minTmr>>
       ELSE /\ TimeoutCmd("STOP")
            /\ HwDisable
            /\ chg' = "INIT"
            /\ timeoutExpired' = TRUE
    /\ UNCHANGED <<alt, faults, pwrOk, pack, adcVars, monTmr, debounce, loopVars, port, bod>>

BbReady ==
    /\ bb = "STARTING"
    /\ bb' = "READY"
    /\ UNCHANGED <<chg, alt, statusVars, adcVars, monTmr, debounce, fet, armed,
                   charging, battTmr, loopVars, timeoutVars, port, bod>>

(* Mutant: the completion is attributed to the state that started it. *)
VbtrDone_WrongState ==
    /\ vbtr
    /\ vbtr' = FALSE
    /\ chg' = IF chg = "SET_VBAT" THEN "SET_IBAT" ELSE chg
    /\ UNCHANGED <<alt, statusVars, adcVars, monTmr, debounce, hwVars, ibtr,
                   timeoutVars, port, bod>>

(* sln_vbtr_cb *)
VbtrDone ==
    /\ vbtr
    /\ vbtr' = FALSE
    /\ chg' = IF chg = "SET_VBAT_WAIT" THEN "SET_IBAT" ELSE chg
    /\ UNCHANGED <<alt, statusVars, adcVars, monTmr, debounce, hwVars, ibtr,
                   timeoutVars, port, bod>>

(* Mutant: OCP is not armed again after a change of the current. *)
IbtrDone_NoRearm ==
    /\ ibtr
    /\ ibtr' = FALSE
    /\ UNCHANGED <<chg, alt, statusVars, adcVars, monTmr, debounce, hwVars, vbtr,
                   timeoutVars, port, bod>>

(* sln_ibtr_cb *)
IbtrDone ==
    /\ ibtr
    /\ ibtr' = FALSE
    /\ armed' = armed \cup {"ocp"}
    /\ UNCHANGED <<chg, alt, statusVars, adcVars, monTmr, debounce, bb, fet,
                   charging, battTmr, vbtr, timeoutVars, port, bod>>

(* Mutant: the callback only reports, the next pass is to switch off. *)
ProtectionTrip_FlagOnly(p) ==
    /\ p \in armed
    /\ faults' = faults \cup {p}
    /\ UNCHANGED <<chg, alt, timeoutExpired, pwrOk, pack, adcVars, monTmr, debounce,
                   hwVars, loopVars, timeoutVars, port, bod>>

(* soln_vbat_ovp_cbk, soln_vbat_uvp_cbk, soln_vbat_ocp_cbk, soln_voutbb_rcp_cbk *)
ProtectionTrip(p) ==
    /\ p \in armed
    /\ HwDisable
    /\ faults' = faults \cup {p}
    /\ UNCHANGED <<chg, alt, timeoutExpired, pwrOk, pack, adcVars, monTmr, debounce,
                   loopVars, timeoutVars, port, bod>>

(* pd_brown_out_fault_handler: retry later, to tell a detach from a fault. *)
BrownOut ==
    /\ "armed" \in bod
    /\ bod' = IF Attached THEN {"check"} ELSE bod \ {"armed"}
    /\ UNCHANGED <<chg, alt, statusVars, adcVars, monTmr, debounce, hwVars, loopVars,
                   timeoutVars, port>>

(* app_brownout_retry_cb: still attached, the power path is switched off.     *)
(* Its event APP_EVT_VREG_BOD_FAULT has no handler.                          *)
BrownOutRetry ==
    /\ "check" \in bod
    /\ bod' = bod \ {"check"}
    /\ HwDisableIf(Attached)
    /\ UNCHANGED <<chg, alt, statusVars, adcVars, monTmr, debounce, loopVars,
                   timeoutVars, port>>

-----------------------------------------------------------------------------
(* Events of the PD stack, batt_pd_event_handler. *)

Connect ==
    /\ port = "DETACHED"
    /\ port' = "ATTACHED"
    /\ charging' = FALSE
    /\ adcPending' = FALSE
    /\ monTmr' = TRUE
    /\ chg' = "INIT"
    /\ bod' = IF "brownout" \in Hazards THEN bod \cup {"armed"} ELSE bod
    /\ UNCHANGED <<alt, statusVars, adc, adcDelay, scanning, vbat, debounce, bb, fet,
                   armed, battTmr, loopVars, timeoutVars>>

(* A contract is negotiated, which the charger only prints, or the detection  *)
(* of BcFsm ends with a supply, of which it is not told.                     *)
Contract ==
    /\ \/ port = "ATTACHED"
       \/ Powered /\ "renegotiate" \in Hazards
    /\ port' \in {"WEAK", "STRONG"}
    /\ UNCHANGED <<chg, alt, statusVars, adcVars, monTmr, debounce, hwVars, loopVars,
                   timeoutVars, bod>>

(* The PD stack drops contractExist before, or without, one of the events     *)
(* below: state ATTACHED_SNK tests it again in every pass.                   *)
ContractLost ==
    /\ Powered
    /\ port' = "ATTACHED"
    /\ UNCHANGED <<chg, alt, statusVars, adcVars, monTmr, debounce, hwVars, loopVars,
                   timeoutVars, bod>>

(* Mutant: only a charger in its loop is switched off. *)
Reset_LoopOnly ==
    /\ monTmr' = FALSE
    /\ IF chg = "CHARGE_LOOP" THEN HwDisable
       ELSE /\ battTmr' = "STOPPED"
            /\ UNCHANGED <<bb, fet, armed, charging>>
    /\ chg' = "INIT"
    /\ alt' = "LOOK4BATTERY"
    /\ bod' = bod \ {"armed"}
    /\ UNCHANGED <<timeoutExpired, pack, adcVars, debounce, loopVars, timeoutVars>>

(* Mutant: the machine is not sent back to INIT. *)
Reset_KeepsState ==
    /\ monTmr' = FALSE
    /\ HwDisable
    /\ alt' = "LOOK4BATTERY"
    /\ bod' = bod \ {"armed"}
    /\ UNCHANGED <<chg, timeoutExpired, pack, adcVars, debounce, loopVars, timeoutVars>>

(* The body the resetting events share.  Nothing is switched off in INIT. *)
Reset ==
    /\ monTmr' = FALSE
    /\ IF chg # "INIT" THEN HwDisable
       ELSE /\ battTmr' = "STOPPED"
            /\ UNCHANGED <<bb, fet, armed, charging>>
    /\ chg' = "INIT"
    /\ alt' = "LOOK4BATTERY"
    /\ bod' = bod \ {"armed"}
    /\ UNCHANGED <<timeoutExpired, pack, adcVars, debounce, loopVars, timeoutVars>>

PeDisabled ==
    /\ Attached
    /\ port' = "ATTACHED"
    /\ pwrOk' = FALSE
    /\ Reset
    /\ UNCHANGED faults

HardReset ==
    /\ Attached
    /\ port' = "ATTACHED"
    /\ Reset
    /\ UNCHANGED <<faults, pwrOk>>

(* bc_stop sends APP_EVT_BC_DETECTION_COMPLETED, when the connection is over. *)
BcDetected ==
    /\ ~Attached
    /\ Reset
    /\ UNCHANGED <<faults, pwrOk, port>>

(* VBUS over- or undervoltage: the port reacts later, with a hard reset. *)
VbusFault ==
    /\ "vbus" \in Hazards
    /\ Attached
    /\ Reset
    /\ UNCHANGED <<faults, pwrOk, port>>

PortDisable ==
    /\ port # "DISABLED"
    /\ port' = "DISABLED"
    /\ Reset
    /\ UNCHANGED <<faults, pwrOk>>

ErrorRecovery ==
    /\ Attached
    /\ port' = "DETACHED"
    /\ Reset
    /\ UNCHANGED <<faults, pwrOk>>

Disconnect ==
    /\ Attached
    /\ port' = "DETACHED"
    /\ Reset
    /\ pwrOk' = FALSE
    /\ faults' = faults \ Protections

PortEvent ==
    \/ Connect \/ Contract \/ ContractLost \/ PeDisabled \/ HardReset
    \/ BcDetected \/ VbusFault \/ PortDisable \/ ErrorRecovery \/ Disconnect

-----------------------------------------------------------------------------
Next ==
    \/ SolnTask
    \/ AdcDelayDone \/ SarInterrupt
    \/ MonTmrExpire \/ DebounceExpire \/ BattTmrExpire \/ MinuteTick
    \/ BbReady \/ VbtrDone \/ IbtrDone
    \/ \E p \in Protections \cap Hazards : ProtectionTrip(p)
    \/ BrownOut \/ BrownOutRetry
    \/ PortEvent

Spec == Init /\ [][Next]_vars

(* The main loop keeps calling soln_task, a started timer expires, and a      *)
(* started conversion or transition completes.  Nothing is assumed of the    *)
(* source, the battery or the faults.                                        *)
Fairness ==
    /\ WF_vars(SolnTask)
    /\ WF_vars(AdcDelayDone) /\ WF_vars(SarInterrupt)
    /\ WF_vars(MonTmrExpire) /\ WF_vars(DebounceExpire)
    /\ WF_vars(BattTmrExpire) /\ WF_vars(MinuteTick)
    /\ WF_vars(BbReady) /\ WF_vars(VbtrDone) /\ WF_vars(IbtrDone)

FairSpec == Spec /\ Fairness
-----------------------------------------------------------------------------
(* Safety. *)

PathOff == bb = "OFF" /\ ~fet

(* What the battery gets: a closed switch alone delivers nothing. *)
PowerPath == IF bb = "OFF" THEN "OFF" ELSE IF fet THEN "ON" ELSE "PREPARED"

(* Outside the charging states nothing is left on.  The resetting events     *)
(* rely on it: in state INIT they do not call soln_batt_chgr_hw_disable.      *)
(* Only OCP may be armed there, by an IBTR completion that came late.         *)
RestingIsOff == chg \in Resting => PathOff /\ armed \subseteq {"ocp"}

(* A port without a partner never has the power path on, whatever event       *)
(* ended the connection and whatever the charger was doing.                   *)
DetachedIsOff == port \in {"DETACHED", "DISABLED"} => PathOff

(* While any fault flag or the expired timeout is latched, converter and      *)
(* switch are off: callbacks switch off before they set their flag, and the   *)
(* flags that soln_task sets itself are acted on in the same pass.            *)
FaultIsOff == faults # {} \/ timeoutExpired => PathOff

(* Passes are rejected during the debounce, so nothing may be on that a pass  *)
(* would have to switch off.                                                 *)
DebounceIsOff == debounce => PathOff

(* The switch is never closed without both voltage protections, and the flag  *)
(* cur_batt_charging_status tells its position although four functions clear   *)
(* the flag without touching the pin.                                        *)
SwitchIsGuarded == (fet => {"ovp", "uvp"} \subseteq armed) /\ charging = fet

(* Battery current is supervised in software only while the power flag is     *)
(* set: the flag is set in every active state although PE_DISABLED and         *)
(* DISCONNECT clear it at any moment.                                        *)
ActiveIsPowered == chg \in Active => pwrOk

(* While the converter charges the battery, all four protections are armed, but  *)
(* for the time of an IBTR transition: arming is spread over two passes and a    *)
(* completion callback, every change of the current disarms OCP, and a brown-out *)
(* retry disarms it for good, but switches the converter off as well.           *)
LoopIsProtected ==
    chg = "CHARGE_LOOP" /\ PowerPath = "ON" /\ ~ibtr => armed = Protections

(* Constant-voltage charging runs under the normal timeout.  The minute timer *)
(* runs exactly while a timeout is counted, the count is then between one and *)
(* the value that timeout starts with, and a latched timeout has none running. *)
TimedCharging ==
    /\ fet /\ alt = "CV_MODE" => tstate = "NORMAL"
    /\ minTmr <=> tstate # "STOP"
    /\ tstate # "STOP" => minutes \in 1..StartValue(tstate)
    /\ timeoutExpired => tstate = "STOP"

(* The switch closes only on a battery that has been present for more than a  *)
(* debounce, with no fault latched before or by the same pass and no expired   *)
(* timeout, for a partner whose power was found sufficient, and in the charging *)
(* mode the attempt chose: about eight passes and two completions lie between *)
(* the choice and the switch.                                                *)
Chosen == {"INIT_CHARGE", "CC_MODE"}
SwitchOnQualified ==
    [][~fet /\ fet' => /\ pack = "BATTERY_PRESENT" /\ pack' = pack /\ ~debounce
                      /\ faults' = {} /\ ~timeoutExpired
                      /\ Attached /\ pwrOk /\ alt \in Chosen]_vars

(* A charged battery is not charged again before it fell below the recharge   *)
(* threshold, was removed, or the supply was renewed: faults in between do    *)
(* not make the charger forget.                                              *)
FullIsLatched ==
    [][alt = "CHARGE_FULL" /\ alt' # alt =>
          vbat < RechargeThreshold \/ ~Powered \/ (chg' = "INIT" /\ ~monTmr')]_vars

(* Behind a closed switch the minutes that may still be charged never grow, and    *)
(* every tick takes one: no pass, mode change or transition renews the timeout,  *)
(* although the passes repeat its commands and an earlier count may be left over. *)
MinutesLeft ==
    (IF tstate = "STOP" THEN 0 ELSE minutes)
        + (IF alt = "INIT_CHARGE" /\ tstate # "PRECHARGE" THEN PreMinutes ELSE 0)
        + (IF alt # "INIT_CHARGE" /\ tstate = "NORMAL" THEN 0 ELSE NormalMinutes)
ChargeTimeShrinks ==
    [][fet /\ fet' =>
          /\ MinutesLeft' <= MinutesLeft
          /\ MinuteTick => MinutesLeft' < MinutesLeft]_vars

(* The charger implements ChargeGate, brown-out retries that switch off behind    *)
(* the state machine included.                                               *)
Gate == INSTANCE ChargeGate WITH
            out <- PowerPath,
            fault <- faults # {},
            spent <- timeoutExpired,
            present <- pack = "BATTERY_PRESENT"
GateSpec == Gate!Spec

-----------------------------------------------------------------------------
(* Liveness, under Fairness. *)

(* No battery is charged forever: the timeout ends what nothing else ends,    *)
(* although soln_task repeats its commands in every pass.                     *)
ChargeIsTimeLimited == fet ~> ~fet

(* With a strong supply that stays, a battery in range and no fault, the      *)
(* charger keeps charging it or has charged it.                              *)
Chargeable ==
    /\ port = "STRONG"
    /\ vbat >= UvpThreshold
    /\ faults = {} /\ ~timeoutExpired
ChargingStarts == <>[]Chargeable => []<>(fet \/ alt = "CHARGE_FULL")

-----------------------------------------------------------------------------
(* What comments of the source say and the code does not do. *)

(* solution.c:750 "infinite UVP retries are allowed": with a supply and a      *)
(* healthy battery, an undervoltage fault is followed by a new attempt.        *)
UvpIsRetried ==
    <>[](faults = {"uvp"} /\ ~timeoutExpired /\ port = "STRONG"
             /\ vbat >= UvpThreshold /\ vbat < RechargeThreshold)
        => []<>(chg = "SET_VBAT")

(* solution.c:951 "Enable Battery FET after BATT_TIMER_PERIOD expiration."     *)
FetAfterPeriod == [][~fet /\ fet' => battTmr = "EXPIRED"]_vars
=============================================================================
