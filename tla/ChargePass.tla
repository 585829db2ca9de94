----------------------------- MODULE ChargePass -----------------------------
(***************************************************************************)
(* One pass of soln_task taken apart (src/solution/solution.c,               *)
(* src/solution/solution_tasks.c): what BatteryCharger takes in one step is   *)
(* here a sequence of steps that interrupts may come between.  A step ends     *)
(* where an interrupt makes a difference; all interrupts have one priority, so *)
(* a callback is a single step.  The events of the PD stack run in the same     *)
(* main loop as soln_task, between passes.                                    *)
(*                                                                         *)
(* The module keeps the numbers that BatteryCharger abstracts: the power      *)
(* budget of the supply, the ramp of the charging current, the OCP level and   *)
(* the temperatures of the board.  A battery is present all the time; its      *)
(* insertion and removal are the business of BatteryCharger.                  *)
(*                                                                         *)
(* Currents are in 10 mA, voltages in mV, powers in their product.           *)
(***************************************************************************)
EXTENDS Thermistor

CONSTANTS
    Volts,      \* battery voltages that the ADC may report, all above removal
    Supplies,   \* contracts a source may give: records of volt and curr
    Levels,     \* per sensor, the readings it may give
    Rsense,     \* the sense resistor on the board, in the unit of IdealRsense
    Trips       \* the protections that may trip

Protections == {"ovp", "uvp", "ocp", "rcp"}

ASSUME VoltsAssumption == Volts \subseteq Nat
ASSUME SuppliesAssumption == Supplies \subseteq [volt : Nat, curr : Nat]
ASSUME LevelsAssumption == Levels \in [Sensors -> SUBSET AdcLevels]
ASSUME RsenseAssumption == Rsense \in Nat \ {0}
ASSUME TripsAssumption == Trips \subseteq Protections

IdealRsense == 50            \* CSA_IDEAL_RSENSE, 5 mOhm
MaxCurrent == 200            \* VBAT_INPUT_CURR_MAX_SETTING
MinCurrent == 30             \* MIN_IBAT_CHARGING_CURR
OneAmp == 100                \* CY_USBPD_I_1A
MinInputPower == 7500        \* MIN_USBC_VBUS_TOTAL_POWER, in mW
VbattHyst == 500             \* TOTAL_VBATT_HYST_THRESH
UvpThreshold == 10000        \* PRIMARY_VBATT_UVP_THRESHOLD
DischargedVolt == 15000      \* TOTAL_VBATT_DISCHARGED_SNK
RechargeThreshold == 20000   \* TOTAL_VBATT_RECHARGE_THRESH
MaxAllowedVolt == 20750      \* TOTAL_VBATT_MAX_ALLOWED_VOLT

VARIABLES
    pc,         \* where soln_task stands; "idle" between passes
    branch,     \* the case of the state switch that runs
    chg,        \* gl_sln_batt_chg_state
    alt,        \* gl_sln_batt_chg_alt_state
    low,        \* curr_batt_curr is below a step
    vbat,       \* batt_stat->curr_batt_volt
    ntc,        \* ntcp0_state and ntcp1_state
    faults,     \* the batt_*_fault_active and ntcp*_otp_fault_active flags that are set
    expired,    \* batt_stat->timeout_expired
    timing,     \* the 1-minute timer runs
    pwrOk,      \* batt_stat->is_vbus_pwr_sufficient
    pwr,        \* batt_stat->cur_bb_pwr
    iout,       \* batt_stat->cur_bb_iout
    contract,   \* dpmStat.contract, or NoContract
    bb,         \* the buck-boost converter
    fet,        \* the battery switch
    charging,   \* batt_stat->cur_batt_charging_status
    armed,      \* the hardware protections that are enabled
    battTmr,    \* BATT_TIMER runs
    ocpLevel,   \* the current OCP was armed with
    vbtr,       \* a VBTR transition is in progress
    ibtr,       \* an IBTR transition is in progress
    \* history, read by the properties only
    hot,        \* per sensor: passes in a row that read over-temperature, up to 2
    stopped     \* a protection or the timeout has ended the present attempt

passVars == <<pc, branch>>
stateVars == <<chg, alt>>
senseVars == <<low, vbat, ntc, hot>>
flagVars == <<faults, expired>>
budgetVars == <<pwrOk, pwr>>
hwVars == <<bb, fet, charging, armed, battTmr>>
loopVars == <<ocpLevel, vbtr, ibtr>>
vars == <<passVars, stateVars, senseVars, flagVars, timing, budgetVars, iout, contract,
          hwVars, loopVars, stopped>>

NoContract == [volt |-> 0, curr |-> 0]

Early == {"INIT", "ATTACHED_SNK"}
Active == {"SET_VBAT", "SET_IBAT", "SET_VBAT_WAIT", "ENA_BAT_FET",
           "RCP_DELAY", "RCP_DELAY1", "CHARGE_LOOP"}
States == Early \cup Active
AltStates == {"LOOK4BATTERY", "BAD_BATTERY", "INIT_CHARGE", "CC_MODE",
              "CHARGE_FULL", "CV_MODE"}
Flags == Protections \cup Sensors
Steps == {"idle", "flag", "sense", "body", "commit", "close", "disarm", "start"}

StateType ==
    /\ pc \in Steps
    /\ branch \in States \cup {"NONE"}
    /\ chg \in States
    /\ alt \in AltStates
SenseType ==
    /\ low \in BOOLEAN
    /\ vbat \in Nat
    /\ ntc \in [Sensors -> TempStates]
    /\ hot \in [Sensors -> 0..2]
FlagType ==
    /\ faults \subseteq Flags
    /\ expired \in BOOLEAN
    /\ timing \in BOOLEAN
    /\ stopped \in BOOLEAN
BudgetType ==
    /\ pwrOk \in BOOLEAN
    /\ pwr \in Nat
    /\ iout \in Nat
    /\ contract \in Supplies \cup {NoContract}
HwType ==
    /\ bb \in {"OFF", "STARTING", "READY"}
    /\ fet \in BOOLEAN
    /\ charging \in BOOLEAN
    /\ armed \subseteq Protections
    /\ battTmr \in BOOLEAN
    /\ ocpLevel \in Nat
    /\ vbtr \in BOOLEAN
    /\ ibtr \in BOOLEAN
TypeOK == StateType /\ SenseType /\ FlagType /\ BudgetType /\ HwType

-----------------------------------------------------------------------------
(* Arithmetic. *)

(* update_current_limit: a current that the hardware is to be told, for the   *)
(* sense resistor that is fitted.                                            *)
Scaled(current) == (current * IdealRsense) \div Rsense
Step == Scaled(30)           \* STEP_IBAT_CHARGING_CURR

(* calc_buck_boost_out_pwr_settings: efficiency of the converter, tolerance   *)
(* of the source, efficiency of manufacture, each rounded down.               *)
OutputPower(s) ==
    LET converted == (s.volt * s.curr * 93) \div 100
        tolerated == (converted * 95) \div 100
    IN  (tolerated * 100) \div 100
Sufficient(s) == (s.volt * s.curr) \div 100 >= MinInputPower

(* batt_max_curr_rating: set to the maximum and throttled in every pass.      *)
Rating == Throttled(Throttled(MaxCurrent, ntc["ntcp0"]), ntc["ntcp1"])
Affordable == pwr \div (vbat + VbattHyst)

(* Mutant: the throttled rating is forgotten. *)
Limit_NoRating == Smaller(Affordable, MaxCurrent)

(* The current that the budget, the thermistors and the battery allow.        *)
Limit == Smaller(Smaller(Affordable, Rating), MaxCurrent)

Abs(n) == IF n < 0 THEN -n ELSE n

(* Mutant: the ramp goes on when less than a step is left. *)
Ramped_Overshoots(limit) ==
    IF limit > iout THEN iout + Step ELSE limit

(* In CC mode the current grows by one step, or to the limit when less than   *)
(* two steps are left; it falls at once.                                     *)
Ramped(limit) ==
    IF limit > iout + Step /\ limit - (iout + Step) >= Step THEN iout + Step ELSE limit

(* sln_ibtr_cb: the monitor is inaccurate below 1 A.                          *)
OcpSetting == IF iout <= OneAmp THEN OneAmp ELSE iout

-----------------------------------------------------------------------------
(* soln_batt_chgr_hw_disable. *)
HwDisable ==
    /\ bb' = "OFF"
    /\ fet' = FALSE
    /\ charging' = FALSE
    /\ armed' = {}
    /\ battTmr' = FALSE

Init ==
    /\ pc = "idle" /\ branch = "NONE"
    /\ chg = "INIT" /\ alt = "LOOK4BATTERY"
    /\ low = TRUE /\ vbat = 0
    /\ ntc = [s \in Sensors |-> "NORMAL"] /\ hot = [s \in Sensors |-> 0]
    /\ faults = {} /\ expired = FALSE /\ timing = FALSE /\ stopped = FALSE
    /\ pwrOk = FALSE /\ pwr = 0 /\ iout = 0 /\ contract = NoContract
    /\ bb = "OFF" /\ fet = FALSE /\ charging = FALSE /\ armed = {} /\ battTmr = FALSE
    /\ ocpLevel = 0 /\ vbtr = FALSE /\ ibtr = FALSE

-----------------------------------------------------------------------------
(* The head of a pass: soln_battery_charger_task. *)

(* The current is measured only if the charger is active, the power suffices  *)
(* and OCP is not latched.                                                   *)
Begin ==
    /\ pc = "idle"
    /\ pc' = IF chg \in Active /\ pwrOk /\ "ocp" \notin faults THEN "flag" ELSE "sense"
    /\ UNCHANGED <<branch, stateVars, senseVars, flagVars, timing, budgetVars, iout,
                   contract, hwVars, loopVars, stopped>>

(* run_battery_curr_monitor_task: the flag is written either way, although     *)
(* the OCP interrupt may have set it since the guard of Begin read it.        *)
WriteFlag ==
    /\ pc = "flag"
    /\ \/ low' \in BOOLEAN /\ faults' = faults \ {"ocp"}
       \/ low' = FALSE /\ "ocp" \in Trips /\ faults' = faults \cup {"ocp"}
    /\ pc' = "sense"
    /\ UNCHANGED <<branch, stateVars, vbat, ntc, hot, expired, timing, budgetVars, iout,
                   contract, hwVars, loopVars, stopped>>

(* run_battery_volt_monitor_task and measure_onboard_ntcp0/1_sensor_data.     *)
Monitor(reading) ==
    /\ vbat' \in Volts
    /\ ntc' = [s \in Sensors |-> Throttle(s, ntc[s], Temperature(reading[s]))]
    /\ hot' = [s \in Sensors |->
                  IF IsOverTemp(s, reading[s]) THEN Smaller(hot[s] + 1, 2) ELSE 0]
    /\ faults' = (faults \ Sensors) \cup {s \in Sensors : ntc'[s] = "OTP"}

-----------------------------------------------------------------------------
(* The battery-at-fault branch, and the dispatch on the state. *)

(* Mutant: the undervoltage flag is missing from the condition. *)
Faulty_NoUvp == faults \ {"uvp"} # {} \/ expired

Faulty == faults # {} \/ expired
HoldsInInit == faults \cap ({"ocp", "ovp"} \cup Sensors) # {} \/ expired

(* A fault ends an active state, and holds the machine in INIT unless it is    *)
(* an undervoltage or a reverse current.                                     *)
Sense ==
    /\ pc = "sense"
    /\ UNCHANGED expired
    /\ \E reading \in [ntcp0 : Levels["ntcp0"], ntcp1 : Levels["ntcp1"]] : Monitor(reading)
    /\ \/ Faulty' /\ chg # "INIT" /\ chg' = "INIT" /\ pc' = "idle" /\ UNCHANGED branch
       \/ chg = "INIT" /\ HoldsInInit' /\ pc' = "idle" /\ UNCHANGED <<branch, chg>>
       \/ /\ ~Faulty' \/ (chg = "INIT" /\ ~HoldsInInit')
          /\ branch' = chg /\ pc' = "body" /\ UNCHANGED chg
    /\ IF Faulty' /\ chg \in Active THEN HwDisable ELSE UNCHANGED hwVars
    /\ UNCHANGED <<alt, low, timing, budgetVars, iout, contract, loopVars, stopped>>

-----------------------------------------------------------------------------
(* The cases of the state switch.  `branch` is where the code runs; `chg` is   *)
(* what a callback may have made of the state meanwhile.                      *)

In(step, state) == pc = step /\ branch = state

(* The end of a pass, with the state it leaves behind.                        *)
Return(state) == pc' = "idle" /\ branch' = "NONE" /\ chg' = state
GoOn(step) == pc' = step /\ UNCHANGED <<branch, chg>>

pathVars == <<bb, fet, armed, battTmr>>
measuredVars == <<senseVars, flagVars>>

InitCase ==
    /\ In("body", "INIT")
    /\ charging' = FALSE
    /\ Return(IF contract = NoContract THEN chg ELSE "ATTACHED_SNK")
    /\ UNCHANGED <<alt, measuredVars, timing, budgetVars, iout, contract, pathVars, loopVars,
                   stopped>>

Band ==
    IF vbat < UvpThreshold THEN "BAD_BATTERY"
    ELSE IF vbat < DischargedVolt THEN "INIT_CHARGE"
    ELSE IF \/ vbat < RechargeThreshold
            \/ vbat < MaxAllowedVolt /\ alt # "CHARGE_FULL"
         THEN "CC_MODE"
    ELSE "CHARGE_FULL"

(* A new attempt: the budget is computed, the converter started, and the        *)
(* current begins at its minimum.  The events that take the contract away reset *)
(* the machine between passes, so it is never missing here.                  *)
AttemptCase ==
    /\ In("body", "ATTACHED_SNK")
    /\ charging' = FALSE
    /\ pwr' = OutputPower(contract)
    /\ iout' = Scaled(MinCurrent)
    /\ pwrOk' = Sufficient(contract)
    /\ alt' = IF pwrOk' THEN Band ELSE alt
    /\ IF pwrOk' /\ Band \in {"INIT_CHARGE", "CC_MODE"}
       THEN /\ bb' = IF bb = "OFF" THEN "STARTING" ELSE bb
            /\ stopped' = FALSE
            /\ GoOn("commit")
       ELSE /\ Return(chg)
            /\ UNCHANGED <<bb, stopped>>
    /\ UNCHANGED <<measuredVars, timing, contract, fet, armed, battTmr, loopVars>>

(* sln_set_volt starts the transition before the state says so.               *)
SetVbatCase ==
    /\ In("body", "SET_VBAT")
    /\ IF bb = "READY"
       THEN vbtr' = TRUE /\ GoOn("commit")
       ELSE Return(chg) /\ UNCHANGED vbtr
    /\ UNCHANGED <<alt, measuredVars, timing, budgetVars, iout, contract, hwVars, ocpLevel,
                   ibtr, stopped>>

(* The state is written last, whatever a callback has made of it.             *)
Commit ==
    /\ pc = "commit"
    /\ Return(IF branch = "ATTACHED_SNK" THEN "SET_VBAT" ELSE "SET_VBAT_WAIT")
    /\ UNCHANGED <<alt, measuredVars, timing, budgetVars, iout, contract, hwVars, loopVars,
                   stopped>>

WaitCase ==
    /\ In("body", "SET_VBAT_WAIT")
    /\ Return(chg)
    /\ UNCHANGED <<alt, measuredVars, timing, budgetVars, iout, contract, hwVars, loopVars,
                   stopped>>

SetIbatCase ==
    /\ In("body", "SET_IBAT")
    /\ ibtr' = TRUE
    /\ battTmr' = TRUE
    /\ Return("ENA_BAT_FET")
    /\ UNCHANGED <<alt, measuredVars, timing, budgetVars, iout, contract, bb, fet, charging,
                   armed, ocpLevel, vbtr, stopped>>

(* BATT_CHGE_BB_OUT_EN: the comparators, then the pin and the state.  What is   *)
(* disarmed between UvpEnable and OvpEnable leaves OVP armed behind it.         *)
FetCase ==
    /\ In("body", "ENA_BAT_FET")
    /\ IF battTmr
       THEN Return(chg) /\ UNCHANGED armed
       ELSE armed' = armed \cup {"uvp", "ovp"} /\ GoOn("close")
    /\ UNCHANGED <<alt, measuredVars, timing, budgetVars, iout, contract, bb, fet, charging,
                   battTmr, loopVars, stopped>>

FetClose ==
    /\ In("close", "ENA_BAT_FET")
    /\ armed' \in {armed, armed \cup {"ovp"}}
    /\ fet' = TRUE
    /\ charging' = TRUE
    /\ Return("RCP_DELAY")
    /\ UNCHANGED <<alt, measuredVars, timing, budgetVars, iout, contract, bb, battTmr,
                   loopVars, stopped>>

DelayCase ==
    /\ In("body", "RCP_DELAY")
    /\ Return("RCP_DELAY1")
    /\ UNCHANGED <<alt, measuredVars, timing, budgetVars, iout, contract, hwVars, loopVars,
                   stopped>>

RcpCase ==
    /\ In("body", "RCP_DELAY1")
    /\ armed' = armed \cup {"rcp"}
    /\ Return("CHARGE_LOOP")
    /\ UNCHANGED <<alt, measuredVars, timing, budgetVars, iout, contract, bb, fet, charging,
                   battTmr, loopVars, stopped>>

-----------------------------------------------------------------------------
(* State CHARGE_LOOP: the charging mode, then the current.                    *)

NotChargingCase ==
    /\ In("body", "CHARGE_LOOP") /\ ~charging
    /\ Return(chg)
    /\ UNCHANGED <<alt, measuredVars, timing, budgetVars, iout, contract, hwVars, loopVars,
                   stopped>>

NextMode ==
    CASE alt = "INIT_CHARGE" /\ vbat >= DischargedVolt -> "CC_MODE"
      [] alt = "CC_MODE" /\ vbat >= MaxAllowedVolt -> "CV_MODE"
      [] alt = "CV_MODE" /\ low -> "CHARGE_FULL"
      [] OTHER -> alt

Target(mode) ==
    CASE mode = "INIT_CHARGE" -> Scaled(MinCurrent)
      [] mode = "CC_MODE" -> Ramped(Limit)
      [] OTHER -> Limit

(* A change of less than a step is not made.                                  *)
LoopCase ==
    /\ In("body", "CHARGE_LOOP") /\ charging
    /\ NextMode # "CHARGE_FULL"
    /\ alt' = NextMode
    /\ timing' = (timing \/ alt \in {"INIT_CHARGE", "CC_MODE"})
    /\ IF Abs(iout - Target(NextMode)) >= Step
       THEN iout' = Target(NextMode) /\ GoOn("disarm")
       ELSE Return(chg) /\ UNCHANGED iout
    /\ UNCHANGED <<measuredVars, budgetVars, contract, hwVars, loopVars, stopped>>

(* Mutant: the machine goes where it is not looked at again. *)
FullCase_EndOfCharge ==
    /\ In("body", "CHARGE_LOOP") /\ charging
    /\ NextMode = "CHARGE_FULL"
    /\ alt' = "CHARGE_FULL"
    /\ HwDisable
    /\ timing' = FALSE
    /\ Return("END_OF_CHARGE")
    /\ UNCHANGED <<measuredVars, budgetVars, iout, contract, loopVars, stopped>>

FullCase ==
    /\ In("body", "CHARGE_LOOP") /\ charging
    /\ NextMode = "CHARGE_FULL"
    /\ alt' = "CHARGE_FULL"
    /\ HwDisable
    /\ timing' = FALSE
    /\ Return("ATTACHED_SNK")
    /\ UNCHANGED <<measuredVars, budgetVars, iout, contract, loopVars, stopped>>

LoopDisarm ==
    /\ In("disarm", "CHARGE_LOOP")
    /\ armed' = armed \ {"ocp"}
    /\ GoOn("start")
    /\ UNCHANGED <<alt, measuredVars, timing, budgetVars, iout, contract, bb, fet, charging,
                   battTmr, loopVars, stopped>>

LoopStart ==
    /\ In("start", "CHARGE_LOOP")
    /\ ibtr' = TRUE
    /\ Return(chg)
    /\ UNCHANGED <<alt, measuredVars, timing, budgetVars, iout, contract, hwVars, ocpLevel,
                   vbtr, stopped>>

Monitoring == Begin \/ WriteFlag \/ Sense
Preparing ==
    \/ InitCase \/ AttemptCase \/ SetVbatCase \/ Commit \/ WaitCase
    \/ SetIbatCase \/ FetCase \/ FetClose \/ DelayCase \/ RcpCase
Looping == NotChargingCase \/ LoopCase \/ FullCase \/ LoopDisarm \/ LoopStart
SolnTask == Monitoring \/ Preparing \/ Looping

-----------------------------------------------------------------------------
(* Callbacks in interrupt context: between any two steps of a pass.           *)

(* OCP and RCP compare the current of the switch.                             *)
CanTrip(p) == p \in armed /\ (p \in {"ocp", "rcp"} => fet)

(* Mutant: the protection switches off and leaves no flag. *)
Trip_NoFlag(p) ==
    /\ CanTrip(p)
    /\ HwDisable
    /\ stopped' = TRUE
    /\ UNCHANGED <<passVars, stateVars, senseVars, flagVars, timing, budgetVars, iout,
                   contract, loopVars>>

Trip(p) ==
    /\ CanTrip(p)
    /\ HwDisable
    /\ faults' = faults \cup {p}
    /\ stopped' = TRUE
    /\ UNCHANGED <<passVars, stateVars, senseVars, expired, timing, budgetVars, iout,
                   contract, loopVars>>

(* A completion between the two writes of SetVbatCase finds the wrong state.  *)
VbtrDone ==
    /\ vbtr
    /\ vbtr' = FALSE
    /\ chg' = IF chg = "SET_VBAT_WAIT" THEN "SET_IBAT" ELSE chg
    /\ UNCHANGED <<passVars, alt, measuredVars, timing, budgetVars, iout, contract, hwVars,
                   ocpLevel, ibtr, stopped>>

(* Mutant: the level is set for the minimal current. *)
IbtrDone_FixedLevel ==
    /\ ibtr
    /\ ibtr' = FALSE
    /\ armed' = armed \cup {"ocp"}
    /\ ocpLevel' = OneAmp
    /\ UNCHANGED <<passVars, stateVars, measuredVars, timing, budgetVars, iout, contract, bb,
                   fet, charging, battTmr, vbtr, stopped>>

IbtrDone ==
    /\ ibtr
    /\ ibtr' = FALSE
    /\ armed' = armed \cup {"ocp"}
    /\ ocpLevel' = OcpSetting
    /\ UNCHANGED <<passVars, stateVars, measuredVars, timing, budgetVars, iout, contract, bb,
                   fet, charging, battTmr, vbtr, stopped>>

BattTmrExpire ==
    /\ battTmr
    /\ battTmr' = FALSE
    /\ UNCHANGED <<passVars, stateVars, measuredVars, timing, budgetVars, iout, contract, bb,
                   fet, charging, armed, loopVars, stopped>>

BbReady ==
    /\ bb = "STARTING"
    /\ bb' = "READY"
    /\ UNCHANGED <<passVars, stateVars, measuredVars, timing, budgetVars, iout, contract, fet,
                   charging, armed, battTmr, loopVars, stopped>>

(* timer_minute_tick_cb in its last minute.                                   *)
TimeoutEnd ==
    /\ timing
    /\ timing' = FALSE
    /\ HwDisable
    /\ chg' = "INIT"
    /\ expired' = TRUE
    /\ stopped' = TRUE
    /\ UNCHANGED <<passVars, alt, senseVars, faults, budgetVars, iout, contract, loopVars>>

Reset ==
    /\ IF chg # "INIT" THEN HwDisable
       ELSE battTmr' = FALSE /\ UNCHANGED <<bb, fet, charging, armed>>
    /\ chg' = "INIT"
    /\ alt' = "LOOK4BATTERY"

(* A VBUS fault resets the machine from the fault interrupt; a pass that it     *)
(* interrupts goes on in its case and overwrites the state.                   *)
VbusFault ==
    /\ contract # NoContract
    /\ Reset
    /\ UNCHANGED <<passVars, measuredVars, timing, budgetVars, iout, contract, loopVars,
                   stopped>>

(* app_brownout_retry_cb.                                                     *)
BrownOutRetry ==
    /\ contract # NoContract
    /\ HwDisable
    /\ UNCHANGED <<passVars, stateVars, measuredVars, timing, budgetVars, iout, contract,
                   loopVars, stopped>>

Interrupt ==
    \/ \E p \in Trips : Trip(p)
    \/ VbtrDone \/ IbtrDone \/ BattTmrExpire \/ BbReady
    \/ TimeoutEnd \/ VbusFault \/ BrownOutRetry

-----------------------------------------------------------------------------
(* Events of the PD stack, between passes.                                    *)

Contract(s) ==
    /\ pc = "idle"
    /\ contract = NoContract
    /\ contract' = s
    /\ UNCHANGED <<passVars, stateVars, measuredVars, timing, budgetVars, iout, hwVars,
                   loopVars, stopped>>

HardReset ==
    /\ pc = "idle"
    /\ contract # NoContract
    /\ contract' = NoContract
    /\ Reset
    /\ UNCHANGED <<passVars, measuredVars, timing, budgetVars, iout, loopVars, stopped>>

(* clear_flags_on_usbc_disconnect.                                            *)
Disconnect ==
    /\ pc = "idle"
    /\ contract # NoContract
    /\ contract' = NoContract
    /\ Reset
    /\ pwr' = 0 /\ pwrOk' = FALSE
    /\ iout' = MinCurrent
    /\ faults' = faults \ Protections
    /\ UNCHANGED <<passVars, senseVars, expired, timing, loopVars, stopped>>

PortEvent == (\E s \in Supplies : Contract(s)) \/ HardReset \/ Disconnect

-----------------------------------------------------------------------------
Next == SolnTask \/ Interrupt \/ PortEvent

Spec == Init /\ [][Next]_vars

-----------------------------------------------------------------------------
(* Safety. *)

Resting == pc = "idle"

(* A protection or the timeout that ends an attempt ends it for good, although *)
(* the pass it interrupts may close the switch afterwards and the current      *)
(* monitor may wipe the flag it set: if the switch is closed again, it is by    *)
(* that pass, and the flag that makes the next one open it is still there.    *)
StopIsFinal == Resting /\ fet /\ stopped => chg = "RCP_DELAY" /\ Faulty

(* While the converter feeds the battery in the charge loop, OCP is armed for   *)
(* the current that was set last, except between the disarming of a pass and    *)
(* the completion of its transition; an old transition may complete between    *)
(* the steps that start the next one.                                        *)
OcpFollowsCurrent ==
    chg = "CHARGE_LOOP" /\ bb # "OFF" /\ ~ibtr /\ pc \notin {"disarm", "start"}
        => "ocp" \in armed /\ ocpLevel = OcpSetting

(* After a pass the charging current is within a step of what the budget, the   *)
(* board temperature and the charger allow, whatever moved since it was set.   *)
DrawWithinBudget ==
    Resting /\ chg = "CHARGE_LOOP" /\ fet =>
        /\ iout <= Affordable + Step
        /\ iout <= Rating + Step
        /\ iout <= MaxCurrent + Step

(* A board that reads over-temperature twice in a row is not charging; it holds  *)
(* as long as no reading lies beyond the table.                              *)
OverTempStops == Resting /\ fet => \A s \in Sensors : hot[s] < 2

(* What it rests on: beyond the table, the conversion reports a fault that its     *)
(* callers read as -1 degrees.                                               *)
ReadingsWithinTable ==
    \A s \in Sensors : \A level \in Levels[s] : Millivolts(level) >= VoltMap[TableCount]

(* An attempt that goes on without its converter, or waits for a transition      *)
(* that is over, while no flag takes the machine out of the state.            *)
Stuck ==
    /\ ~Faulty
    /\ \/ chg \in Active /\ bb = "OFF"
       \/ chg = "SET_VBAT_WAIT" /\ ~vbtr

(* It gets there in five ways only: the transition completed before the state    *)
(* said that it is waited for (solution.c:918-919); the converter was switched   *)
(* off again between its start and the state that follows (solution.c:898-899), *)
(* by a brown-out retry or a VBUS fault; the monitor wiped the flag of an OCP    *)
(* that tripped meanwhile (solution_tasks.c:428); a pass overwrote the reset of  *)
(* a VBUS fault; or a brown-out retry came behind an active state.              *)
StallHasCause ==
    [][~Stuck /\ Stuck' =>
          \/ In("commit", "SET_VBAT") /\ ~vbtr
          \/ In("commit", "ATTACHED_SNK") /\ bb = "OFF"
          \/ pc = "flag" /\ "ocp" \in faults
          \/ pc \in {"body", "commit", "close"} /\ chg # branch
          \/ BrownOutRetry]_vars

(* Every change of the current in CC mode reaches the limit, or is one step     *)
(* up that leaves at least another one to the limit.                         *)
RampProgresses ==
    [][iout' # iout /\ In("body", "CHARGE_LOOP") /\ NextMode = "CC_MODE" =>
          \/ iout' = Limit
          \/ iout' = iout + Step /\ iout' <= Limit - Step]_vars

(* thermistor.c:86 "fault condition (0xFF) will be reported if the measured     *)
(* temperature is beyond the highest temperature mapped in the table": a       *)
(* reading hotter than the threshold never relaxes the throttling.            *)
HotNeverRelaxes ==
    [][\A s \in Sensors :
          ntc'[s] # ntc[s] /\ hot'[s] # 0 =>
              <<ntc[s], ntc'[s]>> \in {<<"NORMAL", "LIMITED">>, <<"LIMITED", "OTP">>}]_vars
=============================================================================
