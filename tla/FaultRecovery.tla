--------------------------- MODULE FaultRecovery ---------------------------
(***************************************************************************)
(* Recovery of the port from VBUS overvoltage, the only VBUS fault the      *)
(* sink-only build enables: fault counter, retries, port disable and the    *)
(* recovery timer (src/app/fault_handlers.c), the sink path and its         *)
(* discharge (src/app/psink.c).                                            *)
(*                                                                         *)
(* The USB-PD stack is external.  It is modelled by the calls and events it  *)
(* makes: it attaches, negotiates, executes the commands it has accepted,   *)
(* and calls the psnk functions while a partner is attached.  VBUS changes   *)
(* at any moment.  soln_task appears with the one thing it does to the port: *)
(* in state INIT it starts the DPM.                                         *)
(***************************************************************************)
EXTENDS Naturals

CONSTANT RetryLimit    \* retryCount of the OVP configuration

CounterSize == 256     \* gl_app_fault_count is a uint8_t
Byte == 0 .. CounterSize - 1
SkipValue == 255       \* FAULT_COUNTER_SKIP_VALUE

ASSUME RetryLimitAssumption == RetryLimit \in Nat /\ RetryLimit <= SkipValue

VARIABLES
    vbus,         \* VBUS is above vSafe0V
    dpm,          \* dpmConfig.dpmEnabled
    attach,       \* dpmConfig.attach
    pe,           \* policy engine: stopped, negotiating, or in a contract
    hardReset,    \* the stack has accepted a hard reset
    typecCmd,     \* the Type-C command the stack has accepted
    count,        \* gl_app_fault_count[port][FAULT_TYPE_VBUS_OVP]
    faultActive,  \* dpmStat.faultActive
    status,       \* the bits of app_status.fault_status that are set
    recTmr,       \* APP_FAULT_RECOVERY_TIMER runs
    psnk,         \* gl_psnk_enabled
    ovp,          \* the VBUS OVP comparator is armed
    discharge,    \* VBUS discharge is on
    disTmr,       \* APP_PSINK_DIS_TIMER runs
    disMon        \* APP_PSINK_DIS_MONITOR_TIMER runs

stackVars == <<dpm, attach, pe, hardReset, typecCmd>>
faultVars == <<count, faultActive, status, recTmr>>
sinkVars == <<psnk, ovp, discharge, disTmr, disMon>>
vars == <<vbus, stackVars, faultVars, sinkVars>>

StackType ==
    /\ vbus \in BOOLEAN /\ dpm \in BOOLEAN /\ attach \in BOOLEAN
    /\ pe \in {"OFF", "RUN", "CONTRACT"}
    /\ hardReset \in BOOLEAN
    /\ typecCmd \in {"NONE", "ERROR_RECOVERY", "PORT_DISABLE"}
FaultType ==
    /\ count \in Byte
    /\ faultActive \in BOOLEAN
    /\ status \subseteq {"SINK_FAULT", "DROP_WAIT", "DISABLING"}
    /\ recTmr \in BOOLEAN
SinkType ==
    /\ psnk \in BOOLEAN /\ ovp \in BOOLEAN /\ discharge \in BOOLEAN
    /\ disTmr \in BOOLEAN /\ disMon \in BOOLEAN
TypeOK == StackType /\ FaultType /\ SinkType

(* main starts the DPM before its loop. *)
Init ==
    /\ vbus \in BOOLEAN
    /\ dpm = TRUE
    /\ attach = FALSE
    /\ pe = "OFF"
    /\ hardReset = FALSE
    /\ typecCmd = "NONE"
    /\ count = 0
    /\ faultActive = FALSE
    /\ status = {}
    /\ recTmr = FALSE
    /\ psnk = FALSE
    /\ ovp = FALSE
    /\ discharge = FALSE
    /\ disTmr = FALSE
    /\ disMon = FALSE

-----------------------------------------------------------------------------
(* The sink path. *)

(* Mutant: the discharge is left to the monitor timer, which is forgotten.    *)
PsnkDisable_NoTimeout(withHandler) ==
    /\ psnk' = FALSE
    /\ ovp' = FALSE
    /\ discharge' = (withHandler /\ dpm)
    /\ disTmr' = FALSE
    /\ disMon' = (withHandler /\ dpm)

(* psnk_disable; with a handler, VBUS is discharged under two timers. *)
PsnkDisable(withHandler) ==
    /\ psnk' = FALSE
    /\ ovp' = FALSE
    /\ discharge' = (withHandler /\ dpm)
    /\ disTmr' = (withHandler /\ dpm)
    /\ disMon' = (withHandler /\ dpm)

(* psnk_set_voltage *)
PsnkSetVoltage ==
    /\ attach
    /\ ovp' = TRUE
    /\ discharge' = FALSE
    /\ UNCHANGED <<vbus, stackVars, faultVars, psnk, disTmr, disMon>>

(* psnk_enable: the timers of a discharge go on. *)
PsnkEnable ==
    /\ attach
    /\ discharge' = FALSE
    /\ psnk' = (psnk \/ (dpm /\ ~faultActive))
    /\ UNCHANGED <<vbus, stackVars, faultVars, ovp, disTmr, disMon>>

(* The stack, or the brown-out retry, switches the sink path off. *)
PsnkOff ==
    /\ attach
    /\ \E withHandler \in BOOLEAN : PsnkDisable(withHandler)
    /\ UNCHANGED <<vbus, stackVars, faultVars>>

(* app_psnk_tmr_cbk, APP_PSINK_DIS_TIMER *)
DischargeTimeout ==
    /\ disTmr
    /\ disTmr' = FALSE /\ disMon' = FALSE
    /\ discharge' = FALSE
    /\ UNCHANGED <<vbus, stackVars, faultVars, psnk, ovp>>

(* app_psnk_tmr_cbk, APP_PSINK_DIS_MONITOR_TIMER; it re-arms while VBUS is up.  *)
(* The callback compares VBUS with 5 V, and a VBUS above vSafe0V may be below.   *)
DischargeDone ==
    /\ disMon
    /\ disTmr' = FALSE /\ disMon' = FALSE
    /\ discharge' = FALSE
    /\ UNCHANGED <<vbus, stackVars, faultVars, psnk, ovp>>

-----------------------------------------------------------------------------
(* Faults. *)

Exceeded == count > RetryLimit
Disabling == "DISABLING" \in status

(* The stack refuses a hard reset without a contract, and a Type-C command     *)
(* while another one is pending.                                             *)
Retry ==
    \/ /\ pe = "CONTRACT" /\ ~hardReset
       /\ hardReset' = TRUE
       /\ UNCHANGED typecCmd
    \/ /\ typecCmd' = IF typecCmd = "NONE" THEN "ERROR_RECOVERY" ELSE typecCmd
       /\ UNCHANGED hardReset

(* Mutant: the limit itself is already too much to handle. *)
OvpFault_Drops ==
    /\ ovp
    /\ faultActive' = TRUE
    /\ count' = IF RetryLimit = SkipValue THEN count ELSE (count + 1) % CounterSize
    /\ IF count' <= RetryLimit
       THEN Retry /\ UNCHANGED <<status, pe>>
       ELSE pe' = "OFF" /\ UNCHANGED <<status, hardReset, typecCmd>>
    /\ UNCHANGED <<vbus, dpm, attach, recTmr, sinkVars>>

(* Mutant: the counter is wider than its type. *)
OvpFault_Wide ==
    /\ ovp
    /\ faultActive' = TRUE
    /\ count' = count + 1
    /\ status' = IF count' <= RetryLimit THEN status ELSE status \cup {"SINK_FAULT"}
    /\ pe' = IF count' <= RetryLimit THEN pe ELSE "OFF"
    /\ UNCHANGED <<vbus, dpm, attach, hardReset, typecCmd, recTmr, sinkVars>>

(* app_psnk_vbus_ovp_cbk and app_handle_fault: retry within the limit, else    *)
(* stop the policy engine and have the port disabled.                        *)
OvpFault ==
    /\ ovp
    /\ faultActive' = TRUE
    /\ count' = IF RetryLimit = SkipValue THEN count ELSE (count + 1) % CounterSize
    /\ IF count' <= RetryLimit
       THEN Retry /\ UNCHANGED <<status, pe>>
       ELSE /\ status' = status \cup {"SINK_FAULT"}
            /\ pe' = "OFF"
            /\ UNCHANGED <<hardReset, typecCmd>>
    /\ UNCHANGED <<vbus, dpm, attach, recTmr, sinkVars>>

(* fault_handler_task: the command is repeated while the stack is busy.  Any   *)
(* other answer counts as accepted, but a stack whose port is already         *)
(* disabled has nothing to execute.                                          *)
FaultHandlerTask ==
    /\ "SINK_FAULT" \in status
    /\ typecCmd = "NONE"
    /\ status' = (status \ {"SINK_FAULT"}) \cup {"DISABLING"}
    /\ typecCmd' = IF dpm THEN "PORT_DISABLE" ELSE "NONE"
    /\ UNCHANGED <<vbus, dpm, attach, pe, hardReset, count, faultActive, recTmr, sinkVars>>

(* Clear the port-in-fault status, but not while the port is being disabled.   *)
ClearFault(allowed) == faultActive' = (faultActive /\ (Disabling \/ ~allowed))

(* Mutant: the wait for VBUS to drop is not continued. *)
RecoveryTimer_Once ==
    /\ recTmr
    /\ IF vbus THEN recTmr' = FALSE /\ UNCHANGED <<status, faultActive, dpm>>
       ELSE IF "DROP_WAIT" \in status
       THEN /\ status' = status \ {"DROP_WAIT"}
            /\ UNCHANGED <<recTmr, faultActive, dpm>>
       ELSE /\ status' = status \ {"DISABLING"}
            /\ faultActive' = FALSE
            /\ recTmr' = FALSE
            /\ dpm' = TRUE
    /\ UNCHANGED <<vbus, attach, pe, hardReset, typecCmd, count, sinkVars>>

(* fault_recovery_timer_cb: wait for VBUS to drop, look for it once more, and  *)
(* start the port again.                                                     *)
RecoveryTimer ==
    /\ recTmr
    /\ IF vbus THEN UNCHANGED <<recTmr, status, faultActive, dpm>>
       ELSE IF "DROP_WAIT" \in status
       THEN /\ status' = status \ {"DROP_WAIT"}
            /\ UNCHANGED <<recTmr, faultActive, dpm>>
       ELSE /\ status' = status \ {"DISABLING"}
            /\ faultActive' = FALSE
            /\ recTmr' = FALSE
            /\ dpm' = TRUE
    /\ UNCHANGED <<vbus, attach, pe, hardReset, typecCmd, count, sinkVars>>

-----------------------------------------------------------------------------
(* The stack, and the events it sends to app_event_handler. *)

(* APP_EVT_TYPEC_ATTACH: another polarity than before clears the counter. *)
Attach ==
    /\ dpm /\ ~attach /\ vbus
    /\ attach' = TRUE
    /\ pe' = "RUN"
    /\ count' \in {count, 0}
    /\ UNCHANGED <<vbus, dpm, hardReset, typecCmd, faultActive, status, recTmr, sinkVars>>

Contract ==
    /\ pe = "RUN"
    /\ pe' = "CONTRACT"
    /\ UNCHANGED <<vbus, dpm, attach, hardReset, typecCmd, faultVars, sinkVars>>

(* Mutant: a hard reset counts as a new connection. *)
HardResetSent_Clears ==
    /\ hardReset
    /\ hardReset' = FALSE
    /\ pe' = IF pe = "CONTRACT" THEN "RUN" ELSE pe
    /\ ClearFault(TRUE)
    /\ count' = 0
    /\ UNCHANGED <<vbus, dpm, attach, typecCmd, status, recTmr, sinkVars>>

HardResetSent ==
    /\ hardReset
    /\ hardReset' = FALSE
    /\ pe' = IF pe = "CONTRACT" THEN "RUN" ELSE pe
    /\ ClearFault(TRUE)
    /\ UNCHANGED <<vbus, dpm, attach, typecCmd, count, status, recTmr, sinkVars>>

Detached ==
    /\ attach' = FALSE
    /\ pe' = "OFF"
    /\ hardReset' = FALSE
    /\ PsnkDisable(FALSE)

ErrorRecovery ==
    /\ typecCmd = "ERROR_RECOVERY"
    /\ typecCmd' = "NONE"
    /\ Detached
    /\ ClearFault(~Exceeded)
    /\ UNCHANGED <<vbus, dpm, count, status, recTmr>>

(* Mutant: the callback only waits when VBUS is still there. *)
PortDisabled_NoTimer ==
    /\ typecCmd = "PORT_DISABLE"
    /\ typecCmd' = "NONE"
    /\ dpm' = FALSE
    /\ Detached
    /\ ClearFault(TRUE)
    /\ count' = 0
    /\ status' = IF vbus THEN status \cup {"DROP_WAIT"} ELSE status
    /\ recTmr' = (recTmr \/ vbus)
    /\ UNCHANGED vbus

(* APP_EVT_VBUS_PORT_DISABLE, then app_port_disable_cb. *)
PortDisabled ==
    /\ typecCmd = "PORT_DISABLE"
    /\ typecCmd' = "NONE"
    /\ dpm' = FALSE
    /\ Detached
    /\ ClearFault(TRUE)
    /\ count' = 0
    /\ status' = IF vbus THEN status \cup {"DROP_WAIT"} ELSE status
    /\ recTmr' = TRUE
    /\ UNCHANGED vbus

Disconnect ==
    /\ attach /\ ~vbus
    /\ Detached
    /\ ClearFault(TRUE)
    /\ count' = 0
    /\ UNCHANGED <<vbus, dpm, typecCmd, status, recTmr>>

(* soln_task in state INIT. *)
SolnStart ==
    /\ ~dpm
    /\ dpm' = TRUE
    /\ UNCHANGED <<vbus, attach, pe, hardReset, typecCmd, faultVars, sinkVars>>

VbusChange ==
    /\ vbus' = ~vbus
    /\ UNCHANGED <<stackVars, faultVars, sinkVars>>

-----------------------------------------------------------------------------
Next ==
    \/ PsnkSetVoltage \/ PsnkEnable \/ PsnkOff \/ DischargeTimeout \/ DischargeDone
    \/ OvpFault \/ FaultHandlerTask \/ RecoveryTimer
    \/ Attach \/ Contract \/ HardResetSent \/ ErrorRecovery \/ PortDisabled \/ Disconnect
    \/ SolnStart \/ VbusChange

Spec == Init /\ [][Next]_vars

(* The main loop runs the fault task and the stack, which executes what it has  *)
(* accepted and notices a missing VBUS; started timers expire, and the discharge  *)
(* monitor finds a VBUS that is gone below 5 V.                                 *)
Fairness ==
    /\ WF_vars(FaultHandlerTask) /\ WF_vars(RecoveryTimer)
    /\ WF_vars(HardResetSent) /\ WF_vars(ErrorRecovery) /\ WF_vars(PortDisabled)
    /\ WF_vars(Disconnect)
    /\ WF_vars(DischargeTimeout) /\ WF_vars(~vbus /\ DischargeDone)

FairSpec == Spec /\ Fairness

-----------------------------------------------------------------------------
(* The recovery implements RetryPolicy: whatever clears a part of the fault     *)
(* state, no retry is given back within a connection, although the counter      *)
(* wraps, and a port that is given up stays so until it is disabled.            *)
GivenUp == "SINK_FAULT" \in status \/ typecCmd = "PORT_DISABLE"
Policy == INSTANCE RetryPolicy WITH
              Limit <- RetryLimit,
              Counted <- RetryLimit # SkipValue,
              live <- attach,
              tries <- IF GivenUp THEN 0 ELSE count,
              condemned <- GivenUp,
              disabled <- ~dpm
PolicySpec == Policy!Spec

(* A source that has used up its retries is on its way to a disabled port: no  *)
(* event that clears part of the fault state loses it.                       *)
ExhaustedIsHandled == Exceeded => GivenUp

(* A disabled port, and one whose disabling has been noted, always has a step  *)
(* ahead that ends it, although two places start the port again.               *)
RecoveryIsRunning ==
    /\ ~dpm => recTmr
    /\ "DROP_WAIT" \in status => recTmr
    /\ Disabling => recTmr \/ typecCmd = "PORT_DISABLE"

(* VBUS is never discharged without the timer that ends it, however enabling   *)
(* and disabling the sink path interleave with both timers.                   *)
DischargeIsTimed == discharge => disTmr

(* Once VBUS stays away, every fault is forgotten and the port runs again.     *)
RecoveryEnds == <>[]~vbus => <>[](dpm /\ status = {} /\ ~faultActive /\ ~discharge)

(* Overvoltage after overvoltage is not answered with hard resets forever.     *)
GivesUp == []<><<OvpFault>>_vars => []<>(~attach)

-----------------------------------------------------------------------------
(* fault_handlers.c:234 "If VBus is not detected, we can re-enable the PD port." *)
(* A port in recovery is started again only after VBUS has gone.               *)
RestartAfterVbusDrop == [][~dpm /\ dpm' /\ Disabling => ~vbus]_vars
=============================================================================
