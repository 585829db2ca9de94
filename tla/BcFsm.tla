------------------------------- MODULE BcFsm -------------------------------
(* The BC 1.2 and Apple charger detection of the sink, battery_charging.c in  *)
(* the build of this board (CY_PD_SINK_ONLY, PMG1B1_USB_CHARGER, without QC   *)
(* and AFC).  It runs once the policy engine has given up on a partner that   *)
(* does not talk PD, and tells the charger, through bc_get_status, whether    *)
(* there is a supply (connected) and how much it gives (cur_amp).             *)
(*                                                                           *)
(* bc_fsm runs in the main loop and takes one event of bc_evt per call, the   *)
(* timer interrupt adds events, the PD stack calls bc_pd_event_handler.       *)
(* The calls to psnk_set_current, psnk_set_voltage and psnk_enable, which     *)
(* belong to FaultRecovery, and the CHGDET block are left out, but for the    *)
(* levels its comparator reads on D+ and D-.                                 *)
EXTENDS Naturals

CONSTANTS
    SnkSel,     \* the protocols enabled in the configuration table
    Sources     \* the kinds of partner that may be attached

SourceKinds == {"SDP", "CDP", "DCP", "APPLE_LOW", "APPLE_2_1A", "APPLE_2_4A"}

ASSUME SnkSelAssumption == SnkSel \subseteq {"APPLE", "BC12"} /\ SnkSel # {}
ASSUME SourcesAssumption == Sources \subseteq SourceKinds

VARIABLES
    state,      \* bc_stat->bc_fsm_state
    evts,       \* bc_stat->bc_evt
    timers,     \* the generic timers that run
    connected,  \* bc_stat->connected
    curAmp,     \* bc_stat->cur_amp, in 10 mA
    curMode,    \* bc_stat->cur_mode
    settled,    \* timer 1 has run out since the terminations were applied
    attached,   \* dpmConfig.connect
    source,     \* the partner at the port, or the last one
    rp,         \* dpmConfig.snkCurLevel, the current its Rp advertises
    polled      \* bc_fsm was called since the port lost its partner

statusVars == <<connected, curAmp, curMode>>
fsmVars == <<state, evts, timers, statusVars, settled>>
envVars == <<attached, source, rp, polled>>
vars == <<fsmVars, envVars>>

Detecting == {"SINK_START", "APPLE_DETECT", "PRIMARY", "SECONDARY"}
Terminal == {"BRICK_ID", "TYPE_C_ONLY", "DCP", "CDP"}
States == {"OFF"} \cup Detecting \cup Terminal
Events == {"ENTRY", "TIMEOUT1", "TIMEOUT2"}
RpLevels == {"USB", "1_5A", "3A"}
Apple == {"APPLE_LOW", "APPLE_2_1A", "APPLE_2_4A"}
Amps == {0, 150, 210, 240, 300}

TypeOK ==
    /\ state \in States
    /\ evts \subseteq Events
    /\ timers \subseteq {"T1", "T2"}
    /\ connected \in BOOLEAN
    /\ curAmp \in Amps
    /\ curMode \in {"NONE", "APPLE", "DCP", "CDP"}
    /\ settled \in BOOLEAN
    /\ attached \in BOOLEAN
    /\ source \in SourceKinds
    /\ rp \in RpLevels
    /\ polled \in BOOLEAN

(* bc_init *)
Init ==
    /\ state = "OFF"
    /\ evts = {} /\ timers = {}
    /\ connected = FALSE /\ curAmp = 0 /\ curMode = "NONE"
    /\ settled = FALSE
    /\ attached = FALSE /\ polled = TRUE
    /\ source \in Sources /\ rp = "USB"

-----------------------------------------------------------------------------
(* bc_stop.  Its event APP_EVT_BC_DETECTION_COMPLETED is BatteryCharger's     *)
(* BcDetected; cur_amp keeps its value.                                      *)

(* Mutant: the supply is not withdrawn. *)
BcStop_LeavesSupply ==
    IF state = "OFF" THEN UNCHANGED fsmVars
    ELSE /\ state' = "OFF"
         /\ evts' = {} /\ timers' = {}
         /\ curMode' = "NONE"
         /\ settled' = FALSE
         /\ UNCHANGED <<connected, curAmp>>

BcStop ==
    IF state = "OFF" THEN UNCHANGED fsmVars
    ELSE /\ state' = "OFF"
         /\ evts' = {} /\ timers' = {}
         /\ connected' = FALSE
         /\ curMode' = "NONE"
         /\ settled' = FALSE
         /\ UNCHANGED curAmp

(* bc_start clears neither the timers nor the events. *)
BcStart ==
    /\ state' = "SINK_START"
    /\ evts' = evts \cup {"ENTRY"}
    /\ connected' = FALSE
    /\ curMode' = "NONE"
    /\ UNCHANGED <<timers, curAmp, settled>>

-----------------------------------------------------------------------------
(* The state handlers.  bc_fsm has taken event e out of bc_evt.              *)

Drop(e) ==
    /\ evts' = evts \ {e}
    /\ UNCHANGED <<state, timers, statusVars, settled>>

GotoState(e, s) ==
    /\ state' = s
    /\ evts' = (evts \ {e}) \cup {"ENTRY"}

(* Where the detection goes when there is no Apple charger. *)
AfterApple == IF "BC12" \in SnkSel THEN "PRIMARY" ELSE "TYPE_C_ONLY"

(* What the comparator may read on a line that the given kinds drive high,   *)
(* in the BC 1.2 part of the detection.  A line that has not settled and the  *)
(* biased lines of an Apple brick under BC 1.2 terminations read as anything. *)
Levels(kinds) ==
    IF settled /\ source \notin Apple THEN {source \in kinds} ELSE BOOLEAN

(* bc_fsm_sink_start *)
SinkStart(e) ==
    IF e # "ENTRY" THEN Drop(e)
    ELSE /\ curMode' = "NONE"
         /\ GotoState(e, IF "APPLE" \in SnkSel THEN "APPLE_DETECT" ELSE AfterApple)
         /\ UNCHANGED <<timers, connected, curAmp, settled>>

(* bc_fsm_sink_apple_charger_detect: both lines above 0.85 V, read in the call *)
(* that changes their terminations, without the timer the comment there asks  *)
(* about.  So they may read as anything, whatever the partner is.             *)
AppleDetect(e) ==
    IF e # "ENTRY" THEN Drop(e)
    ELSE /\ \E detected \in BOOLEAN :
              /\ curMode' = IF detected THEN "APPLE" ELSE curMode
              /\ GotoState(e, IF detected THEN "BRICK_ID" ELSE AfterApple)
         /\ UNCHANGED <<timers, connected, curAmp, settled>>

(* bc_fsm_sink_apple_brick_id_detect, bc_eval_apple_brick_id: any brick may be *)
(* read, no timer has run here either.  One of 2.1 A or 2.4 A is a supply, that *)
(* of 1 A is refused, one with a reserved ID changes nothing.                 *)
BrickId(e) ==
    IF e # "ENTRY" THEN Drop(e)
    ELSE /\ \/ connected' = TRUE /\ curAmp' \in {210, 240}
            \/ connected' \in {FALSE, connected} /\ UNCHANGED curAmp
         /\ IF connected' THEN state' = state /\ evts' = evts \ {e}
            ELSE GotoState(e, AfterApple)
         /\ UNCHANGED <<timers, curMode, settled>>

(* Mutant: the 30 ms delay is started before D- is looked at. *)
Primary_TimerFirst(e) ==
    /\ CASE e = "ENTRY" ->
               /\ timers' = timers \cup {"T1"}
               /\ evts' = evts \ {e}
               /\ UNCHANGED state
         [] e = "TIMEOUT1" ->
               /\ timers' = timers \cup {"T2"}
               /\ \E high \in Levels({"CDP", "DCP"}) :
                    IF high THEN evts' = evts \ {e} /\ UNCHANGED state
                            ELSE GotoState(e, "TYPE_C_ONLY")
         [] e = "TIMEOUT2" -> GotoState(e, "SECONDARY") /\ UNCHANGED timers
    /\ settled' = FALSE
    /\ UNCHANGED statusVars

(* bc_fsm_sink_primary_charger_detect: a charging port pulls D- up. *)
Primary(e) ==
    /\ CASE e = "ENTRY" ->
               /\ timers' = timers \cup {"T1"}
               /\ evts' = evts \ {e}
               /\ UNCHANGED state
         [] e = "TIMEOUT1" ->
               \E high \in Levels({"CDP", "DCP"}) :
                 IF high THEN /\ timers' = timers \cup {"T2"}
                              /\ evts' = evts \ {e}
                              /\ UNCHANGED state
                 ELSE GotoState(e, "TYPE_C_ONLY") /\ UNCHANGED timers
         [] e = "TIMEOUT2" -> GotoState(e, "SECONDARY") /\ UNCHANGED timers
    /\ settled' = FALSE
    /\ UNCHANGED statusVars

(* Mutant: the terminations are applied without the timer. *)
Secondary_NoTimer(e) ==
    CASE e = "ENTRY" ->
            /\ evts' = evts \ {e}
            /\ settled' = FALSE
            /\ UNCHANGED <<state, timers, statusVars>>
      [] e = "TIMEOUT1" ->
            /\ \E high \in Levels({"DCP"}) :
                 /\ curMode' = IF high THEN "DCP" ELSE "CDP"
                 /\ GotoState(e, curMode')
            /\ settled' = FALSE
            /\ UNCHANGED <<timers, connected, curAmp>>
      [] OTHER -> Drop(e)

(* bc_fsm_sink_secondary_charger_detect: a dedicated port pulls D+ up. *)
Secondary(e) ==
    CASE e = "ENTRY" ->
            /\ timers' = timers \cup {"T1"}
            /\ evts' = evts \ {e}
            /\ settled' = FALSE
            /\ UNCHANGED <<state, statusVars>>
      [] e = "TIMEOUT1" ->
            /\ \E high \in Levels({"DCP"}) :
                 /\ curMode' = IF high THEN "DCP" ELSE "CDP"
                 /\ GotoState(e, curMode')
            /\ settled' = FALSE
            /\ UNCHANGED <<timers, connected, curAmp>>
      [] OTHER -> Drop(e)

(* Mutant: the default current of a weak source is reported too. *)
TypeCOnly_Default(e) ==
    /\ evts' = evts \ {e}
    /\ connected' = TRUE
    /\ curAmp' = CASE rp = "3A" -> 300 [] rp = "1_5A" -> 150 [] OTHER -> 90
    /\ UNCHANGED <<state, timers, curMode, settled>>

(* bc_fsm_sink_type_c_only_source_connected: the handler does not look at the *)
(* event, and leaves a weak source as it is.                                 *)
TypeCOnly(e) ==
    /\ evts' = evts \ {e}
    /\ connected' = (connected \/ rp # "USB")
    /\ curAmp' = CASE rp = "3A" -> 300 [] rp = "1_5A" -> 150 [] OTHER -> curAmp
    /\ UNCHANGED <<state, timers, curMode, settled>>

(* bc_fsm_sink_dcp_connected, bc_fsm_sink_cdp_connected; the latter enables   *)
(* the sink path with any event.                                             *)
ChargingPort(e) ==
    IF e # "ENTRY" THEN Drop(e)
    ELSE /\ evts' = evts \ {e}
         /\ connected' = TRUE
         /\ curAmp' = 150
         /\ UNCHANGED <<state, timers, curMode, settled>>

Handle(e) ==
    CASE state = "SINK_START"   -> SinkStart(e)
      [] state = "APPLE_DETECT" -> AppleDetect(e)
      [] state = "BRICK_ID"     -> BrickId(e)
      [] state = "PRIMARY"      -> Primary(e)
      [] state = "SECONDARY"    -> Secondary(e)
      [] state = "TYPE_C_ONLY"  -> TypeCOnly(e)
      [] OTHER                  -> ChargingPort(e)

(* Cy_PdUtils_EventGroup_GetEvent takes the lowest-numbered event. *)
NextEvent ==
    CASE "ENTRY" \in evts -> "ENTRY"
      [] "ENTRY" \notin evts /\ "TIMEOUT1" \in evts -> "TIMEOUT1"
      [] OTHER -> "TIMEOUT2"

(* Mutant: the state machine is not stopped when the partner is gone. *)
BcFsm_NoStop ==
    /\ IF ~attached THEN UNCHANGED fsmVars /\ polled' = TRUE
       ELSE state # "OFF" /\ evts # {} /\ Handle(NextEvent) /\ UNCHANGED polled
    /\ UNCHANGED <<attached, source, rp>>

(* bc_fsm.  In state OFF there is no event to take. *)
BcFsm ==
    /\ IF ~attached THEN BcStop /\ polled' = TRUE
       ELSE state # "OFF" /\ evts # {} /\ Handle(NextEvent) /\ UNCHANGED polled
    /\ UNCHANGED <<attached, source, rp>>

(* bc_tmr_cbk *)
T1Expire ==
    /\ "T1" \in timers
    /\ timers' = timers \ {"T1"}
    /\ evts' = evts \cup {"TIMEOUT1"}
    /\ settled' = TRUE
    /\ UNCHANGED <<state, statusVars, envVars>>

T2Expire ==
    /\ "T2" \in timers
    /\ timers' = timers \ {"T2"}
    /\ evts' = evts \cup {"TIMEOUT2"}
    /\ UNCHANGED <<state, statusVars, settled, envVars>>

-----------------------------------------------------------------------------
(* The partner and the PD stack, bc_pd_event_handler. *)

(* The main loop calls bc_fsm in the tens of milliseconds the port takes to   *)
(* debounce the next partner.                                                *)
Attach ==
    /\ ~attached /\ polled
    /\ attached' = TRUE
    /\ source' \in Sources
    /\ rp' \in RpLevels
    /\ UNCHANGED <<fsmVars, polled>>

(* The source changes what it advertises: no handler. *)
RpChange ==
    /\ attached
    /\ rp' \in RpLevels \ {rp}
    /\ UNCHANGED <<fsmVars, attached, source, polled>>

(* APP_EVT_PE_DISABLED.  The policy engine waits for source capabilities for  *)
(* longer than a detection takes before it gives up, and gives up again.     *)
PeDisabled ==
    /\ attached
    /\ evts = {} /\ timers = {}
    /\ BcStart
    /\ UNCHANGED envVars

(* APP_EVT_DISCONNECT and APP_EVT_VBUS_PORT_DISABLE *)
Disconnect ==
    /\ attached
    /\ attached' = FALSE /\ polled' = FALSE
    /\ BcStop
    /\ UNCHANGED <<source, rp>>

(* APP_EVT_TYPE_C_ERROR_RECOVERY is not handled in this build. *)
ErrorRecovery ==
    /\ attached
    /\ attached' = FALSE /\ polled' = FALSE
    /\ UNCHANGED <<fsmVars, source, rp>>

Next ==
    \/ BcFsm \/ T1Expire \/ T2Expire
    \/ Attach \/ RpChange \/ PeDisabled \/ Disconnect \/ ErrorRecovery

Spec == Init /\ [][Next]_vars

(* The main loop goes on calling bc_fsm, and a running timer expires. *)
FairSpec == Spec /\ WF_vars(BcFsm) /\ WF_vars(T1Expire) /\ WF_vars(T2Expire)

-----------------------------------------------------------------------------
(* What the partner can supply, in 10 mA: what its data lines tell, or what   *)
(* its Rp advertises if that is more.                                        *)
DataLineAmp ==
    CASE source = "SDP" -> 50 [] source \in {"CDP", "DCP"} -> 150
      [] source = "APPLE_LOW" -> 100 [] source = "APPLE_2_1A" -> 210
      [] source = "APPLE_2_4A" -> 240
RpAmp == CASE rp = "USB" -> 50 [] rp = "1_5A" -> 150 [] rp = "3A" -> 300
CanSupply(amp) == amp <= DataLineAmp \/ amp <= RpAmp

(* The 1 A brick: the Apple detection refuses it and passes it on to BC 1.2,   *)
(* where its biased lines may look like those of a charging port.            *)
LowBrick(amp) == source = "APPLE_LOW" /\ amp = 150

(* A finding of the Apple detection.  Its lines are read before they have     *)
(* settled, so nothing can be said of its current.                           *)
AppleFinding(amp) == state = "BRICK_ID" /\ amp \in {210, 240}

(* Whenever the machine reports a supply or another current, somebody is      *)
(* attached; and unless it is a finding of the Apple detection or the 1 A      *)
(* brick, that source can give the current.  So the BC 1.2 part does not take *)
(* a computer's port for a charger by a comparator that is read too early,     *)
(* also behind an Apple detection that misread its lines, and no finding      *)
(* about one source is reported for the next.                                *)
SupplyIsReal ==
    [][(connected' /\ <<connected, curAmp>>' # <<connected, curAmp>>) =>
          attached /\ (\/ CanSupply(curAmp')
                       \/ LowBrick(curAmp')
                       \/ AppleFinding(curAmp'))]_vars

(* A new partner meets a machine that is off and knows nothing of the last    *)
(* one, however the last one went: error recovery does not call bc_stop, and  *)
(* bc_start clears neither events nor timers.                                *)
AttachIsFresh ==
    [][~attached /\ attached' =>
          state = "OFF" /\ ~connected /\ evts = {} /\ timers = {}]_vars

(* The handlers tell their events apart by number only, and two act on any     *)
(* event: at most one event or timer is outstanding, a detection always has   *)
(* one, and a finding has none but its own entry.                            *)
NoStimulus == evts = {} /\ timers = {}
OneAtATime ==
    /\ \/ NoStimulus
       \/ timers = {} /\ \E e \in Events : evts = {e}
       \/ evts = {} /\ \E t \in {"T1", "T2"} : timers = {t}
    /\ state \in Detecting => ~NoStimulus
    /\ state \in Terminal => timers = {} /\ evts \subseteq {"ENTRY"}
    /\ state = "OFF" => NoStimulus

(* Every detection ends, with a finding or with the partner. *)
DetectionEnds == state \in Detecting ~> state \notin Detecting

(* cur_amp is documented as the active supply current. *)
CurAmpIsActive == connected => CanSupply(curAmp)
=============================================================================
