---------------------------- MODULE BcFsm_proofs ----------------------------
(* Safety of the charger detection, for every configuration table and every   *)
(* set of partners.                                                          *)
EXTENDS BcFsm, TLAPS

-----------------------------------------------------------------------------
(* What a handler may do, for the proofs that do not look at it closer. *)

LEMMA NextEventIsPending ==
    ASSUME TypeOK, evts # {}
    PROVE  NextEvent \in evts
BY DEF NextEvent, TypeOK, Events

(* What of the types a step of the machine can disturb. *)
FsmType ==
    /\ state \in States
    /\ evts \subseteq Events
    /\ timers \subseteq {"T1", "T2"}
    /\ connected \in BOOLEAN
    /\ curAmp \in Amps
    /\ curMode \in {"NONE", "APPLE", "DCP", "CDP"}
    /\ settled \in BOOLEAN

LEMMA DropType ==
    ASSUME FsmType, NEW e, Drop(e)
    PROVE  FsmType'
BY DEF FsmType, Drop, statusVars

LEMMA GotoType ==
    ASSUME FsmType, NEW e, NEW s \in States, GotoState(e, s)
    PROVE  state' \in States /\ evts' \subseteq Events
BY DEF FsmType, GotoState, Events

LEMMA AfterAppleState == AfterApple \in States /\ AfterApple \in {"PRIMARY", "TYPE_C_ONLY"}
BY DEF AfterApple, States, Detecting, Terminal

(* Every handler keeps the types. *)
LEMMA HandlerType ==
    ASSUME FsmType, NEW e \in Events, Handle(e), state # "OFF"
    PROVE  FsmType'
<1>0. {"APPLE_DETECT", "BRICK_ID", "TYPE_C_ONLY", "SECONDARY", "DCP", "CDP"} \subseteq States
  BY DEF States, Detecting, Terminal
<1>1. CASE SinkStart(e)
  <2>1. CASE e # "ENTRY"
    BY <1>1, <2>1, DropType DEF SinkStart
  <2>2. CASE e = "ENTRY"
    BY <1>0, <1>1, <2>2, GotoType, AfterAppleState DEF SinkStart, FsmType
  <2>. QED
    BY <2>1, <2>2
<1>2. CASE AppleDetect(e)
  <2>1. CASE e # "ENTRY"
    BY <1>2, <2>1, DropType DEF AppleDetect
  <2>2. CASE e = "ENTRY"
    BY <1>0, <1>2, <2>2, GotoType, AfterAppleState DEF AppleDetect, FsmType
  <2>. QED
    BY <2>1, <2>2
<1>3. CASE BrickId(e)
  <2>1. CASE e # "ENTRY"
    BY <1>3, <2>1, DropType DEF BrickId
  <2>2. CASE e = "ENTRY"
    <3>0. connected' \in BOOLEAN
      BY <1>3, <2>2, Zenon DEF BrickId, FsmType
    <3>a. curAmp' \in {curAmp, 210, 240}
      BY <1>3, <2>2, Zenon DEF BrickId
    <3>1. curAmp' \in Amps
      BY <3>a DEF FsmType, Amps
    <3>2. state' \in States /\ evts' \subseteq Events
      BY <1>3, <2>2, GotoType, AfterAppleState DEF BrickId, FsmType
    <3>. QED
      BY <1>3, <2>2, <3>0, <3>1, <3>2 DEF BrickId, FsmType
  <2>. QED
    BY <2>1, <2>2
<1>4. CASE Primary(e)
  <2>1. state' \in States /\ evts' \subseteq Events
    BY <1>0, <1>4, GotoType DEF Primary, FsmType, Events
  <2>2. timers' \subseteq {"T1", "T2"}
    BY <1>4 DEF Primary, FsmType, Events
  <2>. QED
    BY <1>4, <2>1, <2>2 DEF Primary, FsmType, statusVars
<1>5. CASE Secondary(e)
  <2>1. CASE e = "ENTRY"
    BY <1>5, <2>1 DEF Secondary, FsmType, statusVars
  <2>2. CASE e = "TIMEOUT1"
    <3>1. \E high \in Levels({"DCP"}) :
             /\ curMode' = IF high THEN "DCP" ELSE "CDP"
             /\ GotoState(e, curMode')
      BY <1>5, <2>2 DEF Secondary
    <3>. QED
      BY <1>0, <1>5, <2>2, <3>1, GotoType DEF Secondary, FsmType
  <2>3. CASE e \notin {"ENTRY", "TIMEOUT1"}
    BY <1>5, <2>3, DropType DEF Secondary
  <2>. QED
    BY <2>1, <2>2, <2>3
<1>6. CASE TypeCOnly(e)
  BY <1>6 DEF TypeCOnly, FsmType, Amps
<1>7. CASE ChargingPort(e)
  <2>1. CASE e # "ENTRY"
    BY <1>7, <2>1, DropType DEF ChargingPort
  <2>2. CASE e = "ENTRY"
    BY <1>7, <2>2 DEF ChargingPort, FsmType, Amps
  <2>. QED
    BY <2>1, <2>2
<1>. QED
  BY <1>1, <1>2, <1>3, <1>4, <1>5, <1>6, <1>7 DEF Handle

LEMMA StopType ==
    ASSUME FsmType, BcStop
    PROVE  FsmType'
BY DEF BcStop, FsmType, States, fsmVars, statusVars

LEMMA TypeStep == TypeOK /\ [Next]_vars => TypeOK'
<1>. SUFFICES ASSUME TypeOK, [Next]_vars PROVE TypeOK'
  OBVIOUS
<1>1. CASE BcFsm
  <2>1. CASE attached
    <3>1. FsmType'
      BY <1>1, <2>1, NextEventIsPending, HandlerType DEF BcFsm, TypeOK, FsmType
    <3>. QED
      BY <1>1, <2>1, <3>1 DEF BcFsm, TypeOK, FsmType
  <2>2. CASE ~attached
    <3>1. FsmType'
      BY <1>1, <2>2, StopType DEF BcFsm, TypeOK, FsmType
    <3>. QED
      BY <1>1, <2>2, <3>1 DEF BcFsm, TypeOK, FsmType
  <2>. QED
    BY <2>1, <2>2
<1>2. CASE T1Expire \/ T2Expire
  BY <1>2 DEF T1Expire, T2Expire, TypeOK, Events, envVars, statusVars
<1>3. CASE Attach \/ RpChange \/ ErrorRecovery
  BY <1>3, SourcesAssumption
     DEF Attach, RpChange, ErrorRecovery, TypeOK, fsmVars, statusVars
<1>4. CASE PeDisabled
  BY <1>4 DEF PeDisabled, BcStart, TypeOK, States, Detecting, Events, envVars
<1>5. CASE Disconnect
  <2>1. FsmType'
    BY <1>5, StopType DEF Disconnect, TypeOK, FsmType
  <2>. QED
    BY <1>5, <2>1 DEF Disconnect, TypeOK, FsmType
<1>6. CASE UNCHANGED vars
  BY <1>6 DEF vars, fsmVars, statusVars, envVars, TypeOK
<1>. QED
  BY <1>1, <1>2, <1>3, <1>4, <1>5, <1>6 DEF Next

LEMMA TypeInit == Init => TypeOK
BY SourcesAssumption DEF Init, TypeOK, States, Amps, RpLevels

(* The machine only holds a state, a set of events and timers, and a current  *)
(* that the code knows.                                                      *)
THEOREM TypeCorrect == Spec => []TypeOK
<1>. QED
  BY TypeInit, TypeStep, PTL DEF Spec

-----------------------------------------------------------------------------
(* One stimulus at a time.  The invariant names the stimulus a state waits    *)
(* for: the handlers would drop or misread any other.                        *)
Waits(s) ==
    CASE s = "PRIMARY"   -> \/ timers = {"T1"} /\ evts = {}
                            \/ timers = {"T2"} /\ evts = {}
                            \/ timers = {} /\ evts \in {{"ENTRY"}, {"TIMEOUT1"}, {"TIMEOUT2"}}
      [] s = "SECONDARY" -> \/ timers = {"T1"} /\ evts = {}
                            \/ timers = {} /\ evts \in {{"ENTRY"}, {"TIMEOUT1"}}
      [] s \in {"SINK_START", "APPLE_DETECT"} -> timers = {} /\ evts = {"ENTRY"}
      [] s \in Terminal  -> timers = {} /\ evts \in {{}, {"ENTRY"}}
      [] s = "OFF"       -> timers = {} /\ evts = {}

StimulusInv == TypeOK /\ Waits(state)

LEMMA WaitsSuffices == StimulusInv => OneAtATime
BY DEF StimulusInv, TypeOK, Waits, OneAtATime, NoStimulus, States, Detecting, Terminal, Events

LEMMA HandlerWaits ==
    ASSUME StimulusInv, evts # {}, state # "OFF", Handle(NextEvent)
    PROVE  Waits(state)'
<1>. USE DEF StimulusInv, Waits, Terminal
<1>1. CASE state = "SINK_START"
  BY <1>1 DEF Handle, SinkStart, NextEvent, GotoState, AfterApple
<1>2. CASE state = "APPLE_DETECT"
  BY <1>2 DEF Handle, AppleDetect, NextEvent, GotoState, AfterApple
<1>3. CASE state = "BRICK_ID"
  BY <1>3 DEF Handle, BrickId, NextEvent, GotoState, AfterApple
<1>4. CASE state = "PRIMARY"
  BY <1>4 DEF Handle, Primary, NextEvent, GotoState
<1>5. CASE state = "SECONDARY"
  BY <1>5 DEF Handle, Secondary, NextEvent, GotoState
<1>6. CASE state = "TYPE_C_ONLY"
  BY <1>6 DEF Handle, TypeCOnly, NextEvent
<1>7. CASE state \in {"DCP", "CDP"}
  BY <1>7 DEF Handle, ChargingPort, NextEvent
<1>. QED
  BY <1>1, <1>2, <1>3, <1>4, <1>5, <1>6, <1>7 DEF TypeOK, States, Detecting

LEMMA StimulusStep == StimulusInv /\ [Next]_vars => StimulusInv'
<1>. SUFFICES ASSUME StimulusInv, [Next]_vars PROVE StimulusInv'
  OBVIOUS
<1>0. TypeOK'
  BY TypeStep DEF StimulusInv
<1>1. CASE BcFsm
  <2>1. CASE attached
    BY <1>0, <1>1, <2>1, HandlerWaits DEF BcFsm, StimulusInv, Waits
  <2>2. CASE ~attached
    BY <1>0, <1>1, <2>2 DEF BcFsm, BcStop, StimulusInv, Waits, fsmVars, Terminal
  <2>. QED
    BY <2>1, <2>2
<1>2. CASE T1Expire
  BY <1>0, <1>2 DEF T1Expire, StimulusInv, Waits, Terminal, TypeOK, States, Detecting
<1>3. CASE T2Expire
  BY <1>0, <1>3 DEF T2Expire, StimulusInv, Waits, Terminal, TypeOK, States, Detecting
<1>4. CASE Attach \/ RpChange \/ ErrorRecovery \/ UNCHANGED vars
  BY <1>0, <1>4 DEF Attach, RpChange, ErrorRecovery, vars, fsmVars, StimulusInv, Waits
<1>5. CASE PeDisabled
  BY <1>0, <1>5 DEF PeDisabled, BcStart, StimulusInv, Waits, Terminal
<1>6. CASE Disconnect
  BY <1>0, <1>6 DEF Disconnect, BcStop, StimulusInv, Waits, fsmVars, Terminal
<1>. QED
  BY <1>1, <1>2, <1>3, <1>4, <1>5, <1>6 DEF Next

(* A detection always waits for exactly one event or timer, a finding for none. *)
THEOREM OneStimulus == Spec => []OneAtATime
<1>1. Init => StimulusInv
  BY TypeInit DEF Init, StimulusInv, Waits, Terminal
<1>. QED
  BY <1>1, StimulusStep, WaitsSuffices, PTL DEF Spec
-----------------------------------------------------------------------------
(* What a detection has established about the source before it reports it.    *)
(* A comparator is read after its timer only, and the states behind it are     *)
(* not reached with a computer's port.  The facts lapse when the partner goes, *)
(* and the next one is not seen before the machine is off.                    *)
FreshInv ==
    /\ state = "OFF" => ~connected
    /\ ~attached /\ polled => state = "OFF"

SourceInv ==
    attached =>
      /\ "TIMEOUT1" \in evts => settled
      /\ state = "PRIMARY" /\ ("T2" \in timers \/ "TIMEOUT2" \in evts) => source # "SDP"
      /\ state \in {"SECONDARY", "DCP", "CDP"} => source # "SDP"

FindingInv == StimulusInv /\ FreshInv /\ SourceInv

LEMMA HandlerFinds ==
    ASSUME FindingInv, attached, evts # {}, state # "OFF", Handle(NextEvent),
           UNCHANGED envVars
    PROVE  SourceInv' /\ state' # "OFF"
<1>. USE DEF FindingInv, StimulusInv, Waits, SourceInv, Terminal, envVars
<1>1. CASE state = "SINK_START"
  BY <1>1 DEF Handle, SinkStart, NextEvent, GotoState, AfterApple
<1>2. CASE state = "APPLE_DETECT"
  BY <1>2 DEF Handle, AppleDetect, NextEvent, GotoState, AfterApple
<1>3. CASE state = "BRICK_ID"
  <2>1. BrickId("ENTRY") /\ evts = {"ENTRY"}
    BY <1>3 DEF Handle, NextEvent
  <2>2. /\ timers' = timers
        /\ \/ state' = state /\ evts' = evts \ {"ENTRY"}
           \/ GotoState("ENTRY", AfterApple)
    BY <2>1, Zenon DEF BrickId
  <2>. QED
    BY <1>3, <2>1, <2>2 DEF GotoState, AfterApple
<1>4. CASE state = "PRIMARY"
  <2>1. CASE evts = {"ENTRY"}
    BY <1>4, <2>1 DEF Handle, Primary, NextEvent
  <2>2. CASE evts = {"TIMEOUT1"}
    <3>1. settled /\ Primary("TIMEOUT1")
      BY <1>4, <2>2 DEF Handle, NextEvent
    <3>2. PICK high \in Levels({"CDP", "DCP"}) :
             IF high THEN /\ timers' = timers \cup {"T2"}
                          /\ evts' = evts \ {"TIMEOUT1"}
                          /\ UNCHANGED state
             ELSE GotoState("TIMEOUT1", "TYPE_C_ONLY") /\ UNCHANGED timers
      BY <3>1 DEF Primary
    <3>3. CASE high
      <4>1. source # "SDP"
        <5>1. source \in Apple => source # "SDP"
          BY DEF Apple
        <5>2. source \notin Apple => source \in {"CDP", "DCP"}
          BY <3>1, <3>3, Zenon DEF Levels
        <5>. QED
          BY <5>1, <5>2
      <4>. QED
        BY <1>4, <2>2, <3>2, <3>3, <4>1
    <3>4. CASE ~high
      BY <1>4, <2>2, <3>2, <3>4 DEF GotoState
    <3>. QED
      BY <3>3, <3>4
  <2>3. CASE evts = {"TIMEOUT2"}
    BY <1>4, <2>3 DEF Handle, Primary, NextEvent, GotoState
  <2>. QED
    BY <1>4, <2>1, <2>2, <2>3
<1>5. CASE state = "SECONDARY"
  BY <1>5 DEF Handle, Secondary, NextEvent, GotoState
<1>6. CASE state = "TYPE_C_ONLY"
  BY <1>6 DEF Handle, TypeCOnly, NextEvent
<1>7. CASE state \in {"DCP", "CDP"}
  BY <1>7 DEF Handle, ChargingPort, NextEvent
<1>. QED
  BY <1>1, <1>2, <1>3, <1>4, <1>5, <1>6, <1>7 DEF TypeOK, States, Detecting

LEMMA FindingStep == FindingInv /\ [Next]_vars => FindingInv'
<1>. SUFFICES ASSUME FindingInv, [Next]_vars PROVE FindingInv'
  OBVIOUS
<1>0. StimulusInv'
  BY StimulusStep DEF FindingInv
<1>1. CASE BcFsm
  <2>1. CASE attached
    <3>1. SourceInv' /\ state' # "OFF"
      BY <1>1, <2>1, HandlerFinds DEF BcFsm, envVars
    <3>. QED
      BY <1>0, <1>1, <2>1, <3>1 DEF BcFsm, FindingInv, FreshInv
  <2>2. CASE ~attached
    BY <1>0, <1>1, <2>2 DEF BcFsm, BcStop, FindingInv, FreshInv, SourceInv, fsmVars, statusVars
  <2>. QED
    BY <2>1, <2>2
<1>2. CASE T1Expire
  BY <1>0, <1>2 DEF T1Expire, FindingInv, StimulusInv, Waits, FreshInv, SourceInv, envVars,
                    statusVars
<1>3. CASE T2Expire
  BY <1>0, <1>3 DEF T2Expire, FindingInv, StimulusInv, Waits, FreshInv, SourceInv, envVars,
                    statusVars
<1>4. CASE Attach
  BY <1>0, <1>4 DEF Attach, FindingInv, StimulusInv, Waits, Terminal, FreshInv, SourceInv,
                    fsmVars, statusVars
<1>5. CASE RpChange \/ ErrorRecovery \/ UNCHANGED vars
  BY <1>0, <1>5 DEF RpChange, ErrorRecovery, vars, fsmVars, statusVars, envVars, FindingInv,
                    FreshInv, SourceInv
<1>6. CASE PeDisabled
  BY <1>0, <1>6 DEF PeDisabled, BcStart, FindingInv, FreshInv, SourceInv, envVars
<1>7. CASE Disconnect
  BY <1>0, <1>7 DEF Disconnect, BcStop, FindingInv, FreshInv, SourceInv, fsmVars, statusVars
<1>. QED
  BY <1>1, <1>2, <1>3, <1>4, <1>5, <1>6, <1>7 DEF Next

LEMMA FindingInit == Init => FindingInv
BY TypeInit DEF Init, FindingInv, StimulusInv, Waits, Terminal, FreshInv, SourceInv

(* A new partner meets a machine that is off, whatever ended the last one. *)
THEOREM FreshAttach == Spec => AttachIsFresh
<1>1. FindingInv /\ [Next]_vars =>
        [~attached /\ attached' =>
            state = "OFF" /\ ~connected /\ evts = {} /\ timers = {}]_vars
  <2>. SUFFICES ASSUME FindingInv, Next, ~attached, attached'
                PROVE  state = "OFF" /\ ~connected /\ evts = {} /\ timers = {}
    OBVIOUS
  <2>1. Attach
    BY DEF Next, BcFsm, T1Expire, T2Expire, RpChange, PeDisabled, Disconnect, ErrorRecovery,
           envVars
  <2>. QED
    BY <2>1 DEF Attach, FindingInv, FreshInv, StimulusInv, Waits, Terminal
<1>. QED
  BY <1>1, FindingInit, FindingStep, PTL DEF Spec, AttachIsFresh

LEMMA ReportIsReal ==
    ASSUME FindingInv, attached, evts # {}, state # "OFF", Handle(NextEvent),
           UNCHANGED envVars,
           connected', <<connected, curAmp>>' # <<connected, curAmp>>
    PROVE  CanSupply(curAmp') \/ LowBrick(curAmp') \/ AppleFinding(curAmp')
<1>. USE DEF FindingInv, StimulusInv, Waits, Terminal
<1>1. CASE state \in {"SINK_START", "APPLE_DETECT"}
  BY <1>1 DEF Handle, SinkStart, AppleDetect, NextEvent
<1>2. CASE state = "BRICK_ID"
  <2>1. BrickId("ENTRY")
    BY <1>2 DEF Handle, NextEvent
  <2>2. curAmp' \in {210, 240}
    <3>1. \/ connected' = TRUE /\ curAmp' \in {210, 240}
          \/ connected' \in {FALSE, connected} /\ UNCHANGED curAmp
      BY <2>1, Zenon DEF BrickId
    <3>. QED
      BY <3>1
  <2>. QED
    BY <1>2, <2>2 DEF AppleFinding
<1>3. CASE state \in {"PRIMARY", "SECONDARY"}
  BY <1>3 DEF Handle, Primary, Secondary, NextEvent, statusVars
<1>4. CASE state = "TYPE_C_ONLY"
  <2>1. \/ rp = "3A" /\ curAmp' = 300
        \/ rp = "1_5A" /\ curAmp' = 150
    <3>1. TypeCOnly("ENTRY")
      BY <1>4 DEF Handle, NextEvent
    <3>2. rp # "USB"
      BY <3>1 DEF TypeCOnly
    <3>3. rp \in RpLevels
      BY DEF TypeOK
    <3>. QED
      BY <3>1, <3>2, <3>3 DEF TypeCOnly, RpLevels
  <2>. QED
    BY <2>1 DEF CanSupply, RpAmp
<1>5. CASE state \in {"DCP", "CDP"}
  <2>1. curAmp' = 150 /\ source # "SDP"
    BY <1>5 DEF Handle, ChargingPort, NextEvent, SourceInv
  <2>2. source \in SourceKinds
    BY DEF TypeOK
  <2>. QED
    BY <2>1, <2>2 DEF CanSupply, DataLineAmp, LowBrick, SourceKinds
<1>. QED
  BY <1>1, <1>2, <1>3, <1>4, <1>5 DEF TypeOK, States, Detecting

(* A reported supply exists: there is a partner at the port when it is         *)
(* reported, and it can give the current, unless the Apple detection has found  *)
(* it or it is the 1 A brick.                                                *)
THEOREM RealSupply == Spec => SupplyIsReal
<1>1. FindingInv /\ [Next]_vars =>
        [(connected' /\ <<connected, curAmp>>' # <<connected, curAmp>>) =>
            attached /\ (\/ CanSupply(curAmp')
                         \/ LowBrick(curAmp')
                         \/ AppleFinding(curAmp'))]_vars
  <2>. SUFFICES ASSUME FindingInv, Next, connected',
                       <<connected, curAmp>>' # <<connected, curAmp>>
                PROVE  attached /\ (\/ CanSupply(curAmp')
                                    \/ LowBrick(curAmp')
                                    \/ AppleFinding(curAmp'))
    OBVIOUS
  <2>1. BcFsm
    BY DEF Next, T1Expire, T2Expire, Attach, RpChange, PeDisabled, BcStart, Disconnect,
           ErrorRecovery, BcStop, fsmVars, statusVars
  <2>2. attached
    BY <2>1 DEF BcFsm, BcStop, fsmVars, statusVars
  <2>. QED
    BY <2>1, <2>2, ReportIsReal DEF BcFsm, envVars
<1>. QED
  BY <1>1, FindingInit, FindingStep, PTL DEF Spec, SupplyIsReal

-----------------------------------------------------------------------------
(* The length of a detection. *)

(* The steps of the machine and its timers that are still ahead, at most: the      *)
(* states in their order, and the stimuli each state waits for.                *)
Waiting(entry, t1, t2) ==
    IF evts = {"ENTRY"} THEN entry
    ELSE IF evts = {"TIMEOUT1"} THEN t1
    ELSE IF evts = {"TIMEOUT2"} THEN t2
    ELSE IF timers = {"T1"} THEN t1 + 1
    ELSE IF timers = {"T2"} THEN t2 + 1
    ELSE 0
StepsLeft ==
    CASE state = "SINK_START" -> 12
      [] state = "APPLE_DETECT" -> 11
      [] state = "BRICK_ID" -> Waiting(10, 0, 0)
      [] state = "PRIMARY" -> Waiting(9, 7, 5)
      [] state = "SECONDARY" -> Waiting(4, 2, 0)
      [] state \in {"TYPE_C_ONLY", "DCP", "CDP"} -> Waiting(1, 0, 0)
      [] OTHER -> 0

(* Whatever the comparators read, every step of the machine and of its timers       *)
(* takes a detection forward, and only the stack starts it again: it never goes    *)
(* back to a state it has left, although a refused Apple brick sends it on from a   *)
(* state that is a finding for others.                                       *)
DetectionAdvances ==
    [][/\ BcFsm \/ T1Expire \/ T2Expire =>
             StepsLeft' < StepsLeft \/ (~attached /\ state' = "OFF")
       /\ StepsLeft' > StepsLeft => PeDisabled]_vars

(* The measure in the situations that StimulusInv allows. *)
StepTable ==
    /\ state = "OFF" => StepsLeft = 0
    /\ state = "SINK_START" => StepsLeft = 12
    /\ state = "APPLE_DETECT" => StepsLeft = 11
    /\ state = "BRICK_ID" /\ evts = {"ENTRY"} => StepsLeft = 10
    /\ state = "PRIMARY" /\ evts = {"ENTRY"} => StepsLeft = 9
    /\ state = "PRIMARY" /\ evts = {} /\ timers = {"T1"} => StepsLeft = 8
    /\ state = "PRIMARY" /\ evts = {"TIMEOUT1"} => StepsLeft = 7
    /\ state = "PRIMARY" /\ evts = {} /\ timers = {"T2"} => StepsLeft = 6
    /\ state = "PRIMARY" /\ evts = {"TIMEOUT2"} => StepsLeft = 5
    /\ state = "SECONDARY" /\ evts = {"ENTRY"} => StepsLeft = 4
    /\ state = "SECONDARY" /\ evts = {} /\ timers = {"T1"} => StepsLeft = 3
    /\ state = "SECONDARY" /\ evts = {"TIMEOUT1"} => StepsLeft = 2
    /\ state \in {"TYPE_C_ONLY", "DCP", "CDP"} /\ evts = {"ENTRY"} => StepsLeft = 1
    /\ state \in Terminal /\ evts = {} /\ timers = {} => StepsLeft = 0

(* Which stimulus it is decides: the sets differ. *)
LEMMA StimuliDiffer ==
    /\ {} # {"ENTRY"} /\ {} # {"TIMEOUT1"} /\ {} # {"TIMEOUT2"} /\ {} # {"T1"} /\ {} # {"T2"}
    /\ {"TIMEOUT1"} # {"ENTRY"} /\ {"TIMEOUT2"} # {"ENTRY"} /\ {"TIMEOUT2"} # {"TIMEOUT1"}
    /\ {"T2"} # {"T1"}
OBVIOUS

LEMMA StepsByTable == StepTable
<1>1. CASE state \in {"OFF", "SINK_START", "APPLE_DETECT"}
  BY <1>1 DEF StepTable, StepsLeft, Terminal
<1>2. CASE state = "PRIMARY"
  <2>1. StepsLeft = Waiting(9, 7, 5)
    BY <1>2 DEF StepsLeft
  <2>. QED
    BY <1>2, <2>1, StimuliDiffer DEF StepTable, Waiting, Terminal
<1>3. CASE state = "SECONDARY"
  <2>1. StepsLeft = Waiting(4, 2, 0)
    BY <1>3 DEF StepsLeft
  <2>. QED
    BY <1>3, <2>1, StimuliDiffer DEF StepTable, Waiting, Terminal
<1>4. CASE state = "BRICK_ID"
  <2>1. StepsLeft = Waiting(10, 0, 0)
    BY <1>4 DEF StepsLeft
  <2>. QED
    BY <1>4, <2>1, StimuliDiffer DEF StepTable, Waiting, Terminal
<1>5. CASE state \in {"TYPE_C_ONLY", "DCP", "CDP"}
  <2>1. StepsLeft = Waiting(1, 0, 0)
    BY <1>5 DEF StepsLeft
  <2>. QED
    BY <1>5, <2>1, StimuliDiffer DEF StepTable, Waiting, Terminal
<1>. QED
  BY <1>1, <1>2, <1>3, <1>4, <1>5 DEF StepTable, Terminal

LEMMA StepsLeftType == StimulusInv => StepsLeft \in 0..12
<1>. SUFFICES ASSUME StimulusInv PROVE StepsLeft \in 0..12
  OBVIOUS
<1>. USE StepsByTable DEF StimulusInv, Waits, StepTable
<1>1. CASE state \in {"OFF", "SINK_START", "APPLE_DETECT"}
  BY <1>1
<1>2. CASE state = "PRIMARY"
  <2>1. \/ timers \in {{"T1"}, {"T2"}} /\ evts = {}
        \/ evts \in {{"ENTRY"}, {"TIMEOUT1"}, {"TIMEOUT2"}}
    BY <1>2 DEF Terminal
  <2>. QED
    BY <1>2, <2>1
<1>3. CASE state = "SECONDARY"
  <2>1. \/ timers = {"T1"} /\ evts = {}
        \/ evts \in {{"ENTRY"}, {"TIMEOUT1"}}
    BY <1>3 DEF Terminal
  <2>. QED
    BY <1>3, <2>1
<1>4. CASE state \in Terminal
  <2>1. timers = {} /\ evts \in {{}, {"ENTRY"}}
    BY <1>4 DEF Terminal
  <2>. QED
    BY <1>4, <2>1 DEF Terminal
<1>. QED
  BY <1>1, <1>2, <1>3, <1>4 DEF TypeOK, States, Detecting

LEMMA HandlerAdvances ==
    ASSUME StimulusInv, evts # {}, state # "OFF", Handle(NextEvent)
    PROVE  StepsLeft' < StepsLeft
<1>0. StepTable /\ StepTable'
  BY StepsByTable, PTL
<1>. USE <1>0 DEF StimulusInv, Waits, StepTable
<1>1. CASE state \in {"SINK_START", "APPLE_DETECT"}
  <2>1. evts = {"ENTRY"} /\ timers = {}
    BY <1>1
  <2>2. /\ state' \in IF state = "SINK_START" THEN {"APPLE_DETECT", "PRIMARY", "TYPE_C_ONLY"}
                      ELSE {"BRICK_ID", "PRIMARY", "TYPE_C_ONLY"}
        /\ evts' = {"ENTRY"}
    BY <1>1, <2>1 DEF Handle, SinkStart, AppleDetect, NextEvent, GotoState, AfterApple
  <2>. QED
    BY <1>1, <2>1, <2>2
<1>2. CASE state = "BRICK_ID"
  <2>1. evts = {"ENTRY"} /\ timers = {} /\ BrickId("ENTRY")
    BY <1>2 DEF Handle, NextEvent, Terminal
  <2>2. /\ timers' = timers
        /\ \/ state' = state /\ evts' = evts \ {"ENTRY"}
           \/ GotoState("ENTRY", AfterApple)
    BY <2>1, Zenon DEF BrickId
  <2>3. \/ state' = "BRICK_ID" /\ evts' = {}
        \/ state' \in {"PRIMARY", "TYPE_C_ONLY"} /\ evts' = {"ENTRY"}
    BY <1>2, <2>1, <2>2 DEF GotoState, AfterApple
  <2>. QED
    BY <1>2, <2>1, <2>2, <2>3 DEF Terminal
<1>3. CASE state = "PRIMARY"
  <2>1. CASE evts = {"ENTRY"}
    <3>1. state' = "PRIMARY" /\ evts' = {} /\ timers' = {"T1"}
      BY <1>3, <2>1 DEF Handle, Primary, NextEvent
    <3>. QED
      BY <1>3, <2>1, <3>1
  <2>2. CASE evts = {"TIMEOUT1"}
    <3>1. \/ state' = "PRIMARY" /\ evts' = {} /\ timers' = {"T2"}
          \/ state' = "TYPE_C_ONLY" /\ evts' = {"ENTRY"}
      BY <1>3, <2>2 DEF Handle, Primary, NextEvent, GotoState
    <3>. QED
      BY <1>3, <2>2, <3>1
  <2>3. CASE evts = {"TIMEOUT2"}
    <3>1. state' = "SECONDARY" /\ evts' = {"ENTRY"}
      BY <1>3, <2>3 DEF Handle, Primary, NextEvent, GotoState
    <3>. QED
      BY <1>3, <2>3, <3>1
  <2>. QED
    BY <1>3, <2>1, <2>2, <2>3
<1>4. CASE state = "SECONDARY"
  <2>1. CASE evts = {"ENTRY"}
    <3>1. state' = "SECONDARY" /\ evts' = {} /\ timers' = {"T1"}
      BY <1>4, <2>1 DEF Handle, Secondary, NextEvent
    <3>. QED
      BY <1>4, <2>1, <3>1
  <2>2. CASE evts = {"TIMEOUT1"}
    <3>1. state' \in {"DCP", "CDP"} /\ evts' = {"ENTRY"}
      BY <1>4, <2>2 DEF Handle, Secondary, NextEvent, GotoState
    <3>. QED
      BY <1>4, <2>2, <3>1
  <2>. QED
    BY <1>4, <2>1, <2>2
<1>5. CASE state \in {"TYPE_C_ONLY", "DCP", "CDP"}
  <2>1. evts = {"ENTRY"} /\ timers = {}
    BY <1>5 DEF Terminal
  <2>2. state' = state /\ evts' = {} /\ timers' = {}
    BY <1>5, <2>1 DEF Handle, TypeCOnly, ChargingPort, NextEvent
  <2>. QED
    BY <1>5, <2>1, <2>2 DEF Terminal
<1>. QED
  BY <1>1, <1>2, <1>3, <1>4, <1>5 DEF TypeOK, States, Detecting, Terminal

LEMMA TimerAdvances ==
    ASSUME StimulusInv, T1Expire \/ T2Expire
    PROVE  StepsLeft' < StepsLeft
<1>0. StepTable /\ StepTable'
  BY StepsByTable, PTL
<1>1. state \in {"PRIMARY", "SECONDARY"}
  BY DEF StimulusInv, Waits, Terminal, TypeOK, States, Detecting, T1Expire, T2Expire
<1>2. CASE T1Expire
  <2>1. evts = {} /\ timers = {"T1"}
    BY <1>1, <1>2 DEF StimulusInv, Waits, T1Expire
  <2>2. state' = state /\ evts' = {"TIMEOUT1"} /\ timers' = {}
    BY <1>2, <2>1 DEF T1Expire
  <2>. QED
    BY <1>0, <1>1, <2>1, <2>2 DEF StepTable
<1>3. CASE T2Expire
  <2>1. state = "PRIMARY" /\ evts = {} /\ timers = {"T2"}
    BY <1>1, <1>3 DEF StimulusInv, Waits, T2Expire
  <2>2. state' = state /\ evts' = {"TIMEOUT2"} /\ timers' = {}
    BY <1>3, <2>1 DEF T2Expire
  <2>. QED
    BY <1>0, <2>1, <2>2 DEF StepTable
<1>. QED
  BY <1>2, <1>3

(* A detection takes at most twelve steps from bc_start to its finding, for every   *)
(* configuration table and partner: the safety half of DetectionEnds.          *)
THEOREM DetectionIsBounded == Spec => DetectionAdvances /\ [](StepsLeft \in 0..12)
<1>. DEFINE Advances ==
         /\ BcFsm \/ T1Expire \/ T2Expire =>
               StepsLeft' < StepsLeft \/ (~attached /\ state' = "OFF")
         /\ StepsLeft' > StepsLeft => PeDisabled
<1>1. StimulusInv /\ [Next]_vars => [Advances]_vars
  <2>. SUFFICES ASSUME StimulusInv, Next PROVE Advances
    OBVIOUS
  <2>0. StepsLeft \in 0..12 /\ StepsLeft' \in 0..12
    <3>1. StepsLeft \in 0..12
      BY StepsLeftType
    <3>2. (StimulusInv => StepsLeft \in 0..12)'
      BY StepsLeftType, PTL
    <3>. QED
      BY <3>1, <3>2, StimulusStep
  <2>o. state' = "OFF" => StepsLeft' = 0
    <3>1. StepTable'
      BY StepsByTable, PTL
    <3>. QED
      BY <3>1 DEF StepTable
  <2>1. CASE BcFsm
    <3>1. CASE attached
      BY <2>0, <2>1, <3>1, HandlerAdvances DEF BcFsm
    <3>2. CASE ~attached
      <4>1. state' = "OFF"
        BY <2>1, <3>2 DEF BcFsm, BcStop, fsmVars
      <4>. QED
        BY <2>0, <2>o, <3>2, <4>1
    <3>. QED
      BY <3>1, <3>2
  <2>2. CASE T1Expire \/ T2Expire
    <3>1. StepsLeft' < StepsLeft
      BY <2>2, TimerAdvances
    <3>. QED
      BY <2>0, <3>1
  <2>3. CASE ~BcFsm /\ ~T1Expire /\ ~T2Expire
    <3>1. CASE Attach \/ RpChange \/ ErrorRecovery
      <4>1. StepsLeft' = StepsLeft
        BY <3>1 DEF Attach, RpChange, ErrorRecovery, fsmVars, StepsLeft, Waiting
      <4>. QED
        BY <2>0, <2>3, <4>1
    <3>2. CASE Disconnect
      <4>1. state' = "OFF"
        BY <3>2 DEF Disconnect, BcStop, fsmVars
      <4>. QED
        BY <2>0, <2>o, <2>3, <4>1
    <3>3. CASE PeDisabled
      BY <2>3, <3>3
    <3>. QED
      BY <2>3, <3>1, <3>2, <3>3 DEF Next
  <2>. QED
    BY <2>1, <2>2, <2>3
<1>2. Init => StimulusInv
  BY TypeInit DEF Init, StimulusInv, Waits, Terminal
<1>3. StimulusInv => StepsLeft \in 0..12
  BY StepsLeftType
<1>. QED
  BY <1>1, <1>2, <1>3, StimulusStep, PTL DEF Spec, DetectionAdvances
=============================================================================
