------------------------ MODULE FaultRecovery_proofs ------------------------
(***************************************************************************)
(* Proofs for FaultRecovery, for every retry limit up to the skip value.    *)
(* The properties of the recovery hold because nothing happens to a port     *)
(* that is disabled: it is detached, its OVP is disarmed and its counter is  *)
(* clear (Quiet).                                                          *)
(***************************************************************************)
EXTENDS FaultRecovery, TLAPS

(* The inductive strengthening of ExhaustedIsHandled. *)
Quiet ==
    /\ ovp => attach
    /\ attach => dpm
    /\ ~dpm => count = 0

IInv == TypeOK /\ Quiet /\ ExhaustedIsHandled /\ RecoveryIsRunning /\ DischargeIsTimed

(* All that the proofs need to know of the size of the counter. *)
LEMMA ByteFacts ==
    /\ 0 \in Byte
    /\ Byte \subseteq Nat
    /\ \A n \in Byte : (n + 1) % CounterSize \in Byte
BY DEF Byte, CounterSize

(* The state of the stack keeps its type. *)
LEMMA StackTypeStep == TypeOK /\ [Next]_vars => StackType'
<1> SUFFICES ASSUME TypeOK, [Next]_vars PROVE StackType'
  OBVIOUS
<1> USE DEF TypeOK, StackType, stackVars, faultVars, sinkVars
<1>1. CASE PsnkSetVoltage
  BY <1>1 DEF PsnkSetVoltage
<1>2. CASE PsnkEnable
  BY <1>2 DEF PsnkEnable
<1>3. CASE PsnkOff
  BY <1>3 DEF PsnkOff, PsnkDisable
<1>4. CASE DischargeTimeout
  BY <1>4 DEF DischargeTimeout
<1>5. CASE DischargeDone
  BY <1>5 DEF DischargeDone
<1>6. CASE OvpFault
  BY <1>6 DEF OvpFault, Retry
<1>7. CASE FaultHandlerTask
  BY <1>7 DEF FaultHandlerTask
<1>8. CASE RecoveryTimer
  BY <1>8 DEF RecoveryTimer
<1>9. CASE Attach
  BY <1>9 DEF Attach
<1>10. CASE Contract
  BY <1>10 DEF Contract
<1>11. CASE HardResetSent
  BY <1>11 DEF HardResetSent, ClearFault
<1>12. CASE ErrorRecovery
  BY <1>12 DEF ErrorRecovery, Detached, PsnkDisable, ClearFault
<1>13. CASE PortDisabled
  BY <1>13 DEF PortDisabled, Detached, PsnkDisable, ClearFault
<1>14. CASE Disconnect
  BY <1>14 DEF Disconnect, Detached, PsnkDisable, ClearFault
<1>15. CASE SolnStart
  BY <1>15 DEF SolnStart
<1>16. CASE VbusChange
  BY <1>16 DEF VbusChange
<1>17. CASE UNCHANGED vars
  BY <1>17 DEF vars
<1> QED BY <1>1, <1>2, <1>3, <1>4, <1>5, <1>6, <1>7, <1>8, <1>9, <1>10, <1>11, <1>12, <1>13, <1>14, <1>15, <1>16, <1>17 DEF Next

(* The fault state keeps its type: the counter wraps within its byte. *)
LEMMA FaultTypeStep == TypeOK /\ [Next]_vars => FaultType'
<1> SUFFICES ASSUME TypeOK, [Next]_vars PROVE FaultType'
  OBVIOUS
<1> USE DEF TypeOK, FaultType, stackVars, faultVars, sinkVars
<1>1. CASE PsnkSetVoltage
  BY <1>1 DEF PsnkSetVoltage
<1>2. CASE PsnkEnable
  BY <1>2 DEF PsnkEnable
<1>3. CASE PsnkOff
  BY <1>3 DEF PsnkOff
<1>4. CASE DischargeTimeout
  BY <1>4 DEF DischargeTimeout
<1>5. CASE DischargeDone
  BY <1>5 DEF DischargeDone
<1>6. CASE OvpFault
  BY <1>6, ByteFacts DEF OvpFault
<1>7. CASE FaultHandlerTask
  BY <1>7 DEF FaultHandlerTask
<1>8. CASE RecoveryTimer
  BY <1>8 DEF RecoveryTimer
<1>9. CASE Attach
  BY <1>9, ByteFacts DEF Attach
<1>10. CASE Contract
  BY <1>10 DEF Contract
<1>11. CASE HardResetSent
  BY <1>11 DEF HardResetSent, ClearFault
<1>12. CASE ErrorRecovery
  BY <1>12 DEF ErrorRecovery, ClearFault
<1>13. CASE PortDisabled
  BY <1>13, ByteFacts DEF PortDisabled, ClearFault
<1>14. CASE Disconnect
  BY <1>14, ByteFacts DEF Disconnect, ClearFault
<1>15. CASE SolnStart
  BY <1>15 DEF SolnStart
<1>16. CASE VbusChange
  BY <1>16 DEF VbusChange
<1>17. CASE UNCHANGED vars
  BY <1>17 DEF vars
<1> QED BY <1>1, <1>2, <1>3, <1>4, <1>5, <1>6, <1>7, <1>8, <1>9, <1>10, <1>11, <1>12, <1>13, <1>14, <1>15, <1>16, <1>17 DEF Next

(* The sink path keeps its type. *)
LEMMA SinkTypeStep == TypeOK /\ [Next]_vars => SinkType'
<1> SUFFICES ASSUME TypeOK, [Next]_vars PROVE SinkType'
  OBVIOUS
<1> USE DEF TypeOK, SinkType, stackVars, faultVars, sinkVars
<1>1. CASE PsnkSetVoltage
  BY <1>1 DEF PsnkSetVoltage
<1>2. CASE PsnkEnable
  BY <1>2 DEF PsnkEnable
<1>3. CASE PsnkOff
  BY <1>3 DEF PsnkOff, PsnkDisable
<1>4. CASE DischargeTimeout
  BY <1>4 DEF DischargeTimeout
<1>5. CASE DischargeDone
  BY <1>5 DEF DischargeDone
<1>6. CASE OvpFault
  BY <1>6 DEF OvpFault, Retry
<1>7. CASE FaultHandlerTask
  BY <1>7 DEF FaultHandlerTask
<1>8. CASE RecoveryTimer
  BY <1>8 DEF RecoveryTimer
<1>9. CASE Attach
  BY <1>9 DEF Attach
<1>10. CASE Contract
  BY <1>10 DEF Contract
<1>11. CASE HardResetSent
  BY <1>11 DEF HardResetSent, ClearFault
<1>12. CASE ErrorRecovery
  BY <1>12 DEF ErrorRecovery, Detached, PsnkDisable, ClearFault
<1>13. CASE PortDisabled
  BY <1>13 DEF PortDisabled, Detached, PsnkDisable, ClearFault
<1>14. CASE Disconnect
  BY <1>14 DEF Disconnect, Detached, PsnkDisable, ClearFault
<1>15. CASE SolnStart
  BY <1>15 DEF SolnStart
<1>16. CASE VbusChange
  BY <1>16 DEF VbusChange
<1>17. CASE UNCHANGED vars
  BY <1>17 DEF vars
<1> QED BY <1>1, <1>2, <1>3, <1>4, <1>5, <1>6, <1>7, <1>8, <1>9, <1>10, <1>11, <1>12, <1>13, <1>14, <1>15, <1>16, <1>17 DEF Next

(* Every variable keeps its type; the fault counter wraps, and stays a byte.  *)
THEOREM TypeCorrect == Spec => []TypeOK
<1>1. Init => TypeOK
  BY ByteFacts DEF Init, TypeOK, StackType, FaultType, SinkType
<1>2. TypeOK /\ [Next]_vars => TypeOK'
  <2> SUFFICES ASSUME TypeOK, [Next]_vars PROVE TypeOK'
    OBVIOUS
  <2>1. StackType'
    BY StackTypeStep
  <2>2. FaultType'
    BY FaultTypeStep
  <2>3. SinkType'
    BY SinkTypeStep
  <2> QED BY <2>1, <2>2, <2>3 DEF TypeOK
<1> QED BY <1>1, <1>2, PTL DEF Spec

(* What a disabled port is. *)
LEMMA QuietStep == TypeOK /\ Quiet /\ [Next]_vars => Quiet'
<1> SUFFICES ASSUME TypeOK, Quiet, [Next]_vars PROVE Quiet'
  OBVIOUS
<1> USE DEF TypeOK, StackType, SinkType, Quiet
<1>1. ASSUME PsnkSetVoltage \/ PsnkEnable \/ PsnkOff \/ DischargeTimeout \/ DischargeDone
      PROVE  Quiet'
  BY <1>1 DEF PsnkSetVoltage, PsnkEnable, PsnkOff, PsnkDisable, DischargeTimeout,
              DischargeDone, stackVars, faultVars
<1>2. ASSUME OvpFault \/ FaultHandlerTask \/ RecoveryTimer
      PROVE  Quiet'
  BY <1>2 DEF OvpFault, FaultHandlerTask, RecoveryTimer, sinkVars
<1>3. CASE Attach
  BY <1>3 DEF Attach, sinkVars
<1>4. CASE Contract
  BY <1>4 DEF Contract, sinkVars, faultVars
<1>5. CASE HardResetSent
  BY <1>5 DEF HardResetSent, sinkVars
<1>6. ASSUME ErrorRecovery \/ PortDisabled \/ Disconnect
      PROVE  Quiet'
  <2>1. ~attach' /\ ~ovp'
    BY <1>6 DEF ErrorRecovery, PortDisabled, Disconnect, Detached, PsnkDisable
  <2>2. ~dpm' => count' = 0
    <3>1. CASE ErrorRecovery
      BY <3>1 DEF ErrorRecovery
    <3>2. ASSUME PortDisabled \/ Disconnect
          PROVE  count' = 0
      BY <3>2 DEF PortDisabled, Disconnect
    <3> QED BY <1>6, <3>1, <3>2
  <2> QED BY <2>1, <2>2
<1>7. ASSUME SolnStart \/ VbusChange \/ UNCHANGED vars
      PROVE  Quiet'
  BY <1>7 DEF SolnStart, VbusChange, vars, stackVars, faultVars, sinkVars
<1> QED BY <1>1, <1>2, <1>3, <1>4, <1>5, <1>6, <1>7 DEF Next

(* No step loses an exhausted source; a fault needs an armed OVP, which a     *)
(* disabled port does not have.                                              *)
LEMMA ExhaustedStep ==
    TypeOK /\ Quiet /\ ExhaustedIsHandled /\ [Next]_vars => ExhaustedIsHandled'
<1> SUFFICES ASSUME TypeOK, Quiet, ExhaustedIsHandled, [Next]_vars
             PROVE  ExhaustedIsHandled'
  OBVIOUS
<1> USE RetryLimitAssumption DEF TypeOK, StackType, FaultType, ExhaustedIsHandled, Exceeded, GivenUp
<1>1. ASSUME PsnkSetVoltage \/ PsnkEnable \/ PsnkOff \/ DischargeTimeout \/ DischargeDone
      PROVE  ExhaustedIsHandled'
  BY <1>1 DEF PsnkSetVoltage, PsnkEnable, PsnkOff, DischargeTimeout, DischargeDone,
              stackVars, faultVars
<1>2. CASE OvpFault
  <2>1. count' \in Byte /\ count' \in Nat
    BY <1>2, ByteFacts DEF OvpFault
  <2>2. CASE count' <= RetryLimit
    BY <2>1, <2>2
  <2>3. CASE ~(count' <= RetryLimit)
    BY <1>2, <2>3 DEF OvpFault
  <2> QED BY <2>2, <2>3
<1>3. CASE FaultHandlerTask
  <2>1. CASE dpm
    BY <1>3, <2>1 DEF FaultHandlerTask
  <2>2. CASE ~dpm
    BY <1>3, <2>2 DEF FaultHandlerTask, Quiet
  <2> QED BY <2>1, <2>2
<1>4. CASE RecoveryTimer
  BY <1>4 DEF RecoveryTimer
<1>5. CASE Attach
  BY <1>5 DEF Attach
<1>6. ASSUME Contract \/ HardResetSent
      PROVE  ExhaustedIsHandled'
  BY <1>6 DEF Contract, HardResetSent, faultVars
<1>7. CASE ErrorRecovery
  BY <1>7 DEF ErrorRecovery
<1>8. ASSUME PortDisabled \/ Disconnect
      PROVE  ~Exceeded'
  <2>1. count' = 0
    BY <1>8 DEF PortDisabled, Disconnect
  <2> QED BY <2>1
<1>9. ASSUME SolnStart \/ VbusChange \/ UNCHANGED vars
      PROVE  ExhaustedIsHandled'
  BY <1>9 DEF SolnStart, VbusChange, vars, stackVars, faultVars
<1> QED BY <1>1, <1>2, <1>3, <1>4, <1>5, <1>6, <1>7, <1>8, <1>9 DEF Next

(* The timer stops only in the step that ends the recovery. *)
LEMMA RecoveryStep ==
    TypeOK /\ RecoveryIsRunning /\ [Next]_vars => RecoveryIsRunning'
<1> SUFFICES ASSUME TypeOK, RecoveryIsRunning, [Next]_vars
             PROVE  RecoveryIsRunning'
  OBVIOUS
<1> USE DEF TypeOK, StackType, FaultType, RecoveryIsRunning, Disabling
<1>1. ASSUME PsnkSetVoltage \/ PsnkEnable \/ PsnkOff \/ DischargeTimeout \/ DischargeDone
      PROVE  RecoveryIsRunning'
  BY <1>1 DEF PsnkSetVoltage, PsnkEnable, PsnkOff, DischargeTimeout, DischargeDone,
              stackVars, faultVars
<1>2. CASE OvpFault
  BY <1>2 DEF OvpFault, Retry
<1>3. CASE FaultHandlerTask
  BY <1>3 DEF FaultHandlerTask
<1>4. CASE RecoveryTimer
  BY <1>4 DEF RecoveryTimer
<1>5. ASSUME Attach \/ Contract \/ HardResetSent \/ ErrorRecovery
      PROVE  RecoveryIsRunning'
  BY <1>5 DEF Attach, Contract, HardResetSent, ErrorRecovery, faultVars
<1>6. ASSUME PortDisabled \/ Disconnect
      PROVE  RecoveryIsRunning'
  BY <1>6 DEF PortDisabled, Disconnect
<1>7. ASSUME SolnStart \/ VbusChange \/ UNCHANGED vars
      PROVE  RecoveryIsRunning'
  BY <1>7 DEF SolnStart, VbusChange, vars, stackVars, faultVars
<1> QED BY <1>1, <1>2, <1>3, <1>4, <1>5, <1>6, <1>7 DEF Next

(* Every place that starts a discharge starts its timer, and what stops the     *)
(* timer stops the discharge.                                                *)
LEMMA DischargeStep == DischargeIsTimed /\ [Next]_vars => DischargeIsTimed'
<1> SUFFICES ASSUME DischargeIsTimed, [Next]_vars PROVE DischargeIsTimed'
  OBVIOUS
<1> USE DEF DischargeIsTimed
<1>1. ASSUME PsnkSetVoltage \/ PsnkEnable \/ PsnkOff \/ DischargeTimeout \/ DischargeDone
      PROVE  DischargeIsTimed'
  BY <1>1 DEF PsnkSetVoltage, PsnkEnable, PsnkOff, PsnkDisable, DischargeTimeout, DischargeDone
<1>2. ASSUME OvpFault \/ FaultHandlerTask \/ RecoveryTimer \/ Attach \/ Contract \/ HardResetSent
      PROVE  DischargeIsTimed'
  BY <1>2 DEF OvpFault, FaultHandlerTask, RecoveryTimer, Attach, Contract, HardResetSent, sinkVars
<1>3. ASSUME ErrorRecovery \/ PortDisabled \/ Disconnect
      PROVE  DischargeIsTimed'
  BY <1>3 DEF ErrorRecovery, PortDisabled, Disconnect, Detached, PsnkDisable
<1>4. ASSUME SolnStart \/ VbusChange \/ UNCHANGED vars
      PROVE  DischargeIsTimed'
  BY <1>4 DEF SolnStart, VbusChange, vars, sinkVars
<1> QED BY <1>1, <1>2, <1>3, <1>4 DEF Next

LEMMA Inductive == Spec => []IInv
<1>1. Init => Quiet /\ ExhaustedIsHandled /\ RecoveryIsRunning /\ DischargeIsTimed
  BY RetryLimitAssumption
     DEF Init, Quiet, ExhaustedIsHandled, Exceeded, GivenUp, RecoveryIsRunning, Disabling, DischargeIsTimed
<1> QED BY <1>1, TypeCorrect, QuietStep, ExhaustedStep, RecoveryStep, DischargeStep, PTL
        DEF Spec, IInv

(* A source that has used up its retries is on its way to a disabled port,    *)
(* whatever events clear parts of the fault state in between.                *)
THEOREM ExhaustionSafety == Spec => []ExhaustedIsHandled
BY Inductive, PTL DEF IInv

(* A port that is disabled, or whose disabling has been noted, has the timer or *)
(* the command ahead of it that ends the recovery.                           *)
THEOREM RecoverySafety == Spec => []RecoveryIsRunning
BY Inductive, PTL DEF IInv

(* VBUS is discharged only while the timer that ends the discharge runs.      *)
THEOREM DischargeSafety == Spec => []DischargeIsTimed
BY Inductive, PTL DEF IInv

-----------------------------------------------------------------------------
(* The retries of one connection: FaultRecovery implements RetryPolicy. *)

(* The counter wraps, but only behind its limit. *)
LEMMA CountBelowLimit ==
    ASSUME IInv, ~GivenUp
    PROVE  /\ count \in Nat /\ count <= RetryLimit
           /\ RetryLimit # SkipValue => (count + 1) % CounterSize = count + 1
<1>1. count \in Nat
  BY ByteFacts DEF IInv, TypeOK, FaultType
<1>2. count <= RetryLimit
  BY <1>1, RetryLimitAssumption DEF IInv, ExhaustedIsHandled, Exceeded, GivenUp
<1>3. ASSUME RetryLimit # SkipValue
      PROVE  (count + 1) % CounterSize = count + 1
  <2>1. count + 1 \in 0 .. 255
    BY <1>1, <1>2, <1>3, RetryLimitAssumption DEF SkipValue
  <2>. QED
    BY <2>1 DEF CounterSize
<1>. QED
  BY <1>1, <1>2, <1>3

(* A fault takes a retry or condemns the port. *)
LEMMA FaultMapped ==
    ASSUME IInv, OvpFault
    PROVE  Policy!Fault \/ UNCHANGED Policy!vars
<1>. USE DEF Policy!Fault, Policy!vars
<1>0. attach /\ UNCHANGED <<attach, dpm>> /\ GivenUp \in BOOLEAN /\ GivenUp' \in BOOLEAN
  BY DEF OvpFault, IInv, Quiet, GivenUp
<1>1. CASE GivenUp
  <2>1. GivenUp'
    BY <1>1 DEF OvpFault, Retry, GivenUp
  <2>. QED
    BY <1>0, <1>1, <2>1
<1>2. CASE ~GivenUp
  <2>1. count \in Nat /\ count <= RetryLimit /\ RetryLimit \in Nat
    BY <1>2, CountBelowLimit, RetryLimitAssumption
  <2>2. CASE RetryLimit = SkipValue
    <3>1. count' = count
      BY <2>2 DEF OvpFault
    <3>2. ~GivenUp'
      BY <1>2, <2>1, <3>1 DEF OvpFault, Retry, GivenUp
    <3>. QED
      BY <1>0, <1>2, <3>1, <3>2
  <2>3. CASE RetryLimit # SkipValue /\ count < RetryLimit
    <3>1. count' = count + 1
      BY <1>2, <2>3, CountBelowLimit DEF OvpFault
    <3>2. ~GivenUp'
      BY <1>2, <2>1, <2>3, <3>1 DEF OvpFault, Retry, GivenUp
    <3>. QED
      BY <1>0, <1>2, <2>3, <3>1, <3>2
  <2>4. CASE RetryLimit # SkipValue /\ ~(count < RetryLimit)
    <3>1. count' = count + 1
      BY <1>2, <2>4, CountBelowLimit DEF OvpFault
    <3>2. GivenUp'
      BY <2>1, <2>4, <3>1 DEF OvpFault, GivenUp
    <3>. QED
      BY <1>0, <1>2, <2>4, <3>2
  <2>. QED
    BY <2>2, <2>3, <2>4
<1>. QED
  BY <1>1, <1>2

(* Each end of a connection, and the way out of the disabled port. *)
LEMMA StackMapped ==
    ASSUME IInv, \/ Attach \/ ErrorRecovery \/ PortDisabled \/ Disconnect
                 \/ FaultHandlerTask \/ RecoveryTimer \/ SolnStart
    PROVE  Policy!Next \/ UNCHANGED Policy!vars
<1>. USE DEF Policy!Next, Policy!vars
<1>0. /\ attach \in BOOLEAN /\ dpm \in BOOLEAN /\ GivenUp \in BOOLEAN
      /\ GivenUp' \in BOOLEAN
      /\ attach => dpm
      /\ ~dpm => count = 0
  BY DEF IInv, TypeOK, StackType, Quiet, GivenUp
<1>1. CASE Attach
  <2>1. GivenUp' = GivenUp
    BY <1>1 DEF Attach, GivenUp
  <2>. QED
    BY <1>0, <1>1, <2>1 DEF Attach, Policy!Begin
<1>2. CASE ErrorRecovery
  <2>1. GivenUp' = GivenUp
    BY <1>2 DEF ErrorRecovery, GivenUp
  <2>2. attach' = FALSE /\ UNCHANGED <<count, dpm>>
    BY <1>2 DEF ErrorRecovery, Detached
  <2>. QED
    BY <1>0, <2>1, <2>2 DEF Policy!End
<1>3. CASE Disconnect
  <2>1. GivenUp' = GivenUp
    BY <1>3 DEF Disconnect, GivenUp
  <2>2. attach /\ attach' = FALSE /\ count' = 0 /\ UNCHANGED dpm
    BY <1>3 DEF Disconnect, Detached
  <2>. QED
    BY <1>0, <2>1, <2>2 DEF Policy!End
<1>4. CASE PortDisabled
  <2>1. GivenUp /\ attach' = FALSE /\ count' = 0 /\ dpm' = FALSE
    BY <1>4 DEF PortDisabled, Detached, GivenUp
  <2>. QED
    BY <1>0, <2>1 DEF Policy!Disable
<1>5. CASE FaultHandlerTask
  <2>1. GivenUp /\ UNCHANGED <<attach, dpm, count>>
    BY <1>5 DEF FaultHandlerTask, GivenUp
  <2>2. CASE dpm
    BY <1>0, <1>5, <2>1, <2>2 DEF FaultHandlerTask, GivenUp
  <2>3. CASE ~dpm
    <3>1. ~GivenUp'
      BY <1>5, <2>3 DEF FaultHandlerTask, GivenUp
    <3>. QED
      BY <1>0, <2>1, <2>3, <3>1 DEF Policy!Acquit
  <2>. QED
    BY <2>2, <2>3
<1>6. CASE RecoveryTimer \/ SolnStart
  <2>1. UNCHANGED <<attach, count, GivenUp>> /\ dpm' \in {dpm, TRUE}
    BY <1>6 DEF RecoveryTimer, SolnStart, GivenUp, faultVars
  <2>. QED
    BY <1>0, <2>1 DEF Policy!Restart
<1>. QED
  BY <1>1, <1>2, <1>3, <1>4, <1>5, <1>6

(* Every behaviour of the recovery, for every retry limit, is one that RetryPolicy  *)
(* allows: the safety half of GivesUp.                                         *)
THEOREM PolicyRefinement == Spec => PolicySpec
<1>1. Init => Policy!Init
  BY DEF Init, Policy!Init, GivenUp
<1>2. IInv /\ [Next]_vars => [Policy!Next]_(Policy!vars)
  <2>. SUFFICES ASSUME IInv, [Next]_vars PROVE Policy!Next \/ UNCHANGED Policy!vars
    BY DEF Policy!vars
  <2>1. CASE OvpFault
    BY <2>1, FaultMapped DEF Policy!Next
  <2>2. CASE \/ Attach \/ ErrorRecovery \/ PortDisabled \/ Disconnect
             \/ FaultHandlerTask \/ RecoveryTimer \/ SolnStart
    BY <2>2, StackMapped
  <2>3. CASE \/ PsnkSetVoltage \/ PsnkEnable \/ PsnkOff \/ DischargeTimeout \/ DischargeDone
             \/ Contract \/ HardResetSent \/ VbusChange \/ UNCHANGED vars
    <3>1. UNCHANGED <<attach, count, status, typecCmd, dpm>>
      BY <2>3 DEF PsnkSetVoltage, PsnkEnable, PsnkOff, DischargeTimeout, DischargeDone,
                  Contract, HardResetSent, VbusChange, vars, stackVars, faultVars
    <3>. QED
      BY <3>1 DEF Policy!vars, GivenUp
  <2>. QED
    BY <2>1, <2>2, <2>3 DEF Next
<1>. QED
  BY <1>1, <1>2, Inductive, PTL DEF Spec, PolicySpec, Policy!Spec
=============================================================================
