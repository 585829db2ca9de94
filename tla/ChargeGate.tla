----------------------------- MODULE ChargeGate -----------------------------
(***************************************************************************)
(* What the charger promises about the power path, without saying how: the  *)
(* path is opened in two steps, only towards a battery and never over a      *)
(* latched fault; a fault closes it at once; an expired charge timeout is    *)
(* forgotten only when the battery is gone.                                 *)
(***************************************************************************)
VARIABLES
    out,      \* the power path: OFF, PREPARED (converter on), ON (switch closed)
    fault,    \* some fault is latched
    spent,    \* the charge timeout has expired for this battery
    present   \* a battery is known to be present

vars == <<out, fault, spent, present>>

TypeOK ==
    /\ out \in {"OFF", "PREPARED", "ON"}
    /\ fault \in BOOLEAN
    /\ spent \in BOOLEAN
    /\ present \in BOOLEAN

Init ==
    /\ out = "OFF"
    /\ ~fault /\ ~spent /\ ~present

(* The converter starts.  A fault that has just gone does not delay it. *)
Prepare ==
    /\ out = "OFF" /\ present /\ ~spent
    /\ out' = "PREPARED"
    /\ fault' = FALSE
    /\ UNCHANGED <<spent, present>>

SwitchOn ==
    /\ out = "PREPARED" /\ present /\ ~fault /\ ~spent
    /\ out' = "ON"
    /\ UNCHANGED <<fault, spent, present>>

(* Anything may switch off, and faults come and go while it is off. *)
Off ==
    /\ out' = "OFF"
    /\ fault' \in BOOLEAN
    /\ present' \in BOOLEAN
    /\ spent' \in BOOLEAN
    /\ spent /\ ~spent' => ~present'

Next == Prepare \/ SwitchOn \/ Off

Spec == Init /\ [][Next]_vars
=============================================================================
