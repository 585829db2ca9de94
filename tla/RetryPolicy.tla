----------------------------- MODULE RetryPolicy -----------------------------
(***************************************************************************)
(* What the fault recovery promises, without saying how: a connection whose *)
(* supply keeps failing is given a limited number of retries and is then     *)
(* condemned, a condemned connection stays so until it has ended, and only a *)
(* condemned port is disabled.                                              *)
(***************************************************************************)
EXTENDS Naturals

CONSTANTS
    Limit,     \* how many faults are answered with a retry
    Counted    \* FALSE: faults are not counted

VARIABLES
    live,      \* a partner is connected
    tries,     \* the retries that are used up
    condemned, \* the port is about to be disabled
    disabled

vars == <<live, tries, condemned, disabled>>

Init == ~live /\ tries = 0 /\ ~condemned /\ ~disabled

(* The same partner may come back; another one starts with all retries. *)
Begin ==
    /\ ~live /\ ~disabled
    /\ live' = TRUE
    /\ tries' \in {tries, 0}
    /\ UNCHANGED <<condemned, disabled>>

Fault ==
    /\ live /\ ~condemned /\ Counted
    /\ IF tries < Limit THEN tries' = tries + 1 /\ UNCHANGED condemned
       ELSE tries' = 0 /\ condemned' = TRUE
    /\ UNCHANGED <<live, disabled>>

End ==
    /\ live
    /\ live' = FALSE
    /\ tries' \in {tries, 0}
    /\ UNCHANGED <<condemned, disabled>>

(* A fault that was reported meanwhile condemns the port once more. *)
Disable ==
    /\ condemned
    /\ live' = FALSE /\ tries' = 0 /\ disabled' = TRUE
    /\ condemned' \in BOOLEAN

(* A port that is disabled already need not be disabled again. *)
Acquit ==
    /\ condemned /\ disabled /\ ~live
    /\ condemned' = FALSE
    /\ tries' = 0
    /\ UNCHANGED <<live, disabled>>

Restart ==
    /\ disabled
    /\ disabled' = FALSE
    /\ UNCHANGED <<live, tries, condemned>>

Next == Begin \/ Fault \/ End \/ Disable \/ Acquit \/ Restart

Spec == Init /\ [][Next]_vars
=============================================================================
