---------------------------- MODULE MCPortPolicy ----------------------------
(* Instances of the port policy for TLC. *)
EXTENDS PortPolicy

Supply(kind, min, max, cap) == [kind |-> kind, min |-> min, max |-> max, cap |-> cap]
Need(kind, min, max, op, minMax, giveBack) ==
    [kind |-> kind, min |-> min, max |-> max, op |-> op, minMax |-> minMax, giveBack |-> giveBack]

(* The build: 5 V and 0.9 A fixed, 5 to 21 V and 0.9 A variable; and a battery     *)
(* of 15 W with give-back, which the configurator offers too.                *)
BoardCaps ==
    <<Need("FIXED", 100, 100, 90, 90, FALSE), Need("VARIABLE", 100, 420, 90, 90, FALSE),
      Need("BATTERY", 100, 420, 60, 40, TRUE)>>

FirstSupplies == {Supply("FIXED", 100, 100, c) : c \in {50, 300}}
OtherSupplies ==
    {Supply("FIXED", 180, 180, 300), Supply("FIXED", 400, 400, 135), Supply("FIXED", 420, 420, 500),
     Supply("VARIABLE", 160, 400, 100), Supply("VARIABLE", 60, 400, 300),
     Supply("BATTERY", 180, 400, 200), Supply("BATTERY", 120, 300, 50),
     Supply("AUGMENTED", 66, 220, 300)}
Capabilities ==
    {<<f>> : f \in FirstSupplies} \cup {<<f, s>> : f \in FirstSupplies, s \in OtherSupplies}
        \cup {<<f, s, t>> : f \in FirstSupplies, s \in OtherSupplies, t \in OtherSupplies}
=============================================================================
