----------------------------- MODULE PdoSelect -----------------------------
(***************************************************************************)
(* The choice of a source capability (src/app/pdo.c).  The stack hands the    *)
(* capabilities of the source to eval_src_cap, which compares every one with  *)
(* every sink capability of the port and forms a request.  One step of the     *)
(* module is one round of its inner loop.                                    *)
(*                                                                         *)
(* Voltages are in 50 mV, currents in 10 mA, powers in 250 mW.               *)
(***************************************************************************)
EXTENDS Integers, Sequences

CONSTANTS
    SinkCaps,   \* curSnkPdo with curSnkMaxMin: a sequence of SinkPdo
    HighCap,    \* the first sink capability asks for more than 5 V
    Algorithm,  \* PD_PDO_SEL_ALGO
    Offers      \* the capabilities a source may send: sequences of SourcePdo

(* A fixed supply has min = max.  The cap of a battery is a power, that of    *)
(* the others a current; a sink states op and minMax the same way.            *)
Kinds == {"FIXED", "BATTERY", "VARIABLE"}
SourcePdo == [kind : Kinds \cup {"AUGMENTED"}, min : Nat, max : Nat, cap : Nat]
SinkPdo == [kind : Kinds, min : Nat \ {0}, max : Nat, op : Nat, minMax : Nat, giveBack : BOOLEAN]
Algorithms == {"MAX_POWER", "HIGHEST_POWER", "HIGHEST_VOLTAGE", "HIGHEST_CURRENT"}

ASSUME SinkCapsAssumption == SinkCaps \in Seq(SinkPdo) /\ Len(SinkCaps) > 0
ASSUME HighCapAssumption == HighCap \in BOOLEAN
ASSUME AlgorithmAssumption == Algorithm \in Algorithms
ASSUME OffersAssumption ==
    \A offer \in Offers : offer \in Seq(SourcePdo) /\ Len(offer) > 0

VSafe5V == 100               \* CY_PD_VSAFE_5V / CY_PD_VOLT_PER_UNIT

Larger(a, b) == IF a > b THEN a ELSE b
RoundedUp(a, b) == (a + b - 1) \div b
Power(volt, curr) == RoundedUp(volt * curr, 500)
Current(pwr, volt) == RoundedUp(pwr * 500, volt)

-----------------------------------------------------------------------------
(* is_src_acceptable_snk: a pair of capabilities. *)

(* A fixed supply may be off by 5 percent. *)
Margin(src) == IF src.kind = "FIXED" THEN RoundedUp(src.min, 20) ELSE 0
Lowest(src) == src.min - Margin(src)
Highest(src) == src.max + Margin(src)

(* Mutant: the tolerance of a fixed supply is not added to its voltage. *)
Fits_NoMargin(src, snk) ==
    IF snk.kind = "FIXED" THEN src.kind = "FIXED" /\ src.min = snk.min
    ELSE src.kind \in Kinds /\ src.min >= snk.min /\ src.max <= snk.max

(* A fixed sink takes that voltage from a fixed source only. *)
Fits(src, snk) ==
    IF snk.kind = "FIXED" THEN src.kind = "FIXED" /\ src.min = snk.min
    ELSE src.kind \in Kinds /\ Lowest(src) >= snk.min /\ Highest(src) <= snk.max

(* What the sink states, in the unit of the source: at the lowest voltage a    *)
(* power becomes a current, at the highest a current becomes a power.         *)
InUnitOf(src, snk, amount) ==
    CASE src.kind = "BATTERY" /\ snk.kind = "VARIABLE" -> Power(src.max, amount)
      [] src.kind # "BATTERY" /\ snk.kind = "BATTERY" -> Current(amount, Lowest(src))
      [] OTHER -> amount

Acceptable(src, snk) ==
    /\ Fits(src, snk)
    /\ src.cap >= Larger(InUnitOf(src, snk, snk.minMax), InUnitOf(src, snk, snk.op))

(* gl_op_cur_power: all that the source has (PMG1B1_SINK_PDO_REQ_MAX_ADV_CURR), *)
(* unless the sink counts in power.                                          *)
Operating(src, snk) ==
    IF snk.kind = "BATTERY" THEN InUnitOf(src, snk, snk.op) ELSE src.cap

(* gl_contract_voltage and gl_contract_power.                                 *)
ContractVoltage(src, snk) ==
    IF src.kind = "FIXED" /\ snk.kind = "BATTERY" THEN Lowest(src) ELSE src.max
ContractPower(src, snk) ==
    CASE src.kind = "BATTERY" -> Operating(src, snk)
      [] src.kind = "VARIABLE" /\ snk.kind = "BATTERY" -> snk.op
      [] src.kind = "VARIABLE" /\ snk.kind # "BATTERY" -> Power(src.min, src.cap)
      [] OTHER -> Power(ContractVoltage(src, snk), Operating(src, snk))

-----------------------------------------------------------------------------
(* eval_src_cap: by what the pairs are ranked, and the request. *)

TakesPart(src) == Algorithm = "MAX_POWER" \/ src.kind = "FIXED"

Score(src, snk) ==
    CASE Algorithm = "HIGHEST_POWER" -> Power(src.max, src.cap)
      [] Algorithm = "HIGHEST_VOLTAGE" -> ContractVoltage(src, snk)
      [] Algorithm = "HIGHEST_CURRENT" -> src.cap
      [] OTHER -> ContractPower(src, snk)

(* form_rdo: without give-back the second amount is a maximum.                 *)
Rdo(position, mismatch, giveBack, op, minMax) ==
    [position |-> position, mismatch |-> mismatch, giveBack |-> giveBack /\ ~mismatch, op |-> op,
     minMax |-> IF giveBack /\ ~mismatch THEN minMax ELSE Larger(op, minMax)]
NoRdo == [position |-> 0, mismatch |-> FALSE, giveBack |-> FALSE, op |-> 0, minMax |-> 0]

MatchRdo(position, src, snk) ==
    Rdo(position, FALSE, snk.giveBack, Operating(src, snk), InUnitOf(src, snk, snk.minMax))

(* Mutant: a source of less than the sink needs is asked for more than it has. *)
MismatchRdo_NoBound(first) ==
    Rdo(1, TRUE, FALSE, SinkCaps[1].op, SinkCaps[1].minMax)

(* Nothing fits: 5 V are requested, and no more current than the source has.   *)
MismatchRdo(first) ==
    Rdo(1, TRUE, FALSE, IF first.cap < SinkCaps[1].op THEN first.cap ELSE SinkCaps[1].op,
        SinkCaps[1].minMax)

-----------------------------------------------------------------------------
VARIABLES
    offer,      \* the capabilities under evaluation, or << >>
    snkIndex,   \* snk_pdo_index, from 1
    srcIndex,   \* src_pdo_index, from 1
    highest,    \* highest_gl_contract_power
    match,
    rdo         \* snkRdo, and after the evaluation the request that was sent

pdoVars == <<offer, snkIndex, srcIndex, highest, match, rdo>>

Amounts == [position : Nat, mismatch : BOOLEAN, giveBack : BOOLEAN, op : Nat, minMax : Nat]

PdoTypeOK ==
    /\ offer \in Offers \cup {<< >>}
    /\ snkIndex \in 1..(Len(SinkCaps) + 1)
    /\ srcIndex \in Nat \ {0}
    /\ offer # << >> => srcIndex <= Len(offer)
    /\ highest \in Nat
    /\ match \in BOOLEAN
    /\ rdo \in Amounts

PdoInit ==
    /\ offer = << >> /\ snkIndex = 1 /\ srcIndex = 1
    /\ highest = 0 /\ match = FALSE /\ rdo = NoRdo

(* Mutant: the best of the last evaluation remains. *)
StartEvaluation_KeepsBest(caps) ==
    /\ offer = << >>
    /\ offer' = caps
    /\ snkIndex' = 1 /\ srcIndex' = 1
    /\ match' = FALSE /\ rdo' = NoRdo
    /\ UNCHANGED highest

StartEvaluation(caps) ==
    /\ offer = << >>
    /\ offer' = caps
    /\ snkIndex' = 1 /\ srcIndex' = 1
    /\ highest' = 0 /\ match' = FALSE /\ rdo' = NoRdo

(* Mutant: the first of the best is kept, but the comparison is the wrong way. *)
Beats_Reversed(src, snk) == Acceptable(src, snk) /\ TakesPart(src) /\ Score(src, snk) <= highest

(* A later pair wins a draw. *)
Beats(src, snk) == Acceptable(src, snk) /\ TakesPart(src) /\ Score(src, snk) >= highest

(* Mutant: the inner loop does not begin again for the next sink capability. *)
Compare_NoRestart ==
    /\ offer # << >> /\ snkIndex <= Len(SinkCaps)
    /\ srcIndex' = srcIndex + 1
    /\ IF srcIndex < Len(offer) THEN UNCHANGED snkIndex ELSE snkIndex' = snkIndex + 1
    /\ UNCHANGED <<offer, highest, match, rdo>>

(* A 5 V contract is refused to a sink that needs more, after the score of the  *)
(* pair has been noted.                                                      *)
Compare ==
    /\ offer # << >> /\ snkIndex <= Len(SinkCaps)
    /\ LET src == offer[srcIndex]
           snk == SinkCaps[snkIndex]
       IN  /\ highest' = IF Beats(src, snk) THEN Score(src, snk) ELSE highest
           /\ IF Beats(src, snk) /\ ~(HighCap /\ ContractVoltage(src, snk) = VSafe5V)
              THEN match' = TRUE /\ rdo' = MatchRdo(srcIndex, src, snk)
              ELSE UNCHANGED <<match, rdo>>
    /\ IF srcIndex < Len(offer)
       THEN srcIndex' = srcIndex + 1 /\ UNCHANGED snkIndex
       ELSE srcIndex' = 1 /\ snkIndex' = snkIndex + 1
    /\ UNCHANGED offer

Evaluated == offer # << >> /\ snkIndex > Len(SinkCaps)
Request == IF match THEN rdo ELSE MismatchRdo(offer[1])

(* What the stack is handed must be a request that the source can satisfy, and  *)
(* that covers what the sink must have: a pair that fits in voltage, with no    *)
(* more than the source offers and no less than the sink states.             *)
Covers(request, src, snk) ==
    /\ IF snk.kind = "FIXED" THEN src.kind = "FIXED" /\ src.min = snk.min
       ELSE Lowest(src) >= snk.min /\ Highest(src) <= snk.max
    /\ request.op <= src.cap
    /\ request.op >= InUnitOf(src, snk, snk.op)
    /\ ~request.giveBack => request.minMax >= request.op /\ request.minMax <= src.cap
    /\ request.minMax >= InUnitOf(src, snk, snk.minMax)

(* Pairs that the algorithm would take. *)
Candidates ==
    {c \in (1..Len(offer)) \X (1..Len(SinkCaps)) :
        Acceptable(offer[c[1]], SinkCaps[c[2]]) /\ TakesPart(offer[c[1]])}

(* The request is one the source can satisfy and the port can live with:        *)
(* pdo.h, "selects the source PDO that can deliver the maximum power".         *)
RequestIsSound ==
    Evaluated =>
        IF match
        THEN /\ rdo.position \in 1..Len(offer) /\ ~rdo.mismatch
             /\ \E j \in 1..Len(SinkCaps) : Covers(rdo, offer[rdo.position], SinkCaps[j])
        ELSE Request.op <= offer[1].cap /\ Request.op <= SinkCaps[1].op

(* No other pair is better, and without a pair that would do the mismatch is     *)
(* told; a sink that needs more than 5 V may miss pairs (README).              *)
RequestIsBest ==
    Evaluated /\ ~HighCap =>
        /\ match <=> Candidates # {}
        /\ match => \E j \in 1..Len(SinkCaps) :
              /\ <<rdo.position, j>> \in Candidates
              /\ \A c \in Candidates :
                    Score(offer[rdo.position], SinkCaps[j]) >= Score(offer[c[1]], SinkCaps[c[2]])
=============================================================================
