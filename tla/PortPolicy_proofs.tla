------------------------- MODULE PortPolicy_proofs -------------------------
(***************************************************************************)
(* Proofs about the port policy for every set of sink capabilities, every    *)
(* offer of a source and every algorithm.                                    *)
(***************************************************************************)
EXTENDS PortPolicy, SequenceTheorems, TLAPS

-----------------------------------------------------------------------------
(* Arithmetic: amounts stay naturals.  A current is only computed for a pair   *)
(* that fits, so the voltage it is divided by is not zero.                    *)

LEMMA RoundedUpType ==
    ASSUME NEW a \in Nat, NEW b \in Nat \ {0}
    PROVE  RoundedUp(a, b) \in Nat
<1>1. a + b - 1 \in Nat
  OBVIOUS
<1>. QED
  BY <1>1 DEF RoundedUp

LEMMA ProductType == ASSUME NEW a \in Nat, NEW b \in Nat PROVE a * b \in Nat
OBVIOUS

LEMMA PowerType == ASSUME NEW v \in Nat, NEW c \in Nat PROVE Power(v, c) \in Nat
BY ProductType, RoundedUpType DEF Power

LEMMA SinkType ==
    ASSUME NEW j \in 1..Len(SinkCaps)
    PROVE  SinkCaps[j] \in SinkPdo
BY SinkCapsAssumption

LEMMA MarginType ==
    ASSUME NEW src \in SourcePdo
    PROVE  Margin(src) \in Nat /\ Lowest(src) \in Int /\ Highest(src) \in Nat
BY RoundedUpType DEF SourcePdo, Margin, Lowest, Highest

LEMMA InUnitOfType ==
    ASSUME NEW src \in SourcePdo, NEW snk \in SinkPdo, Fits(src, snk), NEW amount \in Nat
    PROVE  InUnitOf(src, snk, amount) \in Nat
<1>1. CASE src.kind = "BATTERY" /\ snk.kind = "VARIABLE"
  BY <1>1, PowerType DEF InUnitOf, SourcePdo
<1>2. CASE src.kind # "BATTERY" /\ snk.kind = "BATTERY"
  <2>1. Lowest(src) \in Nat \ {0}
    BY <1>2, MarginType DEF Fits, SinkPdo
  <2>2. Current(amount, Lowest(src)) \in Nat
    BY <2>1, ProductType, RoundedUpType DEF Current
  <2>. QED
    BY <1>2, <2>2 DEF InUnitOf
<1>3. CASE ~(src.kind = "BATTERY" /\ snk.kind = "VARIABLE")
           /\ ~(src.kind # "BATTERY" /\ snk.kind = "BATTERY")
  BY <1>3 DEF InUnitOf
<1>. QED
  BY <1>1, <1>2, <1>3

LEMMA AcceptableType ==
    ASSUME NEW src \in SourcePdo, NEW snk \in SinkPdo, Acceptable(src, snk)
    PROVE  /\ InUnitOf(src, snk, snk.op) \in Nat
           /\ InUnitOf(src, snk, snk.minMax) \in Nat
           /\ Operating(src, snk) \in Nat
BY InUnitOfType DEF Acceptable, SourcePdo, SinkPdo, Operating

LEMMA ScoreType ==
    ASSUME NEW src \in SourcePdo, NEW snk \in SinkPdo, Acceptable(src, snk)
    PROVE  Score(src, snk) \in Nat
<1>1. Operating(src, snk) \in Nat
  BY AcceptableType
<1>2. ContractVoltage(src, snk) \in Nat
  BY MarginType DEF Acceptable, Fits, ContractVoltage, SourcePdo, SinkPdo, Kinds
<1>3. ContractPower(src, snk) \in Nat
  BY <1>1, <1>2, PowerType DEF ContractPower, SourcePdo, SinkPdo
<1>. QED
  BY <1>2, <1>3, PowerType DEF Score, SourcePdo

(* What an acceptable pair is asked for covers the sink and does not exceed the *)
(* source.                                                                  *)
LEMMA MatchCovers ==
    ASSUME NEW src \in SourcePdo, NEW snk \in SinkPdo, NEW i \in Nat, Acceptable(src, snk)
    PROVE  /\ MatchRdo(i, src, snk) \in Amounts
           /\ MatchRdo(i, src, snk).position = i /\ ~MatchRdo(i, src, snk).mismatch
           /\ Covers(MatchRdo(i, src, snk), src, snk)
<1>. DEFINE op == Operating(src, snk)
            least == InUnitOf(src, snk, snk.op)
            other == InUnitOf(src, snk, snk.minMax)
<1>1. op \in Nat /\ least \in Nat /\ other \in Nat /\ src.cap \in Nat
  BY AcceptableType DEF SourcePdo
<1>2. least <= src.cap /\ other <= src.cap
  BY <1>1 DEF Acceptable, Larger
<1>3. op <= src.cap /\ least <= op
  BY <1>1, <1>2 DEF Operating
<1>4. MatchRdo(i, src, snk) =
        [position |-> i, mismatch |-> FALSE, giveBack |-> snk.giveBack, op |-> op,
         minMax |-> IF snk.giveBack THEN other ELSE Larger(op, other)]
  BY DEF MatchRdo, Rdo, SinkPdo
<1>. HIDE DEF op, least, other
<1>5. Larger(op, other) \in Nat /\ op <= Larger(op, other) /\ other <= Larger(op, other)
      /\ Larger(op, other) <= src.cap
  BY <1>1, <1>2, <1>3 DEF Larger
<1>6. MatchRdo(i, src, snk) \in Amounts
  BY <1>1, <1>4, <1>5 DEF Amounts, SinkPdo
<1>7. Covers(MatchRdo(i, src, snk), src, snk)
  <2>1. /\ MatchRdo(i, src, snk).op <= src.cap
        /\ MatchRdo(i, src, snk).op >= least
        /\ MatchRdo(i, src, snk).minMax >= other
        /\ ~MatchRdo(i, src, snk).giveBack =>
              /\ MatchRdo(i, src, snk).minMax >= MatchRdo(i, src, snk).op
              /\ MatchRdo(i, src, snk).minMax <= src.cap
    BY <1>1, <1>2, <1>3, <1>4, <1>5
  <2>2. IF snk.kind = "FIXED" THEN src.kind = "FIXED" /\ src.min = snk.min
        ELSE Lowest(src) >= snk.min /\ Highest(src) <= snk.max
    BY DEF Acceptable, Fits
  <2>. QED
    BY <2>1, <2>2 DEF Covers, least, other
<1>. QED
  BY <1>4, <1>6, <1>7

-----------------------------------------------------------------------------
(* Type correctness. *)

OfferType == offer = << >> \/ (offer \in Seq(SourcePdo) /\ Len(offer) > 0)

LEMMA OfferHasType == PdoTypeOK => OfferType
BY OffersAssumption DEF PdoTypeOK, OfferType

(* Every round of the evaluation compares two capabilities. *)
LEMMA RoundType ==
    ASSUME PdoTypeOK, Compare
    PROVE  /\ srcIndex \in 1..Len(offer) /\ offer[srcIndex] \in SourcePdo
           /\ snkIndex \in 1..Len(SinkCaps) /\ SinkCaps[snkIndex] \in SinkPdo
           /\ Len(offer) \in Nat
<1>1. offer \in Seq(SourcePdo)
  BY OfferHasType DEF Compare, OfferType
<1>2. srcIndex \in 1..Len(offer) /\ Len(offer) \in Nat
  BY <1>1 DEF Compare, PdoTypeOK
<1>3. snkIndex \in 1..Len(SinkCaps)
  BY SinkCapsAssumption DEF Compare, PdoTypeOK
<1>. QED
  BY <1>1, <1>2, <1>3, SinkType

LEMMA CompareType == PdoTypeOK /\ Compare => PdoTypeOK'
<1>. SUFFICES ASSUME PdoTypeOK, Compare PROVE PdoTypeOK'
  OBVIOUS
<1>. DEFINE src == offer[srcIndex]
            snk == SinkCaps[snkIndex]
<1>1. src \in SourcePdo /\ snk \in SinkPdo /\ srcIndex \in Nat
  BY RoundType
<1>2. highest' \in Nat /\ match' \in BOOLEAN /\ rdo' \in Amounts
  <2>1. CASE Beats(src, snk)
    <3>1. Score(src, snk) \in Nat /\ MatchRdo(srcIndex, src, snk) \in Amounts
      BY <1>1, <2>1, ScoreType, MatchCovers DEF Beats
    <3>. QED
      BY <2>1, <3>1 DEF Compare, PdoTypeOK
  <2>2. CASE ~Beats(src, snk)
    BY <2>2 DEF Compare, PdoTypeOK
  <2>. QED
    BY <2>1, <2>2
<1>3. snkIndex' \in 1..(Len(SinkCaps) + 1) /\ srcIndex' \in 1..Len(offer)
  <2>1. /\ srcIndex \in 1..Len(offer) /\ snkIndex \in 1..Len(SinkCaps)
        /\ Len(offer) \in Nat /\ Len(SinkCaps) \in Nat
    BY RoundType, SinkCapsAssumption
  <2>2. IF srcIndex < Len(offer)
        THEN srcIndex' = srcIndex + 1 /\ snkIndex' = snkIndex
        ELSE srcIndex' = 1 /\ snkIndex' = snkIndex + 1
    BY DEF Compare
  <2>. QED
    BY <2>1, <2>2
<1>. QED
  BY <1>2, <1>3, RoundType DEF Compare, PdoTypeOK

LEMMA PolicyFrame ==
    ASSUME PolicyTypeOK, UNCHANGED <<linkVars, vdmVars>>
    PROVE  PolicyTypeOK'
BY DEF PolicyTypeOK, linkVars, vdmVars

LEMMA PdoFrame == PdoTypeOK /\ UNCHANGED pdoVars => PdoTypeOK'
BY DEF PdoTypeOK, pdoVars

LEMMA VdmType ==
    ASSUME PolicyTypeOK, NEW vdm \in Vdms, Vdm(vdm)
    PROVE  PolicyTypeOK'
<1>1. \A a \in 0..1, b \in 0..1 : Lower(a, b) \in 0..1
  BY DEF Lower
<1>. QED
  BY <1>1 DEF PolicyTypeOK, Vdm, Negotiated, Vdms, linkVars

LEMMA TypeInductive == TypeOK /\ [Next]_vars => TypeOK'
<1>. SUFFICES ASSUME TypeOK, [Next]_vars PROVE TypeOK'
  OBVIOUS
<1>. USE DEF TypeOK
<1>1. CASE UNCHANGED vars
  BY <1>1, PdoFrame, PolicyFrame DEF vars
<1>2. ASSUME NEW r \in Revisions, Connect(r) \/ HardReset(r) PROVE TypeOK'
  BY <1>2, PdoFrame DEF Connect, HardReset, PolicyTypeOK, vdmVars
<1>3. CASE ContractComplete
  BY <1>3, PdoFrame DEF ContractComplete, PolicyTypeOK, Revisions
<1>4. CASE Disconnect
  BY <1>4, PdoFrame DEF Disconnect, PolicyTypeOK, vdmVars
<1>5. ASSUME NEW caps \in Offers, SourceCaps(caps) PROVE TypeOK'
  <2>1. Len(caps) \in Nat /\ Len(caps) > 0
    BY <1>5, OffersAssumption
  <2>2. NoRdo \in Amounts
    BY DEF NoRdo, Amounts
  <2>3. 1 \in 1..(Len(SinkCaps) + 1)
    BY SinkCapsAssumption
  <2>4. offer' = caps /\ snkIndex' = 1 /\ srcIndex' = 1
        /\ highest' = 0 /\ match' = FALSE /\ rdo' = NoRdo
    BY <1>5 DEF SourceCaps, StartEvaluation
  <2>5. PdoTypeOK'
    <3>1. Len(offer') >= 1
      BY <2>1, <2>4
    <3>2. offer' \in Offers
      BY <2>4
    <3>3. srcIndex' \in Nat \ {0} /\ srcIndex' <= Len(offer') /\ highest' \in Nat
      BY <2>1, <2>4
    <3>4. match' \in BOOLEAN
      BY <2>4
    <3>. QED
      BY <2>2, <2>3, <2>4, <3>2, <3>3, <3>4 DEF PdoTypeOK
  <2>. QED
    BY <1>5, <2>5, PolicyFrame DEF SourceCaps
<1>6. CASE CompareCaps
  BY <1>6, CompareType, PolicyFrame DEF CompareCaps
<1>7. CASE SendRequest
  <2>1. 1 \in 1..(Len(SinkCaps) + 1)
    BY SinkCapsAssumption
  <2>. QED
    BY <1>7, <2>1, PolicyFrame DEF SendRequest, PdoTypeOK
<1>8. ASSUME NEW role, Swap(role) PROVE TypeOK'
  BY <1>8, PdoFrame, PolicyFrame DEF Swap
<1>9. ASSUME NEW vdm \in Vdms, Vdm(vdm) PROVE TypeOK'
  BY <1>9, PdoFrame, VdmType DEF Vdm
<1>10. ASSUME NEW message, ExtendedMessage(message) PROVE TypeOK'
  BY <1>10, PdoFrame, PolicyFrame DEF ExtendedMessage
<1>. QED
  BY <1>1, <1>2, <1>3, <1>4, <1>5, <1>6, <1>7, <1>8, <1>9, <1>10
     DEF Next, LinkEvent, Evaluation, Message

(* The evaluation never leaves the two lists it compares, and the request it    *)
(* builds is one, whatever the source offers.                                 *)
THEOREM TypeCorrect == Spec => []TypeOK
<1>1. Init => TypeOK
  <2>1. Init => PdoTypeOK
    <3>1. NoRdo \in Amounts
      BY DEF NoRdo, Amounts
    <3>2. 1 \in 1..(Len(SinkCaps) + 1)
      BY SinkCapsAssumption
    <3>3. 1 \in Nat \ {0} /\ 0 \in Nat
      OBVIOUS
    <3>4. FALSE \in BOOLEAN
      OBVIOUS
    <3>. QED
      BY <3>1, <3>2, <3>3, <3>4, Zenon DEF Init, PdoInit, PdoTypeOK
  <2>2. Init => PolicyTypeOK
    <3>1. [version |-> 0, minor |-> 0] \in [version : 0..1, minor : 0..1]
      OBVIOUS
    <3>. QED
      BY <3>1 DEF Init, PolicyTypeOK, Revisions
  <2>. QED
    BY <2>1, <2>2 DEF TypeOK
<1>. QED
  BY <1>1, TypeInductive, PTL DEF Spec

-----------------------------------------------------------------------------
(* The choice of a capability. *)

Sources == 1..Len(offer)
Sinks == 1..Len(SinkCaps)
Candidate(i, j) == Acceptable(offer[i], SinkCaps[j]) /\ TakesPart(offer[i])
Visited(i, j) == j < snkIndex \/ (j = snkIndex /\ i < srcIndex)

(* The pair the request is made of; without the 5 V exception it has the score   *)
(* that is to be beaten.                                                      *)
Chosen(i, j) ==
    /\ Candidate(i, j)
    /\ rdo = MatchRdo(i, offer[i], SinkCaps[j])
    /\ ~HighCap => Score(offer[i], SinkCaps[j]) = highest

(* The inductive invariant of the two loops. *)
EvalInv ==
    offer # << >> =>
        /\ match => \E i \in Sources, j \in Sinks : Chosen(i, j)
        /\ ~HighCap /\ ~match => highest = 0
        /\ ~HighCap =>
              \A i \in Sources, j \in Sinks :
                  Visited(i, j) /\ Candidate(i, j) =>
                      match /\ Score(offer[i], SinkCaps[j]) <= highest

LEMMA VisitStep ==
    ASSUME PdoTypeOK, Compare, NEW i \in Sources, NEW j \in Sinks, Visited(i, j)'
    PROVE  Visited(i, j) \/ (i = srcIndex /\ j = snkIndex)
<1>1. /\ srcIndex \in 1..Len(offer) /\ snkIndex \in 1..Len(SinkCaps)
      /\ Len(offer) \in Nat /\ Len(SinkCaps) \in Nat
  BY RoundType, SinkCapsAssumption
<1>2. IF srcIndex < Len(offer)
      THEN srcIndex' = srcIndex + 1 /\ snkIndex' = snkIndex
      ELSE srcIndex' = 1 /\ snkIndex' = snkIndex + 1
  BY DEF Compare
<1>. QED
  BY <1>1, <1>2 DEF Visited, Sources, Sinks

LEMMA ScoresType ==
    ASSUME PdoTypeOK, offer # << >>, NEW i \in Sources, NEW j \in Sinks, Candidate(i, j)
    PROVE  Score(offer[i], SinkCaps[j]) \in Nat
<1>1. offer[i] \in SourcePdo
  BY OfferHasType DEF OfferType, Sources
<1>. QED
  BY <1>1, ScoreType, SinkType DEF Candidate, Sinks

LEMMA CompareKeeps == PdoTypeOK /\ EvalInv /\ Compare => EvalInv'
<1>. SUFFICES ASSUME PdoTypeOK, EvalInv, Compare PROVE EvalInv'
  OBVIOUS
<1>. DEFINE src == offer[srcIndex]
            snk == SinkCaps[snkIndex]
<1>1. offer # << >> /\ offer' = offer /\ Sources' = Sources
  BY DEF Compare, Sources
<1>2. srcIndex \in Sources /\ snkIndex \in Sinks
  BY RoundType DEF Sources, Sinks
<1>3. highest \in Nat
  BY DEF PdoTypeOK
<1>4. \A i, j : Candidate(i, j)' = Candidate(i, j)
  BY <1>1 DEF Candidate
<1>5. /\ highest' = IF Beats(src, snk) THEN Score(src, snk) ELSE highest
      /\ IF Beats(src, snk) /\ ~(HighCap /\ ContractVoltage(src, snk) = VSafe5V)
         THEN match' = TRUE /\ rdo' = MatchRdo(srcIndex, src, snk)
         ELSE UNCHANGED <<match, rdo>>
  BY DEF Compare
<1>6. CASE Beats(src, snk) /\ ~(HighCap /\ ContractVoltage(src, snk) = VSafe5V)
  <2>1. highest' = Score(src, snk) /\ match' /\ rdo' = MatchRdo(srcIndex, src, snk)
    BY <1>5, <1>6
  <2>2. Candidate(srcIndex, snkIndex) /\ Score(src, snk) >= highest
    BY <1>6 DEF Beats, Candidate
  <2>3. \E i \in Sources, j \in Sinks : Chosen(i, j)'
    <3>1. PICK i \in Sources, j \in Sinks : i = srcIndex /\ j = snkIndex
      BY <1>2
    <3>2. Candidate(i, j)'
      BY <1>4, <2>2, <3>1
    <3>3. rdo' = MatchRdo(i, offer'[i], SinkCaps[j])
          /\ Score(offer'[i], SinkCaps[j]) = highest'
      BY <1>1, <2>1, <3>1
    <3>4. Chosen(i, j)'
      BY <3>2, <3>3 DEF Chosen
    <3>. QED
      BY <3>4
  <2>4. ASSUME ~HighCap, NEW i \in Sources, NEW j \in Sinks, Visited(i, j)', Candidate(i, j)
        PROVE  Score(offer[i], SinkCaps[j]) <= highest'
    <3>1. CASE Visited(i, j)
      <4>1. Score(offer[i], SinkCaps[j]) <= highest
        BY <1>1, <2>4, <3>1 DEF EvalInv
      <4>2. Score(offer[i], SinkCaps[j]) \in Nat /\ Score(src, snk) \in Nat
        BY <1>1, <1>2, <2>2, <2>4, ScoresType
      <4>. QED
        BY <1>3, <2>1, <2>2, <4>1, <4>2
    <3>2. CASE i = srcIndex /\ j = snkIndex
      <4>1. Score(src, snk) \in Nat
        BY <1>1, <1>2, <2>2, ScoresType
      <4>. QED
        BY <2>1, <3>2, <4>1
    <3>. QED
      BY <2>4, <3>1, <3>2, VisitStep
  <2>. QED
    <3>1. \A i \in Sources, j \in Sinks : Visited(i, j)' /\ Candidate(i, j)' /\ ~HighCap =>
              Score(offer'[i], SinkCaps[j]) <= highest'
      BY <1>1, <1>4, <2>4
    <3>. QED
      BY <1>1, <2>1, <2>3, <3>1, Zenon DEF EvalInv, Sinks
<1>7. CASE ~(Beats(src, snk) /\ ~(HighCap /\ ContractVoltage(src, snk) = VSafe5V))
  <2>1. match' = match /\ rdo' = rdo
    BY <1>5, <1>7
  <2>2. ~HighCap => highest' = highest /\ ~Beats(src, snk)
    BY <1>5, <1>7
  <2>3. ASSUME NEW i \in Sources, NEW j \in Sinks, Chosen(i, j)
        PROVE  Chosen(i, j)'
    BY <1>1, <1>4, <2>1, <2>2, <2>3 DEF Chosen
  <2>4. ASSUME ~HighCap, NEW i \in Sources, NEW j \in Sinks, Visited(i, j)', Candidate(i, j)
        PROVE  match /\ Score(offer[i], SinkCaps[j]) <= highest
    <3>1. CASE Visited(i, j)
      BY <1>1, <2>4, <3>1 DEF EvalInv
    <3>2. CASE i = srcIndex /\ j = snkIndex
      <4>1. Score(src, snk) \in Nat /\ ~(Score(src, snk) >= highest)
        BY <1>1, <1>2, <2>2, <2>4, <3>2, ScoresType DEF Beats, Candidate
      <4>2. Score(src, snk) < highest
        BY <1>3, <4>1
      <4>3. match
        BY <1>1, <1>3, <2>4, <4>1, <4>2 DEF EvalInv
      <4>. QED
        BY <1>3, <3>2, <4>1, <4>2, <4>3
    <3>. QED
      BY <2>4, <3>1, <3>2, VisitStep
  <2>. QED
    BY <1>1, <1>4, <2>1, <2>2, <2>3, <2>4 DEF EvalInv, Sinks
<1>. QED
  BY <1>6, <1>7

(* Steps that the evaluation does not see. *)
LEMMA PolicySteps ==
    ASSUME Next
    PROVE  \/ UNCHANGED pdoVars
           \/ \E caps \in Offers : SourceCaps(caps)
           \/ CompareCaps \/ SendRequest
BY DEF Next, LinkEvent, Evaluation, Message, Connect, HardReset, ContractComplete, Disconnect,
       Swap, Vdm, ExtendedMessage

LEMMA EvalInductive == TypeOK /\ EvalInv /\ [Next]_vars => EvalInv'
<1>. SUFFICES ASSUME TypeOK, EvalInv, [Next]_vars PROVE EvalInv'
  OBVIOUS
<1>1. CASE UNCHANGED pdoVars
  BY <1>1 DEF pdoVars, EvalInv, Chosen, Candidate, Visited, Sources
<1>2. ASSUME NEW caps \in Offers, SourceCaps(caps) PROVE EvalInv'
  <2>1. match' = FALSE /\ highest' = 0 /\ srcIndex' = 1 /\ snkIndex' = 1
    BY <1>2 DEF SourceCaps, StartEvaluation
  <2>2. \A i \in Sources', j \in Sinks : ~Visited(i, j)'
    BY <2>1 DEF Visited, Sources, Sinks
  <2>. QED
    BY <2>1, <2>2 DEF EvalInv, Sinks
<1>3. CASE CompareCaps
  BY <1>3, CompareKeeps DEF CompareCaps, TypeOK
<1>4. CASE SendRequest
  BY <1>4 DEF SendRequest, EvalInv
<1>. QED
  BY <1>1, <1>2, <1>3, <1>4, PolicySteps DEF vars

LEMMA EvalInvariant == Spec => [](TypeOK /\ EvalInv)
<1>1. Init => EvalInv
  BY DEF Init, PdoInit, EvalInv
<1>. QED
  BY <1>1, EvalInductive, TypeCorrect, PTL DEF Spec

(* Whatever a source offers, the request is one that it can satisfy and that      *)
(* covers what the sink must have, or it tells the mismatch and asks for no       *)
(* more than the source has.                                                 *)
THEOREM SelectionIsSound == Spec => []RequestIsSound
<1>1. TypeOK /\ EvalInv => RequestIsSound
  <2>. SUFFICES ASSUME TypeOK, EvalInv, Evaluated PROVE RequestIsSound
    BY DEF RequestIsSound
  <2>1. offer \in Seq(SourcePdo) /\ Len(offer) > 0 /\ Len(offer) \in Nat
    BY OfferHasType DEF OfferType, TypeOK, Evaluated
  <2>2. CASE match
    <3>1. PICK i \in Sources, j \in Sinks : Chosen(i, j)
      BY <2>2 DEF EvalInv, Evaluated
    <3>2. /\ i \in Nat /\ offer[i] \in SourcePdo /\ SinkCaps[j] \in SinkPdo
          /\ Acceptable(offer[i], SinkCaps[j])
      BY <2>1, <3>1, SinkType DEF Sources, Sinks, Chosen, Candidate
    <3>3. rdo = MatchRdo(i, offer[i], SinkCaps[j])
      BY <3>1 DEF Chosen
    <3>4. rdo.position = i /\ ~rdo.mismatch /\ Covers(rdo, offer[i], SinkCaps[j])
      BY <3>2, <3>3, MatchCovers
    <3>. QED
      BY <2>2, <3>4 DEF RequestIsSound, Sources, Sinks
  <2>3. CASE ~match
    <3>1. offer[1] \in SourcePdo /\ SinkCaps[1] \in SinkPdo
      BY <2>1, SinkCapsAssumption
    <3>2. Request.op = IF offer[1].cap < SinkCaps[1].op THEN offer[1].cap ELSE SinkCaps[1].op
      BY <2>3 DEF Request, MismatchRdo, Rdo
    <3>3. Request.op <= offer[1].cap /\ Request.op <= SinkCaps[1].op
      BY <3>1, <3>2 DEF SourcePdo, SinkPdo
    <3>. QED
      BY <2>3, <3>3 DEF RequestIsSound
  <2>. QED
    BY <2>2, <2>3
<1>. QED
  BY <1>1, EvalInvariant, PTL

(* A sink that can do with 5 V is given the best pair under every algorithm, and  *)
(* a mismatch is told only when there is no pair.                              *)
THEOREM SelectionIsBest == Spec => []RequestIsBest
<1>1. TypeOK /\ EvalInv => RequestIsBest
  <2>. SUFFICES ASSUME TypeOK, EvalInv, Evaluated, ~HighCap PROVE RequestIsBest
    BY DEF RequestIsBest
  <2>1. ASSUME NEW i \in Sources, NEW j \in Sinks, Candidate(i, j)
        PROVE  match /\ Score(offer[i], SinkCaps[j]) <= highest
    <3>1. Visited(i, j)
      BY SinkCapsAssumption DEF Visited, Evaluated, TypeOK, PdoTypeOK, Sinks
    <3>. QED
      BY <2>1, <3>1 DEF EvalInv, Evaluated
  <2>2. Candidates = {c \in Sources \X Sinks : Candidate(c[1], c[2])}
    BY DEF Candidates, Candidate, Sources, Sinks
  <2>3. \A c \in Candidates :
            match /\ Score(offer[c[1]], SinkCaps[c[2]]) <= highest
                  /\ Score(offer[c[1]], SinkCaps[c[2]]) \in Nat
    BY <2>1, <2>2, ScoresType DEF Evaluated, TypeOK
  <2>4. ASSUME match
        PROVE  \E j \in Sinks :
                  /\ <<rdo.position, j>> \in Candidates
                  /\ Score(offer[rdo.position], SinkCaps[j]) = highest
    <3>1. PICK i \in Sources, j \in Sinks : Chosen(i, j)
      BY <2>4 DEF EvalInv, Evaluated
    <3>2. rdo.position = i
      BY <3>1 DEF Chosen, MatchRdo, Rdo
    <3>. QED
      BY <2>2, <3>1, <3>2 DEF Chosen
  <2>5. highest \in Nat
    BY DEF TypeOK, PdoTypeOK
  <2>6. match <=> Candidates # {}
    BY <2>3, <2>4
  <2>7. ASSUME match
        PROVE  \E j \in Sinks :
                  /\ <<rdo.position, j>> \in Candidates
                  /\ \A c \in Candidates : Score(offer[rdo.position], SinkCaps[j])
                                              >= Score(offer[c[1]], SinkCaps[c[2]])
    <3>1. PICK j \in Sinks : /\ <<rdo.position, j>> \in Candidates
                             /\ Score(offer[rdo.position], SinkCaps[j]) = highest
      BY <2>4, <2>7
    <3>2. \A c \in Candidates : Score(offer[rdo.position], SinkCaps[j])
                                    >= Score(offer[c[1]], SinkCaps[c[2]])
      BY <2>3, <2>5, <3>1
    <3>. QED
      BY <3>1, <3>2
  <2>. QED
    BY <2>6, <2>7, Zenon DEF RequestIsBest, Sinks
<1>. QED
  BY <1>1, EvalInvariant, PTL

-----------------------------------------------------------------------------
(* Answers to the partner. *)

(* The inductive invariant: the evaluation and its answer belong to the message   *)
(* of capabilities, a contract has a partner, and the versions of the port are   *)
(* the lowest offered since the contract.                                     *)
TalkInv ==
    /\ offer # << >> => asked.kind = "CAPS"
    /\ contract => /\ connected
                   /\ version = ceiling.version /\ minor = ceiling.minor
                   /\ ceiling.version <= revision - 2

LEMMA LowerType ==
    ASSUME NEW a \in 0..1, NEW b \in 0..1
    PROVE  Lower(a, b) \in 0..1 /\ Lower(a, b) <= a
BY DEF Lower

LEMMA VdmLowers ==
    ASSUME PolicyTypeOK, TalkInv, NEW vdm \in Vdms, Vdm(vdm)
    PROVE  /\ ceiling' \in [version : 0..1, minor : 0..1]
           /\ version' = ceiling'.version /\ minor' = ceiling'.minor
           /\ ceiling'.version <= revision - 2
<1>1. /\ contract /\ version = ceiling.version /\ minor = ceiling.minor
      /\ ceiling.version <= revision - 2 /\ revision \in {2, 3}
      /\ version \in 0..1 /\ minor \in 0..1
  BY DEF Vdm, TalkInv, PolicyTypeOK, Revisions
<1>2. CASE FromInitiator(vdm)
  <2>1. /\ version' = Lower(version, vdm.version) /\ minor' = Lower(minor, vdm.minor)
        /\ ceiling' = [version |-> Lower(ceiling.version, vdm.version),
                       minor |-> Lower(ceiling.minor, vdm.minor)]
    BY <1>2 DEF Vdm, Negotiated
  <2>2. vdm.version \in 0..1 /\ vdm.minor \in 0..1
    BY DEF Vdms
  <2>3. /\ Lower(version, vdm.version) \in 0..1 /\ Lower(version, vdm.version) <= version
        /\ Lower(minor, vdm.minor) \in 0..1
    BY <1>1, <2>2, LowerType
  <2>. QED
    BY <1>1, <2>1, <2>3
<1>3. CASE ~FromInitiator(vdm)
  BY <1>1, <1>3 DEF Vdm, PolicyTypeOK
<1>. QED
  BY <1>2, <1>3

LEMMA TalkInductive == TypeOK /\ TalkInv /\ [Next]_vars => TalkInv'
<1>. SUFFICES ASSUME TypeOK, TalkInv, [Next]_vars PROVE TalkInv'
  OBVIOUS
<1>. USE DEF TalkInv
<1>1. CASE UNCHANGED vars
  BY <1>1 DEF vars, pdoVars, linkVars, vdmVars, talkVars
<1>2. ASSUME NEW r, Connect(r) \/ HardReset(r) PROVE TalkInv'
  BY <1>2 DEF Connect, HardReset, Idle, pdoVars
<1>3. CASE ContractComplete
  BY <1>3 DEF ContractComplete, Requested, Idle, pdoVars, TypeOK, PolicyTypeOK, Revisions
<1>4. CASE Disconnect
  BY <1>4 DEF Disconnect, Idle, pdoVars
<1>5. ASSUME NEW caps, SourceCaps(caps) PROVE TalkInv'
  BY <1>5 DEF SourceCaps, StartEvaluation, Reply, linkVars, vdmVars
<1>6. CASE CompareCaps
  BY <1>6 DEF CompareCaps, Compare, linkVars, vdmVars, talkVars
<1>7. CASE SendRequest
  BY <1>7 DEF SendRequest, linkVars, vdmVars
<1>8. ASSUME NEW role, Swap(role) PROVE TalkInv'
  BY <1>8 DEF Swap, Idle, pdoVars, linkVars, vdmVars
<1>9. ASSUME NEW vdm \in Vdms, Vdm(vdm) PROVE TalkInv'
  BY <1>9, VdmLowers DEF Vdm, Idle, pdoVars, linkVars, TypeOK
<1>10. ASSUME NEW message, ExtendedMessage(message) PROVE TalkInv'
  BY <1>10 DEF ExtendedMessage, Idle, pdoVars, linkVars, vdmVars
<1>. QED
  BY <1>1, <1>2, <1>3, <1>4, <1>5, <1>6, <1>7, <1>8, <1>9, <1>10
     DEF Next, LinkEvent, Evaluation, Message

LEMMA TalkInvariant == Spec => [](TypeOK /\ TalkInv)
<1>1. Init => TalkInv
  BY DEF Init, PdoInit, TalkInv
<1>. QED
  BY <1>1, TalkInductive, TypeCorrect, PTL DEF Spec

LEMMA Single ==
    ASSUME NEW x
    PROVE  DOMAIN <<x>> = {1} /\ <<x>>[1] = x /\ DOMAIN << >> = {} /\ Len(<<x>>) = 1
OBVIOUS

LEMMA VdmAnswers ==
    ASSUME NEW vdm, NEW ver, NEW min, NEW k \in DOMAIN VdmAnswer(vdm, ver, min)
    PROVE  \/ VdmAnswer(vdm, ver, min)[k] = [answer |-> "NOT_SUPPORTED"] /\ revision # 2
           \/ VdmAnswer(vdm, ver, min)[k]
                = [answer |-> "ACK", version |-> ver, minor |-> min, identity |-> Identity(ver)]
           \/ VdmAnswer(vdm, ver, min)[k] = [answer |-> "NAK", version |-> ver, minor |-> min]
<1>1. CASE ~FromInitiator(vdm)
  <2>1. VdmAnswer(vdm, ver, min) = IF revision = 2 THEN << >> ELSE <<[answer |-> "NOT_SUPPORTED"]>>
    BY <1>1 DEF VdmAnswer
  <2>. QED
    BY <2>1, Single
<1>2. CASE FromInitiator(vdm) /\ vdm.single /\ vdm.cmd = "ATTENTION"
  <2>1. VdmAnswer(vdm, ver, min) = << >>
    BY <1>2 DEF VdmAnswer, Identified
  <2>. QED
    BY <2>1, Single
<1>3. CASE FromInitiator(vdm) /\ Identified(vdm)
  <2>1. VdmAnswer(vdm, ver, min)
          = <<[answer |-> "ACK", version |-> ver, minor |-> min, identity |-> Identity(ver)]>>
    BY <1>3 DEF VdmAnswer, Identified
  <2>. QED
    BY <2>1, Single
<1>4. CASE /\ FromInitiator(vdm) /\ ~Identified(vdm)
           /\ ~(vdm.single /\ vdm.cmd = "ATTENTION")
  <2>1. VdmAnswer(vdm, ver, min) = <<[answer |-> "NAK", version |-> ver, minor |-> min]>>
    BY <1>4 DEF VdmAnswer
  <2>. QED
    BY <2>1, Single
<1>. QED
  BY <1>1, <1>2, <1>3, <1>4

(* The steps by what they answer. *)
LEMMA AnswerSteps ==
    ASSUME TypeOK, TalkInv, Next
    PROVE  \/ asked' = Nothing /\ answers' = << >>
           \/ asked'.kind = "CAPS"
           \/ CompareCaps /\ asked' = asked
           \/ \E role : Swap(role)
           \/ \E vdm \in Vdms : Vdm(vdm)
           \/ \E message \in Extended : ExtendedMessage(message)
BY DEF TalkInv, Next, LinkEvent, Evaluation, Message, Connect, HardReset, ContractComplete, Disconnect,
       SourceCaps, CompareCaps, SendRequest, Evaluated, Reply, talkVars

(* While a message of capabilities is evaluated nothing else is answered. *)
LEMMA ComparesCaps == TalkInv /\ CompareCaps => asked.kind = "CAPS"
BY DEF TalkInv, CompareCaps, Compare

LEMMA RevisionInductive ==
    TypeOK /\ TalkInv /\ RevisionIsRespected /\ [Next]_vars => RevisionIsRespected'
<1>. SUFFICES ASSUME TypeOK, TalkInv, RevisionIsRespected, [Next]_vars
              PROVE  RevisionIsRespected'
  OBVIOUS
<1>. USE DEF RevisionIsRespected
<1>1. CASE UNCHANGED vars
  BY <1>1 DEF vars, linkVars, talkVars
<1>2. CASE asked' = Nothing /\ answers' = << >>
  BY <1>2, Single
<1>3. CASE asked'.kind = "CAPS" \/ (CompareCaps /\ asked' = asked)
  BY <1>3, ComparesCaps
<1>4. ASSUME NEW role, Swap(role) PROVE RevisionIsRespected'
  <2>1. answers' = <<[answer |-> SwapAnswer]>> /\ revision' = revision
    BY <1>4 DEF Swap, Reply, linkVars
  <2>. QED
    BY <2>1, Single DEF SwapAnswer
<1>5. ASSUME NEW vdm \in Vdms, Vdm(vdm) PROVE RevisionIsRespected'
  <2>1. answers' = VdmAnswer(vdm, version', minor') /\ revision' = revision
    BY <1>5 DEF Vdm, Reply, linkVars
  <2>. QED
    BY <2>1, VdmAnswers
<1>6. ASSUME NEW message, ExtendedMessage(message) PROVE RevisionIsRespected'
  BY <1>6 DEF ExtendedMessage, SendsExtended, linkVars
<1>. QED
  BY <1>1, <1>2, <1>3, <1>4, <1>5, <1>6, AnswerSteps

(* No handler sends Not_Supported to a partner of revision 2. *)
THEOREM RevisionSafety == Spec => []RevisionIsRespected
<1>1. Init => RevisionIsRespected
  BY Single DEF Init, RevisionIsRespected
<1>. QED
  BY <1>1, RevisionInductive, TalkInvariant, PTL DEF Spec

LEMMA VersionInductive ==
    TypeOK /\ TalkInv /\ VersionIsAgreed /\ [Next]_vars => VersionIsAgreed'
<1>. SUFFICES ASSUME TypeOK, TalkInv, VersionIsAgreed, [Next]_vars
              PROVE  VersionIsAgreed'
  OBVIOUS
<1>1. CASE UNCHANGED vars
  BY <1>1 DEF VersionIsAgreed, vars, linkVars, vdmVars, talkVars
<1>2. CASE asked' = Nothing \/ asked'.kind = "CAPS" \/ (CompareCaps /\ asked' = asked)
  BY <1>2, ComparesCaps DEF VersionIsAgreed, Nothing
<1>3. ASSUME NEW role, Swap(role) PROVE VersionIsAgreed'
  BY <1>3 DEF Swap, Reply, VersionIsAgreed
<1>4. ASSUME NEW vdm \in Vdms, Vdm(vdm) PROVE VersionIsAgreed'
  <2>1. answers' = VdmAnswer(vdm, version', minor') /\ revision' = revision
    BY <1>4 DEF Vdm, Reply, linkVars
  <2>2. /\ version' = ceiling'.version /\ minor' = ceiling'.minor
        /\ ceiling'.version <= revision - 2
    BY <1>4, VdmLowers DEF TypeOK
  <2>3. ASSUME NEW k \in DOMAIN answers', answers'[k].answer \in {"ACK", "NAK"}
        PROVE  /\ answers'[k].version = version' /\ answers'[k].minor = minor'
               /\ answers'[k].answer = "ACK" => answers'[k].identity = Identity(version')
    BY <2>1, <2>3, VdmAnswers
  <2>4. version' = 0 => Identity(version').product = "UNDEF"
    BY DEF Identity
  <2>. QED
    BY <2>1, <2>2, <2>3, <2>4 DEF VersionIsAgreed
<1>5. ASSUME NEW message, ExtendedMessage(message) PROVE VersionIsAgreed'
  BY <1>5 DEF ExtendedMessage, Reply, VersionIsAgreed
<1>. QED
  BY <1>1, <1>2, <1>3, <1>4, <1>5, AnswerSteps

(* Every vendor answer is given in the lowest version offered since the contract, *)
(* never in one above the revision of the partner.                             *)
THEOREM VersionSafety == Spec => []VersionIsAgreed
<1>1. Init => VersionIsAgreed
  BY DEF Init, VersionIsAgreed, Nothing
<1>. QED
  BY <1>1, VersionInductive, TalkInvariant, PTL DEF Spec

LEMMA AnswersToExtended ==
    ASSUME NEW message \in Extended, ExtendedMessage(message)
    PROVE  OneAnswer'
<1>1. asked' = [kind |-> "EXTENDED", message |-> message]
  BY DEF ExtendedMessage, Reply
<1>2. asked'.kind = "EXTENDED" /\ asked'.message = message /\ message.more \in BOOLEAN
  BY <1>1 DEF Extended
<1>3. CASE message.more
  <2>1. answers' = <<[answer |-> "CHUNK_REQUEST"]>> \o << >>
    BY <1>3 DEF ExtendedMessage, Reply, ChunkRequest, Skips
  <2>2. answers' = <<[answer |-> "CHUNK_REQUEST"]>>
    BY <2>1
  <2>. QED
    BY <1>2, <1>3, <2>2 DEF OneAnswer
<1>4. CASE ~message.more
  <2>1. answers' = << >> \o SolutionAnswer(message)
    BY <1>4 DEF ExtendedMessage, Reply, ChunkRequest, Skips
  <2>2. CASE message.msg \in ResponseMessages
    <3>1. SolutionAnswer(message) = << >>
      BY <2>2 DEF SolutionAnswer, ResponseMessages
    <3>. QED
      BY <1>2, <1>4, <2>1, <2>2, <3>1 DEF OneAnswer
  <2>3. CASE message.msg \notin ResponseMessages
    <3>1. \E x : SolutionAnswer(message) = <<x>> /\ x.answer # "CHUNK_REQUEST"
      <4>1. CASE message.msg = "BATTERY_STATUS"
        <5>1. SolutionAnswer(message) = <<[answer |-> "BATTERY_STATUS", valid |-> message.known]>>
          BY <4>1 DEF SolutionAnswer, ResponseMessages
        <5>2. [answer |-> "BATTERY_STATUS", valid |-> message.known].answer # "CHUNK_REQUEST"
          OBVIOUS
        <5>. QED
          BY <5>1, <5>2, Zenon
      <4>2. CASE message.msg = "BATTERY_CAP"
        <5>1. SolutionAnswer(message) = <<[answer |-> "BATTERY_CAP", valid |-> message.known]>>
          BY <4>2 DEF SolutionAnswer, ResponseMessages
        <5>2. [answer |-> "BATTERY_CAP", valid |-> message.known].answer # "CHUNK_REQUEST"
          OBVIOUS
        <5>. QED
          BY <5>1, <5>2, Zenon
      <4>3. CASE message.msg \notin {"BATTERY_STATUS", "BATTERY_CAP"}
        BY <2>3, <4>3 DEF SolutionAnswer
      <4>. QED
        BY <4>1, <4>2, <4>3
    <3>2. PICK x : SolutionAnswer(message) = <<x>> /\ x.answer # "CHUNK_REQUEST"
      BY <3>1
    <3>3. answers' = <<x>>
      BY <2>1, <3>2
    <3>4. Len(answers') = 1 /\ answers'[1].answer # "CHUNK_REQUEST"
      BY <3>2, <3>3
    <3>. QED
      BY <1>2, <1>4, <2>3, <3>4 DEF OneAnswer
  <2>. QED
    BY <2>2, <2>3
<1>. QED
  BY <1>2, <1>3, <1>4

LEMMA AnswerInductive == TypeOK /\ TalkInv /\ OneAnswer /\ [Next]_vars => OneAnswer'
<1>. SUFFICES ASSUME TypeOK, TalkInv, OneAnswer, [Next]_vars PROVE OneAnswer'
  OBVIOUS
<1>1. CASE UNCHANGED vars
  BY <1>1 DEF OneAnswer, vars, talkVars
<1>2. CASE asked' = Nothing \/ asked'.kind = "CAPS" \/ (CompareCaps /\ asked' = asked)
  BY <1>2, ComparesCaps DEF OneAnswer, Nothing
<1>3. ASSUME NEW role, Swap(role) PROVE OneAnswer'
  BY <1>3 DEF Swap, Reply, OneAnswer
<1>4. ASSUME NEW vdm, Vdm(vdm) PROVE OneAnswer'
  BY <1>4 DEF Vdm, Reply, OneAnswer
<1>. QED
  BY <1>1, <1>2, <1>3, <1>4, AnswersToExtended, AnswerSteps

(* A complete extended message is answered once and a chunk of one only by the    *)
(* request for the next, although two handlers may answer.                      *)
THEOREM AnswerSafety == Spec => []OneAnswer
<1>1. Init => OneAnswer
  BY DEF Init, OneAnswer, Nothing
<1>. QED
  BY <1>1, AnswerInductive, TalkInvariant, PTL DEF Spec

-----------------------------------------------------------------------------
(* The length of an evaluation. *)

(* The pairs that have not been compared yet. *)
PairsLeft == (Len(SinkCaps) + 1 - snkIndex) * Len(offer) - (srcIndex - 1)

(* The two loops compare every pair exactly once: each round leaves one pair less,  *)
(* a request is sent when none is left, and no message disturbs the count.      *)
PairsAreCounted ==
    [][offer # << >> =>
          \/ CompareCaps /\ PairsLeft > 0 /\ PairsLeft' = PairsLeft - 1
          \/ SendRequest /\ PairsLeft = 0
          \/ UNCHANGED pdoVars]_vars
FirstPair == [][offer = << >> /\ offer' # << >> =>
                   PairsLeft' = Len(SinkCaps) * Len(offer')]_vars

(* The rounds of the inner loop are those of one sink capability. *)
LEMMA Rows ==
    ASSUME NEW n \in Nat, NEW k \in Nat
    PROVE  n * k \in Nat /\ (n + 1) * k = n * k + k
OBVIOUS

(* The inner loop ends with its index set back. *)
LastRow == offer # << >> /\ snkIndex > Len(SinkCaps) => srcIndex = 1

LEMMA LastRowInductive == TypeOK /\ LastRow /\ [Next]_vars => LastRow'
<1>. SUFFICES ASSUME TypeOK, LastRow, [Next]_vars PROVE LastRow'
  OBVIOUS
<1>. USE DEF LastRow
<1>1. CASE UNCHANGED pdoVars
  BY <1>1 DEF pdoVars
<1>2. ASSUME NEW caps \in Offers, SourceCaps(caps) PROVE LastRow'
  BY <1>2 DEF SourceCaps, StartEvaluation
<1>3. CASE CompareCaps
  <2>1. /\ srcIndex \in 1..Len(offer) /\ snkIndex \in 1..Len(SinkCaps)
        /\ Len(offer) \in Nat /\ Len(SinkCaps) \in Nat
    BY <1>3, RoundType, SinkCapsAssumption DEF CompareCaps, TypeOK
  <2>2. IF srcIndex < Len(offer) THEN snkIndex' = snkIndex ELSE srcIndex' = 1
    BY <1>3 DEF CompareCaps, Compare
  <2>. QED
    BY <2>1, <2>2
<1>4. CASE SendRequest
  BY <1>4 DEF SendRequest
<1>. QED
  BY <1>1, <1>2, <1>3, <1>4, PolicySteps DEF vars

(* Evaluations take as many comparisons as there are pairs, whatever is offered:      *)
(* the safety half of CapsAreAnswered.                                        *)
THEOREM EvaluationIsBounded == Spec => PairsAreCounted /\ FirstPair
<1>1. TypeOK /\ LastRow /\ [Next]_vars =>
        [offer # << >> =>
            \/ CompareCaps /\ PairsLeft > 0 /\ PairsLeft' = PairsLeft - 1
            \/ SendRequest /\ PairsLeft = 0
            \/ UNCHANGED pdoVars]_vars
  <2>. SUFFICES ASSUME TypeOK, LastRow, Next, offer # << >>
                PROVE  \/ CompareCaps /\ PairsLeft > 0 /\ PairsLeft' = PairsLeft - 1
                       \/ SendRequest /\ PairsLeft = 0
                       \/ UNCHANGED pdoVars
    OBVIOUS
  <2>1. CASE CompareCaps
    <3>. DEFINE n == Len(SinkCaps) - snkIndex
                k == Len(offer)
    <3>1. /\ srcIndex \in 1..k /\ snkIndex \in 1..Len(SinkCaps)
          /\ k \in Nat /\ Len(SinkCaps) \in Nat
      BY <2>1, RoundType, SinkCapsAssumption DEF CompareCaps, TypeOK
    <3>2. n \in Nat
      BY <3>1
    <3>3. /\ offer' = offer
          /\ IF srcIndex < k THEN srcIndex' = srcIndex + 1 /\ snkIndex' = snkIndex
             ELSE srcIndex' = 1 /\ snkIndex' = snkIndex + 1
      BY <2>1 DEF CompareCaps, Compare
    <3>4. PairsLeft = (n + 1) * k - (srcIndex - 1)
      <4>1. Len(SinkCaps) + 1 - snkIndex = n + 1
        BY <3>1
      <4>. QED
        BY <4>1 DEF PairsLeft
    <3>5. PairsLeft' = IF srcIndex < k THEN (n + 1) * k - srcIndex ELSE n * k
      <4>1. CASE srcIndex < k
        <5>1. Len(SinkCaps) + 1 - snkIndex' = n + 1 /\ srcIndex' - 1 = srcIndex
          BY <3>1, <3>3, <4>1
        <5>. QED
          BY <3>3, <4>1, <5>1 DEF PairsLeft
      <4>2. CASE ~(srcIndex < k)
        <5>1. Len(SinkCaps) + 1 - snkIndex' = n /\ srcIndex' - 1 = 0
          BY <3>1, <3>3, <4>2
        <5>2. PairsLeft' = n * k - 0
          BY <3>3, <5>1 DEF PairsLeft
        <5>3. n * k \in Nat
          BY <3>1, <3>2, Rows
        <5>. QED
          BY <4>2, <5>2, <5>3
      <4>. QED
        BY <4>1, <4>2
    <3>6. n * k \in Nat /\ (n + 1) * k = n * k + k
      BY <3>1, <3>2, Rows
    <3>. HIDE DEF n, k
    <3>. QED
      BY <2>1, <3>1, <3>4, <3>5, <3>6
  <2>2. CASE SendRequest
    <3>1. srcIndex = 1 /\ snkIndex = Len(SinkCaps) + 1
      BY <2>2, SinkCapsAssumption DEF SendRequest, Evaluated, LastRow, TypeOK, PdoTypeOK
    <3>2. Len(offer) \in Nat /\ Len(SinkCaps) \in Nat
      BY OfferHasType, SinkCapsAssumption DEF OfferType, TypeOK
    <3>3. Len(SinkCaps) + 1 - snkIndex = 0 /\ srcIndex - 1 = 0
      BY <3>1, <3>2
    <3>4. PairsLeft = 0 * Len(offer) - 0
      BY <3>3 DEF PairsLeft
    <3>. QED
      BY <2>2, <3>2, <3>4
  <2>3. ASSUME NEW caps, SourceCaps(caps) PROVE FALSE
    BY <2>3 DEF SourceCaps, StartEvaluation
  <2>. QED
    BY <2>1, <2>2, <2>3, PolicySteps
<1>2. TypeOK /\ [Next]_vars =>
        [offer = << >> /\ offer' # << >> => PairsLeft' = Len(SinkCaps) * Len(offer')]_vars
  <2>. SUFFICES ASSUME TypeOK, Next, offer = << >>, offer' # << >>
                PROVE  PairsLeft' = Len(SinkCaps) * Len(offer')
    OBVIOUS
  <2>1. PICK caps \in Offers : SourceCaps(caps)
    BY PolicySteps DEF pdoVars, CompareCaps, Compare, SendRequest
  <2>2. offer' = caps /\ snkIndex' = 1 /\ srcIndex' = 1
    BY <2>1 DEF SourceCaps, StartEvaluation
  <2>3. Len(caps) \in Nat /\ Len(SinkCaps) \in Nat
    BY OffersAssumption, SinkCapsAssumption
  <2>4. Len(SinkCaps) + 1 - snkIndex' = Len(SinkCaps) /\ srcIndex' - 1 = 0
    BY <2>2, <2>3
  <2>5. PairsLeft' = Len(SinkCaps) * Len(offer') - 0
    BY <2>4 DEF PairsLeft
  <2>6. Len(SinkCaps) * Len(offer') \in Nat
    BY <2>2, <2>3, Rows
  <2>. QED
    BY <2>5, <2>6
<1>3. Init => LastRow
  BY DEF Init, PdoInit, LastRow
<1>. QED
  BY <1>1, <1>2, <1>3, LastRowInductive, TypeCorrect, PTL DEF Spec, PairsAreCounted, FirstPair
=============================================================================
