------------------------- MODULE Thermistor_proofs -------------------------
(***************************************************************************)
(* Proofs about the thermistor conversion for every voltage, and about the    *)
(* throttling for every temperature.  The table is the one of src/main.c.     *)
(***************************************************************************)
EXTENDS Thermistor, TLAPS

-----------------------------------------------------------------------------
(* The table. *)

Entries == 1..20

LEMMA TableValues ==
    /\ TableCount = 20
    /\ VoltMap[1] = 4848 /\ VoltMap[2] = 4806 /\ VoltMap[3] = 4756 /\ VoltMap[4] = 4696
    /\ VoltMap[5] = 4623 /\ VoltMap[6] = 4538 /\ VoltMap[7] = 4438 /\ VoltMap[8] = 4324
    /\ VoltMap[9] = 4194 /\ VoltMap[10] = 4049 /\ VoltMap[11] = 3889 /\ VoltMap[12] = 3715
    /\ VoltMap[13] = 3529 /\ VoltMap[14] = 3334 /\ VoltMap[15] = 3131 /\ VoltMap[16] = 2925
    /\ VoltMap[17] = 2718 /\ VoltMap[18] = 2513 /\ VoltMap[19] = 2312 /\ VoltMap[20] = 2118
BY DEF TableCount, VoltMap

LEMMA TableType == \A i \in Entries : VoltMap[i] \in Nat
BY TableValues DEF Entries

(* From one entry to the next the voltage falls, by 42 mV at least. *)
LEMMA TableFalls == \A i \in 2..20 : VoltMap[i - 1] - VoltMap[i] \in 42..207
BY TableValues

LEMMA TableIsSorted == \A i, j \in Entries : i < j => VoltMap[i] > VoltMap[j]
BY TableValues DEF Entries

-----------------------------------------------------------------------------
(* The search. *)

Segment(i, mv) == VoltMap[i] <= mv /\ mv < VoltMap[i - 1]

(* Every voltage of the table lies between two entries or on the first. *)
LEMMA SegmentExists ==
    ASSUME NEW mv \in Nat, VoltMap[20] <= mv, mv < VoltMap[1]
    PROVE  \E i \in 2..20 : Segment(i, mv)
BY TableValues DEF Segment

(* The search in one half of the table finds that entry, wherever the half      *)
(* begins.                                                                  *)
LEMMA SearchFindsSegment ==
    ASSUME NEW mv \in Nat, NEW i \in 2..20, Segment(i, mv)
    PROVE  VoltTempMap(mv) = IF i = 11 /\ mv = VoltMap[11] THEN EntryTemp(11)
                             ELSE Interpolated(i, mv)
<1>1. ~(mv > VoltMap[1]) /\ ~(mv < VoltMap[20])
  BY TableValues DEF Segment
<1>2. Half(mv) = IF mv <= VoltMap[11] THEN 11..20 ELSE 1..11
  BY TableValues DEF Half
<1>3. i \in Half(mv)
  BY <1>2, TableIsSorted, TableType DEF Segment, Entries
<1>. DEFINE Found(k) == k \in Half(mv) /\ mv >= VoltMap[k]
                          /\ \A j \in Half(mv) : mv >= VoltMap[j] => k <= j
            first == CHOOSE k \in Half(mv) :
                          /\ mv >= VoltMap[k]
                          /\ \A j \in Half(mv) : mv >= VoltMap[j] => k <= j
<1>4. \A j \in Entries : mv >= VoltMap[j] => i <= j
  BY TableIsSorted, TableType DEF Segment, Entries
<1>5. Half(mv) \subseteq Entries
  BY <1>2 DEF Entries
<1>6. Found(i)
  BY <1>3, <1>4, <1>5 DEF Segment
<1>7. \A k : Found(k) => k = i
  BY <1>3, <1>6, <1>5 DEF Entries
<1>8. first = i
  BY <1>6, <1>7
<1>9. VoltTempMap(mv) = IF i - 1 \in Half(mv) THEN Interpolated(i, mv) ELSE EntryTemp(i)
  <2>1. ~(mv > VoltMap[1]) /\ ~(mv < VoltMap[TableCount])
    BY <1>1, TableValues
  <2>2. VoltTempMap(mv) =
          IF first - 1 \in Half(mv) THEN Interpolated(first, mv) ELSE EntryTemp(first)
    BY <2>1, Zenon DEF VoltTempMap
  <2>. HIDE DEF first
  <2>. QED
    BY <1>8, <2>2
<1>10. CASE i = 11 /\ mv = VoltMap[11]
  BY <1>2, <1>9, <1>10, TableValues
<1>11. CASE ~(i = 11 /\ mv = VoltMap[11])
  <2>1. i - 1 \in Half(mv)
    BY <1>2, <1>11, TableIsSorted, TableType, TableValues DEF Segment, Entries
  <2>. QED
    BY <1>9, <1>11, <2>1
<1>. QED
  BY <1>10, <1>11
-----------------------------------------------------------------------------
(* The interpolation. *)

LEMMA Quotient ==
    ASSUME NEW d \in Nat, NEW q \in Nat \ {0}
    PROVE  d \div q \in Nat /\ (d \div q) * q <= d /\ d < (d \div q) * q + q
OBVIOUS

LEMMA QuotientGrows ==
    ASSUME NEW d \in Nat, NEW e \in Nat, d <= e, NEW q \in Nat \ {0}
    PROVE  d \div q <= e \div q
<1>. DEFINE a == d \div q
            b == e \div q
<1>1. a \in Nat /\ a * q <= d /\ b \in Nat /\ e < b * q + q
  BY Quotient
<1>. HIDE DEF a, b
<1>2. SUFFICES ASSUME a >= b + 1 PROVE FALSE
  BY <1>1 DEF a, b
<1>3. a * q >= (b + 1) * q
  BY <1>1, <1>2
<1>. QED
  BY <1>1, <1>3

LEMMA Fifth ==
    ASSUME NEW gap \in Nat
    PROVE  gap \div 5 \in Nat /\ 5 * (gap \div 5) <= gap /\ gap <= 5 * (gap \div 5) + 4
OBVIOUS

(* A gap is worth five degrees although it is divided by five and rounded down   *)
(* first, and the degrees counted are within one of the exact proportion.       *)
LEMMA Proportion ==
    ASSUME NEW gap \in 42..207, NEW below \in 0..gap
    PROVE  LET degrees == below \div (gap \div 5)
           IN  /\ degrees \in 0..5
               /\ below = gap => degrees = 5
               /\ degrees * gap - 5 * below \in (-gap)..gap
<1>. DEFINE fifth == gap \div 5
            degrees == below \div fifth
<1>1. fifth \in 8..41 /\ 5 * fifth <= gap /\ gap <= 5 * fifth + 4
  BY Fifth
<1>2. degrees \in Nat /\ degrees * fifth <= below /\ below < degrees * fifth + fifth
  BY <1>1, Quotient
<1>. HIDE DEF fifth, degrees
<1>3. degrees <= 5
  <2>. SUFFICES ASSUME degrees >= 6 PROVE FALSE
    BY <1>2
  <2>1. degrees * fifth >= 6 * fifth
    BY <1>1, <1>2
  <2>. QED
    BY <1>1, <1>2, <2>1
<1>4. degrees \in {0, 1, 2, 3, 4, 5}
  BY <1>2, <1>3
<1>5. below = gap => degrees = 5
  BY <1>1, <1>2, <1>4
<1>6. degrees * gap - 5 * below \in (-gap)..gap
  BY <1>1, <1>2, <1>4
<1>. QED
  BY <1>2, <1>3, <1>5, <1>6 DEF fifth, degrees

(* In a segment the temperature grows from that of the upper entry to that of    *)
(* the lower one, on the line between them.                                  *)
LEMMA InterpolationOnLine ==
    ASSUME NEW mv \in Nat, NEW i \in 2..20, Segment(i, mv)
    PROVE  /\ Interpolated(i, mv) \in EntryTemp(i - 1)..EntryTemp(i)
           /\ OnLine(i - 1, mv, Interpolated(i, mv))
           /\ mv = VoltMap[i] => Interpolated(i, mv) = EntryTemp(i)
<1>. DEFINE gap == VoltMap[i - 1] - VoltMap[i]
            below == VoltMap[i - 1] - mv
            degrees == below \div (gap \div 5)
<1>1. gap \in 42..207 /\ below \in 0..gap /\ (below = gap <=> mv = VoltMap[i])
  BY TableFalls, TableType DEF Segment, Entries
<1>2. /\ degrees \in 0..5
      /\ below = gap => degrees = 5
      /\ degrees * gap - 5 * below \in (-gap)..gap
  BY <1>1, Proportion
<1>3. Interpolated(i, mv) = EntryTemp(i - 1) + degrees
  BY DEF Interpolated, Resolution
<1>4. EntryTemp(i) = EntryTemp(i - 1) + 5 /\ EntryTemp(i - 1) \in Nat
  BY DEF EntryTemp, BaseTemp, Resolution
<1>5. OnLine(i - 1, mv, Interpolated(i, mv))
  <2>1. (EntryTemp(i - 1) + degrees) - EntryTemp(i - 1) = degrees
    BY <1>2, <1>4
  <2>. HIDE DEF degrees
  <2>. QED
    BY <1>1, <1>2, <1>3, <2>1 DEF OnLine, Resolution
<1>. HIDE DEF degrees
<1>. QED
  BY <1>1, <1>2, <1>3, <1>4, <1>5

-----------------------------------------------------------------------------
(* The conversion. *)

(* The first entry reads as its temperature. *)
LEMMA FirstEntry == VoltTempMap(VoltMap[1]) = EntryTemp(1)
<1>. DEFINE mv == VoltMap[1]
            first == CHOOSE k \in Half(mv) :
                          /\ mv >= VoltMap[k]
                          /\ \A j \in Half(mv) : mv >= VoltMap[j] => k <= j
<1>1. Half(mv) = 1..11
  BY TableValues DEF Half
<1>2. first = 1
  <2>1. /\ 1 \in Half(mv) /\ mv >= VoltMap[1]
        /\ \A j \in Half(mv) : mv >= VoltMap[j] => 1 <= j
    BY <1>1, TableValues
  <2>2. \A k \in Half(mv) :
          (\A j \in Half(mv) : mv >= VoltMap[j] => k <= j) => k = 1
    BY <1>1, <2>1
  <2>. QED
    BY <2>1, <2>2
<1>3. ~(mv > VoltMap[1]) /\ ~(mv < VoltMap[TableCount])
  BY TableValues
<1>4. VoltTempMap(mv) =
        IF first - 1 \in Half(mv) THEN Interpolated(first, mv) ELSE EntryTemp(first)
  BY <1>3, Zenon DEF VoltTempMap
<1>. HIDE DEF first
<1>5. ~(first - 1 \in Half(mv))
  BY <1>1, <1>2
<1>. QED
  BY <1>2, <1>4, <1>5

(* What a voltage of a segment is converted to, the entry where the halves of the *)
(* search meet included.                                                     *)
LEMMA SegmentConversion ==
    ASSUME NEW mv \in Nat, NEW i \in 2..20, Segment(i, mv)
    PROVE  VoltTempMap(mv) = Interpolated(i, mv)
BY SearchFindsSegment, InterpolationOnLine

(* Every voltage of the table is converted to the temperature that the line       *)
(* between its neighbours has there, to within a degree.                       *)
THEOREM ConversionIsAccurate == \A mv \in Nat : IsAccurate(mv)
<1>. SUFFICES ASSUME NEW mv \in Nat, NEW i \in 1..19, Neighbours(i, mv)
              PROVE  OnLine(i, mv, VoltTempMap(mv))
  BY TableValues DEF IsAccurate
<1>1. mv <= VoltMap[1] /\ VoltMap[20] <= mv
  BY TableIsSorted, TableType DEF Neighbours, Entries
<1>2. ASSUME VoltTempMap(mv) = EntryTemp(i), mv = VoltMap[i]
      PROVE  OnLine(i, mv, VoltTempMap(mv))
  <2>1. EntryTemp(i) - EntryTemp(i) = 0 /\ VoltMap[i] - VoltMap[i + 1] \in Nat
    BY TableFalls, i + 1 \in 2..20, (i + 1) - 1 = i DEF EntryTemp, BaseTemp, Resolution
  <2>. QED
    BY <1>2, <2>1 DEF OnLine, Resolution
<1>3. CASE mv = VoltMap[1]
  <2>1. i = 1
    BY <1>3, TableIsSorted, TableType DEF Neighbours, Entries
  <2>. QED
    BY <1>2, <1>3, <2>1, FirstEntry
<1>4. CASE mv < VoltMap[1]
  <2>1. PICK k \in 2..20 : Segment(k, mv)
    BY <1>1, <1>4, SegmentExists
  <2>2. i = k - 1 \/ (i = k /\ mv = VoltMap[k])
    BY <2>1, TableIsSorted, TableType DEF Neighbours, Segment, Entries
  <2>. QED
    BY <1>2, <2>1, <2>2, SegmentConversion, InterpolationOnLine
<1>. QED
  BY <1>1, <1>3, <1>4, TableType DEF Entries

LEMMA TempBounds ==
    ASSUME NEW mv \in Nat, NEW i \in 2..20, Segment(i, mv)
    PROVE  VoltTempMap(mv) \in (5 * i + 10)..(5 * i + 15)
BY SegmentConversion, InterpolationOnLine DEF EntryTemp, BaseTemp, Resolution

(* Within the table a lower voltage never reads as a lower temperature: the sensor  *)
(* does not tell the throttling that a board that heats up has cooled.         *)
THEOREM ConversionIsMonotone ==
    ASSUME NEW hot \in Nat, NEW cool \in Nat,
           VoltMap[TableCount] <= hot, hot <= cool, cool <= VoltMap[1]
    PROVE  VoltTempMap(hot) >= VoltTempMap(cool)
<1>1. CASE hot = cool
  <2>1. VoltTempMap(cool) \in Int
    BY <1>1, FirstEntry, SegmentExists, TempBounds, TableValues
       DEF EntryTemp, BaseTemp, Resolution
  <2>. QED
    BY <1>1, <2>1
<1>2. CASE hot < cool
  <2>1. PICK i \in 2..20 : Segment(i, hot)
    BY <1>2, SegmentExists, TableValues
  <2>2. CASE cool = VoltMap[1]
    BY <2>1, <2>2, TempBounds, FirstEntry DEF EntryTemp, BaseTemp, Resolution
  <2>3. CASE cool < VoltMap[1]
    <3>1. PICK j \in 2..20 : Segment(j, cool)
      BY <2>3, SegmentExists, TableValues
    <3>2. j <= i
      BY <1>2, <2>1, <3>1, TableIsSorted, TableType DEF Segment, Entries
    <3>3. CASE j < i
      <4>1. VoltTempMap(hot) \in (5 * i + 10)..(5 * i + 15)
        BY <2>1, TempBounds
      <4>2. VoltTempMap(cool) \in (5 * j + 10)..(5 * j + 15)
        BY <3>1, TempBounds
      <4>. QED
        BY <3>3, <4>1, <4>2
    <3>4. CASE j = i
      <4>. DEFINE fifth == (VoltMap[i - 1] - VoltMap[i]) \div 5
      <4>0. VoltMap[i - 1] - VoltMap[i] \in 42..207 /\ VoltMap[i - 1] \in Nat
        BY TableFalls, TableType DEF Entries
      <4>1. fifth \in Nat \ {0} /\ VoltMap[i - 1] - hot \in Nat /\ VoltMap[i - 1] - cool \in Nat
        BY <2>1, <3>1, <3>4, <4>0 DEF Segment
      <4>2. (VoltMap[i - 1] - hot) \div fifth >= (VoltMap[i - 1] - cool) \div fifth
        BY <1>2, <4>1, QuotientGrows, TableType DEF Entries
      <4>3. /\ VoltTempMap(hot) = EntryTemp(i - 1) + (VoltMap[i - 1] - hot) \div fifth
            /\ VoltTempMap(cool) = EntryTemp(i - 1) + (VoltMap[i - 1] - cool) \div fifth
        BY <2>1, <3>1, <3>4, SegmentConversion DEF Interpolated, Resolution
      <4>4. EntryTemp(i - 1) \in Nat
        BY DEF EntryTemp, BaseTemp, Resolution
      <4>5. /\ (VoltMap[i - 1] - hot) \div fifth \in Nat
            /\ (VoltMap[i - 1] - cool) \div fifth \in Nat
        BY <4>1, Quotient
      <4>. HIDE DEF fifth
      <4>. QED
        BY <4>2, <4>3, <4>4, <4>5
    <3>. QED
      BY <3>2, <3>3, <3>4
  <2>. QED
    BY <2>2, <2>3, TableType DEF Entries
<1>. QED
  BY <1>1, <1>2

(* A reading at or over the threshold of its sensor is converted to at least that   *)
(* temperature, and fits the int8_t of the callers, for every level of the ADC   *)
(* within the table.                                                          *)
THEOREM HeatIsRead ==
    ASSUME NEW s \in Sensors, NEW level \in AdcLevels,
           IsOverTemp(s, level), Millivolts(level) >= VoltMap[TableCount]
    PROVE  Temperature(level) \in OtpThreshold[s]..127
<1>. DEFINE mv == Millivolts(level)
            last == ((OtpThreshold[s] - BaseTemp) \div Resolution) + 1
<1>1. mv \in Nat
  BY DEF Millivolts, AdcLevels
<1>2. last \in {14, 17} /\ EntryTemp(last) = OtpThreshold[s]
  BY DEF Sensors, OtpThreshold, BaseTemp, Resolution, EntryTemp
<1>3. mv <= VoltMap[last] /\ VoltMap[20] <= mv
  BY TableValues DEF IsOverTemp
<1>. HIDE DEF mv, last
<1>4. PICK i \in 2..20 : Segment(i, mv)
  BY <1>1, <1>2, <1>3, SegmentExists, TableValues
<1>5. i >= last
  BY <1>1, <1>2, <1>3, <1>4, TableIsSorted, TableType DEF Segment, Entries
<1>6. CASE i = last
  <2>1. mv = VoltMap[i]
    BY <1>1, <1>3, <1>4, <1>6, TableType DEF Segment, Entries
  <2>2. VoltTempMap(mv) = OtpThreshold[s]
    BY <1>1, <1>2, <1>4, <1>6, <2>1, SegmentConversion, InterpolationOnLine
  <2>. QED
    BY <2>2 DEF Temperature, AsInt8, mv, OtpThreshold, Sensors
<1>7. CASE i > last
  <2>1. VoltTempMap(mv) \in (5 * i + 10)..(5 * i + 15)
    BY <1>1, <1>4, TempBounds
  <2>2. VoltTempMap(mv) \in OtpThreshold[s]..115
    BY <1>2, <1>7, <2>1 DEF EntryTemp, BaseTemp, Resolution
  <2>. QED
    BY <2>2 DEF Temperature, AsInt8, mv
<1>. QED
  BY <1>2, <1>5, <1>6, <1>7

-----------------------------------------------------------------------------
(* The throttling. *)

(* At a steady temperature the throttling settles after two readings: the           *)
(* hysteresis of both thresholds leaves no state that it comes back to.         *)
THEOREM ThrottlingSettles ==
    ASSUME NEW s \in Sensors, NEW state \in TempStates, NEW temp \in Int
    PROVE  LET second == Throttle(s, Throttle(s, state, temp), temp)
           IN  Throttle(s, second, temp) = second
BY DEF Throttle, Sensors, TempStates, HotThreshold, OtpThreshold, Hysteresis
=============================================================================
