------------------------- MODULE HeadingHoldProofs -------------------------
(***************************************************************************)
(* Proofs about HeadingHold, for every resolution of the sensor, turning   *)
(* speed and loop frequency.                                               *)
(***************************************************************************)
EXTENDS HeadingHold, TLAPS

LEMMA MaxRateType ==
  /\ MaxRate \in Nat /\ MaxStep <= MaxRate /\ HalfTurn \div 10 <= MaxRate
  BY TurnAssumption DEF MaxRate

\* A filtered rate is a weighted mean: it exceeds no bound that the old rate and
\* the difference keep.
LEMMA FilterMean ==
  ASSUME NEW M \in Nat, NEW d \in Int, NEW r \in Int, Size(d) <= M, Size(r) <= M,
         NEW f \in Filtered(d, r)
  PROVE  f \in Int /\ Size(f) <= M
<1> DEFINE x == d + 9 * r
<1>1. x \in Int /\ x <= 10 * M /\ x >= -(10 * M)
  BY DEF Size
<1>2. Quot(x, 10) \in Int /\ Quot(x, 10) <= M /\ Quot(x, 10) >= -M
      /\ (x >= 0 => Quot(x, 10) >= 0) /\ (x <= 0 => Quot(x, 10) <= 0)
  <2> HIDE DEF x
  <2>1. CASE x >= 0
    BY <1>1, <2>1 DEF Quot
  <2>2. CASE x < 0
    <3>1. (-x) \div 10 \in Int /\ (-x) \div 10 >= 0 /\ (-x) \div 10 <= M
      BY <1>1, <2>2
    <3> QED
      BY <1>1, <2>2, <3>1 DEF Quot
  <2> QED
    BY <1>1, <2>1, <2>2
<1>3. x % 10 = 0 /\ x # 0 => Quot(x, 10) # 0
  <2> HIDE DEF x
  <2>1. CASE x >= 0
    BY <1>1, <2>1 DEF Quot
  <2>2. CASE x < 0
    BY <1>1, <2>2 DEF Quot
  <2> QED
    BY <1>1, <2>1, <2>2
<1>4. \/ f = Quot(x, 10)
      \/ /\ x % 10 = 0 /\ x # 0
         /\ f = IF Quot(x, 10) > 0 THEN Quot(x, 10) - 1 ELSE Quot(x, 10) + 1
  BY DEF Filtered
<1> HIDE DEF x
<1> QED
  BY <1>2, <1>3, <1>4 DEF Size

\* Without a first reading the filter sees a tenth of the heading.
LEMMA FilterFirst ==
  ASSUME NEW h \in Readings, NEW f \in Filtered(h, 0)
  PROVE  f \in Int /\ Size(f) <= MaxRate
<1>1. h \in Int /\ h <= HalfTurn /\ h >= -HalfTurn /\ HalfTurn \in Nat
  BY TurnAssumption DEF Readings
<1>2. Quot(h, 10) \in Int /\ Quot(h, 10) <= HalfTurn \div 10 /\ Quot(h, 10) >= -(HalfTurn \div 10)
      /\ (h >= 0 => Quot(h, 10) >= 0) /\ (h <= 0 => Quot(h, 10) <= 0)
      /\ (h % 10 = 0 /\ h # 0 => Quot(h, 10) # 0)
  <2>1. CASE h >= 0
    BY <1>1, <2>1 DEF Quot
  <2>2. CASE h < 0
    BY <1>1, <2>2 DEF Quot
  <2> QED
    BY <1>1, <2>1, <2>2
<1>3. \/ f = Quot(h, 10)
      \/ /\ h % 10 = 0 /\ h # 0
         /\ f = IF Quot(h, 10) > 0 THEN Quot(h, 10) - 1 ELSE Quot(h, 10) + 1
  <2>1. h + 9 * 0 = h
    BY <1>1
  <2> QED
    BY <2>1 DEF Filtered
<1>4. f \in Int /\ Size(f) \in Int /\ Size(f) <= HalfTurn \div 10 /\ HalfTurn \div 10 \in Int
  BY <1>1, <1>2, <1>3 DEF Size
<1> QED
  BY <1>4, MaxRateType

LEMMA TurnedReading ==
  ASSUME NEW h \in Readings, NEW s \in (-MaxStep)..MaxStep
  PROVE  /\ Turned(h, s) \in Readings
         /\ Turned(h, s) - h \in {s, s - 2 * HalfTurn, s + 2 * HalfTurn}
  BY TurnAssumption DEF Turned, Readings

\* The rate after a sample is bounded whether the heading crossed the seam, moved
\* by a real step or was read for the first time.
LEMMA RatesBounded ==
  ASSUME NEW h \in Readings, NEW c \in Readings, NEW r \in Int, Size(r) <= MaxRate,
         NEW s \in (-MaxStep)..MaxStep,
         c # h => c = 0 /\ r = 0,
         NEW f \in Rates(Turned(h, s) - c, r)
  PROVE  f \in Int /\ Size(f) <= MaxRate
<1>1. Turned(h, s) \in Readings
      /\ Turned(h, s) - h \in {s, s - 2 * HalfTurn, s + 2 * HalfTurn}
  BY TurnedReading
<1>2. CASE Wrapped(Turned(h, s) - c)
  BY <1>2 DEF Rates
<1>3. CASE ~Wrapped(Turned(h, s) - c)
  <2>1. f \in Filtered(Turned(h, s) - c, r)
    BY <1>3 DEF Rates
  <2>2. CASE c = h
    <3>1. Turned(h, s) - h = s
      BY <1>1, <1>3, <2>2, TurnAssumption DEF Wrapped, Size
    <3>2. s \in Int /\ Size(s) <= MaxRate
      BY TurnAssumption, MaxRateType DEF Size
    <3> QED
      BY <2>1, <2>2, <3>1, <3>2, MaxRateType, FilterMean
  <2>3. CASE c # h
    <3>1. Turned(h, s) - 0 = Turned(h, s)
      BY <1>1, TurnAssumption DEF Readings
    <3> QED
      BY <1>1, <2>1, <2>3, <3>1, FilterFirst
  <2> QED
    BY <2>2, <2>3
<1> QED
  BY <1>2, <1>3

LEMMA FirstRates ==
  ASSUME NEW h \in Readings, NEW f \in Rates(h, 0)
  PROVE  f \in Int /\ Size(f) <= MaxRate
<1>1. CASE Wrapped(h)
  BY <1>1, MaxRateType DEF Rates, Size
<1>2. CASE ~Wrapped(h)
  BY <1>2, FilterFirst DEF Rates
<1> QED
  BY <1>1, <1>2

LEMMA SizeStep ==
  ASSUME NEW M \in Nat, NEW a \in Int, NEW b \in Int, NEW n \in {0, 1},
         Size(a) <= n * M, Size(b) <= M
  PROVE  Size(a - b) <= (n + 1) * M
<1>1. CASE n = 0
  BY <1>1 DEF Size
<1>2. CASE n = 1
  BY <1>2 DEF Size
<1> QED
  BY <1>1, <1>2

LEMMA CappedSmaller ==
  ASSUME NEW x \in Int, NEW M \in Nat
  PROVE  /\ Capped(x) \in (-LeadCap)..LeadCap
         /\ Size(x) <= M => Size(Capped(x)) <= M
  BY LeadAssumption DEF Capped, Size

-----------------------------------------------------------------------------
(* Types and rates.                                                        *)

Ind == TypeOK /\ RateInv

LEMMA Zeros ==
  0 \in Readings /\ 0 \in (-LeadCap)..LeadCap /\ 0 \in 0..(PseudoHz - 1)
  BY TurnAssumption, LoopAssumption, LeadAssumption DEF Readings

LEMMA InitInd == Init => Ind
<1> SUFFICES ASSUME Init PROVE Ind
  OBVIOUS
<1>1. cacheYaw \in Readings /\ lead \in (-LeadCap)..LeadCap /\ tick \in 0..(PseudoHz - 1)
  BY Zeros DEF Init
<1>2. usable \in BOOLEAN /\ heading \in Readings /\ pc \in {"start", "sample", "steer"}
  BY DEF Init
<1>3. rate \in Int /\ low \in 0..3
  BY DEF Init
<1>4. RateInv
  BY MaxRateType DEF Init, RateInv, RateReal, Size
<1> QED
  BY <1>1, <1>2, <1>3, <1>4 DEF Ind, TypeOK

LEMMA SampleInd == Ind /\ Sample => Ind'
<1> SUFFICES ASSUME Ind, Sample PROVE Ind'
  OBVIOUS
<1>1. PICK s \in (-MaxStep)..MaxStep : heading' = Turned(heading, s)
  BY DEF Sample
<1>2. heading' \in Readings
  BY <1>1, TurnedReading DEF Ind, TypeOK
<1>3. rate' \in Int /\ Size(rate') <= MaxRate
  BY <1>1, RatesBounded DEF Sample, Ind, TypeOK, RateInv, RateReal
<1>4. lead' \in (-LeadCap)..LeadCap
  <2>1. lead - rate' \in Int
    BY <1>3, LeadAssumption DEF Ind, TypeOK
  <2> QED
    BY <2>1, CappedSmaller DEF Sample
<1>5. tick' \in 0..(PseudoHz - 1)
  BY LoopAssumption DEF Sample, NextTick, Ind, TypeOK
<1>6. heading' = cacheYaw' /\ usable' \in BOOLEAN /\ pc' = "steer" /\ low' \in 0..3
  BY DEF Sample, Ind, TypeOK
<1> QED
  BY <1>2, <1>3, <1>4, <1>5, <1>6 DEF Ind, TypeOK, RateInv, RateReal

LEMMA SteerInd == Ind /\ Steer => Ind'
<1> SUFFICES ASSUME Ind, Steer PROVE Ind'
  OBVIOUS
<1> USE DEF Ind, TypeOK, RateInv, RateReal
<1>1. 0 \in (-LeadCap)..LeadCap
  BY LeadAssumption
<1>2. CASE EnginesOff
  BY <1>1, <1>2 DEF EnginesOff, LowPass
<1>3. CASE GasLow
  BY <1>1, <1>3 DEF GasLow, LowPass
<1>4. CASE GasUp
  <2>1. PICK y \in Sticks : lead' = IF Steering THEN Capped(lead + Quot(y, 5)) ELSE lead
    BY <1>4 DEF GasUp
  <2>2. y \in Int
    BY LoopAssumption
  <2>3. Quot(y, 5) \in Int
    BY <2>2 DEF Quot
  <2>4. lead + Quot(y, 5) \in Int
    BY <2>3, LeadAssumption
  <2>5. lead' \in (-LeadCap)..LeadCap
    BY <2>1, <2>4, CappedSmaller
  <2> QED
    BY <1>4, <2>5 DEF GasUp
<1> QED
  BY <1>2, <1>3, <1>4 DEF Steer

LEMMA NextInd == Ind /\ [Next]_vars => Ind'
<1> SUFFICES ASSUME Ind, [Next]_vars PROVE Ind'
  OBVIOUS
<1>1. CASE StartSampled
  <2>1. rate' \in Int /\ Size(rate') <= MaxRate
    BY <1>1, FirstRates DEF StartSampled, Ind, TypeOK
  <2> QED
    BY <1>1, <2>1 DEF StartSampled, Ind, TypeOK, RateInv, RateReal
<1>2. CASE StartSkipped
  BY <1>2 DEF StartSkipped, Ind, TypeOK, RateInv, RateReal
<1>3. CASE StartFailed
  BY <1>3 DEF StartFailed, Ind, TypeOK, RateInv, RateReal
<1>4. CASE Sample
  BY <1>4, SampleInd
<1>5. CASE SampleFailed
  <2>1. cacheYaw' \in Readings /\ lead' \in (-LeadCap)..LeadCap /\ tick' \in 0..(PseudoHz - 1)
    BY <1>5, Zeros DEF SampleFailed
  <2>2. usable' \in BOOLEAN /\ heading' \in Readings /\ pc' \in {"start", "sample", "steer"}
    BY <1>5 DEF SampleFailed
  <2>3. rate' \in Int /\ low' \in 0..3
    BY <1>5 DEF SampleFailed
  <2>4. RateInv'
    BY <1>5, MaxRateType DEF SampleFailed, RateInv, RateReal, Size
  <2> QED
    BY <2>1, <2>2, <2>3, <2>4 DEF Ind, TypeOK
<1>6. CASE Steer
  BY <1>6, SteerInd
<1>7. CASE UNCHANGED vars
  BY <1>7 DEF vars, Ind, TypeOK, RateInv, RateReal
<1> QED
  BY <1>1, <1>2, <1>3, <1>4, <1>5, <1>6, <1>7 DEF Next, Starting

\* Readings, rates, ticks and leads keep their range for every resolution of the
\* sensor and every loop frequency.
THEOREM Typed == Spec => []TypeOK
  BY InitInd, NextInd, PTL DEF Spec, Ind

\* However the heading crosses the seam, and however often the program is
\* started again with a sensor that is still sending, no rate is faster than a
\* real turn or the tenth of the heading at power-up (get_euler_sample).
THEOREM RatesAreReal == Spec => []RateReal
  BY InitInd, NextInd, PTL DEF Spec, Ind, RateInv

-----------------------------------------------------------------------------
(* The held heading.                                                       *)

LEMMA UnsteeredValue ==
  ASSUME Ind
  PROVE  /\ Unsteered \in {0, 1, 2}
         /\ Steering <=> Unsteered = 0
  BY LoopAssumption DEF Ind, TypeOK, Unsteered, Steering

LEMMA SampleHold == Ind /\ HoldInv /\ Sample => HoldInv'
<1> SUFFICES ASSUME Ind, HoldInv, Sample PROVE HoldInv'
  OBVIOUS
<1> USE MaxRateType
<1>1. pc = "sample" /\ pc' = "steer" /\ low' = low /\ low \in 0..3
  BY DEF Sample, Ind, TypeOK
<1>2. Ind'
  BY SampleInd
<1>3. rate' \in Int /\ Size(rate') <= MaxRate
  BY <1>2 DEF Ind, TypeOK, RateInv, RateReal
<1>4. lead \in Int /\ lead' = Capped(lead - rate')
  BY LeadAssumption DEF Sample, Ind, TypeOK
<1>5. ASSUME NEW n \in {0, 1}, Size(lead) <= n * MaxRate
      PROVE  Size(lead') <= (n + 1) * MaxRate
  <2>1. lead - rate' \in Int
    BY <1>3, <1>4
  <2>3. Size(lead - rate') <= (n + 1) * MaxRate
    BY <1>3, <1>4, <1>5, SizeStep
  <2>2. (n + 1) * MaxRate \in Nat
    BY <1>5
  <2> QED
    BY <1>4, <2>1, <2>2, <2>3, CappedSmaller
<1>6. ASSUME Unsteered' > 0, low >= Unsteered'
      PROVE  Size(lead') <= Unsteered' * MaxRate
  <2>1. tick \in 0..(PseudoHz - 1) /\ tick' = IF tick + 1 >= PseudoHz THEN 0 ELSE tick + 1
    BY DEF Sample, NextTick, Ind, TypeOK
  <2>2. CASE tick' = 0
    <3>1. Unsteered' = 2 /\ Unsteered \in {0, 1}
      BY <2>1, <2>2, LoopAssumption DEF Unsteered
    <3>2. Size(lead) <= Unsteered * MaxRate
      BY <1>1, <1>6, <3>1 DEF HoldInv
    <3>3. Size(lead') <= (Unsteered + 1) * MaxRate
      BY <1>5, <3>1, <3>2
    <3>4. Size(lead') \in Int
      BY <1>2, LeadAssumption DEF Ind, TypeOK, Size
    <3>5. (Unsteered + 1) * MaxRate <= 2 * MaxRate
      BY <3>1
    <3> QED
      BY <3>1, <3>3, <3>4, <3>5
  <2>3. CASE tick' # 0
    <3>1. Unsteered' = 1 /\ Unsteered = 0
      BY <1>6, <2>1, <2>3, LoopAssumption DEF Unsteered
    <3>2. Size(lead) <= 0 * MaxRate
      BY <1>1, <1>6, <3>1 DEF HoldInv
    <3>3. Size(lead') <= (0 + 1) * MaxRate
      BY <1>5, <3>2
    <3> QED
      BY <3>1, <3>3
  <2> QED
    BY <2>2, <2>3
<1> QED
  BY <1>1, <1>6 DEF HoldInv

LEMMA SteerHold == Ind /\ HoldInv /\ Steer => HoldInv'
<1> SUFFICES ASSUME Ind, HoldInv, Steer PROVE HoldInv'
  OBVIOUS
<1> USE MaxRateType
<1>1. low \in 0..3 /\ pc = "steer" /\ pc' = "sample" /\ Unsteered' = Unsteered
  BY DEF Steer, EnginesOff, GasLow, GasUp, Ind, TypeOK, Unsteered
<1>2. Unsteered \in {0, 1, 2} /\ (Steering <=> Unsteered = 0)
  BY UnsteeredValue
<1>3. Size(0) <= Unsteered * MaxRate
  BY <1>2 DEF Size
<1>4. CASE EnginesOff
  BY <1>1, <1>3, <1>4 DEF EnginesOff, HoldInv
<1>5. CASE GasLow
  <2>1. CASE Steering
    BY <1>1, <1>3, <1>5, <2>1 DEF GasLow, HoldInv
  <2>2. CASE ~Steering
    <3>1. lead' = lead /\ low' = IF low = 3 THEN 3 ELSE low + 1
      BY <1>5, <2>2 DEF GasLow, LowPass
    <3>2. low' > Unsteered => low >= Unsteered
      BY <1>1, <1>2, <3>1
    <3> QED
      BY <1>1, <1>2, <2>2, <3>1, <3>2 DEF HoldInv
  <2> QED
    BY <2>1, <2>2
<1>6. CASE GasUp
  <2>1. low' = 0
    BY <1>6 DEF GasUp
  <2> QED
    BY <1>1, <1>2, <2>1 DEF HoldInv
<1> QED
  BY <1>4, <1>5, <1>6 DEF Steer

LEMMA NextHold == Ind /\ HoldInv /\ [Next]_vars => HoldInv'
<1> SUFFICES ASSUME Ind, HoldInv, [Next]_vars PROVE HoldInv'
  OBVIOUS
<1> USE MaxRateType
<1>1. CASE Starting
  <2>1. lead' = 0 /\ tick' = 0 /\ low' = 3 /\ pc' = "sample"
    BY <1>1 DEF Starting, StartSampled, StartSkipped, StartFailed, HoldInv
  <2>2. Unsteered' = 2
    BY <2>1 DEF Unsteered
  <2> QED
    BY <2>1, <2>2 DEF HoldInv, Size
<1>2. CASE Sample
  BY <1>2, SampleHold
<1>3. CASE SampleFailed
  BY <1>3 DEF SampleFailed, HoldInv
<1>4. CASE Steer
  BY <1>4, SteerHold
<1>5. CASE UNCHANGED vars
  BY <1>5 DEF vars, HoldInv, Unsteered
<1> QED
  BY <1>1, <1>2, <1>3, <1>4, <1>5 DEF Next

\* For every loop frequency, a multiple of three or not, the heading held with
\* the gas down never falls more than two samples behind the drone (main loop).
THEOREM HoldKeepsUp == Spec => []HoldFollows
<1>1. Init => HoldInv
  BY DEF Init, HoldInv
<1>2. Ind /\ HoldInv => HoldFollows
  <2> SUFFICES ASSUME Ind, HoldInv, pc = "sample", low = 3 PROVE Size(lead) <= 2 * MaxRate
    BY DEF HoldFollows
  <2>1. Unsteered \in {0, 1, 2}
    BY UnsteeredValue
  <2>2. Size(lead) <= Unsteered * MaxRate
    BY <2>1 DEF HoldInv
  <2>3. Size(lead) \in Int
    BY LeadAssumption DEF Ind, TypeOK, Size
  <2>4. Unsteered * MaxRate <= 2 * MaxRate /\ Unsteered * MaxRate \in Int
    BY <2>1, MaxRateType
  <2> QED
    BY <2>2, <2>3, <2>4, MaxRateType
<1> QED
  BY <1>1, <1>2, InitInd, NextInd, NextHold, PTL DEF Spec

=============================================================================
