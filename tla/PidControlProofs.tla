-------------------------- MODULE PidControlProofs --------------------------
(***************************************************************************)
(* Proofs about PidControl, for all gains, errors and rates.               *)
(***************************************************************************)
EXTENDS PidControl, TLAPS

LEMMA QuotType == \A a \in Int : Quot(a, 10) \in Int
  BY DEF Quot

LEMMA InitType == Init => TypeOK
  BY DomainAssumption, GainAssumption DEF Init, TypeOK, GainRecord

LEMMA NextType == TypeOK /\ [Next]_vars => TypeOK'
<1> SUFFICES ASSUME TypeOK, [Next]_vars PROVE TypeOK'
  OBVIOUS
<1> USE DomainAssumption, GainAssumption
    DEF TypeOK, GainRecord, terms, sample, receiver
<1>1. CASE Integrate
  BY <1>1 DEF Integrate
<1>2. CASE ReadLimit
  BY <1>2 DEF ReadLimit
<1>3. CASE LimitLow
  BY <1>3 DEF LimitLow, Reuse
<1>4. CASE LimitHigh
  BY <1>4 DEF LimitHigh, Reuse
<1>5. CASE Weigh
  BY <1>5 DEF Weigh, Reuse
<1>6. CASE Derive
  BY <1>6 DEF Derive
<1>7. CASE Output
  <2>1. gains.p * error + oi + od \in Int
    OBVIOUS
  <2>2. output' \in Int
    BY <1>7, <2>1, QuotType DEF Output
  <2> QED
    BY <1>7, <2>2 DEF Output
<1>8. CASE Land
  BY <1>8 DEF Land
<1>9. CASE Configure
  BY <1>9 DEF Configure
<1>10. CASE StoreGain
  <2>1. config \in GainRecord
    OBVIOUS
  <2>2. gains' \in GainRecord /\ stored' \in 0..4
    BY <1>10, <2>1 DEF StoreGain
  <2> QED
    BY <1>10, <2>2 DEF StoreGain
<1>11. CASE UNCHANGED vars
  BY <1>11 DEF vars
<1> QED
  BY <1>1, <1>2, <1>3, <1>4, <1>5, <1>6, <1>7, <1>8, <1>9, <1>10, <1>11 DEF Next, Step

\* Every field of the controller keeps its type under concurrent configuration.
THEOREM Typed == Spec => []TypeOK
  BY InitType, NextType, PTL DEF Spec

-----------------------------------------------------------------------------
(* Windup.                                                                 *)

LEMMA InitWindup == Init => WindupInv
<1> SUFFICES ASSUME Init, Limited PROVE WindupInv
  BY DEF WindupInv
<1>1. Default.max \in Maxima /\ Default.max > 0 /\ Default.max \in Int
  BY GainAssumption DEF Maxima, Limited, GainRecord
<1>2. 0 \in (-Default.max)..Default.max
  BY <1>1
<1> QED
  BY <1>1, <1>2 DEF Init, WindupInv

LEMMA NextWindup == TypeOK /\ WindupInv /\ [Next]_vars => WindupInv'
<1> SUFFICES ASSUME TypeOK, WindupInv, [Next]_vars, Limited PROVE WindupInv'
  BY DEF WindupInv, Limited
<1>1. \A m \in Maxima : m \in Int /\ m > 0
  BY GainAssumption DEF Maxima, Limited, GainRecord
<1>2. integral \in Int /\ gains \in GainRecord /\ stored \in 0..4
  BY DEF TypeOK
<1> USE DEF WindupInv, terms, sample, receiver
<1>3. CASE Integrate
  BY <1>3 DEF Integrate
<1>4. CASE ReadLimit
  <2>1. gains.max \in Maxima /\ gains.max > 0
    BY <1>1
  <2>2. reg'.max = gains.max /\ pc' = "low"
    BY <1>4, <2>1 DEF ReadLimit, TypeOK
  <2> QED
    BY <1>4, <2>1, <2>2 DEF ReadLimit
<1>5. CASE LimitLow
  <2>1. PICK m \in Maxima : integral' = IF integral < -m THEN -m ELSE integral
    BY <1>5 DEF LimitLow, Reuse
  <2>2. integral' >= -m
    BY <1>1, <1>2, <2>1
  <2> QED
    BY <1>5, <2>2 DEF LimitLow
<1>6. CASE LimitHigh
  <2>1. PICK m \in Maxima : integral' = IF integral > m THEN m ELSE integral
    BY <1>6 DEF LimitHigh, Reuse
  <2>2. PICK n \in Maxima : integral >= -n
    BY <1>6 DEF LimitHigh
  <2>3. m \in Int /\ n \in Int /\ m > 0 /\ n > 0
    BY <1>1
  <2>4. \E k \in Maxima : integral' \in (-k)..k
    <3>1. CASE m >= n
      BY <1>2, <2>1, <2>2, <2>3, <3>1
    <3>2. CASE m < n
      BY <1>2, <2>1, <2>2, <2>3, <3>2
    <3> QED
      BY <2>3, <3>1, <3>2
  <2> QED
    BY <1>6, <2>4 DEF LimitHigh
<1>7. CASE Weigh \/ Derive \/ Output
  BY <1>7 DEF Weigh, Derive, Output
<1>8. CASE Land
  <2>1. 0 \in (-gains.max)..gains.max
    BY <1>1
  <2> QED
    BY <1>8, <2>1 DEF Land
<1>9. CASE Configure
  BY <1>9 DEF Configure, Maxima
<1>10. CASE StoreGain
  <2>1. gains'.max \in {gains.max, config.max}
    BY <1>2, <1>10 DEF StoreGain, GainRecord
  <2> QED
    BY <1>10, <2>1 DEF StoreGain
<1>11. CASE UNCHANGED vars
  BY <1>11 DEF vars
<1> QED
  BY <1>3, <1>4, <1>5, <1>6, <1>7, <1>8, <1>9, <1>10, <1>11 DEF Next, Step

\* Whatever configuration frames race with the loop, and whether the compiled
\* code reads Kimax once or again, the integral ends every step within the
\* largest Kimax that was asked for (pid_int_fixed_delta, parse_pid_config).
THEOREM Bounded == Spec => []NoWindup
<1>1. Init => TypeOK /\ WindupInv
  BY InitType, InitWindup
<1>2. TypeOK /\ WindupInv /\ [Next]_vars => TypeOK' /\ WindupInv'
  BY NextType, NextWindup
<1>3. WindupInv => NoWindup
  BY DEF WindupInv, NoWindup, Maxima
<1> QED
  BY <1>1, <1>2, <1>3, PTL DEF Spec

-----------------------------------------------------------------------------
(* The control law.                                                        *)

LEMMA NextCalm == TypeOK /\ CalmInv /\ [Next]_vars => CalmInv'
<1> SUFFICES ASSUME TypeOK, CalmInv, [Next]_vars PROVE CalmInv'
  OBVIOUS
<1>1. {integral, oi, od, output, error, rate} \subseteq Int /\ gains \in GainRecord
      /\ reg \in [i : Int, max : Int] /\ steps \in 0..2
  BY DEF TypeOK
<1> USE DEF CalmInv, terms, sample, receiver
<1>2. CASE Integrate
  BY <1>1, <1>2 DEF Integrate
<1>3. CASE ReadLimit
  BY <1>1, <1>3 DEF ReadLimit, GainRecord
<1>4. CASE LimitLow
  BY <1>1, <1>4 DEF LimitLow, Reuse, GainRecord
<1>5. CASE LimitHigh
  BY <1>1, <1>5 DEF LimitHigh, Reuse, GainRecord
<1>6. CASE Weigh
  BY <1>1, <1>6 DEF Weigh, Reuse, GainRecord
<1>7. CASE Derive
  BY <1>1, <1>7 DEF Derive, GainRecord
<1>8. CASE Output
  <2>1. UNCHANGED <<integral, gains, error, rate, calm>> /\ pc = "output" /\ pc' = "rest"
    BY <1>8 DEF Output
  <2>2. output' = Quot(gains.p * error + oi + od, 10)
    BY <1>8 DEF Output
  <2>3. Law' = Law
    BY <1>8, <2>1 DEF Law, Term, Output
  <2>4. calm => /\ gains.i # 0 => oi = gains.i * integral
                /\ gains.d # 0 => od = gains.d * rate
    BY <2>1
  <2>5. calm => Term(gains.i, integral, oi) = oi /\ Term(gains.d, rate, od) = od
    BY <2>4 DEF Term
  <2>6. calm => output' = Law
    BY <2>2, <2>5 DEF Law
  <2> QED
    BY <2>1, <2>3, <2>6
<1>9. CASE Land
  BY <1>9 DEF Land
<1>10. CASE Configure
  <2>1. Law' = Law
    BY <1>10 DEF Configure, Law, Term
  <2> QED
    BY <1>10, <2>1 DEF Configure
<1>11. CASE StoreGain
  BY <1>11 DEF StoreGain
<1>12. CASE UNCHANGED vars
  BY <1>12 DEF vars, Law, Term
<1> QED
  BY <1>2, <1>3, <1>4, <1>5, <1>6, <1>7, <1>8, <1>9, <1>10, <1>11, <1>12 DEF Next, Step

LEMMA NextFresh == TypeOK /\ CalmInv /\ FreshInv /\ [Next]_vars => FreshInv'
<1> SUFFICES ASSUME TypeOK, CalmInv, FreshInv, [Next]_vars PROVE FreshInv'
  OBVIOUS
<1>1. gains \in GainRecord /\ steps \in 0..2
  BY DEF TypeOK
<1> USE DEF FreshInv, terms, sample, receiver
<1>2. CASE Integrate
  BY <1>1, <1>2 DEF Integrate
<1>3. CASE ReadLimit \/ LimitLow \/ LimitHigh
  BY <1>3 DEF ReadLimit, LimitLow, LimitHigh
<1>4. CASE Weigh
  <2>1. calm => gains.i # 0
    BY <1>4 DEF Weigh, CalmInv
  <2> QED
    BY <1>4, <2>1 DEF Weigh
<1>5. CASE Derive
  BY <1>5 DEF Derive
<1>6. CASE Output
  BY <1>6 DEF Output
<1>7. CASE Land
  BY <1>7 DEF Land
<1>8. CASE Configure \/ StoreGain
  BY <1>8 DEF Configure, StoreGain
<1>9. CASE UNCHANGED vars
  BY <1>9 DEF vars
<1> QED
  BY <1>2, <1>3, <1>4, <1>5, <1>6, <1>7, <1>8, <1>9 DEF Next, Step

\* A step that no configuration disturbed computes the control law with the
\* gains in force, however the steps before it were disturbed; the term of a
\* gain of zero is an old one, but not from before the last landing
\* (pid_int_fixed_delta, land_pid).
THEOREM FollowsLaw == Spec => []UndisturbedStep
<1>1. Init => TypeOK /\ CalmInv /\ FreshInv
  BY InitType DEF Init, CalmInv, FreshInv
<1>2. TypeOK /\ CalmInv /\ FreshInv /\ [Next]_vars => TypeOK' /\ CalmInv' /\ FreshInv'
  BY NextType, NextCalm, NextFresh
<1>3. CalmInv /\ FreshInv => UndisturbedStep
  BY DEF CalmInv, FreshInv, UndisturbedStep
<1> QED
  BY <1>1, <1>2, <1>3, PTL DEF Spec

-----------------------------------------------------------------------------
(* Landing.                                                                *)

LEMMA NextLegacy == TypeOK /\ LegacyInv /\ [Next]_vars => LegacyInv'
<1> SUFFICES ASSUME TypeOK, LegacyInv, [Next]_vars, Landed, \A g \in Gains : g.max >= 0
             PROVE  LegacyInv'
  BY DEF LegacyInv
<1>1. integral \in Int /\ error \in Int /\ gains \in GainRecord /\ config \in GainRecord
      /\ reg \in [i : Int, max : Int] /\ steps \in 0..2 /\ stored \in 0..4
  BY GainAssumption DEF TypeOK
<1>2. gains.max \in Int /\ config.max \in Int /\ reg.max \in Int
  BY <1>1 DEF GainRecord
<1> USE DEF LegacyInv, Size, terms, sample, receiver
<1>3. CASE Integrate
  BY <1>1, <1>3, DomainAssumption DEF Integrate
<1>4. CASE ReadLimit
  BY <1>1, <1>4 DEF ReadLimit
<1>5. CASE LimitLow
  BY <1>1, <1>2, <1>5 DEF LimitLow, Reuse
<1>6. CASE LimitHigh
  BY <1>1, <1>2, <1>6 DEF LimitHigh, Reuse
<1>7. CASE Weigh \/ Derive \/ Output
  BY <1>7 DEF Weigh, Derive, Output
<1>8. CASE Land
  BY <1>8 DEF Land
<1>9. CASE Configure
  BY <1>9 DEF Configure
<1>10. CASE StoreGain
  <2>1. gains'.max \in {gains.max, config.max}
    BY <1>1, <1>10 DEF StoreGain, GainRecord
  <2> QED
    BY <1>10, <2>1 DEF StoreGain
<1>11. CASE UNCHANGED vars
  BY <1>11 DEF vars
<1> QED
  BY <1>3, <1>4, <1>5, <1>6, <1>7, <1>8, <1>9, <1>10, <1>11 DEF Next, Step

\* A landed controller forgets: the first step with the engines on again sees an
\* integral no larger than its own error (land_pid).
THEOREM StartsFresh == Spec => []NoLegacy
<1>1. Init => TypeOK /\ LegacyInv
  BY InitType, GainAssumption DEF Init, LegacyInv, Size
<1>2. TypeOK /\ LegacyInv /\ [Next]_vars => TypeOK' /\ LegacyInv'
  BY NextType, NextLegacy
<1>3. LegacyInv => NoLegacy
  BY DEF LegacyInv, NoLegacy
<1> QED
  BY <1>1, <1>2, <1>3, PTL DEF Spec

=============================================================================
