----------------------------- MODULE PidControl -----------------------------
(***************************************************************************)
(* One controller of the drone (pid.c): the control loop runs              *)
(* pid_int_fixed_delta() on it when the engines are on and land_pid() when *)
(* they are off, while the receiver may be storing new gains into it with  *)
(* parse_pid_config(), field by field and without a lock.                  *)
(*                                                                         *)
(* A field the code uses twice may be kept in a register or loaded again:  *)
(* Reuse leaves the choice open.                                           *)
(***************************************************************************)
EXTENDS Integers

CONSTANTS
  Errors,    \* currAngle - targetAngle
  Rates,     \* currAngVel
  Gains,     \* what configuration frames carry, and the defaults of imu.c
  Default,   \* the gains set at start
  Landed     \* the loop lands this controller: pitch and roll, not yaw

GainRecord == [p : Int, i : Int, d : Int, max : Int]

ASSUME DomainAssumption == Errors \subseteq Int /\ Rates \subseteq Int /\ Landed \in BOOLEAN
ASSUME GainAssumption == Gains \subseteq GainRecord /\ Default \in Gains

VARIABLES
  gains,                       \* Kp, Ki, Kd and Kimax
  integral, oi, od, output,    \* i, oi, od, output
  error, rate,                 \* of the step under way
  reg,                         \* Ki and Kimax as the step has read them
  pc,                          \* where the step is
  config, stored,              \* the frame being stored, and how much of it is
  \* History:
  calm,      \* no gain has been stored since the step began
  steps      \* steps since the controller was landed, saturating at 2

terms == <<integral, oi, od, output>>
sample == <<error, rate, reg>>
receiver == <<gains, config, stored>>
vars == <<gains, integral, oi, od, output, error, rate, reg, pc, config, stored, calm, steps>>

Quot(a, b) == IF a >= 0 THEN a \div b ELSE -((-a) \div b)   \* C's division, b > 0

Reuse(inRegister, inMemory) == {inRegister, inMemory}

Init ==
  /\ gains = Default
  /\ integral = 0 /\ oi = 0 /\ od = 0 /\ output = 0
  /\ error = 0 /\ rate = 0 /\ reg = [i |-> 0, max |-> 0]
  /\ pc = "rest"
  /\ config = Default /\ stored = 4
  /\ calm = TRUE /\ steps = 0

-----------------------------------------------------------------------------
(* pid_int_fixed_delta().                                                  *)

Integrate ==
  /\ pc = "rest"
  /\ error' \in Errors /\ rate' \in Rates
  /\ reg' = [reg EXCEPT !.i = gains.i]
  /\ IF gains.i # 0
       THEN integral' = integral + error' /\ pc' = "limit"
       ELSE integral' = integral /\ pc' = "derive"
  /\ calm' = TRUE
  /\ steps' = IF steps = 0 THEN 1 ELSE 2
  /\ UNCHANGED <<oi, od, output, receiver>>

\* The anti-windup only works with a positive Kimax.
ReadLimit ==
  /\ pc = "limit"
  /\ reg' = [reg EXCEPT !.max = gains.max]
  /\ pc' = IF reg'.max > 0 THEN "low" ELSE "weigh"
  /\ UNCHANGED <<terms, error, rate, receiver, calm, steps>>

LimitLow_Skipped ==
  /\ pc = "low"
  /\ pc' = "high"
  /\ UNCHANGED <<terms, sample, receiver, calm, steps>>
LimitLow ==
  /\ pc = "low"
  /\ \E m \in Reuse(reg.max, gains.max) : integral' = IF integral < -m THEN -m ELSE integral
  /\ pc' = "high"
  /\ UNCHANGED <<oi, od, output, sample, receiver, calm, steps>>

LimitHigh_Late ==
  /\ pc = "high"
  /\ \E m \in Reuse(reg.max, gains.max) : integral' = IF integral > m + 1 THEN m ELSE integral
  /\ pc' = "weigh"
  /\ UNCHANGED <<oi, od, output, sample, receiver, calm, steps>>
LimitHigh ==
  /\ pc = "high"
  /\ \E m \in Reuse(reg.max, gains.max) : integral' = IF integral > m THEN m ELSE integral
  /\ pc' = "weigh"
  /\ UNCHANGED <<oi, od, output, sample, receiver, calm, steps>>

Weigh ==
  /\ pc = "weigh"
  /\ \E k \in Reuse(reg.i, gains.i) : oi' = k * integral
  /\ pc' = "derive"
  /\ UNCHANGED <<integral, od, output, sample, receiver, calm, steps>>

\* A gain of zero leaves the old term in place.
Derive ==
  /\ pc = "derive"
  /\ od' = IF gains.d # 0 THEN gains.d * rate ELSE od
  /\ pc' = "output"
  /\ UNCHANGED <<integral, oi, output, sample, receiver, calm, steps>>

Output ==
  /\ pc = "output"
  /\ output' = Quot(gains.p * error + oi + od, 10)
  /\ pc' = "rest"
  /\ UNCHANGED <<integral, oi, od, sample, receiver, calm, steps>>

Step == \/ Integrate \/ ReadLimit \/ LimitLow \/ LimitHigh \/ Weigh \/ Derive \/ Output

\* The engines are off: land_pid().
Land_KeepsIntegral ==
  /\ pc = "rest" /\ Landed
  /\ oi' = 0 /\ od' = 0 /\ output' = 0 /\ error' = 0
  /\ calm' = TRUE /\ steps' = 0
  /\ UNCHANGED <<integral, rate, reg, pc, receiver>>
Land ==
  /\ pc = "rest" /\ Landed
  /\ integral' = 0 /\ oi' = 0 /\ od' = 0 /\ output' = 0 /\ error' = 0
  /\ calm' = TRUE /\ steps' = 0
  /\ UNCHANGED <<rate, reg, pc, receiver>>

-----------------------------------------------------------------------------
(* parse_pid_config(), in the receiver.                                    *)

Configure ==
  /\ stored = 4
  /\ config' \in Gains
  /\ stored' = 0
  /\ UNCHANGED <<gains, terms, sample, pc, calm, steps>>

StoreGain_OneMore ==
  /\ stored <= 4
  /\ stored' = stored + 1
  /\ calm' = FALSE
  /\ UNCHANGED <<gains, terms, sample, pc, config, steps>>
StoreGain ==
  /\ stored < 4
  /\ gains' = CASE stored = 0 -> [gains EXCEPT !.p = config.p]
                [] stored = 1 -> [gains EXCEPT !.i = config.i]
                [] stored = 2 -> [gains EXCEPT !.d = config.d]
                [] stored = 3 -> [gains EXCEPT !.max = config.max]
  /\ stored' = stored + 1
  /\ calm' = FALSE
  /\ UNCHANGED <<terms, sample, pc, config, steps>>

Next == Step \/ Land \/ Configure \/ StoreGain

Spec == Init /\ [][Next]_vars

-----------------------------------------------------------------------------
\* Every variable keeps its type.
TypeOK ==
  /\ gains \in GainRecord /\ config \in Gains /\ stored \in 0..4
  /\ {integral, oi, od, output, error, rate} \subseteq Int
  /\ reg \in [i : Int, max : Int]
  /\ pc \in {"rest", "limit", "low", "high", "weigh", "derive", "output"}
  /\ calm \in BOOLEAN /\ steps \in 0..2

\* A step that no configuration disturbed has computed the control law with
\* the gains in force, its integral within their Kimax, even if they are a
\* half stored frame's.  A gain of zero leaves its old term in the output, but
\* nothing older than the last landing (pid_int_fixed_delta, land_pid).
Term(gain, x, old) == IF gain # 0 THEN gain * x ELSE old
Law == Quot(gains.p * error + Term(gains.i, integral, oi) + Term(gains.d, rate, od), 10)
UndisturbedStep ==
  pc = "rest" /\ calm /\ steps > 0 =>
    /\ output = Law
    /\ gains.i # 0 /\ gains.max > 0 => integral \in (-gains.max)..gains.max
    /\ steps = 1 => (gains.i = 0 => oi = 0) /\ (gains.d = 0 => od = 0)

\* However configuration frames race with the loop, the integral is never left
\* beyond the largest Kimax anyone asked for, if all of them ask for one
\* (pid_int_fixed_delta, parse_pid_config).
Limited == \A g \in Gains : g.max > 0
NoWindup ==
  Limited /\ pc \notin {"limit", "low", "high"} =>
    \E g \in Gains : integral \in (-g.max)..g.max

\* The first step after the engines were off starts from an integral of zero:
\* nothing gathered on the ground or in an earlier flight is left (land_pid in
\* the main loop).
Size(x) == IF x < 0 THEN -x ELSE x
NoLegacy ==
  Landed /\ steps < 2 /\ (\A g \in Gains : g.max >= 0) => Size(integral) <= Size(error)

-----------------------------------------------------------------------------
(***************************************************************************)
(* What makes them inductive.                                              *)
(***************************************************************************)
Maxima == {g.max : g \in Gains}

WindupInv ==
  Limited =>
    /\ {gains.max, config.max} \subseteq Maxima
    /\ pc \in {"low", "high"} => reg.max \in Maxima
    /\ pc = "high" => \E m \in Maxima : integral >= -m
    /\ pc \notin {"limit", "low", "high"} => \E m \in Maxima : integral \in (-m)..m

\* The part of the law that is already computed, with the gains in force.
CalmInv ==
  calm /\ (pc = "rest" => steps > 0) =>
    /\ pc \in {"limit", "low", "high", "weigh"} => gains.i # 0 /\ reg.i = gains.i
    /\ pc \in {"low", "high"} => gains.max > 0 /\ reg.max = gains.max
    /\ pc = "high" => integral >= -gains.max
    /\ gains.max > 0 /\ (pc = "weigh" \/ (pc \in {"derive", "output", "rest"} /\ gains.i # 0)) =>
         integral \in (-gains.max)..gains.max
    /\ pc \in {"derive", "output"} /\ gains.i # 0 => oi = gains.i * integral
    /\ pc = "output" /\ gains.d # 0 => od = gains.d * rate
    /\ pc = "rest" => output = Law

\* Old terms of the steps since the last landing.
FreshInv ==
  /\ steps = 0 => pc = "rest" /\ oi = 0 /\ od = 0
  /\ steps = 1 /\ calm => (gains.i = 0 => oi = 0) /\ (gains.d = 0 => od = 0)

LegacyInv ==
  Landed /\ (\A g \in Gains : g.max >= 0) =>
    /\ gains.max >= 0 /\ config.max >= 0
    /\ pc \in {"low", "high"} => reg.max >= 0
    /\ steps = 0 => integral = 0
    /\ steps < 2 => Size(integral) <= Size(error)

=============================================================================
