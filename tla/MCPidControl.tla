---------------------------- MODULE MCPidControl ----------------------------
(* Gains for model checking PidControl. *)
EXTENDS PidControl

Gain(p, i, d, max) == [p |-> p, i |-> i, d |-> d, max |-> max]

\* The defaults of a rate controller in small; a frame that drops the integral
\* and narrows the limit; one that drops the derivative and widens it.
MCDefault == Gain(2, 3, 4, 2)
MCGains == {MCDefault, Gain(3, 0, 5, 1), Gain(2, 4, 0, 3)}

MCErrors == {-2, 1}
MCRates == {-1, 2}
=============================================================================
