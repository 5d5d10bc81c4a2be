--------------------------- MODULE LatestCommand ---------------------------
(***************************************************************************)
(* What the web console promises one operator: each command is obeyed at   *)
(* most once, as it was given and in the order given; some may be skipped. *)
(***************************************************************************)
EXTENDS Naturals, Sequences

CONSTANT Texts

VARIABLES
  given,    \* the commands given
  obeyed    \* which of them were obeyed, and as what

vars == <<given, obeyed>>

Latest == IF obeyed = <<>> THEN 0 ELSE obeyed[Len(obeyed)].number

Init == given = <<>> /\ obeyed = <<>>

Give ==
  /\ \E t \in Texts : given' = Append(given, t)
  /\ obeyed' = obeyed

Obey ==
  /\ \E n \in 1..Len(given) :
       n > Latest /\ obeyed' = Append(obeyed, [number |-> n, text |-> given[n]])
  /\ given' = given

Next == Give \/ Obey

Spec == Init /\ [][Next]_vars

=============================================================================
