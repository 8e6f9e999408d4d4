------------------------------ MODULE MCDebate ------------------------------
(***************************************************************************)
(* Small instances of Debate for TLC: a committee of Treasury and Risk     *)
(* (Risk carries more weight, so a split vote is no tie), a Tax specialist *)
(* operators may seat, and operators who force one round more or send a    *)
(* negative number.                                                        *)
(***************************************************************************)
EXTENDS Debate

CONSTANT o1

OneOperator == {o1}

ThreeRoles == {"treasury", "risk", "tax"}
Resolution == [n \in Names |-> n]
TwoSeats == <<"treasury", "risk">>
Weights == [s \in Roles |-> IF s = "risk" THEN 3 ELSE 2]
SupportOrOppose == {"support", "oppose"}
HalfOverride == {50}
OneMore == {-1, 1}
=============================================================================
