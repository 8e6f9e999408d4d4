-------------------------- MODULE MCPromotionGates --------------------------
(***************************************************************************)
(* Small instances of PromotionGates for TLC: the API and the command line *)
(* at once, one candidate, and scores that gain, hold or regress.          *)
(***************************************************************************)
EXTENDS PromotionGates

CONSTANTS api, cli, treasury

TwoCallers == {api, cli}
OneCandidate == {treasury}
TwoPoints == {50, 60}
TwoSizes == {1, 2}
=============================================================================
