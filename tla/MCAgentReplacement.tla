------------------------- MODULE MCAgentReplacement -------------------------
(***************************************************************************)
(* Small instances of AgentReplacement for TLC: two debates at once, a     *)
(* roster of two and histories that overflow.                              *)
(***************************************************************************)
EXTENDS AgentReplacement

CONSTANTS d1, d2, treasury, fpna

TwoDebates == {d1, d2}
TwoRoles == <<treasury, fpna>>
TwoScores == {40, 70}
=============================================================================
