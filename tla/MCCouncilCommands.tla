------------------------- MODULE MCCouncilCommands -------------------------
(***************************************************************************)
(* Small instances of CouncilCommands for TLC: three commands that between *)
(* them can be of every kind, two of which may wait for a model at once,   *)
(* beside one debate and one demo reset.                                   *)
(***************************************************************************)
EXTENDS CouncilCommands, TLC

CONSTANTS c1, c2, c3, d1

ThreeCommands == {c1, c2, c3}
ThreeKinds == (c1 :> {"ask", "pin"}) @@ (c2 :> {"ask", "scenario", "pause"})
                  @@ (c3 :> {"resume", "export"})
OneDebate == {d1}
LostSaves == {"set"}
=============================================================================
