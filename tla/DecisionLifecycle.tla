------------------------- MODULE DecisionLifecycle -------------------------
(***************************************************************************)
(* What the finance council promises of one submitted decision, without    *)
(* graph, agents or Redis: it is ruled on, then put under governance, then *)
(* logged, once each and in that order; a run that fails drops it where it *)
(* stands.                                                                 *)
(***************************************************************************)
CONSTANT Decisions

VARIABLE status

Stages == {"new", "open", "ruled", "governed", "logged", "dropped"}

TypeOK == status \in [Decisions -> Stages]

Init == status = [d \in Decisions |-> "new"]

\* The step of a decision that is open when it is submitted and moves forward.
Move(d, from, to) == status[d] = from /\ status' = [status EXCEPT ![d] = to]

Submit(d) == Move(d, "new", "open")
Rule(d) == Move(d, "open", "ruled")
Govern(d) == Move(d, "ruled", "governed")
Log(d) == Move(d, "governed", "logged")
Drop(d) == \E s \in {"open", "ruled", "governed"} : Move(d, s, "dropped")

Next == \E d \in Decisions : Submit(d) \/ Rule(d) \/ Govern(d) \/ Log(d) \/ Drop(d)

Spec == Init /\ [][Next]_status
=============================================================================
