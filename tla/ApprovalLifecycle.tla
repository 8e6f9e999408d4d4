------------------------- MODULE ApprovalLifecycle -------------------------
(***************************************************************************)
(* What the approvals service promises of one request, without handlers,   *)
(* documents or Redis: a request is created by the governance engine,      *)
(* moves only along the transition table of src/approvals.py, and is       *)
(* signed off only by a person, or by the system when its route asks for   *)
(* nobody.                                                                 *)
(*                                                                         *)
(*   status[r]  the ApprovalStatus of request r, "absent" before creation  *)
(*   signed[r]  a person has recorded a sign-off against r                 *)
(*   routed[r]  the request needs the sign-off of a person                 *)
(***************************************************************************)
CONSTANT Requests

VARIABLES status, signed, routed

vars == <<status, signed, routed>>

Statuses == {"draft", "pending_approval", "approved", "rejected",
             "conditionally_approved", "expired", "superseded"}

SignedOff == {"approved", "conditionally_approved"}

\* _VALID_TRANSITIONS and can_transition: the lifecycle guard, one row a line.
CanTransition(from, to) ==
    \/ from = to
    \/ from = "draft" /\ to \in Statuses
    \/ from = "pending_approval" /\ to \in Statuses \ {"draft"}
    \/ /\ from = "conditionally_approved"
       /\ to \in {"approved", "rejected", "expired", "superseded"}
    \/ from \in {"approved", "rejected"} /\ to = "superseded"
    \/ from = "expired" /\ to \in {"superseded", "pending_approval"}

TypeOK ==
    /\ status \in [Requests -> Statuses \cup {"absent"}]
    /\ signed \in [Requests -> BOOLEAN]
    /\ routed \in [Requests -> BOOLEAN]

Init ==
    /\ status = [r \in Requests |-> "absent"]
    /\ signed = [r \in Requests |-> FALSE]
    /\ routed = [r \in Requests |-> FALSE]

\* The engine stores a new request: a system approval only when nobody is routed.
Create(r) ==
    /\ status[r] = "absent"
    /\ \E s \in {"draft", "pending_approval", "rejected"} \cup SignedOff,
          human \in BOOLEAN :
          /\ s \in SignedOff => ~human
          /\ status' = [status EXCEPT ![r] = s]
          /\ routed' = [routed EXCEPT ![r] = human]
    /\ UNCHANGED signed

\* A person signs the request, or one step of its route.
SignOff(r) ==
    /\ status[r] \notin {"absent", "superseded"}
    /\ \E s \in Statuses \ {"superseded"} :
          /\ CanTransition(status[r], s)
          /\ status' = [status EXCEPT ![r] = s]
    /\ signed' = [signed EXCEPT ![r] = TRUE]
    /\ UNCHANGED routed

\* Everything else that may happen to a request: it never produces an approval
\* nobody signed.
Move(r) ==
    /\ status[r] # "absent"
    /\ \E s \in Statuses :
          /\ CanTransition(status[r], s)
          /\ s \in SignedOff => s = status[r] \/ signed[r]
          /\ status' = [status EXCEPT ![r] = s]
    /\ UNCHANGED <<signed, routed>>

Next == \E r \in Requests : Create(r) \/ SignOff(r) \/ Move(r)

Spec == Init /\ [][Next]_vars

\* The sign-off rule of the service: an approved request was signed by a person
\* unless its route asked for nobody.
ApprovedOnlyBySignOff ==
    \A r \in Requests : status[r] \in SignedOff => signed[r] \/ ~routed[r]
=============================================================================
