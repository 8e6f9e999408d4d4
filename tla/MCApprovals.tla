---------------------------- MODULE MCApprovals ----------------------------
(***************************************************************************)
(* Small instances of Approvals for TLC: two requests about one topic, a   *)
(* route of two approvers, and step arguments that name a step by its      *)
(* sequence, by its role, and one that does not exist.                     *)
(***************************************************************************)
EXTENDS Approvals, TLC

CONSTANTS t1, t2, r1, r2

OneThread == {t1}
TwoThreads == {t1, t2}
TwoRequests == {r1, r2}

FirstAndSecondStep == {[seq |-> 1, role |-> 0], [seq |-> 0, role |-> 2]}
SameTopic == [r \in Requests |-> "renew vendor"]

FirstStep == {[seq |-> 1, role |-> 0], [seq |-> 0, role |-> 1]}
StepSelectors == {[seq |-> 1, role |-> 0], [seq |-> 0, role |-> 1],
                  [seq |-> 0, role |-> 2]}

ThreadSymmetry == Permutations(Threads)
=============================================================================
