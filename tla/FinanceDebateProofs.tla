------------------------ MODULE FinanceDebateProofs ------------------------
(***************************************************************************)
(* Theorems of FinanceDebate, with their proofs.                           *)
(*                                                                         *)
(* A graph state outlives its decision, and a node writes only its own     *)
(* keys.  So the invariant says, node by node, which keys are of the       *)
(* decision at hand and which still may be of an earlier one (Progress),   *)
(* that two threads never work on one decision (Apart), and that nobody    *)
(* works on what is logged (Logged).  The properties of the stream follow, *)
(* and so does the status of a decision in DecisionLifecycle, which moves  *)
(* with the one thread at work on it.                                      *)
(*                                                                         *)
(* The snapshot needs more: which of the other keys are of the decision at *)
(* hand (KeysAt), that the committee starts from nothing and ends with     *)
(* every analyst accounted for (CommitteeAt), and, while it is at work,    *)
(* that an analyst is thinking exactly until it has a position (LiveFits). *)
(***************************************************************************)
EXTENDS FinanceDebate, SequenceTheorems, TLAPS

\* The nodes after the ruling, and after governance.
Ruled == {"governance", "reliability", "self_improvement", "persist"}
Governed == {"reliability", "self_improvement", "persist"}

----------------------------------------------------------------------------
(***************************************************************************)
(* The edges.                                                              *)
(***************************************************************************)
LEMMA SuccessorIs ==
    ASSUME NEW i \in 1..10
    PROVE  Successor(Graph[i]) = Graph[i + 1]
<1>1. DOMAIN Graph = 1..11
  BY DEF Graph
<1>2. \A j \in 1..11 : Graph[j] = Graph[i] => j = i
  BY DEF Graph
<1>3. (CHOOSE j \in DOMAIN Graph : Graph[j] = Graph[i]) = i
  BY <1>1, <1>2
<1>4. Graph[i] # "persist"
  BY DEF Graph
<1> QED
  BY <1>3, <1>4 DEF Successor

LEMMA Edges ==
    /\ Successor("intake") = "planner"
    /\ Successor("planner") = "committee_parallel"
    /\ Successor("committee_parallel") = "challenge"
    /\ Successor("challenge") = "debate"
    /\ Successor("debate") = "influence"
    /\ Successor("influence") = "synthesis"
    /\ Successor("synthesis") = "governance"
    /\ Successor("governance") = "reliability"
    /\ Successor("reliability") = "self_improvement"
    /\ Successor("self_improvement") = "persist"
    /\ Successor("persist") = "idle"
<1>1. /\ Graph[1] = "intake" /\ Graph[2] = "planner" /\ Graph[3] = "committee_parallel"
      /\ Graph[4] = "challenge" /\ Graph[5] = "debate" /\ Graph[6] = "influence"
      /\ Graph[7] = "synthesis" /\ Graph[8] = "governance" /\ Graph[9] = "reliability"
      /\ Graph[10] = "self_improvement" /\ Graph[11] = "persist"
  BY DEF Graph
<1>2. \A i \in 1..10 : Successor(Graph[i]) = Graph[i + 1]
  BY SuccessorIs
<1>3. Successor("persist") = "idle"
  BY DEF Successor
<1> QED
  BY <1>1, <1>2, <1>3

LEMMA NodeNames ==
    Nodes = {"intake", "planner", "committee_parallel", "challenge", "debate", "influence",
             "synthesis", "governance", "reliability", "self_improvement", "persist"}
  BY DEF Nodes, Graph

----------------------------------------------------------------------------
(***************************************************************************)
(* Types.                                                                  *)
(***************************************************************************)
LEMMA TypeInit == Init => TypeOK
<1> SUFFICES ASSUME Init PROVE TypeOK
  OBVIOUS
<1>1. EmptyState \in DebateState /\ EmptyState.decision = 0
  BY BoundsAssumption DEF BoundsAssumption, EmptyState, DebateState, Tags, Rulings, Governances
<1>2. NoCouncil \in [stage : [Roles -> Stages], positions : SUBSET Positions,
                     transcript : SUBSET Turns]
  BY DEF NoCouncil, Stages
<1>3. submitted \in Tags /\ faults \in 0..MaxFaults /\ 0 \in 0..MaxPolls
  BY BoundsAssumption DEF Init, BoundsAssumption, Tags
<1>4. /\ node \in [Threads -> Nodes \cup {"idle"}]
      /\ step \in [Threads -> {"enter", "held", "work"}]
      /\ polls \in [Threads -> 0..MaxPolls]
      /\ paused \in BOOLEAN /\ ready \in BOOLEAN
  BY <1>3 DEF Init
<1>5. requests \subseteq Decisions /\ warned \subseteq Decisions /\ log \in Seq(LogEntries)
  BY DEF Init
<1>6. st \in [Threads -> DebateState] /\ latest \in DebateState
  BY <1>1 DEF Init
<1>7. live \in [Threads -> [stage : [Roles -> Stages], positions : SUBSET Positions,
                           transcript : SUBSET Turns]]
  BY <1>2 DEF Init
<1> QED
  BY <1>3, <1>4, <1>5, <1>6, <1>7 DEF TypeOK

\* A turn of the transcript.
LEMMA TurnType ==
    ASSUME NEW d \in Decisions, NEW r \in Roles,
           NEW kind \in {"framing", "challenge", "rebuttal", "influence", "decision",
                         "governance", "reliability"}
    PROVE  /\ Turn(d, kind) \in Turns /\ Thinking(d, r) \in Turns
           /\ [of |-> d, kind |-> "position", by |-> r] \in Turns
  BY DEF Turn, Thinking, Turns

\* A node that returns a state of the right type.
LEMMA ReturnType ==
    ASSUME TypeOK, NEW t \in Threads, node[t] # "idle", NEW s \in DebateState, Return(t, s)
    PROVE  /\ node' \in [Threads -> Nodes \cup {"idle"}]
           /\ step' \in [Threads -> {"enter", "held", "work"}]
           /\ polls' \in [Threads -> 0..MaxPolls]
           /\ st' \in [Threads -> DebateState]
           /\ submitted' \in Tags /\ ready' \in BOOLEAN
<1>1. node[t] \in Nodes
  BY DEF TypeOK
<1>2. Successor(node[t]) \in Nodes \cup {"idle"}
  BY <1>1, NodeNames, Edges
<1> QED
  BY <1>2 DEF Return, TypeOK

\* Failures are counted up to their bound.
LEMMA OutcomeType ==
    ASSUME TypeOK, NEW ok \in BOOLEAN, CanFail(ok), Outcome(ok)
    PROVE  faults' \in 0..MaxFaults
  BY BoundsAssumption DEF TypeOK, CanFail, Outcome, BoundsAssumption

LEMMA FaultType ==
    ASSUME TypeOK, faults < MaxFaults
    PROVE  faults + 1 \in 0..MaxFaults
  BY BoundsAssumption DEF TypeOK, BoundsAssumption

\* The thread at work has a decision.
HasDecision == \A t \in Threads : node[t] # "idle" => st[t].decision \in 1..submitted

LEMMA DecisionType ==
    ASSUME TypeOK, HasDecision, NEW t \in Threads, node[t] # "idle"
    PROVE  st[t].decision \in Decisions
<1>1. st[t].decision \in 1..submitted /\ submitted \in 0..MaxDecisions
  BY DEF TypeOK, HasDecision, Tags
<1> QED
  BY <1>1, BoundsAssumption DEF Decisions, BoundsAssumption

LEMMA TypeSubmit ==
    ASSUME TypeOK, NEW t \in Threads, Submit(t)
    PROVE  TypeOK'
<1>1. submitted' \in Tags /\ "intake" \in Nodes
  BY BoundsAssumption, NodeNames DEF Submit, TypeOK, Tags, BoundsAssumption
<1>2. st' \in [Threads -> DebateState]
  BY <1>1 DEF Submit, TypeOK, DebateState
<1> QED
  BY <1>1, <1>2 DEF Submit, TypeOK, store

LEMMA TypeSurroundings ==
    ASSUME TypeOK, TogglePause \/ SponsorsFail \/ SponsorsRecover
    PROVE  TypeOK'
<1>1. CASE TogglePause
  BY <1>1 DEF TogglePause, TypeOK, store
<1>2. CASE SponsorsFail
  <2>1. faults' \in 0..MaxFaults
    BY <1>2, FaultType DEF SponsorsFail
  <2> QED
    BY <1>2, <2>1 DEF SponsorsFail, TypeOK, store
<1>3. CASE SponsorsRecover
  BY <1>3 DEF SponsorsRecover, TypeOK, store
<1> QED
  BY <1>1, <1>2, <1>3

LEMMA TypeMoves ==
    ASSUME TypeOK, NEW t \in Threads,
           Enter(t) \/ Abort(t) \/ Poll(t) \/ Release(t) \/ Raises(t)
    PROVE  TypeOK'
<1>1. CASE Enter(t)
  BY <1>1, BoundsAssumption DEF Enter, TypeOK, store, BoundsAssumption
<1>2. CASE Abort(t)
  BY <1>2 DEF Abort, TypeOK, store
<1>3. CASE Poll(t)
  BY <1>3, BoundsAssumption DEF Poll, TypeOK, store, BoundsAssumption
<1>4. CASE Release(t)
  BY <1>4 DEF Release, TypeOK, store
<1>5. CASE Raises(t)
  BY <1>5, BoundsAssumption DEF Raises, TypeOK, store, BoundsAssumption
<1> QED
  BY <1>1, <1>2, <1>3, <1>4, <1>5

LEMMA TypeCommittee ==
    ASSUME TypeOK, HasDecision, NEW t \in Threads, Committee(t)
    PROVE  TypeOK'
<1>0. node[t] # "idle" /\ st[t].decision \in Decisions
  <2>1. node[t] = "committee_parallel"
    BY DEF Committee, CommitteeOpens, CommitteeCloses, AnalystAnswers, AnalystRaises, At
  <2> QED
    BY <2>1, DecisionType
<1> DEFINE Live == [stage : [Roles -> Stages], positions : SUBSET Positions,
                    transcript : SUBSET Turns]
<1>1. CASE CommitteeOpens(t)
  <2>1. /\ st[t].positions \in SUBSET Positions
        /\ st[t].transcript \cup {Thinking(st[t].decision, r) : r \in Roles} \in SUBSET Turns
    BY <1>0, TurnType DEF TypeOK, DebateState
  <2>2. live' \in [Threads -> Live]
    BY <1>1, <2>1 DEF CommitteeOpens, TypeOK, Stages
  <2> QED
    BY <1>1, <2>2 DEF CommitteeOpens, TypeOK, store
<1>2. CASE CommitteeCloses(t)
  <2>1. [st[t] EXCEPT !.positions = live[t].positions, !.transcript = live[t].transcript]
            \in DebateState
    BY DEF TypeOK, DebateState
  <2>2. NoCouncil \in Live
    BY DEF NoCouncil, Stages
  <2>3. live' \in [Threads -> Live]
    BY <1>2, <2>2 DEF CommitteeCloses, TypeOK
  <2> QED
    BY <1>0, <1>2, <2>1, <2>3, ReturnType DEF CommitteeCloses, TypeOK, store
<1>3. ASSUME NEW r \in Roles, AnalystAnswers(t, r) PROVE TypeOK'
  <2>1. PICK ok \in BOOLEAN :
          /\ CanFail(ok) /\ Outcome(ok)
          /\ live' = [live EXCEPT
                ![t].stage[r] = "recorded",
                ![t].positions = Recorded(t, [of |-> st[t].decision, role |-> r, ok |-> ok]),
                ![t].transcript = {x \in @ : ~(x.kind = "thinking" /\ x.by = r)}
                                  \cup {[of |-> st[t].decision, kind |-> "position", by |-> r]}]
    BY <1>3 DEF AnalystAnswers
  <2> DEFINE P == Recorded(t, [of |-> st[t].decision, role |-> r, ok |-> ok])
             T == {x \in live[t].transcript : ~(x.kind = "thinking" /\ x.by = r)}
                    \cup {[of |-> st[t].decision, kind |-> "position", by |-> r]}
  <2>2. P \in SUBSET Positions /\ T \in SUBSET Turns
    BY <1>0, TurnType DEF TypeOK, Recorded, Positions
  <2>5. live[t] \in Live /\ live \in [Threads -> Live]
    BY DEF TypeOK
  <2>6. [live[t] EXCEPT !.stage[r] = "recorded"] \in Live
    BY <2>5 DEF Stages
  <2>7. [live[t] EXCEPT !.stage[r] = "recorded", !.positions = P, !.transcript = T] \in Live
    <3> HIDE DEF P, T
    <3> QED
      BY <2>2, <2>5, <2>6 DEF Stages
  <2>8. live' = [live EXCEPT ![t] = [live[t] EXCEPT !.stage[r] = "recorded", !.positions = P,
                                                    !.transcript = T]]
    BY <2>1, <2>5
  <2>3. live' \in [Threads -> Live]
    BY <2>5, <2>7, <2>8
  <2>4. faults' \in 0..MaxFaults
    BY <2>1, OutcomeType
  <2> QED
    BY <1>3, <2>3, <2>4 DEF AnalystAnswers, TypeOK, store
<1>4. ASSUME NEW r \in Roles, AnalystRaises(t, r) PROVE TypeOK'
  <2>1. live' \in [Threads -> Live]
    BY <1>4 DEF AnalystRaises, TypeOK, Stages
  <2> QED
    BY <1>4, <2>1, FaultType DEF AnalystRaises, TypeOK, store
<1> QED
  BY <1>1, <1>2, <1>3, <1>4 DEF Committee

----------------------------------------------------------------------------
(***************************************************************************)
(* What a node makes of the state of its thread.                           *)
(***************************************************************************)
\* What governance and the log see of a node that returns state s: it is of the
\* same decision, and only intake and synthesis touch the ruling.
Carries(t, s) ==
    /\ node[t] \in Nodes \ {"governance", "persist"}
    /\ Return(t, s)
    /\ s \in DebateState
    /\ s.decision = st[t].decision
    /\ s.governance = st[t].governance
    /\ s.recommendation.of = CASE node[t] = "intake" -> 0
                               [] node[t] = "synthesis" -> st[t].decision
                               [] OTHER -> st[t].recommendation.of

LEMMA NodeCarries ==
    ASSUME TypeOK, HasDecision, NEW t \in Threads,
           \/ Intake(t) \/ Planner(t) \/ CommitteeCloses(t) \/ Challenge(t) \/ CrossExamine(t)
           \/ Influence(t) \/ Synthesis(t) \/ Reliability(t) \/ SelfImprovement(t)
    PROVE  /\ \E s : Carries(t, s)
           /\ paused' \in BOOLEAN /\ faults' \in 0..MaxFaults
           /\ UNCHANGED store
<1>0. node[t] \in Nodes \ {"governance", "persist"}
  BY NodeNames DEF Intake, Planner, CommitteeCloses, Challenge, CrossExamine, Influence,
                   Synthesis, Reliability, SelfImprovement, At
<1>1. st[t] \in DebateState /\ node[t] # "idle"
  BY <1>0, NodeNames DEF TypeOK
<1>2. st[t].decision \in Decisions /\ st[t].decision \in Tags /\ 0 \in Tags
  BY <1>1, DecisionType, BoundsAssumption DEF Decisions, Tags, BoundsAssumption
<1> DEFINE d == st[t].decision
<1>3. \A kind \in {"framing", "challenge", "rebuttal", "influence", "decision", "governance",
                   "reliability"} : Turn(d, kind) \in Turns
  BY <1>2 DEF Turn, Turns
<1>4. CASE Intake(t)
  <2>1. /\ FreshState(st[t]) \in DebateState
        /\ FreshState(st[t]).decision = d
        /\ FreshState(st[t]).governance = st[t].governance
        /\ FreshState(st[t]).recommendation.of = 0
    BY <1>1, <1>2, <1>3 DEF FreshState, EmptyState, DebateState, Rulings
  <2>2. Carries(t, FreshState(st[t]))
    BY <1>0, <1>4, <2>1 DEF Intake, At, Carries
  <2> QED
    BY <1>4, <2>2 DEF Intake, TypeOK
<1>5. CASE Planner(t)
  <2>1. PICK ok \in BOOLEAN : CanFail(ok) /\ Outcome(ok) /\ Return(t, [st[t] EXCEPT !.plan = d])
    BY <1>5 DEF Planner
  <2>2. Carries(t, [st[t] EXCEPT !.plan = d])
    BY <1>0, <1>1, <1>2, <1>5, <2>1 DEF Planner, At, Carries, DebateState
  <2> QED
    BY <1>5, <2>1, <2>2, OutcomeType DEF Planner, TypeOK
<1>6. CASE CommitteeCloses(t)
  <2> DEFINE s == [st[t] EXCEPT !.positions = live[t].positions,
                                !.transcript = live[t].transcript]
  <2>1. s \in DebateState
    BY <1>1 DEF TypeOK, DebateState
  <2>2. Carries(t, s)
    BY <1>0, <1>1, <1>6, <2>1 DEF CommitteeCloses, At, Carries, DebateState
  <2> QED
    BY <1>6, <2>2 DEF CommitteeCloses, TypeOK
<1>7. CASE Challenge(t)
  <2>1. PICK ok \in BOOLEAN :
            /\ CanFail(ok) /\ Outcome(ok)
            /\ Return(t, [st[t] EXCEPT !.report = d,
                  !.transcript = IF ok THEN @ \cup {Turn(d, "challenge")} ELSE @])
    BY <1>7 DEF Challenge
  <2>2. Carries(t, [st[t] EXCEPT !.report = d,
                        !.transcript = IF ok THEN @ \cup {Turn(d, "challenge")} ELSE @])
    BY <1>0, <1>1, <1>2, <1>3, <1>7, <2>1 DEF Challenge, At, Carries, DebateState
  <2> QED
    BY <1>7, <2>1, <2>2, OutcomeType DEF Challenge, TypeOK
<1>8. CASE CrossExamine(t)
  <2>1. PICK ok \in BOOLEAN :
            /\ CanFail(ok) /\ Outcome(ok)
            /\ Return(t, [st[t] EXCEPT
                  !.transcript = IF ok THEN @ \cup {Turn(d, "rebuttal")} ELSE @])
    BY <1>8 DEF CrossExamine
  <2>2. Carries(t, [st[t] EXCEPT !.transcript = IF ok THEN @ \cup {Turn(d, "rebuttal")} ELSE @])
    BY <1>0, <1>1, <1>2, <1>3, <1>8, <2>1 DEF CrossExamine, At, Carries, DebateState
  <2> QED
    BY <1>8, <2>1, <2>2, OutcomeType DEF CrossExamine, TypeOK
<1>9. CASE Influence(t)
  <2>1. PICK ok \in BOOLEAN :
            /\ CanFail(ok) /\ Outcome(ok)
            /\ Return(t, [st[t] EXCEPT !.influence = d,
                              !.transcript = @ \cup {Turn(d, "influence")}])
    BY <1>9 DEF Influence
  <2>2. Carries(t, [st[t] EXCEPT !.influence = d, !.transcript = @ \cup {Turn(d, "influence")}])
    BY <1>0, <1>1, <1>2, <1>3, <1>9, <2>1 DEF Influence, At, Carries, DebateState
  <2> QED
    BY <1>9, <2>1, <2>2, OutcomeType DEF Influence, TypeOK
<1>10. CASE Synthesis(t)
  <2>1. PICK ok \in BOOLEAN, memo \in BOOLEAN :
            /\ CanFail(ok) /\ Outcome(ok)
            /\ Return(t, [st[t] EXCEPT !.recommendation = [of |-> d, ok |-> ok],
                              !.memo = IF memo THEN d ELSE 0,
                              !.transcript = @ \cup {Turn(d, "decision")}])
    BY <1>10 DEF Synthesis
  <2> DEFINE s == [st[t] EXCEPT !.recommendation = [of |-> d, ok |-> ok],
                              !.memo = IF memo THEN d ELSE 0,
                              !.transcript = @ \cup {Turn(d, "decision")}]
  <2>2. [of |-> d, ok |-> ok] \in Rulings
    BY <1>2 DEF Rulings
  <2>3. /\ s \in DebateState /\ s.decision = d /\ s.governance = st[t].governance
        /\ s.recommendation = [of |-> d, ok |-> ok]
    BY <1>1, <1>2, <1>3, <2>2 DEF DebateState
  <2>4. s.recommendation.of = d
    BY <2>3
  <2> HIDE DEF s
  <2>5. Carries(t, s)
    BY <1>0, <1>10, <2>1, <2>3, <2>4 DEF Synthesis, At, Carries, s
  <2> QED
    BY <1>10, <2>1, <2>5, OutcomeType DEF Synthesis, TypeOK
<1>11. CASE Reliability(t)
  <2>1. Carries(t, [st[t] EXCEPT !.scores = d, !.transcript = @ \cup {Turn(d, "reliability")}])
    BY <1>0, <1>1, <1>2, <1>3, <1>11 DEF Reliability, At, Carries, DebateState
  <2> QED
    BY <1>11, <2>1 DEF Reliability, TypeOK
<1>12. CASE SelfImprovement(t)
  <2>1. Carries(t, st[t])
    BY <1>0, <1>1, <1>12 DEF SelfImprovement, At, Carries
  <2> QED
    BY <1>12, <2>1 DEF SelfImprovement, TypeOK
<1> QED
  BY <1>4, <1>5, <1>6, <1>7, <1>8, <1>9, <1>10, <1>11, <1>12

\* Governance: the request is stored, or the state says that it failed.
Governs(t, s) ==
    /\ node[t] = "governance"
    /\ Return(t, s)
    /\ s \in DebateState
    /\ s.decision = st[t].decision
    /\ s.recommendation = st[t].recommendation
    /\ s.governance.of = s.decision
    /\ requests \subseteq requests'
    /\ requests' \subseteq requests \cup {s.decision}
    /\ s.governance.status = "governed" => s.decision \in requests'

LEMMA GovernanceGoverns ==
    ASSUME TypeOK, HasDecision, NEW t \in Threads, Governance(t)
    PROVE  /\ \E s : Governs(t, s)
           /\ paused' = paused /\ live' = live /\ faults' \in 0..MaxFaults
           /\ UNCHANGED <<latest, log, warned>>
<1> DEFINE d == st[t].decision
<1>1. PICK ok \in BOOLEAN, stored \in BOOLEAN :
          /\ CanFail(ok) /\ Outcome(ok)
          /\ ok => stored
          /\ requests' = IF stored THEN requests \cup {d} ELSE requests
          /\ Return(t, [st[t] EXCEPT
                !.governance = IF ok THEN [of |-> d, status |-> "governed"]
                               ELSE GovernanceFailed(st[t]),
                !.transcript = IF ok THEN @ \cup {Turn(d, "governance")} ELSE @])
  BY DEF Governance
<1> DEFINE g == IF ok THEN [of |-> d, status |-> "governed"] ELSE GovernanceFailed(st[t])
           s == [st[t] EXCEPT !.governance = g,
                              !.transcript = IF ok THEN @ \cup {Turn(d, "governance")} ELSE @]
<1>2. node[t] = "governance" /\ st[t] \in DebateState
  BY DEF Governance, At, TypeOK
<1>3. d \in Decisions /\ d \in Tags
  BY <1>2, DecisionType, BoundsAssumption DEF Decisions, Tags, BoundsAssumption
<1>4. g \in Governances /\ g.of = d /\ (g.status = "governed" => ok)
  BY <1>3 DEF GovernanceFailed, Governances
<1>5. Turn(d, "governance") \in Turns
  BY <1>3 DEF Turn, Turns
<1> HIDE DEF g
<1>6. /\ s \in DebateState /\ s.decision = d /\ s.governance = g
      /\ s.recommendation = st[t].recommendation
  BY <1>2, <1>4, <1>5 DEF DebateState
<1>7. Return(t, s)
  BY <1>1 DEF g
<1> HIDE DEF s
<1>8. Governs(t, s)
  BY <1>1, <1>2, <1>4, <1>6, <1>7 DEF Governs
<1> QED
  BY <1>1, <1>8, OutcomeType DEF Governance

\* Persisting: the snapshot, then the event, each if what comes before it did
\* not fail, and a warning if anything did.
Persists(t) ==
    /\ node[t] = "persist"
    /\ st' = st
    /\ node' = [node EXCEPT ![t] = "idle"]
    /\ submitted' = submitted /\ requests' = requests
    /\ \/ /\ latest' = latest /\ log' = log /\ warned' = warned \cup {st[t].decision}
       \/ /\ latest' = st[t] /\ log' = log /\ warned' = warned \cup {st[t].decision}
       \/ /\ latest' = st[t] /\ log' = Append(log, Entry(st[t]))
          /\ warned' \in {warned, warned \cup {st[t].decision}}

LEMMA PersistPersists ==
    ASSUME TypeOK, NEW t \in Threads, Persist(t)
    PROVE  Persists(t)
<1>1. node[t] = "persist" /\ Successor(node[t]) = "idle" /\ st \in [Threads -> DebateState]
  BY Edges DEF Persist, At, TypeOK
<1>2. PICK done \in 0..3 :
          /\ Persisted(st[t], done)
          /\ warned' = IF done = 3 THEN warned ELSE warned \cup {st[t].decision}
  BY DEF Persist
<1>3. st' = st
  BY <1>1 DEF Persist, Return
<1>4. node' = [node EXCEPT ![t] = "idle"] /\ submitted' = submitted /\ requests' = requests
  BY <1>1 DEF Persist, Return
<1>5. CASE done = 0
  BY <1>1, <1>2, <1>3, <1>4, <1>5 DEF Persisted, Persists
<1>6. CASE done = 1
  BY <1>1, <1>2, <1>3, <1>4, <1>6 DEF Persisted, Persists
<1>7. CASE done \in 2..3
  BY <1>1, <1>2, <1>3, <1>4, <1>7 DEF Persisted, Persists
<1> QED
  BY <1>5, <1>6, <1>7

LEMMA TypeStep ==
    ASSUME TypeOK, HasDecision, [Next]_vars
    PROVE  TypeOK'
<1>1. ASSUME NEW t \in Threads, Submit(t) PROVE TypeOK'
  BY <1>1, TypeSubmit
<1>2. ASSUME TogglePause \/ SponsorsFail \/ SponsorsRecover PROVE TypeOK'
  BY <1>2, TypeSurroundings
<1>3. ASSUME NEW t \in Threads, Enter(t) \/ Abort(t) \/ Poll(t) \/ Release(t) \/ Raises(t)
      PROVE  TypeOK'
  BY <1>3, TypeMoves
<1>4. ASSUME NEW t \in Threads, Committee(t) PROVE TypeOK'
  BY <1>4, TypeCommittee
<1>5. ASSUME NEW t \in Threads,
             \/ Intake(t) \/ Planner(t) \/ Challenge(t) \/ CrossExamine(t)
             \/ Influence(t) \/ Synthesis(t) \/ Reliability(t) \/ SelfImprovement(t)
      PROVE  TypeOK'
  <2>1. PICK s : Carries(t, s)
    BY <1>5, NodeCarries
  <2>2. paused' \in BOOLEAN /\ faults' \in 0..MaxFaults /\ UNCHANGED store
    BY <1>5, NodeCarries
  <2>3. live' = live
    BY <1>5 DEF Intake, Planner, Challenge, CrossExamine, Influence, Synthesis, Reliability,
                SelfImprovement
  <2>4. node[t] # "idle" /\ s \in DebateState /\ Return(t, s)
    BY <2>1, NodeNames DEF Carries
  <2> QED
    BY <2>2, <2>3, <2>4, ReturnType DEF TypeOK, store
<1>6. ASSUME NEW t \in Threads, Governance(t) PROVE TypeOK'
  <2>1. PICK s : Governs(t, s)
    BY <1>6, GovernanceGoverns
  <2>2. /\ live' = live /\ paused' = paused /\ faults' \in 0..MaxFaults
        /\ UNCHANGED <<latest, log, warned>>
    BY <1>6, GovernanceGoverns
  <2>3. node[t] # "idle" /\ s \in DebateState /\ Return(t, s)
    BY <2>1 DEF Governs
  <2>4. s.decision \in Decisions
    BY <2>1, <2>3, DecisionType DEF Governs
  <2>5. requests' \subseteq Decisions
    BY <2>1, <2>4 DEF Governs, TypeOK
  <2> QED
    BY <2>2, <2>3, <2>5, ReturnType DEF TypeOK
<1>7. ASSUME NEW t \in Threads, Persist(t) PROVE TypeOK'
  <2>1. Persists(t)
    BY <1>7, PersistPersists
  <2>2. /\ node[t] # "idle" /\ st[t] \in DebateState /\ Return(t, st[t])
        /\ live' = live /\ paused' = paused
    BY <1>7 DEF Persist, At, TypeOK
  <2>3. st[t].decision \in Decisions
    BY <2>2, DecisionType
  <2>4. Entry(st[t]) \in LogEntries
    BY <2>2, <2>3 DEF Entry, LogEntries, DebateState, Rulings
  <2>5. log' \in Seq(LogEntries) /\ latest' \in DebateState /\ warned' \subseteq Decisions
    <3>1. log \in Seq(LogEntries) /\ latest \in DebateState /\ warned \subseteq Decisions
      BY DEF TypeOK
    <3>2. Append(log, Entry(st[t])) \in Seq(LogEntries)
      BY <2>4, <3>1
    <3> QED
      BY <2>1, <2>2, <2>3, <3>1, <3>2 DEF Persists
  <2>6. faults' \in 0..MaxFaults
    <3>1. PICK done \in 0..3 : CanFail(done = 3) /\ Outcome(done = 3)
      BY <1>7 DEF Persist
    <3> QED
      BY <3>1, OutcomeType
  <2>7. requests' = requests
    BY <2>1 DEF Persists
  <2> QED
    BY <2>2, <2>5, <2>6, <2>7, ReturnType DEF TypeOK
<1>8. CASE UNCHANGED vars
  BY <1>8 DEF vars, TypeOK
<1> QED
  BY <1>1, <1>2, <1>3, <1>4, <1>5, <1>6, <1>7, <1>8 DEF Next, Run

----------------------------------------------------------------------------
(***************************************************************************)
(* The invariant.                                                          *)
(***************************************************************************)
\* No two threads work on one decision.
Apart ==
    \A t, u \in Threads :
        t # u /\ node[t] # "idle" /\ node[u] # "idle" => st[t].decision # st[u].decision

\* Nothing in a graph state is of a decision yet to be submitted.
Known ==
    \A t \in Threads : st[t].recommendation.of <= submitted /\ st[t].governance.of <= submitted

\* The ruling and the governance are of the decision exactly from the node on that
\* makes them: what an earlier decision left there is not taken for them.
Progress ==
    \A t \in Threads : node[t] # "idle" =>
        /\ st[t].recommendation.of = st[t].decision <=> node[t] \in Ruled
        /\ st[t].governance.of = st[t].decision <=> node[t] \in Governed
        /\ node[t] \in Governed /\ st[t].governance.status = "governed" =>
               st[t].decision \in requests

\* What is logged was submitted, and nobody works on it any more.
Logged ==
    \A i \in 1..Len(log) :
        /\ log[i].decision <= submitted
        /\ \A t \in Threads : node[t] # "idle" => log[i].decision # st[t].decision

CouncilInv ==
    TypeOK /\ HasDecision /\ Apart /\ Known /\ Progress /\ Logged /\ LogTellsTheDebate

\* The numbers the invariant compares.
LEMMA Numbers ==
    ASSUME TypeOK
    PROVE  /\ submitted \in Nat
           /\ \A t \in Threads :
                 /\ st[t].decision \in Nat
                 /\ st[t].recommendation.of \in Nat /\ st[t].governance.of \in Nat
           /\ Len(log) \in Nat
           /\ \A i \in 1..Len(log) : log[i].decision \in Nat
<1>1. submitted \in Nat
  BY BoundsAssumption DEF TypeOK, Tags, BoundsAssumption
<1>2. \A t \in Threads : st[t].decision \in Tags /\ st[t].recommendation \in Rulings
                         /\ st[t].governance \in Governances
  BY DEF TypeOK, DebateState
<1>3. \A t \in Threads : st[t].recommendation.of \in Tags /\ st[t].governance.of \in Tags
  BY <1>2 DEF Rulings, Governances
<1>4. \A x \in Tags : x \in Nat
  BY BoundsAssumption DEF Tags, BoundsAssumption
<1>5. log \in Seq(LogEntries)
  BY DEF TypeOK
<1>6. \A i \in 1..Len(log) : log[i].decision \in Decisions
  <2>1. \A i \in 1..Len(log) : log[i] \in LogEntries
    BY <1>5
  <2> QED
    BY <2>1 DEF LogEntries
<1>7. \A x \in Decisions : x \in Nat
  BY BoundsAssumption DEF Decisions, BoundsAssumption
<1> QED
  BY <1>1, <1>2, <1>3, <1>4, <1>5, <1>6, <1>7

LEMMA CouncilInit == Init => CouncilInv
<1> SUFFICES ASSUME Init PROVE CouncilInv
  OBVIOUS
<1>1. HasDecision /\ Apart /\ Progress
  BY DEF Init, HasDecision, Apart, Progress
<1>2. Known
  <2>1. EmptyState.recommendation.of = 0 /\ EmptyState.governance.of = 0
    BY DEF EmptyState
  <2> QED
    BY <2>1 DEF Init, Known
<1>3. Logged /\ LogTellsTheDebate
  BY DEF Init, Logged, LogTellsTheDebate, LoggedIsGoverned, LogFollowsSnapshot
<1> QED
  BY <1>1, <1>2, <1>3, TypeInit DEF CouncilInv

\* A message gives its thread a decision nobody has.
LEMMA SubmitKeeps ==
    ASSUME CouncilInv, TypeOK', NEW t \in Threads, Submit(t)
    PROVE  CouncilInv'
<1>1. /\ submitted' = submitted + 1 /\ node[t] = "idle"
      /\ node' = [node EXCEPT ![t] = "intake"]
      /\ st' = [st EXCEPT ![t].decision = submitted + 1]
      /\ UNCHANGED <<requests, latest, log, warned>>
  BY DEF Submit, store
<1>2. TypeOK
  BY DEF CouncilInv
<1>3. \A u \in Threads :
          /\ node'[u] = IF u = t THEN "intake" ELSE node[u]
          /\ st'[u].decision = IF u = t THEN submitted + 1 ELSE st[u].decision
          /\ st'[u].recommendation = st[u].recommendation
          /\ st'[u].governance = st[u].governance
  BY <1>1, <1>2 DEF TypeOK, DebateState
<1>4. HasDecision' /\ Apart' /\ Known'
  BY <1>1, <1>2, <1>3, Numbers DEF CouncilInv, HasDecision, Apart, Known
<1>5. Progress'
  BY <1>1, <1>2, <1>3, Numbers DEF CouncilInv, Progress, Known, Ruled, Governed
<1>6. Logged'
  BY <1>1, <1>2, <1>3, Numbers DEF CouncilInv, Logged
<1>7. LogTellsTheDebate'
  BY <1>1 DEF CouncilInv, LogTellsTheDebate, LoggedIsGoverned, LogFollowsSnapshot
<1> QED
  BY <1>4, <1>5, <1>6, <1>7 DEF CouncilInv

\* A step that touches none of it.
LEMMA QuietKeeps ==
    ASSUME CouncilInv, TypeOK', UNCHANGED <<node, st, submitted, requests, latest, log, warned>>
    PROVE  CouncilInv'
  BY DEF CouncilInv, HasDecision, Apart, Known, Progress, Logged, LogTellsTheDebate,
         LoggedIsGoverned, LogFollowsSnapshot

\* A run that fails.
LEMMA DropKeeps ==
    ASSUME CouncilInv, TypeOK', NEW t \in Threads, node' = [node EXCEPT ![t] = "idle"],
           UNCHANGED <<st, submitted, requests, latest, log, warned>>
    PROVE  CouncilInv'
<1>1. \A u \in Threads : node'[u] = IF u = t THEN "idle" ELSE node[u]
  BY DEF CouncilInv, TypeOK
<1>2. HasDecision' /\ Apart' /\ Known' /\ Progress' /\ Logged'
  BY <1>1 DEF CouncilInv, HasDecision, Apart, Known, Progress, Logged
<1>3. LogTellsTheDebate'
  BY DEF CouncilInv, LogTellsTheDebate, LoggedIsGoverned, LogFollowsSnapshot
<1> QED
  BY <1>2, <1>3 DEF CouncilInv

\* A node that returns a state of its decision.
LEMMA CarriesKeeps ==
    ASSUME CouncilInv, TypeOK', NEW t \in Threads, NEW s, Carries(t, s), UNCHANGED store
    PROVE  CouncilInv'
<1>1. /\ node[t] \in Nodes \ {"governance", "persist"} /\ node[t] # "idle"
      /\ s.decision = st[t].decision /\ s.governance = st[t].governance
      /\ UNCHANGED <<requests, latest, log, warned, submitted>>
  BY NodeNames DEF Carries, Return, store
<1>2. TypeOK
  BY DEF CouncilInv
<1>3. \A u \in Threads :
          /\ node'[u] = IF u = t THEN Successor(node[t]) ELSE node[u]
          /\ st'[u] = IF u = t THEN s ELSE st[u]
  BY <1>2 DEF Carries, Return, TypeOK
<1>4. Successor(node[t]) # "idle" /\ (Successor(node[t]) \in Governed <=> node[t] \in Governed)
  BY <1>1, NodeNames, Edges DEF Governed
<1>5. st[t].decision \in 1..submitted
  BY <1>1 DEF CouncilInv, HasDecision
<1>6. s.recommendation.of = s.decision <=> Successor(node[t]) \in Ruled
  <2>1. CASE node[t] = "intake"
    <3>1. s.recommendation.of = 0
      BY <2>1 DEF Carries
    <3>2. Successor(node[t]) \notin Ruled
      BY <2>1, Edges DEF Ruled
    <3> QED
      BY <1>1, <1>2, <1>5, <3>1, <3>2, Numbers
  <2>2. CASE node[t] = "synthesis"
    <3>1. s.recommendation.of = st[t].decision
      BY <2>2 DEF Carries
    <3> QED
      BY <1>1, <2>2, <3>1, Edges DEF Ruled
  <2>3. CASE node[t] \notin {"intake", "synthesis"}
    <3>1. s.recommendation.of = st[t].recommendation.of
      BY <2>3 DEF Carries
    <3>2. Successor(node[t]) \in Ruled <=> node[t] \in Ruled
      BY <1>1, <2>3, NodeNames, Edges DEF Ruled
    <3> QED
      BY <1>1, <3>1, <3>2 DEF CouncilInv, Progress
  <2> QED
    BY <2>1, <2>2, <2>3
<1>7. HasDecision' /\ Apart' /\ Logged'
  BY <1>1, <1>3, <1>4 DEF CouncilInv, HasDecision, Apart, Logged
<1>8. Known'
  <2>1. s.recommendation.of <= submitted
    BY <1>1, <1>2, <1>5, Numbers DEF Carries, CouncilInv, Known
  <2> QED
    BY <1>1, <1>3, <2>1 DEF CouncilInv, Known
<1>9. Progress'
  BY <1>1, <1>3, <1>4, <1>6 DEF CouncilInv, Progress
<1>10. LogTellsTheDebate'
  BY <1>1 DEF CouncilInv, LogTellsTheDebate, LoggedIsGoverned, LogFollowsSnapshot
<1> QED
  BY <1>7, <1>8, <1>9, <1>10 DEF CouncilInv

LEMMA GovernsKeeps ==
    ASSUME CouncilInv, TypeOK', NEW t \in Threads, NEW s, Governs(t, s),
           UNCHANGED <<latest, log, warned>>
    PROVE  CouncilInv'
<1>1. /\ node[t] = "governance" /\ s.decision = st[t].decision
      /\ s.recommendation = st[t].recommendation /\ s.governance.of = s.decision
      /\ requests \subseteq requests' /\ submitted' = submitted
      /\ s.governance.status = "governed" => s.decision \in requests'
  BY DEF Governs, Return
<1>2. TypeOK
  BY DEF CouncilInv
<1>3. \A u \in Threads :
          /\ node'[u] = IF u = t THEN "reliability" ELSE node[u]
          /\ st'[u] = IF u = t THEN s ELSE st[u]
  BY <1>1, <1>2, Edges DEF Governs, Return, TypeOK
<1>4. HasDecision' /\ Apart' /\ Logged'
  BY <1>1, <1>3 DEF CouncilInv, HasDecision, Apart, Logged
<1>5. Known'
  BY <1>1, <1>2, <1>3, Numbers DEF CouncilInv, HasDecision, Known
<1>6. Progress'
  BY <1>1, <1>3 DEF CouncilInv, Progress, Ruled, Governed
<1>7. LogTellsTheDebate'
  BY <1>1 DEF CouncilInv, LogTellsTheDebate, LoggedIsGoverned, LogFollowsSnapshot
<1> QED
  BY <1>4, <1>5, <1>6, <1>7 DEF CouncilInv

LEMMA PersistsKeeps ==
    ASSUME CouncilInv, TypeOK', NEW t \in Threads, Persists(t)
    PROVE  CouncilInv'
<1>1. /\ node[t] = "persist" /\ st' = st /\ node' = [node EXCEPT ![t] = "idle"]
      /\ submitted' = submitted /\ requests' = requests
  BY DEF Persists
<1>2. TypeOK /\ log \in Seq(LogEntries)
  BY DEF CouncilInv, TypeOK
<1>3. \A u \in Threads : node'[u] = IF u = t THEN "idle" ELSE node[u]
  BY <1>1, <1>2 DEF TypeOK
<1>4. HasDecision' /\ Apart' /\ Known' /\ Progress'
  BY <1>1, <1>3 DEF CouncilInv, HasDecision, Apart, Known, Progress
<1>5. CASE log' = log
  <2>1. Logged'
    BY <1>1, <1>3, <1>5 DEF CouncilInv, Logged
  <2>2. \/ latest' = latest /\ warned \subseteq warned'
        \/ latest' = st[t] /\ warned' = warned \cup {st[t].decision}
    BY <1>5, <1>2 DEF Persists
  <2>3. LogTellsTheDebate'
    BY <1>1, <1>5, <2>2 DEF CouncilInv, LogTellsTheDebate, LoggedIsGoverned, LogFollowsSnapshot
  <2> QED
    BY <1>4, <2>1, <2>3 DEF CouncilInv
<1>6. CASE log' = Append(log, Entry(st[t])) /\ latest' = st[t]
  <2> DEFINE e == Entry(st[t])
             n == Len(log)
  <2>1. e.decision = st[t].decision /\ e.approval = st[t].governance
    BY DEF Entry
  <2>2. /\ n \in Nat /\ Len(log') = n + 1 /\ log'[n + 1] = e
        /\ \A i \in 1..n : log'[i] = log[i]
    BY <1>2, <1>6
  <2>3. st[t].decision \in 1..submitted /\ \A i \in 1..n : log[i].decision # st[t].decision
    BY <1>1 DEF CouncilInv, HasDecision, Logged
  <2>4. /\ e.approval.of = e.decision
        /\ e.approval.status = "governed" => e.decision \in requests
    BY <1>1, <2>1 DEF CouncilInv, Progress, Governed
  <2>5. \A u \in Threads : node'[u] # "idle" => e.decision # st'[u].decision
    BY <1>1, <1>3, <2>1 DEF CouncilInv, Apart
  <2> HIDE DEF e
  <2>6. Logged'
    BY <1>1, <1>2, <1>3, <2>1, <2>2, <2>3, <2>5, Numbers DEF CouncilInv, Logged
  <2>7. DOMAIN log = 1..n /\ DOMAIN log' = 1..(n + 1)
    BY <1>2, <1>6, <2>2
  <2>8. LoggedIsGoverned'
    BY <1>1, <2>2, <2>4, <2>7 DEF CouncilInv, LogTellsTheDebate, LoggedIsGoverned
  <2>9. LogFollowsSnapshot'
    <3>1. log'[Len(log')].decision = latest'.decision
      BY <1>6, <2>1, <2>2
    <3>2. ASSUME NEW i \in 1..(n + 1), NEW j \in 1..(n + 1), log'[i].decision = log'[j].decision
          PROVE  i = j
      BY <2>1, <2>2, <2>3, <2>7, <3>2 DEF CouncilInv, LogTellsTheDebate, LogFollowsSnapshot
    <3> QED
      BY <2>7, <3>1, <3>2 DEF LogFollowsSnapshot
  <2> QED
    BY <1>4, <2>6, <2>8, <2>9 DEF CouncilInv, LogTellsTheDebate
<1> QED
  BY <1>5, <1>6 DEF Persists

LEMMA CouncilStep == CouncilInv /\ [Next]_vars => CouncilInv'
<1> SUFFICES ASSUME CouncilInv, [Next]_vars PROVE CouncilInv'
  OBVIOUS
<1>1. TypeOK /\ HasDecision /\ TypeOK'
  BY TypeStep DEF CouncilInv
<1>2. ASSUME NEW t \in Threads, Submit(t) PROVE CouncilInv'
  BY <1>1, <1>2, SubmitKeeps
<1>3. ASSUME TogglePause \/ SponsorsFail \/ SponsorsRecover PROVE CouncilInv'
  BY <1>1, <1>3, QuietKeeps DEF TogglePause, SponsorsFail, SponsorsRecover, store
<1>4. ASSUME NEW t \in Threads, Run(t) PROVE CouncilInv'
  <2>1. CASE Enter(t) \/ Poll(t) \/ Release(t)
    BY <1>1, <2>1, QuietKeeps DEF Enter, Poll, Release, store
  <2>2. CASE Abort(t) \/ Raises(t)
    BY <1>1, <2>2, DropKeeps DEF Abort, Raises, store
  <2>3. CASE CommitteeOpens(t) \/ \E r \in Roles : AnalystAnswers(t, r) \/ AnalystRaises(t, r)
    BY <1>1, <2>3, QuietKeeps DEF CommitteeOpens, AnalystAnswers, AnalystRaises, store
  <2>4. CASE \/ Intake(t) \/ Planner(t) \/ CommitteeCloses(t) \/ Challenge(t) \/ CrossExamine(t)
             \/ Influence(t) \/ Synthesis(t) \/ Reliability(t) \/ SelfImprovement(t)
    <3>1. (\E s : Carries(t, s)) /\ UNCHANGED store
      BY <1>1, <2>4, NodeCarries
    <3> QED
      BY <1>1, <3>1, CarriesKeeps
  <2>5. CASE Governance(t)
    <3>1. (\E s : Governs(t, s)) /\ UNCHANGED <<latest, log, warned>>
      BY <1>1, <2>5, GovernanceGoverns
    <3> QED
      BY <1>1, <3>1, GovernsKeeps
  <2>6. CASE Persist(t)
    BY <1>1, <2>6, PersistPersists, PersistsKeeps
  <2> QED
    BY <1>4, <2>1, <2>2, <2>3, <2>4, <2>5, <2>6 DEF Run, Committee
<1>5. CASE UNCHANGED vars
  BY <1>1, <1>5, QuietKeeps DEF vars
<1> QED
  BY <1>2, <1>3, <1>4, <1>5 DEF Next

LEMMA CouncilAlways == Spec => []CouncilInv
  BY CouncilInit, CouncilStep, PTL DEF Spec

\* For any number of threads, analysts, decisions and failures: every event of
\* the stream says how its decision is governed, the last one is of the snapshot
\* unless a warning said otherwise, and none is logged twice (governance_node,
\* persist_node).
THEOREM LogsTellTheDebate == Spec => []LogTellsTheDebate
<1>1. CouncilInv => LogTellsTheDebate
  BY DEF CouncilInv
<1> QED
  BY <1>1, CouncilAlways, PTL

----------------------------------------------------------------------------
(***************************************************************************)
(* The snapshot.                                                           *)
(***************************************************************************)
\* What a graph state s has by the time node n is entered: intake has cleared what
\* the last decision left, and every node since has written its key.
KeysAt(s, n) ==
    n \in Nodes \ {"intake"} =>
        /\ \A p \in s.positions : p.of = s.decision
        /\ \A x \in s.transcript : x.of = s.decision
        /\ n # "planner" => s.plan = s.decision
        /\ n \notin {"planner", "committee_parallel", "challenge"} => s.report = s.decision
        /\ n \in {"synthesis"} \cup Ruled => s.influence = s.decision
        /\ n \in {"self_improvement", "persist"} => s.scores = s.decision
        /\ s.memo # 0 => s.memo = s.decision /\ s.recommendation.ok

ThinksIn(r, transcript) == \E x \in transcript : x.kind = "thinking" /\ x.by = r

OnePositionEach(positions) == \A p, q \in positions : p.role = q.role => p = q

\* The committee starts from nothing, and leaves each analyst accounted for.
CommitteeAt(s, n) ==
    /\ n \in {"planner", "committee_parallel"} =>
           s.positions = {} /\ \A x \in s.transcript : x.kind # "thinking"
    /\ n \in {"challenge", "debate", "influence"} =>
           /\ \A x \in s.transcript : x.kind = "thinking" => x.by \in Roles
           /\ \A r \in Roles : (\E p \in s.positions : p.role = r) <=> ~ThinksIn(r, s.transcript)
           /\ OnePositionEach(s.positions)

\* The committee at work: an analyst has a position once it is recorded, and is
\* thinking until then.
LiveFits(t) ==
    \/ live[t] = NoCouncil
    \/ /\ At(t, "committee_parallel")
       /\ \A r \in Roles : live[t].stage[r] # "waiting"
       /\ \A p \in live[t].positions : p.of = st[t].decision
       /\ \A x \in live[t].transcript : x.of = st[t].decision /\ (x.kind = "thinking" => x.by \in Roles)
       /\ \A r \in Roles :
             /\ live[t].stage[r] = "recorded" <=> \E p \in live[t].positions : p.role = r
             /\ live[t].stage[r] # "recorded" <=> ThinksIn(r, live[t].transcript)
       /\ OnePositionEach(live[t].positions)

Whole(t) == KeysAt(st[t], node[t]) /\ CommitteeAt(st[t], node[t]) /\ LiveFits(t)

LatestIsWhole ==
    latest.decision # 0 =>
        /\ KeysOf(latest) = {latest.decision}
        /\ latest.memo # 0 => latest.memo = latest.decision /\ latest.recommendation.ok

SnapshotInv == CouncilInv /\ LatestIsWhole /\ \A t \in Threads : Whole(t)

\* A node that returns.
LEMMA ReturnIs ==
    ASSUME TypeOK, NEW t \in Threads, NEW s, Return(t, s)
    PROVE  /\ node'[t] = Successor(node[t]) /\ step'[t] = "enter" /\ st'[t] = s
           /\ \A u \in Threads \ {t} : node'[u] = node[u] /\ step'[u] = step[u] /\ st'[u] = st[u]
  BY DEF Return, TypeOK

\* A state that goes on: the same decision and positions, and perhaps another turn.
Follows(z, s) ==
    /\ z.decision = s.decision /\ z.positions = s.positions
    /\ \A x \in z.transcript : x \in s.transcript \/ (x.of = s.decision /\ x.kind # "thinking")
    /\ s.transcript \subseteq z.transcript

LEMMA FollowsCommittee ==
    ASSUME NEW s, NEW z, NEW n, NEW m, Follows(z, s), CommitteeAt(s, n),
           m \in {"planner", "committee_parallel"} => n \in {"planner", "committee_parallel"},
           m \in {"challenge", "debate", "influence"} => n \in {"challenge", "debate", "influence"}
    PROVE  CommitteeAt(z, m)
<1>1. \A r : ThinksIn(r, z.transcript) <=> ThinksIn(r, s.transcript)
  BY DEF Follows, ThinksIn
<1> QED
  BY <1>1 DEF Follows, CommitteeAt

LEMMA TurnFollows ==
    ASSUME NEW s \in DebateState, NEW d, d = s.decision, NEW ok \in BOOLEAN,
           NEW kind \in {"challenge", "rebuttal", "influence", "decision", "governance", "reliability"}
    PROVE  LET T == IF ok THEN s.transcript \cup {Turn(d, kind)} ELSE s.transcript
           IN  /\ \A x \in T : x \in s.transcript \/ (x.of = s.decision /\ x.kind # "thinking")
               /\ s.transcript \subseteq T
  BY DEF Turn

\* The own steps of a thread.
LEMMA WholeReturns ==
    ASSUME SnapshotInv, NEW t \in Threads,
           \/ Intake(t) \/ Planner(t) \/ Challenge(t) \/ CrossExamine(t) \/ Influence(t) \/ Synthesis(t)
           \/ Governance(t) \/ Reliability(t) \/ SelfImprovement(t) \/ Persist(t)
    PROVE  Whole(t)'
<1> DEFINE s == st[t]
           d == st[t].decision
           n == node[t]
<1>1. s \in DebateState /\ KeysAt(s, n) /\ CommitteeAt(s, n) /\ TypeOK
  BY DEF SnapshotInv, CouncilInv, TypeOK, Whole
<1>2. live'[t] = NoCouncil
  <2>1. live' = live /\ node[t] # "committee_parallel"
    BY DEF Intake, Planner, Challenge, CrossExamine, Influence, Synthesis, Governance, Reliability,
           SelfImprovement, Persist, At
  <2> QED
    BY <2>1 DEF SnapshotInv, Whole, LiveFits, At
<1>3. ASSUME NEW z, Return(t, z), KeysAt(z, Successor(n)), CommitteeAt(z, Successor(n))
      PROVE  Whole(t)'
  <2>1. node'[t] = Successor(n) /\ st'[t] = z
    BY <1>1, <1>3, ReturnIs
  <2> QED
    BY <1>2, <1>3, <2>1 DEF Whole, LiveFits
<1> HIDE DEF s, d
<1>4. CASE Intake(t)
  <2> DEFINE z == FreshState(s)
  <2>1. Return(t, z) /\ n = "intake"
    BY <1>4 DEF Intake, At, s
  <2>2. z.positions = {} /\ z.transcript = {Turn(s.decision, "framing")} /\ z.decision = s.decision /\ z.memo = 0
    BY <1>1 DEF FreshState, EmptyState, DebateState
  <2>3. \A x \in z.transcript : x.of = s.decision /\ x.kind # "thinking"
    BY <2>2 DEF Turn
  <2> HIDE DEF z
  <2>4. KeysAt(z, "planner") /\ CommitteeAt(z, "planner")
    BY <2>2, <2>3 DEF KeysAt, CommitteeAt, Ruled
  <2> QED
    BY <1>3, <2>1, <2>4, Edges
<1>5. CASE Planner(t)
  <2> DEFINE z == [s EXCEPT !.plan = d]
  <2>1. Return(t, z) /\ n = "planner"
    BY <1>5 DEF Planner, At, s, d
  <2>2. Follows(z, s) /\ z.plan = z.decision /\ z.memo = s.memo /\ z.recommendation = s.recommendation
    BY <1>1 DEF DebateState, Follows, s, d
  <2> HIDE DEF z
  <2>3. KeysAt(z, "committee_parallel") /\ CommitteeAt(z, "committee_parallel")
    BY <1>1, <2>1, <2>2, FollowsCommittee, NodeNames DEF KeysAt, Follows, Ruled
  <2> QED
    BY <1>3, <2>1, <2>3, Edges
<1>6. CASE Challenge(t)
  <2>1. PICK ok \in BOOLEAN :
           Return(t, [s EXCEPT !.report = d,
                 !.transcript = IF ok THEN @ \cup {Turn(d, "challenge")} ELSE @])
    BY <1>6 DEF Challenge, s, d
  <2> DEFINE T == IF ok THEN s.transcript \cup {Turn(d, "challenge")} ELSE s.transcript
             z == [s EXCEPT !.report = d, !.transcript = T]
  <2>2. Return(t, z) /\ n = "challenge"
    BY <1>6, <2>1 DEF Challenge, At
  <2>3. /\ \A x \in T : x \in s.transcript \/ (x.of = s.decision /\ x.kind # "thinking")
        /\ s.transcript \subseteq T
    BY <1>1, TurnFollows DEF d, s
  <2> HIDE DEF T
  <2>4. /\ z.decision = s.decision /\ z.positions = s.positions /\ z.transcript = T /\ z.plan = s.plan
        /\ z.report = s.decision /\ z.memo = s.memo /\ z.recommendation = s.recommendation
    BY <1>1 DEF DebateState, s, d
  <2> HIDE DEF z
  <2>5. Follows(z, s)
    BY <2>3, <2>4 DEF Follows
  <2>6. KeysAt(z, "debate") /\ CommitteeAt(z, "debate")
    BY <1>1, <2>2, <2>4, <2>5, FollowsCommittee, NodeNames DEF KeysAt, Follows, Ruled
  <2> QED
    BY <1>3, <2>2, <2>6, Edges
<1>7. CASE CrossExamine(t)
  <2>1. PICK ok \in BOOLEAN :
           Return(t, [s EXCEPT !.transcript = IF ok THEN @ \cup {Turn(d, "rebuttal")} ELSE @])
    BY <1>7 DEF CrossExamine, s, d
  <2> DEFINE T == IF ok THEN s.transcript \cup {Turn(d, "rebuttal")} ELSE s.transcript
             z == [s EXCEPT !.transcript = T]
  <2>2. Return(t, z) /\ n = "debate"
    BY <1>7, <2>1 DEF CrossExamine, At
  <2>3. /\ \A x \in T : x \in s.transcript \/ (x.of = s.decision /\ x.kind # "thinking")
        /\ s.transcript \subseteq T
    BY <1>1, TurnFollows DEF d, s
  <2> HIDE DEF T
  <2>4. /\ z.decision = s.decision /\ z.positions = s.positions /\ z.transcript = T /\ z.plan = s.plan
        /\ z.report = s.report /\ z.memo = s.memo /\ z.recommendation = s.recommendation
    BY <1>1 DEF DebateState, s, d
  <2> HIDE DEF z
  <2>5. Follows(z, s)
    BY <2>3, <2>4 DEF Follows
  <2>6. KeysAt(z, "influence") /\ CommitteeAt(z, "influence")
    BY <1>1, <2>2, <2>4, <2>5, FollowsCommittee, NodeNames DEF KeysAt, Follows, Ruled
  <2> QED
    BY <1>3, <2>2, <2>6, Edges
<1>8. CASE Influence(t)
  <2> DEFINE T == s.transcript \cup {Turn(d, "influence")}
             z == [s EXCEPT !.influence = d, !.transcript = T]
  <2>2. Return(t, z) /\ n = "influence"
    BY <1>8 DEF Influence, At, s, d
  <2>3. /\ \A x \in T : x \in s.transcript \/ (x.of = s.decision /\ x.kind # "thinking")
        /\ s.transcript \subseteq T
    BY <1>1, TurnFollows DEF d, s
  <2> HIDE DEF T
  <2>4. /\ z.decision = s.decision /\ z.positions = s.positions /\ z.transcript = T /\ z.plan = s.plan
        /\ z.report = s.report /\ z.memo = s.memo /\ z.recommendation = s.recommendation
        /\ z.influence = s.decision
    BY <1>1 DEF DebateState, s, d
  <2> HIDE DEF z
  <2>5. Follows(z, s)
    BY <2>3, <2>4 DEF Follows
  <2>6. KeysAt(z, "synthesis") /\ CommitteeAt(z, "synthesis")
    BY <1>1, <2>2, <2>4, <2>5, FollowsCommittee, NodeNames DEF KeysAt, Follows, Ruled
  <2> QED
    BY <1>3, <2>2, <2>6, Edges
<1>9. CASE Synthesis(t)
  <2>1. PICK ok \in BOOLEAN, memo \in BOOLEAN :
            /\ memo => ok /\ ~Fast
            /\ Return(t, [s EXCEPT !.recommendation = [of |-> d, ok |-> ok],
                              !.memo = IF memo THEN d ELSE 0,
                              !.transcript = @ \cup {Turn(d, "decision")}])
    BY <1>9 DEF Synthesis, s, d
  <2> DEFINE T == s.transcript \cup {Turn(d, "decision")}
             m == IF memo THEN d ELSE 0
             ruling == [of |-> d, ok |-> ok]
             z == [s EXCEPT !.recommendation = ruling, !.memo = m, !.transcript = T]
  <2>2. Return(t, z) /\ n = "synthesis"
    BY <1>9, <2>1 DEF Synthesis, At
  <2>3. /\ \A x \in T : x \in s.transcript \/ (x.of = s.decision /\ x.kind # "thinking")
        /\ s.transcript \subseteq T
    BY <1>1, TurnFollows DEF d, s
  <2>4. m # 0 => m = s.decision /\ ruling.ok
    BY <2>1 DEF s, d
  <2> HIDE DEF T, m, ruling
  <2>5. /\ z.decision = s.decision /\ z.positions = s.positions /\ z.transcript = T /\ z.plan = s.plan
        /\ z.report = s.report /\ z.memo = m /\ z.recommendation = ruling
        /\ z.influence = s.influence
    BY <1>1 DEF DebateState
  <2> HIDE DEF z
  <2>6. Follows(z, s)
    BY <2>3, <2>5 DEF Follows
  <2>7. KeysAt(z, "governance") /\ CommitteeAt(z, "governance")
    BY <1>1, <2>2, <2>4, <2>5, <2>6, FollowsCommittee, NodeNames DEF KeysAt, Follows, Ruled
  <2> QED
    BY <1>3, <2>2, <2>7, Edges
<1>10. CASE Governance(t)
  <2>1. PICK ok \in BOOLEAN :
            Return(t, [s EXCEPT
                !.governance = IF ok THEN [of |-> d, status |-> "governed"] ELSE GovernanceFailed(s),
                !.transcript = IF ok THEN @ \cup {Turn(d, "governance")} ELSE @])
    BY <1>10 DEF Governance, s, d
  <2> DEFINE T == IF ok THEN s.transcript \cup {Turn(d, "governance")} ELSE s.transcript
             g == IF ok THEN [of |-> d, status |-> "governed"] ELSE GovernanceFailed(s)
             z == [s EXCEPT !.governance = g, !.transcript = T]
  <2>2. Return(t, z) /\ n = "governance"
    BY <1>10, <2>1 DEF Governance, At
  <2>3. /\ \A x \in T : x \in s.transcript \/ (x.of = s.decision /\ x.kind # "thinking")
        /\ s.transcript \subseteq T
    BY <1>1, TurnFollows DEF d, s
  <2> HIDE DEF T, g
  <2>4. /\ z.decision = s.decision /\ z.positions = s.positions /\ z.transcript = T /\ z.plan = s.plan
        /\ z.report = s.report /\ z.memo = s.memo /\ z.recommendation = s.recommendation
        /\ z.influence = s.influence
    BY <1>1 DEF DebateState
  <2> HIDE DEF z
  <2>5. Follows(z, s)
    BY <2>3, <2>4 DEF Follows
  <2>6. KeysAt(z, "reliability") /\ CommitteeAt(z, "reliability")
    BY <1>1, <2>2, <2>4, <2>5, FollowsCommittee, NodeNames DEF KeysAt, Follows, Ruled
  <2> QED
    BY <1>3, <2>2, <2>6, Edges
<1>11. CASE Reliability(t)
  <2> DEFINE T == s.transcript \cup {Turn(d, "reliability")}
             z == [s EXCEPT !.scores = d, !.transcript = T]
  <2>2. Return(t, z) /\ n = "reliability"
    BY <1>11 DEF Reliability, At, s, d
  <2>3. /\ \A x \in T : x \in s.transcript \/ (x.of = s.decision /\ x.kind # "thinking")
        /\ s.transcript \subseteq T
    BY <1>1, TurnFollows DEF d, s
  <2> HIDE DEF T
  <2>4. /\ z.decision = s.decision /\ z.positions = s.positions /\ z.transcript = T /\ z.plan = s.plan
        /\ z.report = s.report /\ z.memo = s.memo /\ z.recommendation = s.recommendation
        /\ z.influence = s.influence /\ z.scores = s.decision
    BY <1>1 DEF DebateState, s, d
  <2> HIDE DEF z
  <2>5. Follows(z, s)
    BY <2>3, <2>4 DEF Follows
  <2>6. KeysAt(z, "self_improvement") /\ CommitteeAt(z, "self_improvement")
    BY <1>1, <2>2, <2>4, <2>5, FollowsCommittee, NodeNames DEF KeysAt, Follows, Ruled
  <2> QED
    BY <1>3, <2>2, <2>6, Edges
<1>12. CASE SelfImprovement(t)
  <2>1. Return(t, s) /\ n = "self_improvement"
    BY <1>12 DEF SelfImprovement, At, s
  <2>2. KeysAt(s, "persist") /\ CommitteeAt(s, "persist")
    BY <1>1, <2>1, NodeNames DEF KeysAt, CommitteeAt, Ruled
  <2> QED
    BY <1>3, <2>1, <2>2, Edges
<1>13. CASE Persist(t)
  <2>1. Return(t, s) /\ n = "persist"
    BY <1>13 DEF Persist, At, s
  <2>2. KeysAt(s, "idle") /\ CommitteeAt(s, "idle")
    BY NodeNames DEF KeysAt, CommitteeAt
  <2> QED
    BY <1>3, <2>1, <2>2, Edges
<1> QED
  BY <1>4, <1>5, <1>6, <1>7, <1>8, <1>9, <1>10, <1>11, <1>12, <1>13

\* The committee: its analysts work at once, and each ends with one position or
\* with the thinking turn it began with.
LEMMA WholeCommittee ==
    ASSUME SnapshotInv, NEW t \in Threads, Committee(t)
    PROVE  Whole(t)'
<1> DEFINE s == st[t]
           c == live[t]
           Live == [stage : [Roles -> Stages], positions : SUBSET Positions, transcript : SUBSET Turns]
<1>1. /\ s \in DebateState /\ KeysAt(s, node[t]) /\ CommitteeAt(s, node[t]) /\ TypeOK /\ LiveFits(t)
      /\ c \in Live /\ live \in [Threads -> Live]
  BY DEF SnapshotInv, CouncilInv, TypeOK, Whole
<1>2. At(t, "committee_parallel") /\ node[t] = "committee_parallel" /\ node[t] \in Nodes \ {"intake"}
  BY NodeNames DEF Committee, CommitteeOpens, CommitteeCloses, AnalystAnswers, AnalystRaises, At
<1>3. ASSUME UNCHANGED <<node, step, st>>, LiveFits(t)' PROVE Whole(t)'
  BY <1>1, <1>3 DEF Whole
<1>4. /\ \A p \in s.positions : p.of = s.decision
      /\ \A x \in s.transcript : x.of = s.decision
      /\ s.positions = {} /\ \A x \in s.transcript : x.kind # "thinking"
      /\ s.plan = s.decision /\ (s.memo # 0 => s.memo = s.decision /\ s.recommendation.ok)
  BY <1>1, <1>2 DEF KeysAt, CommitteeAt
<1>5. CASE CommitteeOpens(t)
  <2> DEFINE stage == [r \in Roles |-> "asked"]
             T == s.transcript \cup {Thinking(s.decision, r) : r \in Roles}
  <2>1. /\ live'[t] = [stage |-> stage, positions |-> s.positions, transcript |-> T]
        /\ UNCHANGED <<node, step, st>>
    BY <1>1, <1>5 DEF CommitteeOpens
  <2>2. \A x \in T : x.of = s.decision /\ (x.kind = "thinking" => x.by \in Roles)
    BY <1>4 DEF Thinking
  <2>3. \A r \in Roles : ThinksIn(r, T)
    <3> SUFFICES ASSUME NEW r \in Roles PROVE ThinksIn(r, T)
      OBVIOUS
    <3>1. Thinking(s.decision, r) \in T /\ Thinking(s.decision, r).kind = "thinking" /\ Thinking(s.decision, r).by = r
      BY DEF Thinking
    <3> HIDE DEF T
    <3> QED
      BY <3>1 DEF ThinksIn
  <2>4. \A r \in Roles : stage[r] = "asked"
    OBVIOUS
  <2>5. /\ live'[t].stage = stage /\ live'[t].positions = {} /\ live'[t].transcript = T
        /\ st'[t].decision = s.decision /\ At(t, "committee_parallel")'
    BY <1>2, <1>4, <2>1 DEF At
  <2> HIDE DEF T, stage, s, c
  <2>6. LiveFits(t)'
    BY <2>2, <2>3, <2>4, <2>5 DEF LiveFits, OnePositionEach
  <2> QED
    BY <1>3, <2>1, <2>6
<1>6. CASE CommitteeCloses(t)
  <2> DEFINE z == [s EXCEPT !.positions = c.positions, !.transcript = c.transcript]
  <2>1. Return(t, z) /\ live' = [live EXCEPT ![t] = NoCouncil] /\ Gathered(t)
    BY <1>6 DEF CommitteeCloses
  <2>2. node'[t] = "challenge" /\ st'[t] = z /\ live'[t] = NoCouncil
    BY <1>1, <1>2, <2>1, ReturnIs, Edges
  <2>3. /\ z.decision = s.decision /\ z.positions = c.positions /\ z.transcript = c.transcript
        /\ z.plan = s.plan /\ z.memo = s.memo /\ z.recommendation = s.recommendation
    BY <1>1 DEF DebateState
  <2>4. /\ \A p \in c.positions : p.of = s.decision
        /\ \A x \in c.transcript : x.of = s.decision /\ (x.kind = "thinking" => x.by \in Roles)
        /\ \A r \in Roles : (\E p \in c.positions : p.role = r) <=> ~ThinksIn(r, c.transcript)
        /\ OnePositionEach(c.positions)
    <3>1. CASE live[t] = NoCouncil
      <4>1. Roles = {}
        BY <2>1, <3>1 DEF Gathered, NoCouncil
      <4> QED
        BY <3>1, <4>1 DEF NoCouncil, OnePositionEach
    <3>2. CASE live[t] # NoCouncil
      BY <1>1, <3>2 DEF LiveFits
    <3> QED
      BY <3>1, <3>2
  <2> HIDE DEF z, s, c
  <2>5. KeysAt(z, "challenge")
    BY <1>4, <2>3, <2>4 DEF KeysAt, Ruled
  <2>6. CommitteeAt(z, "challenge")
    BY <2>3, <2>4 DEF CommitteeAt
  <2> QED
    BY <2>2, <2>5, <2>6 DEF Whole, LiveFits
<1>7. ASSUME NEW r \in Roles, AnalystAnswers(t, r) PROVE Whole(t)'
  <2>1. PICK ok \in BOOLEAN :
          live' = [live EXCEPT
                ![t].stage[r] = "recorded",
                ![t].positions = Recorded(t, [of |-> st[t].decision, role |-> r, ok |-> ok]),
                ![t].transcript = {x \in @ : ~(x.kind = "thinking" /\ x.by = r)}
                                  \cup {[of |-> st[t].decision, kind |-> "position", by |-> r]}]
    BY <1>7 DEF AnalystAnswers
  <2> DEFINE p0 == [of |-> s.decision, role |-> r, ok |-> ok]
             x0 == [of |-> s.decision, kind |-> "position", by |-> r]
             P == c.positions \cup {p0}
             T == {x \in c.transcript : ~(x.kind = "thinking" /\ x.by = r)} \cup {x0}
             stage == [c.stage EXCEPT ![r] = "recorded"]
  <2>2. /\ live'[t].stage = stage /\ live'[t].positions = P /\ live'[t].transcript = T
    BY <1>1, <2>1 DEF Recorded
  <2>3. UNCHANGED <<node, step, st>> /\ c.stage[r] = "asked"
    BY <1>7 DEF AnalystAnswers
  <2>4. /\ \A q \in Roles : c.stage[q] # "waiting"
        /\ \A p \in c.positions : p.of = s.decision
        /\ \A x \in c.transcript : x.of = s.decision /\ (x.kind = "thinking" => x.by \in Roles)
        /\ \A q \in Roles :
             /\ c.stage[q] = "recorded" <=> \E p \in c.positions : p.role = q
             /\ c.stage[q] # "recorded" <=> ThinksIn(q, c.transcript)
        /\ OnePositionEach(c.positions)
    <3>1. live[t] # NoCouncil
      BY <2>3 DEF NoCouncil
    <3> QED
      BY <1>1, <3>1 DEF LiveFits
  <2>5. p0.of = s.decision /\ p0.role = r /\ x0.of = s.decision /\ x0.kind = "position"
    OBVIOUS
  <2>6. \A q \in Roles : stage[q] = IF q = r THEN "recorded" ELSE c.stage[q]
    BY <1>1
  <2> HIDE DEF p0, x0, s, c, stage
  <2>7. \A q \in Roles : ThinksIn(q, T) <=> q # r /\ ThinksIn(q, c.transcript)
    BY <2>5 DEF ThinksIn
  <2>8. OnePositionEach(P)
    BY <2>3, <2>4, <2>5 DEF OnePositionEach
  <2>9. \A q \in Roles : (\E p \in P : p.role = q) <=> q = r \/ \E p \in c.positions : p.role = q
    BY <2>5
  <2>10. /\ \A p \in P : p.of = s.decision
         /\ \A x \in T : x.of = s.decision /\ (x.kind = "thinking" => x.by \in Roles)
    BY <2>4, <2>5
  <2> HIDE DEF P, T
  <2>11. st'[t].decision = s.decision /\ At(t, "committee_parallel")'
    BY <1>2, <2>3 DEF At, s
  <2>12. LiveFits(t)'
    BY <2>2, <2>4, <2>6, <2>7, <2>8, <2>9, <2>10, <2>11 DEF LiveFits
  <2> QED
    BY <1>3, <2>3, <2>12
<1>8. ASSUME NEW r \in Roles, AnalystRaises(t, r) PROVE Whole(t)'
  <2> DEFINE stage == [c.stage EXCEPT ![r] = "raised"]
  <2>1. /\ live'[t].stage = stage /\ live'[t].positions = c.positions /\ live'[t].transcript = c.transcript
        /\ UNCHANGED <<node, step, st>> /\ c.stage[r] = "asked"
    BY <1>1, <1>8 DEF AnalystRaises
  <2>2. live[t] # NoCouncil
    BY <2>1 DEF NoCouncil
  <2>3. \A q \in Roles : stage[q] = IF q = r THEN "raised" ELSE c.stage[q]
    BY <1>1
  <2> HIDE DEF stage
  <2>4. LiveFits(t)'
    BY <1>1, <2>1, <2>2, <2>3 DEF LiveFits, At
  <2> QED
    BY <1>3, <2>1, <2>4
<1> QED
  BY <1>5, <1>6, <1>7, <1>8 DEF Committee

\* Threads that a step leaves alone.
LEMMA WholeFrame ==
    ASSUME NEW u \in Threads, Whole(u), node'[u] = node[u], st'[u] = st[u], step'[u] = step[u],
           live'[u] = live[u]
    PROVE  Whole(u)'
<1>1. LiveFits(u)'
  BY DEF Whole, LiveFits, At
<1> QED
  BY <1>1 DEF Whole

LEMMA OthersWhole ==
    ASSUME SnapshotInv, NEW t \in Threads, Submit(t) \/ Run(t), NEW u \in Threads \ {t}
    PROVE  Whole(u)'
<1>1. /\ node \in [Threads -> Nodes \cup {"idle"}] /\ step \in [Threads -> {"enter", "held", "work"}]
      /\ st \in [Threads -> DebateState] /\ Whole(u) /\ TypeOK
      /\ live \in [Threads -> [stage : [Roles -> Stages], positions : SUBSET Positions,
                             transcript : SUBSET Turns]]
  BY DEF SnapshotInv, CouncilInv, TypeOK
<1>2. CASE Submit(t) \/ Enter(t) \/ Abort(t) \/ Poll(t) \/ Release(t) \/ Raises(t)
  <2>1. node'[u] = node[u] /\ st'[u] = st[u] /\ step'[u] = step[u] /\ live'[u] = live[u]
    BY <1>1, <1>2 DEF Submit, Enter, Abort, Poll, Release, Raises
  <2> QED
    BY <1>1, <2>1, WholeFrame
<1>3. CASE Intake(t) \/ Planner(t) \/ Challenge(t) \/ CrossExamine(t) \/ Influence(t) \/ Synthesis(t)
           \/ Governance(t) \/ Reliability(t) \/ SelfImprovement(t) \/ Persist(t)
  <2>1. live' = live /\ \E s : Return(t, s)
    BY <1>3 DEF Intake, Planner, Challenge, CrossExamine, Influence, Synthesis, Governance,
                Reliability, SelfImprovement, Persist
  <2> QED
    BY <1>1, <2>1, ReturnIs, WholeFrame
<1>4. CASE Committee(t)
  <2>1. CASE CommitteeCloses(t)
    <3>1. live'[u] = live[u] /\ \E s : Return(t, s)
      BY <1>1, <2>1 DEF CommitteeCloses
    <3> QED
      BY <1>1, <3>1, ReturnIs, WholeFrame
  <2>2. CASE ~CommitteeCloses(t)
    <3>1. live'[u] = live[u] /\ UNCHANGED <<node, st, step>>
      BY <1>1, <1>4, <2>2 DEF Committee, CommitteeOpens, AnalystAnswers, AnalystRaises
    <3> QED
      BY <1>1, <3>1, WholeFrame
  <2> QED
    BY <2>1, <2>2
<1> QED
  BY <1>2, <1>3, <1>4 DEF Run

\* A thread that is started, held, let go, or fails: its committee is not at work.
LEMMA WholeMoves ==
    ASSUME SnapshotInv, NEW t \in Threads,
           Submit(t) \/ Enter(t) \/ Abort(t) \/ Poll(t) \/ Release(t) \/ Raises(t)
    PROVE  Whole(t)'
<1>1. /\ node \in [Threads -> Nodes \cup {"idle"}] /\ step \in [Threads -> {"enter", "held", "work"}]
      /\ st \in [Threads -> DebateState] /\ Whole(t)
  BY DEF SnapshotInv, CouncilInv, TypeOK
<1>2. ~At(t, "committee_parallel") /\ live' = live
  BY NodeNames DEF Submit, Enter, Abort, Poll, Release, Raises, At, Held
<1>3. live'[t] = NoCouncil
  BY <1>1, <1>2 DEF Whole, LiveFits
<1>4. \/ node'[t] \in {"idle", "intake"}
      \/ node'[t] = node[t] /\ st'[t] = st[t]
  BY <1>1 DEF Submit, Enter, Abort, Poll, Release, Raises
<1>5. KeysAt(st[t], node[t])' /\ CommitteeAt(st[t], node[t])'
  <2>1. CASE node'[t] \in {"idle", "intake"}
    BY <2>1, NodeNames DEF KeysAt, CommitteeAt
  <2>2. CASE node'[t] = node[t] /\ st'[t] = st[t]
    BY <1>1, <2>2 DEF Whole
  <2> QED
    BY <1>4, <2>1, <2>2
<1> QED
  BY <1>3, <1>5 DEF Whole, LiveFits

\* Only persist stores a snapshot: the state of its own thread.
LEMMA LatestKept ==
    ASSUME SnapshotInv, [Next]_vars
    PROVE  LatestIsWhole'
<1>1. CASE latest' = latest
  BY <1>1 DEF SnapshotInv, LatestIsWhole
<1>2. ASSUME NEW t \in Threads, Persist(t), latest' = st[t] PROVE LatestIsWhole'
  <2> DEFINE s == st[t]
  <2>1. node[t] = "persist" /\ "persist" \in Nodes \ {"intake"} /\ node[t] # "idle"
    BY <1>2, NodeNames DEF Persist, At
  <2>2. KeysAt(s, "persist")
    BY <2>1 DEF SnapshotInv, Whole
  <2>3. s.recommendation.of = s.decision /\ s.governance.of = s.decision
    BY <2>1 DEF SnapshotInv, CouncilInv, Progress, Ruled, Governed
  <2>4. /\ \A p \in s.positions : p.of = s.decision
        /\ \A x \in s.transcript : x.of = s.decision
        /\ s.plan = s.decision /\ s.report = s.decision /\ s.influence = s.decision
        /\ s.scores = s.decision /\ (s.memo # 0 => s.memo = s.decision /\ s.recommendation.ok)
    BY <2>1, <2>2 DEF KeysAt, Ruled
  <2>5. KeysOf(s) = {s.decision}
    BY <2>3, <2>4 DEF KeysOf
  <2> QED
    BY <1>2, <2>4, <2>5 DEF LatestIsWhole
<1>3. ASSUME NEW t \in Threads, Submit(t) \/ Run(t), ~Persist(t) PROVE latest' = latest
  BY <1>3 DEF Run, Submit, Enter, Abort, Poll, Release, Raises, Intake, Planner, Committee,
              CommitteeOpens, CommitteeCloses, AnalystAnswers, AnalystRaises, Challenge, CrossExamine,
              Influence, Synthesis, Governance, Reliability, SelfImprovement, store
<1>4. ASSUME NEW t \in Threads, Persist(t) PROVE latest' \in {latest, st[t]}
  BY <1>4 DEF Persist, Persisted
<1>5. ASSUME TogglePause \/ SponsorsFail \/ SponsorsRecover \/ UNCHANGED vars PROVE latest' = latest
  BY <1>5 DEF TogglePause, SponsorsFail, SponsorsRecover, vars, store
<1> QED
  BY <1>1, <1>2, <1>3, <1>4, <1>5 DEF Next

LEMMA SnapshotInit == Init => SnapshotInv
<1> SUFFICES ASSUME Init PROVE SnapshotInv
  OBVIOUS
<1>1. EmptyState.decision = 0
  BY DEF EmptyState
<1>2. \A t \in Threads : Whole(t)
  BY NodeNames DEF Init, Whole, KeysAt, CommitteeAt, LiveFits
<1> QED
  BY <1>1, <1>2, CouncilInit DEF SnapshotInv, LatestIsWhole, Init

LEMMA SnapshotStep == SnapshotInv /\ [Next]_vars => SnapshotInv'
<1> SUFFICES ASSUME SnapshotInv, [Next]_vars PROVE SnapshotInv'
  OBVIOUS
<1>1. CouncilInv' /\ LatestIsWhole'
  BY CouncilStep, LatestKept DEF SnapshotInv
<1>2. ASSUME NEW t \in Threads, Submit(t) \/ Run(t) PROVE \A u \in Threads : Whole(u)'
  <2>1. Whole(t)'
    BY <1>2, WholeMoves, WholeReturns, WholeCommittee DEF Run
  <2> QED
    BY <1>2, <2>1, OthersWhole
<1>3. ASSUME TogglePause \/ SponsorsFail \/ SponsorsRecover \/ UNCHANGED vars
      PROVE  \A u \in Threads : Whole(u)'
  <2>1. UNCHANGED <<node, st, step, live>>
    BY <1>3 DEF TogglePause, SponsorsFail, SponsorsRecover, vars
  <2> QED
    BY <2>1, WholeFrame DEF SnapshotInv
<1>4. \A u \in Threads : Whole(u)'
  BY <1>2, <1>3 DEF Next
<1> QED
  BY <1>1, <1>4 DEF SnapshotInv

LEMMA SnapshotHolds == SnapshotInv => SnapshotIsOfOneDecision
<1> SUFFICES ASSUME SnapshotInv PROVE SnapshotIsOfOneDecision
  OBVIOUS
<1>1. CommitteeAccounted
  <2> SUFFICES ASSUME NEW t \in Threads, node[t] \in {"challenge", "debate", "influence"}
               PROVE  LET by == {p.role : p \in st[t].positions}
                          left == {x.by : x \in {y \in st[t].transcript : y.kind = "thinking"}}
                      IN  /\ by \cup left = Roles
                          /\ by \cap left = {}
                          /\ \A p, q \in st[t].positions : p.role = q.role => p = q
    BY DEF CommitteeAccounted
  <2> DEFINE by == {p.role : p \in st[t].positions}
             left == {x.by : x \in {y \in st[t].transcript : y.kind = "thinking"}}
  <2>1. /\ \A x \in st[t].transcript : x.kind = "thinking" => x.by \in Roles
        /\ \A r \in Roles : (\E p \in st[t].positions : p.role = r) <=> ~ThinksIn(r, st[t].transcript)
        /\ OnePositionEach(st[t].positions)
    BY DEF SnapshotInv, Whole, CommitteeAt
  <2>2. \A p \in st[t].positions : p.role \in Roles
    <3>1. st[t].positions \subseteq Positions
      BY DEF SnapshotInv, CouncilInv, TypeOK, DebateState
    <3> QED
      BY <3>1 DEF Positions
  <2>3. \A r : r \in by <=> \E p \in st[t].positions : p.role = r
    OBVIOUS
  <2>4. \A r : r \in left <=> ThinksIn(r, st[t].transcript)
    BY DEF ThinksIn
  <2> HIDE DEF by, left
  <2>5. by \subseteq Roles /\ left \subseteq Roles
    BY <2>1, <2>2, <2>3, <2>4 DEF ThinksIn
  <2>6. \A r \in Roles : r \in by <=> r \notin left
    BY <2>1, <2>3, <2>4
  <2>7. by \cup left = Roles /\ by \cap left = {}
    BY <2>5, <2>6
  <2> QED
    BY <2>1, <2>7 DEF by, left, OnePositionEach
<1> QED
  BY <1>1 DEF SnapshotInv, LatestIsWhole, SnapshotIsOfOneDecision

\* For any number of threads, analysts, decisions and failures, however the nodes of
\* the threads and the analysts of a committee interleave: debate:latest is the
\* record of one decision, and when the challenge begins every analyst has one
\* position or a thinking turn, never both (persist_node, committee_parallel_node).
THEOREM SnapshotsAreOfOneDecision == Spec => []SnapshotIsOfOneDecision
<1>1. Init => SnapshotInv
  BY SnapshotInit
<1>2. SnapshotInv /\ [Next]_vars => SnapshotInv'
  BY SnapshotStep
<1>3. SnapshotInv => SnapshotIsOfOneDecision
  BY SnapshotHolds
<1> QED
  BY <1>1, <1>2, <1>3, PTL DEF Spec

----------------------------------------------------------------------------
(***************************************************************************)
(* The lifecycle of a decision.                                            *)
(***************************************************************************)
\* How far the graph state says its decision is.
Stage(s) ==
    IF s.governance.of = s.decision THEN "governed"
    ELSE IF s.recommendation.of = s.decision THEN "ruled" ELSE "open"

InLog(d) == \E i \in DOMAIN log : log[i].decision = d

\* A decision is as far as the one thread at work on it, or as the log says.
StatusIs ==
    \A d \in Decisions :
        /\ d > submitted => StatusOf(d) = "new"
        /\ \A t \in Threads : WorksOn(t, d) => d <= submitted /\ StatusOf(d) = Stage(st[t])
        /\ d <= submitted /\ (\A t \in Threads : ~WorksOn(t, d)) =>
               StatusOf(d) = IF InLog(d) THEN "logged" ELSE "dropped"

LEMMA StatusNow == CouncilInv => StatusIs
<1> SUFFICES ASSUME CouncilInv, NEW d \in Decisions
             PROVE  /\ d > submitted => StatusOf(d) = "new"
                    /\ \A t \in Threads :
                          WorksOn(t, d) => d <= submitted /\ StatusOf(d) = Stage(st[t])
                    /\ d <= submitted /\ (\A t \in Threads : ~WorksOn(t, d)) =>
                          StatusOf(d) = IF InLog(d) THEN "logged" ELSE "dropped"
  BY DEF StatusIs
<1>1. d \in Nat /\ submitted \in Nat
  BY Numbers, BoundsAssumption DEF CouncilInv, Decisions, BoundsAssumption
<1>2. d > submitted => StatusOf(d) = "new"
  BY DEF StatusOf
<1>3. ASSUME NEW v \in Threads, WorksOn(v, d)
      PROVE  d <= submitted /\ StatusOf(d) = Stage(st[v])
  <2>1. d \in 1..submitted
    BY <1>3 DEF WorksOn, CouncilInv, HasDecision
  <2>2. (CHOOSE t \in Threads : WorksOn(t, d)) = v
    <3>1. \A u \in Threads : WorksOn(u, d) => u = v
      BY <1>3 DEF WorksOn, CouncilInv, Apart
    <3> QED
      BY <1>3, <3>1
  <2>3. st[v].decision = d
    BY <1>3 DEF WorksOn
  <2>4. ~(d > submitted)
    BY <1>1, <2>1
  <2>5. StatusOf(d) = IF st[v].governance.of = d THEN "governed"
                      ELSE IF st[v].recommendation.of = d THEN "ruled" ELSE "open"
    BY <1>3, <2>2, <2>4 DEF StatusOf
  <2> QED
    BY <2>1, <2>3, <2>5 DEF Stage
<1>4. ASSUME d <= submitted, \A t \in Threads : ~WorksOn(t, d)
      PROVE  StatusOf(d) = IF InLog(d) THEN "logged" ELSE "dropped"
  BY <1>1, <1>4 DEF StatusOf, InLog
<1> QED
  BY <1>2, <1>3, <1>4

LEMMA StatusNext == CouncilInv' => StatusIs'
  BY StatusNow, PTL

\* How far a thread is follows from the node it is at.
StageIs ==
    \A t \in Threads : node[t] # "idle" =>
        Stage(st[t]) = IF node[t] \in Governed THEN "governed"
                       ELSE IF node[t] \in Ruled THEN "ruled" ELSE "open"

LEMMA StageNow == CouncilInv => StageIs
  BY DEF CouncilInv, Progress, StageIs, Stage

LEMMA StageNext == CouncilInv' => StageIs'
  BY StageNow, PTL

\* A step of one thread that stays with its decision leaves the others' alone.
LEMMA OthersStay ==
    ASSUME StatusIs, StatusIs', submitted \in Nat, submitted' = submitted, NEW t \in Threads,
           \A u \in Threads \ {t} : node'[u] = node[u] /\ st'[u] = st[u],
           st'[t].decision = st[t].decision,
           NEW d \in Decisions, d # st[t].decision, InLog(d)' <=> InLog(d)
    PROVE  StatusOf(d)' = StatusOf(d)
<1>0. d \in Nat
  BY BoundsAssumption DEF Decisions, BoundsAssumption
<1>1. \A u \in Threads : WorksOn(u, d)' <=> WorksOn(u, d)
  BY DEF WorksOn
<1>2. CASE d > submitted
  BY <1>2 DEF StatusIs
<1>3. CASE \E u \in Threads : WorksOn(u, d)
  <2>1. PICK u \in Threads : WorksOn(u, d)
    BY <1>3
  <2>2. u # t /\ WorksOn(u, d)'
    BY <1>1, <2>1 DEF WorksOn
  <2>3. StatusOf(d) = Stage(st[u]) /\ StatusOf(d)' = Stage(st[u])'
    BY <2>1, <2>2 DEF StatusIs
  <2>4. Stage(st[u])' = Stage(st[u])
    BY <2>2 DEF Stage
  <2> QED
    BY <2>3, <2>4
<1>4. CASE d <= submitted /\ \A u \in Threads : ~WorksOn(u, d)
  BY <1>1, <1>4 DEF StatusIs
<1> QED
  BY <1>0, <1>2, <1>3, <1>4

\* The step of one decision, and no step.
LEMMA OneMoves ==
    ASSUME NEW d0 \in Decisions, NEW from, NEW to,
           \A d \in Decisions \ {d0} : StatusOf(d)' = StatusOf(d),
           StatusOf(d0) = from, StatusOf(d0)' = to
    PROVE  Lifecycle!Move(d0, from, to)
  BY DEF Lifecycle!Move

LEMMA NoneMoves ==
    ASSUME \A d \in Decisions : StatusOf(d)' = StatusOf(d)
    PROVE  UNCHANGED [d \in Decisions |-> StatusOf(d)]
  OBVIOUS

LifecycleStep == [Lifecycle!Next]_[d \in Decisions |-> StatusOf(d)]

LEMMA SubmitMoves ==
    ASSUME CouncilInv, CouncilInv', NEW t \in Threads, Submit(t)
    PROVE  LifecycleStep
<1>1. StatusIs /\ StatusIs' /\ StageIs'
  BY StatusNow, StatusNext, StageNext
<1>2. TypeOK /\ submitted \in Nat
  BY Numbers DEF CouncilInv
<1>0. PICK d0 \in Nat : d0 = submitted + 1
  BY <1>2
<1>3. /\ submitted' = d0 /\ submitted < MaxDecisions /\ node[t] = "idle" /\ log' = log
      /\ node' = [node EXCEPT ![t] = "intake"]
      /\ st' = [st EXCEPT ![t].decision = d0]
  BY <1>0 DEF Submit, store
<1>4. \A u \in Threads \ {t} : node'[u] = node[u] /\ st'[u] = st[u]
  BY <1>2, <1>3 DEF TypeOK
<1>5. node'[t] = "intake" /\ st'[t].decision = d0
  BY <1>2, <1>3 DEF TypeOK, DebateState
<1>6. d0 \in Decisions
  BY <1>0, <1>2, <1>3, BoundsAssumption DEF Decisions, BoundsAssumption
<1>7. StatusOf(d0) = "new"
  BY <1>0, <1>1, <1>2, <1>6 DEF StatusIs
<1>8. StatusOf(d0)' = "open"
  <2>1. WorksOn(t, d0)'
    BY <1>5 DEF WorksOn
  <2>2. StatusOf(d0)' = Stage(st[t])'
    BY <1>1, <1>6, <2>1 DEF StatusIs
  <2>3. Stage(st[t])' = "open"
    BY <1>1, <1>5 DEF StageIs, Governed, Ruled
  <2> QED
    BY <2>2, <2>3
<1>9. ASSUME NEW d \in Decisions \ {d0} PROVE StatusOf(d)' = StatusOf(d)
  <2>0. d \in Nat
    BY BoundsAssumption DEF Decisions, BoundsAssumption
  <2>1. \A u \in Threads : WorksOn(u, d)' <=> WorksOn(u, d)
    BY <1>3, <1>4, <1>5, <1>9 DEF WorksOn
  <2>2. CASE d > submitted
    <3>1. d > submitted'
      BY <1>0, <1>2, <1>3, <1>9, <2>0, <2>2
    <3> QED
      BY <1>1, <2>2, <3>1 DEF StatusIs
  <2>3. CASE \E u \in Threads : WorksOn(u, d)
    <3>1. PICK u \in Threads : WorksOn(u, d)
      BY <2>3
    <3>2. u # t /\ WorksOn(u, d)'
      BY <1>3, <2>1, <3>1 DEF WorksOn
    <3>3. StatusOf(d) = Stage(st[u]) /\ StatusOf(d)' = Stage(st[u])'
      BY <1>1, <3>1, <3>2 DEF StatusIs
    <3>4. Stage(st[u])' = Stage(st[u])
      BY <1>4, <3>2 DEF Stage
    <3> QED
      BY <3>3, <3>4
  <2>4. CASE d <= submitted /\ \A u \in Threads : ~WorksOn(u, d)
    <3>1. d <= submitted' /\ \A u \in Threads : ~WorksOn(u, d)'
      BY <1>0, <1>2, <1>3, <2>0, <2>1, <2>4
    <3>2. InLog(d)' <=> InLog(d)
      BY <1>3 DEF InLog
    <3> QED
      BY <1>1, <2>4, <3>1, <3>2 DEF StatusIs
  <2> QED
    BY <1>2, <2>0, <2>2, <2>3, <2>4
<1>10. Lifecycle!Submit(d0)
  BY <1>6, <1>7, <1>8, <1>9, OneMoves DEF Lifecycle!Submit
<1> QED
  BY <1>6, <1>10 DEF LifecycleStep, Lifecycle!Next

LEMMA QuietStays ==
    ASSUME CouncilInv, CouncilInv', UNCHANGED <<node, st, submitted, log>>
    PROVE  LifecycleStep
<1>1. StatusIs /\ StatusIs'
  BY StatusNow, StatusNext
<1>2. ASSUME NEW d \in Decisions PROVE StatusOf(d)' = StatusOf(d)
  <2>0. d \in Nat /\ submitted \in Nat
    BY Numbers, BoundsAssumption DEF CouncilInv, Decisions, BoundsAssumption
  <2>1. \A u \in Threads : /\ WorksOn(u, d)' <=> WorksOn(u, d)
                           /\ Stage(st[u])' = Stage(st[u])
    BY DEF WorksOn, Stage
  <2>2. InLog(d)' <=> InLog(d)
    BY DEF InLog
  <2>3. CASE d > submitted
    BY <1>1, <2>3 DEF StatusIs
  <2>4. CASE \E u \in Threads : WorksOn(u, d)
    BY <1>1, <2>1, <2>4 DEF StatusIs
  <2>5. CASE d <= submitted /\ \A u \in Threads : ~WorksOn(u, d)
    BY <1>1, <2>1, <2>2, <2>5 DEF StatusIs
  <2> QED
    BY <2>0, <2>3, <2>4, <2>5
<1> QED
  BY <1>2, NoneMoves DEF LifecycleStep

\* The thread at work takes its decision from the status of its stage to another.
LEMMA WorkMoves ==
    ASSUME CouncilInv, CouncilInv', NEW t \in Threads, node[t] # "idle",
           NEW d0, d0 = st[t].decision, st'[t].decision = d0,
           \A u \in Threads \ {t} : node'[u] = node[u] /\ st'[u] = st[u],
           submitted' = submitted,
           \A d \in Decisions \ {d0} : InLog(d)' <=> InLog(d)
    PROVE  /\ d0 \in Decisions
           /\ StatusOf(d0) = Stage(st[t])
           /\ node'[t] # "idle" => StatusOf(d0)' = Stage(st[t])'
           /\ node'[t] = "idle" => StatusOf(d0)' = IF InLog(d0)' THEN "logged" ELSE "dropped"
           /\ \A d \in Decisions \ {d0} : StatusOf(d)' = StatusOf(d)
<1>1. StatusIs /\ StatusIs'
  BY StatusNow, StatusNext
<1>2. d0 \in Decisions /\ submitted \in Nat /\ d0 <= submitted
  BY DecisionType, Numbers DEF CouncilInv, HasDecision
<1>3. StatusOf(d0) = Stage(st[t])
  BY <1>1, <1>2 DEF StatusIs, WorksOn
<1>4. ASSUME node'[t] # "idle" PROVE StatusOf(d0)' = Stage(st[t])'
  <2>1. WorksOn(t, d0)'
    BY <1>4 DEF WorksOn
  <2> QED
    BY <1>1, <1>2, <2>1 DEF StatusIs
<1>5. ASSUME node'[t] = "idle"
      PROVE  StatusOf(d0)' = IF InLog(d0)' THEN "logged" ELSE "dropped"
  <2>1. \A u \in Threads : ~WorksOn(u, d0)'
    BY <1>5 DEF WorksOn, CouncilInv, Apart
  <2> QED
    BY <1>1, <1>2, <2>1 DEF StatusIs
<1>6. ASSUME NEW d \in Decisions \ {d0} PROVE StatusOf(d)' = StatusOf(d)
  BY <1>1, <1>2, <1>6, OthersStay
<1> QED
  BY <1>2, <1>3, <1>4, <1>5, <1>6

\* A run that ends before persist drops its decision.
LEMMA DropMoves ==
    ASSUME CouncilInv, CouncilInv', NEW t \in Threads, node[t] # "idle",
           node' = [node EXCEPT ![t] = "idle"], UNCHANGED <<st, submitted, log>>
    PROVE  LifecycleStep
<1>1. PICK d0 : d0 = st[t].decision
  OBVIOUS
<1>2. TypeOK /\ node'[t] = "idle" /\ \A u \in Threads \ {t} : node'[u] = node[u]
  BY DEF CouncilInv, TypeOK
<1>3. ~InLog(d0)' /\ \A d \in Decisions : InLog(d)' <=> InLog(d)
  <2>1. DOMAIN log = 1..Len(log)
    BY <1>2 DEF TypeOK
  <2> QED
    BY <1>1, <2>1 DEF InLog, CouncilInv, Logged
<1>4. /\ d0 \in Decisions /\ StatusOf(d0) = Stage(st[t]) /\ StatusOf(d0)' = "dropped"
      /\ \A d \in Decisions \ {d0} : StatusOf(d)' = StatusOf(d)
  BY <1>1, <1>2, <1>3, WorkMoves
<1>5. Stage(st[t]) \in {"open", "ruled", "governed"}
  BY DEF Stage
<1>6. Lifecycle!Drop(d0)
  BY <1>4, <1>5, OneMoves DEF Lifecycle!Drop
<1> QED
  BY <1>4, <1>6 DEF LifecycleStep, Lifecycle!Next

\* A node that returns moves its decision as far as the next node is.
LEMMA ReturnMoves ==
    ASSUME CouncilInv, CouncilInv', NEW t \in Threads, NEW s, node[t] \in Nodes \ {"persist"},
           Return(t, s), s.decision = st[t].decision, log' = log
    PROVE  LifecycleStep
<1>1. PICK d0 : d0 = st[t].decision
  OBVIOUS
<1>2. TypeOK /\ StageIs /\ StageIs' /\ node[t] # "idle" /\ submitted' = submitted
  BY StageNow, StageNext, NodeNames DEF CouncilInv, Return
<1>3. /\ node'[t] = Successor(node[t]) /\ st'[t] = s
      /\ \A u \in Threads \ {t} : node'[u] = node[u] /\ st'[u] = st[u]
  BY <1>2 DEF Return, TypeOK
<1>4. /\ Successor(node[t]) # "idle"
      /\ Successor(node[t]) \in Governed <=> node[t] \in Governed \cup {"governance"}
      /\ Successor(node[t]) \in Ruled <=> node[t] \in Ruled \cup {"synthesis"}
  BY NodeNames, Edges DEF Governed, Ruled
<1>5. \A d \in Decisions : InLog(d)' <=> InLog(d)
  BY DEF InLog
<1>6. /\ d0 \in Decisions /\ StatusOf(d0) = Stage(st[t]) /\ StatusOf(d0)' = Stage(st[t])'
      /\ \A d \in Decisions \ {d0} : StatusOf(d)' = StatusOf(d)
  BY <1>1, <1>2, <1>3, <1>4, <1>5, WorkMoves
<1>7. /\ Stage(st[t]) = IF node[t] \in Governed THEN "governed"
                        ELSE IF node[t] \in Ruled THEN "ruled" ELSE "open"
      /\ Stage(st[t])' = IF Successor(node[t]) \in Governed THEN "governed"
                         ELSE IF Successor(node[t]) \in Ruled THEN "ruled" ELSE "open"
  BY <1>2, <1>3, <1>4 DEF StageIs
<1>8. CASE node[t] = "synthesis"
  <2>1. Lifecycle!Rule(d0)
    BY <1>4, <1>6, <1>7, <1>8, OneMoves DEF Lifecycle!Rule, Governed, Ruled
  <2> QED
    BY <1>6, <2>1 DEF LifecycleStep, Lifecycle!Next
<1>9. CASE node[t] = "governance"
  <2>1. Lifecycle!Govern(d0)
    BY <1>4, <1>6, <1>7, <1>9, OneMoves DEF Lifecycle!Govern, Governed, Ruled
  <2> QED
    BY <1>6, <2>1 DEF LifecycleStep, Lifecycle!Next
<1>10. CASE node[t] \notin {"synthesis", "governance"}
  <2>1. StatusOf(d0)' = StatusOf(d0)
    BY <1>4, <1>6, <1>7, <1>10
  <2> QED
    BY <1>6, <2>1, NoneMoves DEF LifecycleStep
<1> QED
  BY <1>8, <1>9, <1>10

LEMMA PersistMoves ==
    ASSUME CouncilInv, CouncilInv', NEW t \in Threads, Persists(t)
    PROVE  LifecycleStep
<1>1. PICK d0 : d0 = st[t].decision
  OBVIOUS
<1>2. /\ TypeOK /\ node[t] = "persist" /\ st' = st /\ submitted' = submitted
      /\ node' = [node EXCEPT ![t] = "idle"]
  BY DEF CouncilInv, Persists
<1>3. CASE log' = log
  BY <1>2, <1>3, DropMoves
<1>4. CASE log' = Append(log, Entry(st[t]))
  <2>1. log \in Seq(LogEntries) /\ Entry(st[t]).decision = d0
    BY <1>1, <1>2 DEF TypeOK, Entry
  <2>2. /\ Len(log) \in Nat /\ DOMAIN log = 1..Len(log) /\ DOMAIN log' = 1..(Len(log) + 1)
        /\ log'[Len(log) + 1].decision = d0
        /\ \A i \in 1..Len(log) : log'[i] = log[i]
    BY <1>4, <2>1
  <2>3. InLog(d0)' /\ \A d \in Decisions \ {d0} : InLog(d)' <=> InLog(d)
    BY <2>2 DEF InLog
  <2>4. node'[t] = "idle" /\ \A u \in Threads \ {t} : node'[u] = node[u]
    BY <1>2 DEF TypeOK
  <2>5. /\ d0 \in Decisions /\ StatusOf(d0) = Stage(st[t]) /\ StatusOf(d0)' = "logged"
        /\ \A d \in Decisions \ {d0} : StatusOf(d)' = StatusOf(d)
    BY <1>1, <1>2, <2>3, <2>4, WorkMoves
  <2>6. Stage(st[t]) = "governed"
    BY <1>2, StageNow DEF StageIs, Governed
  <2>7. Lifecycle!Log(d0)
    BY <2>5, <2>6, OneMoves DEF Lifecycle!Log
  <2> QED
    BY <2>5, <2>7 DEF LifecycleStep, Lifecycle!Next
<1> QED
  BY <1>3, <1>4 DEF Persists

LEMMA StepMoves == CouncilInv /\ CouncilInv' /\ [Next]_vars => LifecycleStep
<1> SUFFICES ASSUME CouncilInv, CouncilInv', [Next]_vars PROVE LifecycleStep
  OBVIOUS
<1>1. TypeOK /\ HasDecision
  BY DEF CouncilInv
<1>2. ASSUME NEW t \in Threads, Submit(t) PROVE LifecycleStep
  BY <1>2, SubmitMoves
<1>3. CASE TogglePause \/ SponsorsFail \/ SponsorsRecover
  BY <1>3, QuietStays DEF TogglePause, SponsorsFail, SponsorsRecover, store
<1>4. ASSUME NEW t \in Threads, Run(t) PROVE LifecycleStep
  <2>1. CASE Enter(t) \/ Poll(t) \/ Release(t)
    BY <2>1, QuietStays DEF Enter, Poll, Release, store
  <2>2. CASE Abort(t) \/ Raises(t)
    <3>1. node[t] # "idle"
      BY <2>2 DEF Abort, Raises
    <3> QED
      BY <2>2, <3>1, DropMoves DEF Abort, Raises, store
  <2>3. CASE CommitteeOpens(t) \/ \E r \in Roles : AnalystAnswers(t, r) \/ AnalystRaises(t, r)
    BY <2>3, QuietStays DEF CommitteeOpens, AnalystAnswers, AnalystRaises, store
  <2>4. CASE \/ Intake(t) \/ Planner(t) \/ CommitteeCloses(t) \/ Challenge(t) \/ CrossExamine(t)
             \/ Influence(t) \/ Synthesis(t) \/ Reliability(t) \/ SelfImprovement(t)
    <3>1. (\E s : Carries(t, s)) /\ log' = log
      BY <1>1, <2>4, NodeCarries DEF store
    <3> QED
      BY <3>1, ReturnMoves DEF Carries
  <2>5. CASE Governance(t)
    <3>1. (\E s : Governs(t, s)) /\ log' = log
      BY <1>1, <2>5, GovernanceGoverns
    <3> QED
      BY <3>1, ReturnMoves, NodeNames DEF Governs
  <2>6. CASE Persist(t)
    BY <1>1, <2>6, PersistPersists, PersistMoves
  <2> QED
    BY <1>4, <2>1, <2>2, <2>3, <2>4, <2>5, <2>6 DEF Run, Committee
<1>5. CASE UNCHANGED vars
  BY <1>5, QuietStays DEF vars
<1> QED
  BY <1>2, <1>3, <1>4, <1>5 DEF Next

LEMMA StartsNew == Init => Lifecycle!Init
<1> SUFFICES ASSUME Init PROVE Lifecycle!Init
  OBVIOUS
<1>1. ASSUME NEW d \in Decisions PROVE StatusOf(d) = "new"
  BY BoundsAssumption DEF Init, StatusOf, Decisions, BoundsAssumption
<1> QED
  BY <1>1 DEF Lifecycle!Init

\* For any number of threads, analysts, decisions and failures, however the
\* nodes of the threads interleave: a decision is ruled on, then governed, then
\* logged, and dropped only where it stands.
THEOREM CouncilImplementsLifecycle == Spec => ImplementsLifecycle
<1>1. Init => Lifecycle!Init
  BY StartsNew
<1>2. CouncilInv /\ CouncilInv' /\ [Next]_vars
          => [Lifecycle!Next]_[d \in Decisions |-> StatusOf(d)]
  BY StepMoves DEF LifecycleStep
<1> QED
  BY <1>1, <1>2, CouncilAlways, PTL DEF Spec, ImplementsLifecycle, Lifecycle!Spec
=============================================================================
