---------------------------- MODULE DebateProofs ----------------------------
(***************************************************************************)
(* Theorems about Debate, for any committee, names, weights, thresholds,   *)
(* number of operators and cap on the rounds.                              *)
(*                                                                         *)
(* What the safety properties say of the end of a debate follows from      *)
(* where the engine is: DebateInv relates the phase to the number of       *)
(* rounds held, the round counter, the flags of the rounds and the         *)
(* checkpoints.  The seats, the stances and the vote are not constrained:  *)
(* nothing below depends on who debates or how they vote.                  *)
(***************************************************************************)
EXTENDS Debate, TLAPS

EngineFields == {"pc", "r", "limit", "threshold", "seats", "forced", "view",
                 "rounds", "stances", "report", "stop", "agreed", "decision"}
ControlFields == {"inject", "retire", "force", "override"}

\* A control document as far as the number of forced rounds is concerned.
IsControl(c) == DOMAIN c = ControlFields /\ c.force \in Nat

Typed ==
    /\ topology \in Topologies
    /\ DOMAIN engine = EngineFields
    /\ engine.pc \in {"control", "reread", "clear", "round", "save", "list",
                      "redteam", "loopback", "redteam_again", "vote", "done", "failed"}
    /\ engine.r \in Nat
    /\ engine.limit \in Nat
    /\ engine.forced \in Nat
    /\ engine.rounds \in Seq(Rounds)
    /\ engine.report \in {"none", "satisfied", "unsatisfied"}
    /\ engine.stop \in {"max_rounds", "converged", "red_team_satisfied"}
    /\ IsControl(engine.view)
    /\ IsControl(control)
    /\ DOMAIN operator = Operators
    /\ \A o \in Operators : IsControl(operator[o].copy)
    /\ saved \subseteq Nat
    /\ index \in Seq(Nat)
    /\ granted \in Nat

Budget ==
    /\ engine.limit = Least(AbsMaxRounds, topology.rounds + granted)
    /\ engine.r <= engine.limit
    /\ engine.limit > 0

Progress ==
    /\ engine.pc = "control" => Len(engine.rounds) = engine.r /\ engine.r < engine.limit
    /\ engine.pc \in {"reread", "clear", "round"} => Len(engine.rounds) + 1 = engine.r
    /\ engine.pc \in {"save", "list", "redteam", "loopback"} =>
          Len(engine.rounds) = engine.r /\ engine.r > 0
    /\ engine.pc = "redteam_again" => Len(engine.rounds) = engine.r + 1 /\ engine.r > 0
    /\ engine.pc \in {"vote", "done"} => Len(engine.rounds) >= engine.r /\ engine.r > 0
    /\ Len(engine.rounds) <= engine.r + 1

History ==
    /\ \A i \in 1..Len(engine.rounds) : engine.rounds[i].loop <=> i = engine.r + 1
    /\ \A i \in 1..Len(engine.rounds) :
          i < engine.r \/ engine.pc = "control" => ~engine.rounds[i].converged

Outcome ==
    /\ engine.pc \in {"control", "reread", "clear", "round", "save", "list", "redteam"} =>
          engine.report = "none"
    /\ engine.pc \in {"control", "reread", "clear", "round", "save", "list"} =>
          engine.stop = "max_rounds"
    /\ engine.pc = "redteam" => topology.redTeam
    /\ engine.pc \in {"loopback", "redteam_again"} => topology.redTeam /\ topology.loops
    /\ Len(engine.rounds) = engine.r + 1 => topology.redTeam /\ topology.loops
    /\ LoopEnded /\ engine.stop = "converged" => engine.rounds[engine.r].converged
    /\ LoopEnded /\ engine.stop = "max_rounds" =>
          engine.r = engine.limit /\ ~engine.rounds[engine.r].converged
    /\ engine.stop = "red_team_satisfied" =>
          /\ engine.pc \in {"vote", "done"}
          /\ Len(engine.rounds) = engine.r + 1
          /\ engine.report = "satisfied"
    /\ engine.pc \in {"vote", "done"} /\ engine.report = "unsatisfied" /\ topology.loops
          => Len(engine.rounds) = engine.r + 1

Checkpoints ==
    /\ \A i \in 1..Len(index) : index[i] \in saved
    /\ \A i, j \in 1..Len(index) : i < j => index[i] < index[j]
    /\ engine.pc # "failed" =>
          \A k \in saved : 1 <= k /\ k <= Len(engine.rounds) /\ k <= engine.r
    /\ engine.pc \in {"reread", "clear", "round", "save", "list"} =>
          \A i \in 1..Len(index) : index[i] < engine.r
    /\ engine.pc = "list" => engine.r \in saved

DebateInv == Typed /\ Budget /\ Progress /\ History /\ Outcome /\ Checkpoints

LEMMA InvInit == Init => DebateInv
<1> SUFFICES ASSUME Init PROVE DebateInv
  OBVIOUS
<1> USE RoundsAssumption
<1>1. Typed
  BY DEF Init, Typed, Topologies, EngineFields, IsControl, ControlFields, DefaultControl
<1>2. topology.rounds \in Nat /\ topology.rounds <= AbsMaxRounds /\ topology.rounds > 0
  BY DEF Init, Topologies
<1>3. Budget
  BY <1>2 DEF Init, Budget, Least
<1>4. Progress /\ History /\ Outcome
  BY <1>2 DEF Init, Progress, History, Outcome, LoopEnded
<1>5. Checkpoints
  BY DEF Init, Checkpoints
<1> QED
  BY <1>1, <1>3, <1>4, <1>5 DEF DebateInv

LEMMA InvReadControl == DebateInv /\ ReadControl => DebateInv'
<1> SUFFICES ASSUME DebateInv, ReadControl PROVE DebateInv'
  OBVIOUS
<1> USE DEF DebateInv, ReadControl, At
<1>1. Typed'
  BY DEF Typed, EngineFields, IsControl
<1>2. Budget' /\ Progress' /\ History'
  BY DEF Typed, EngineFields, Budget, Progress, History, IsControl
<1>3. Outcome' /\ Checkpoints'
  BY DEF Typed, EngineFields, Progress, Outcome, LoopEnded, Checkpoints, IsControl
<1> QED
  BY <1>1, <1>2, <1>3

LEMMA InvReread == DebateInv /\ RereadControl => DebateInv'
<1> SUFFICES ASSUME DebateInv, RereadControl PROVE DebateInv'
  OBVIOUS
<1>1. /\ DOMAIN engine' = EngineFields
      /\ engine.pc = "reread" /\ engine'.pc = "clear" /\ engine'.view = control
      /\ engine'.r = engine.r /\ engine'.limit = engine.limit
      /\ engine'.forced = engine.forced /\ engine'.rounds = engine.rounds
      /\ engine'.report = engine.report /\ engine'.stop = engine.stop
      /\ UNCHANGED <<topology, saved, index, control, operator, granted>>
  BY DEF DebateInv, Typed, EngineFields, RereadControl, At
<1>2. Typed'
  BY <1>1 DEF DebateInv, Typed, IsControl
<1>3. Budget' /\ Progress' /\ History' /\ Outcome' /\ Checkpoints'
  BY <1>1 DEF DebateInv, Typed, Budget, Progress, History, Outcome, LoopEnded, Checkpoints
<1> QED
  BY <1>2, <1>3 DEF DebateInv

\* The directive consumed raises the limit, never past the cap.
LEMMA InvClear == DebateInv /\ ClearForce => DebateInv'
<1> SUFFICES ASSUME DebateInv, ClearForce PROVE DebateInv'
  OBVIOUS
<1>1. /\ DOMAIN engine' = EngineFields
      /\ engine.pc = "clear" /\ engine'.pc = "round"
      /\ engine'.view = DefaultControl /\ engine'.forced = 0
      /\ engine'.limit = RaisedLimit(engine.limit, engine.forced)
      /\ engine'.r = engine.r /\ engine'.rounds = engine.rounds
      /\ engine'.report = engine.report /\ engine'.stop = engine.stop
      /\ UNCHANGED <<topology, saved, index, operator>>
  BY DEF DebateInv, Typed, EngineFields, ClearForce, At
<1>2. granted' = granted + engine.forced /\ granted' \in Nat
  BY DEF DebateInv, Typed, ClearForce
<1>3. IsControl(control') /\ IsControl(engine'.view)
  BY <1>1 DEF DebateInv, Typed, ClearForce, IsControl, ControlFields, DefaultControl
<1>4. /\ engine'.limit \in Nat
      /\ engine'.limit = Least(AbsMaxRounds, topology.rounds + granted')
      /\ engine.limit <= engine'.limit
  <2>1. /\ topology.rounds \in Nat /\ AbsMaxRounds \in Nat
        /\ granted \in Nat /\ engine.forced \in Nat
        /\ engine.limit = Least(AbsMaxRounds, topology.rounds + granted)
    BY RoundsAssumption DEF DebateInv, Typed, Topologies, Budget
  <2> QED
    BY <1>1, <1>2, <2>1 DEF Least, RaisedLimit
<1>5. Typed'
  BY <1>1, <1>2, <1>3, <1>4 DEF DebateInv, Typed
<1>6. Budget' /\ Progress'
  BY <1>1, <1>4 DEF DebateInv, Typed, Budget, Progress
<1>7. History' /\ Outcome' /\ Checkpoints'
  BY <1>1 DEF DebateInv, Typed, Progress, History, Outcome, LoopEnded, Checkpoints
<1> QED
  BY <1>5, <1>6, <1>7 DEF DebateInv

\* A round held, in the main loop or looping back, is appended to the history.
LEMMA InvHold == DebateInv /\ (HoldRound \/ LoopBack) => DebateInv'
<1> SUFFICES ASSUME DebateInv, NEW given, NEW loop \in BOOLEAN, NEW next,
                    IF loop THEN At("loopback") /\ next = "redteam_again"
                            ELSE At("round") /\ next = "save",
                    engine' = Held(given, loop, next),
                    UNCHANGED <<topology, saved, index, control, operator, calls,
                                asked, granted>>
             PROVE  DebateInv'
  BY DEF HoldRound, LoopBack
<1> DEFINE new == [loop |-> loop,
                   converged |-> Converged(engine.seats, given, engine.threshold)]
<1>1. new \in Rounds
  BY DEF Rounds, Converged
<1>2. /\ engine' = [engine EXCEPT !.pc = next, !.stances = given,
                      !.agreed = Majority(engine.seats, given),
                      !.rounds = Append(@, new)]
      /\ new.loop = loop
  BY DEF Held
<1> HIDE DEF new
<1>3. /\ engine'.rounds = Append(engine.rounds, new)
      /\ engine'.pc = next
      /\ DOMAIN engine' = EngineFields
      /\ engine'.r = engine.r /\ engine'.limit = engine.limit
      /\ engine'.forced = engine.forced /\ engine'.view = engine.view
      /\ engine'.report = engine.report /\ engine'.stop = engine.stop
  BY <1>2 DEF DebateInv, Typed, EngineFields
<1>4. /\ engine'.rounds \in Seq(Rounds)
      /\ Len(engine'.rounds) = Len(engine.rounds) + 1
      /\ \A i \in 1..Len(engine.rounds) : engine'.rounds[i] = engine.rounds[i]
      /\ engine'.rounds[Len(engine.rounds) + 1] = new
  BY <1>1, <1>3 DEF DebateInv, Typed
<1>5. Typed'
  BY <1>3, <1>4 DEF DebateInv, Typed, IsControl, At
<1>6. Budget' /\ Progress'
  BY <1>3, <1>4 DEF DebateInv, Typed, Budget, Progress, At
<1>7. History'
  BY <1>2, <1>3, <1>4 DEF DebateInv, Typed, Progress, History, At
<1>8. Outcome'
  BY <1>3, <1>4 DEF DebateInv, Typed, Progress, Outcome, LoopEnded, At
<1>9. Checkpoints'
  BY <1>3, <1>4 DEF DebateInv, Typed, Progress, Checkpoints, At
<1> QED
  BY <1>5, <1>6, <1>7, <1>8, <1>9 DEF DebateInv

\* Where the engine goes after a round, and with which stop reason.
LEMMA NextRoundFields ==
    ASSUME DebateInv, engine.pc \in {"save", "list"}
    PROVE  /\ DOMAIN NextRound(engine) = EngineFields
           /\ NextRound(engine).pc \in {"control", "redteam", "vote"}
           /\ NextRound(engine).pc = "redteam" => topology.redTeam
           /\ NextRound(engine).r = engine.r
           /\ NextRound(engine).limit = engine.limit
           /\ NextRound(engine).forced = engine.forced
           /\ NextRound(engine).view = engine.view
           /\ NextRound(engine).rounds = engine.rounds
           /\ NextRound(engine).report = "none"
           /\ NextRound(engine).pc = "control" =>
                 /\ engine.r < engine.limit
                 /\ ~engine.rounds[engine.r].converged
                 /\ NextRound(engine).stop = "max_rounds"
           /\ NextRound(engine).pc # "control" =>
                 \/ /\ engine.rounds[engine.r].converged
                    /\ NextRound(engine).stop = "converged"
                 \/ /\ ~engine.rounds[engine.r].converged
                    /\ engine.r = engine.limit
                    /\ NextRound(engine).stop = "max_rounds"
<1>1. Last(engine.rounds) = engine.rounds[engine.r]
  BY DEF DebateInv, Progress, Last
<1> QED
  BY <1>1 DEF DebateInv, Typed, EngineFields, Budget, Outcome, NextRound, AfterLoop

LEMMA InvCheckpoint ==
    DebateInv /\ (SaveCheckpoint \/ ListCheckpoint \/ SkipCheckpoint) => DebateInv'
<1>1. ASSUME DebateInv, SaveCheckpoint PROVE DebateInv'
  <2> USE <1>1 DEF DebateInv, SaveCheckpoint, At
  <2>1. Typed' /\ Budget' /\ Progress' /\ History'
    BY DEF Typed, EngineFields, IsControl, Budget, Progress, History
  <2>2. Outcome' /\ Checkpoints'
    BY DEF Typed, EngineFields, Progress, Outcome, LoopEnded, Checkpoints
  <2> QED
    BY <2>1, <2>2
<1>2. ASSUME DebateInv, engine.pc \in {"save", "list"}, engine' = NextRound(engine),
             UNCHANGED <<topology, control, operator, granted>>
      PROVE  (/\ saved' \subseteq Nat /\ index' \in Seq(Nat))
             => Typed' /\ Budget' /\ Progress' /\ History' /\ Outcome'
  <2>1. (/\ saved' \subseteq Nat /\ index' \in Seq(Nat)) => Typed'
    BY <1>2, NextRoundFields DEF DebateInv, Typed, IsControl
  <2>2. Budget' /\ Progress'
    BY <1>2, NextRoundFields DEF DebateInv, Typed, Budget, Progress
  <2>3. History'
    BY <1>2, NextRoundFields DEF DebateInv, Typed, Progress, History
  <2>4. Outcome'
    BY <1>2, NextRoundFields DEF DebateInv, Typed, Progress, Outcome, LoopEnded
  <2> QED
    BY <2>1, <2>2, <2>3, <2>4
<1>3. ASSUME DebateInv, ListCheckpoint PROVE DebateInv'
  <2>1. /\ engine.pc = "list" /\ engine' = NextRound(engine)
        /\ index' = Append(index, engine.r) /\ saved' = saved
        /\ UNCHANGED <<topology, control, operator, granted>>
    BY <1>3 DEF ListCheckpoint, At
  <2>2. /\ index' \in Seq(Nat)
        /\ Len(index') = Len(index) + 1
        /\ \A i \in 1..Len(index) : index'[i] = index[i]
        /\ index'[Len(index) + 1] = engine.r
    BY <1>3, <2>1 DEF DebateInv, Typed
  <2>3. Typed' /\ Budget' /\ Progress' /\ History' /\ Outcome'
    BY <1>2, <1>3, <2>1, <2>2 DEF DebateInv, Typed
  <2>4. /\ engine.r \in saved
        /\ \A i \in 1..Len(index) : index[i] \in saved /\ index[i] < engine.r
        /\ \A i, j \in 1..Len(index) : i < j => index[i] < index[j]
    BY <1>3, <2>1 DEF DebateInv, Checkpoints
  <2>5. \A i \in 1..Len(index') : index'[i] \in saved'
    BY <1>3, <2>1, <2>2, <2>4 DEF DebateInv, Typed
  <2>6. \A i, j \in 1..Len(index') : i < j => index'[i] < index'[j]
    <3>1. Len(index) \in Nat
      BY <1>3 DEF DebateInv, Typed
    <3>2. SUFFICES ASSUME NEW i \in 1..Len(index'), NEW j \in 1..Len(index'), i < j
                   PROVE  index'[i] < index'[j]
      OBVIOUS
    <3>3. i \in 1..Len(index) /\ (j \in 1..Len(index) \/ j = Len(index) + 1)
      BY <2>2, <3>1, <3>2
    <3> QED
      BY <2>2, <2>4, <3>2, <3>3
  <2>7. Checkpoints'
    BY <1>3, <2>1, <2>5, <2>6, NextRoundFields DEF DebateInv, Typed, Progress, Checkpoints
  <2> QED
    BY <2>3, <2>7 DEF DebateInv
<1>4. ASSUME DebateInv, SkipCheckpoint PROVE DebateInv'
  <2>1. /\ engine.pc \in {"save", "list"} /\ engine' = NextRound(engine)
        /\ UNCHANGED <<topology, saved, index, control, operator, granted>>
    BY <1>4 DEF SkipCheckpoint, At
  <2>2. Typed' /\ Budget' /\ Progress' /\ History' /\ Outcome'
    BY <1>2, <1>4, <2>1 DEF DebateInv, Typed
  <2>3. Checkpoints'
    BY <1>4, <2>1, NextRoundFields DEF DebateInv, Typed, Progress, Checkpoints
  <2> QED
    BY <2>2, <2>3 DEF DebateInv
<1> QED
  BY <1>1, <1>3, <1>4

LEMMA InvRedTeam == DebateInv /\ (RedTeam \/ RedTeamAgain \/ Vote) => DebateInv'
<1> SUFFICES ASSUME DebateInv, RedTeam \/ RedTeamAgain \/ Vote PROVE DebateInv'
  OBVIOUS
<1>1. /\ DOMAIN engine' = EngineFields
      /\ engine'.r = engine.r /\ engine'.limit = engine.limit
      /\ engine'.forced = engine.forced /\ engine'.view = engine.view
      /\ engine'.rounds = engine.rounds
      /\ UNCHANGED <<topology, saved, index, control, operator, granted>>
  BY DEF DebateInv, Typed, EngineFields, RedTeam, RedTeamAgain, Vote
<1>2. \/ /\ engine.pc = "redteam" /\ engine'.stop = engine.stop
         /\ engine'.report \in {"none", "satisfied", "unsatisfied"}
         /\ engine'.pc = IF engine'.report = "unsatisfied" /\ topology.loops
                         THEN "loopback" ELSE "vote"
      \/ /\ engine.pc = "redteam_again" /\ engine'.pc = "vote"
         /\ engine'.report \in {"none", "satisfied", "unsatisfied"}
         /\ \/ engine'.stop = engine.stop
            \/ engine'.stop = "red_team_satisfied" /\ engine'.report = "satisfied"
      \/ /\ engine.pc = "vote" /\ engine'.pc = "done"
         /\ engine'.stop = engine.stop /\ engine'.report = engine.report
  BY DEF DebateInv, Typed, EngineFields, RedTeam, RedTeamAgain, Vote, At
<1>3. Typed'
  BY <1>1, <1>2 DEF DebateInv, Typed, IsControl
<1>4. Budget' /\ Progress' /\ History' /\ Checkpoints'
  BY <1>1, <1>2 DEF DebateInv, Typed, Budget, Progress, History, Checkpoints
<1>5. Outcome'
  BY <1>1, <1>2 DEF DebateInv, Typed, Progress, Outcome, LoopEnded
<1> QED
  BY <1>3, <1>4, <1>5 DEF DebateInv

LEMMA InvAbort == DebateInv /\ Abort => DebateInv'
<1> SUFFICES ASSUME DebateInv, Abort PROVE DebateInv'
  OBVIOUS
<1>1. /\ DOMAIN engine' = EngineFields
      /\ engine'.pc = "failed" /\ engine'.rounds = <<>>
      /\ engine'.view = DefaultControl /\ engine'.forced = 0
      /\ engine'.report = "none" /\ engine'.stop = "max_rounds"
      /\ engine'.r = engine.r /\ engine'.limit = engine.limit
      /\ UNCHANGED <<topology, saved, index, control, operator, granted>>
  BY DEF DebateInv, Typed, EngineFields, Abort, Gone
<1>2. IsControl(DefaultControl)
  BY DEF IsControl, ControlFields, DefaultControl
<1>3. Typed'
  BY <1>1, <1>2 DEF DebateInv, Typed
<1>4. Budget' /\ Progress' /\ History' /\ Outcome' /\ Checkpoints'
  BY <1>1 DEF DebateInv, Typed, Budget, Progress, History, Outcome, LoopEnded, Checkpoints
<1> QED
  BY <1>3, <1>4 DEF DebateInv

\* Operators write only the control document.
LEMMA InvOperate == DebateInv /\ Operate => DebateInv'
<1> SUFFICES ASSUME DebateInv, NEW o \in Operators,
                    \/ OperatorReads(o) \/ OperatorSteers(o) \/ OperatorFails(o)
                    \/ \E k \in Forces : OperatorForces(o, k)
             PROVE  DebateInv'
  BY DEF Operate
<1> DEFINE c == operator[o].copy
<1>1. UNCHANGED <<topology, engine, saved, index, granted>>
  BY DEF OperatorReads, OperatorSteers, OperatorFails, OperatorForces
<1>2. IsControl(c) /\ IsControl(control) /\ IsControl(DefaultControl)
  BY DEF DebateInv, Typed, IsControl, DefaultControl, ControlFields
<1>3. IsControl(control')
  <2>1. \A n : IsControl(Injected(c, n)) /\ IsControl(Retired(c, n))
    BY <1>2 DEF IsControl, ControlFields, Injected, Retired
  <2>2. \A t : IsControl(Overridden(c, t))
    BY <1>2 DEF IsControl, ControlFields, Overridden
  <2>3. \A k \in Forces : IsControl(Forcing(c, k))
    BY <1>2, DirectivesAssumption DEF IsControl, ControlFields, Forcing, Clamped
  <2> QED
    BY <1>2, <2>1, <2>2, <2>3
       DEF OperatorReads, OperatorSteers, OperatorFails, OperatorForces
<1>4. /\ DOMAIN operator' = Operators
      /\ \A p \in Operators : IsControl(operator'[p].copy)
  <2>1. /\ DOMAIN operator = Operators
        /\ \A p \in Operators : IsControl(operator[p].copy)
    BY DEF DebateInv, Typed
  <2>2. \E copy \in {control, DefaultControl}, b \in BOOLEAN :
           operator' = [operator EXCEPT ![o] = [busy |-> b, copy |-> copy]]
    BY DEF OperatorReads, OperatorSteers, OperatorFails, OperatorForces, Finish
  <2> QED
    BY <1>2, <2>1, <2>2
<1> QED
  BY <1>1, <1>3, <1>4
     DEF DebateInv, Typed, Budget, Progress, History, Outcome, LoopEnded, Checkpoints

LEMMA InvStep == DebateInv /\ [Next]_vars => DebateInv'
<1>1. DebateInv /\ UNCHANGED vars => DebateInv'
  BY DEF vars, DebateInv, Typed, Budget, Progress, History, Outcome, LoopEnded,
         Checkpoints
<1> QED
  BY <1>1, InvReadControl, InvReread, InvClear, InvHold, InvCheckpoint, InvRedTeam, InvAbort,
     InvOperate DEF Next, Engine

LEMMA InvAlways == Spec => []DebateInv
  BY InvInit, InvStep, PTL DEF Spec

\* No operator, and no race between operators and the engine, takes a debate past
\* the cap: at most AbsMaxRounds rounds and one loop-back.
THEOREM DebatesAreBounded == Spec => []RoundsBounded
<1>1. DebateInv => RoundsBounded
  BY DEF DebateInv, Budget, Progress, RoundsBounded
<1> QED
  BY <1>1, InvAlways, PTL

\* The stop reason of a debate is what ended its main loop, or its loop-back.
THEOREM StopReasonsAreTrue == Spec => []StopReasonIsTrue
<1>1. ASSUME DebateInv, LoopEnded, NEW i \in 1..(engine.r - 1)
      PROVE  ~engine.rounds[i].converged
  <2>1. Len(engine.rounds) \in Nat /\ engine.r \in Nat
    BY <1>1 DEF DebateInv, Typed
  <2>2. Len(engine.rounds) >= engine.r
    BY <1>1, <2>1 DEF DebateInv, Progress, LoopEnded
  <2>3. i \in 1..Len(engine.rounds) /\ i < engine.r
    BY <2>1, <2>2
  <2> QED
    BY <1>1, <2>3 DEF DebateInv, History
<1>2. DebateInv => StopReasonIsTrue
  BY <1>1 DEF DebateInv, Outcome, StopReasonIsTrue
<1> QED
  BY <1>2, InvAlways, PTL

\* An unsatisfied red team is answered by one loop-back round where loops are allowed.
THEOREM RedTeamsAreAnswered == Spec => []RedTeamIsAnswered
<1>1. DebateInv => RedTeamIsAnswered
  BY DEF DebateInv, Typed, Progress, History, Outcome, RedTeamIsAnswered
<1> QED
  BY <1>1, InvAlways, PTL

\* Checkpoints are listed in the order of the rounds and only once they are stored.
THEOREM CheckpointsAreSound == Spec => []CheckpointsFollowRounds
<1>1. DebateInv => CheckpointsFollowRounds
  BY DEF DebateInv, Typed, Progress, History, Checkpoints, CheckpointsFollowRounds
<1> QED
  BY <1>1, InvAlways, PTL
=============================================================================
