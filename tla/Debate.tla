------------------------------- MODULE Debate -------------------------------
(***************************************************************************)
(* One orchestrated debate (agent/src/orchestration/debate.py, run_debate, *)
(* driven by the debate node of graph.py) together with the operators who  *)
(* steer it while it runs (control.py) and its checkpoints (store.py).     *)
(*                                                                         *)
(* The engine is one coroutine.  Before each round it reads the control    *)
(* document atlas:orch:control:<thread>; operators rewrite that document   *)
(* from the thread pool of the API, each with a GET followed by a SET, so  *)
(* their commands interleave with the engine's own GET and SET.            *)
(*                                                                         *)
(* A model call returns some stance, a report or nothing (llm_io catches   *)
(* every failure); a seat whose call fails keeps its previous stance or    *)
(* abstains, one of the outcomes the choice of stances already has.        *)
(* Prompts, confidences, telemetry and dashboard events are left out, and  *)
(* one operator call sets one field of the control document.               *)
(*                                                                         *)
(* Definitions marked "Mutation:" are not part of the specification: each  *)
(* is a plausible bug in the definition that follows it, kept to show which *)
(* property would notice.                                                  *)
(***************************************************************************)
EXTENDS Integers, SequencesExt

CONSTANTS
    Roles,          \* seats the registry knows
    Names,          \* what operators write, lower-cased by set_control
    RoleOf,         \* registry.resolve_seats: the seat a name resolves to
    Nobody,         \* ... or none
    Committee,      \* the seats of the planned topology
    WeightOf,       \* reliability weight of each seat
    Answers,        \* stances the model gives; a failed call may abstain
    MaxPlanned,     \* most rounds a plan may ask for (ConductorPlan: 5)
    AbsMaxRounds,   \* the cap of control.py (8)
    Threshold,      \* planned convergence threshold, in percent
    Overrides,      \* thresholds operators set
    NoOverride,
    Forces,         \* numbers of rounds operators force
    Operators,      \* operator calls that may run at the same time
    MaxCalls        \* bound of the model: operator calls started

Stances == {"support", "oppose", "conditional", "abstain"}

ASSUME NamesAssumption ==
    /\ Roles \subseteq Names
    /\ Nobody \notin Roles
    /\ RoleOf \in [Names -> Roles \cup {Nobody}]
    /\ \A r \in Roles : RoleOf[r] = r
ASSUME CommitteeAssumption == Committee \in Seq(Roles)
ASSUME WeightAssumption == WeightOf \in [Roles -> Nat]
ASSUME AnswersAssumption == Answers \subseteq Stances
ASSUME RoundsAssumption ==
    /\ MaxPlanned \in Nat \ {0}
    /\ AbsMaxRounds \in Nat
    /\ MaxPlanned <= AbsMaxRounds
ASSUME DirectivesAssumption ==
    /\ Threshold \in Nat
    /\ Overrides \subseteq Nat
    /\ NoOverride \notin Nat
    /\ Forces \subseteq Int
    /\ MaxCalls \in Nat

VARIABLES
    topology,   \* what the conductor planned: rounds, red team, loops
    engine,     \* the local variables of run_debate, and where it is
    saved,      \* rounds whose checkpoint document is stored
    index,      \* rounds listed in the thread's checkpoint index
    control,    \* the control document
    operator,   \* the operator calls in progress
    calls,      \* operator calls started
    asked,      \* rounds operators have asked for, ...
    granted     \* ... and the engine has added: history, read by no action

vars == <<topology, engine, saved, index, control, operator, calls, asked, granted>>

Reports == {"none", "satisfied", "unsatisfied"}

(***************************************************************************)
(* The control document (control.py).                                      *)
(***************************************************************************)
Controls == [inject : Seq(Names), retire : SUBSET Names, force : Nat,
             override : Overrides \cup {NoOverride}]
DefaultControl == [inject |-> <<>>, retire |-> {}, force |-> 0,
                   override |-> NoOverride]

\* A request for a negative number of rounds asks for none.
Clamped(k) == IF k < 0 THEN 0 ELSE k

\* The document set_control may make of the one it read.
Forcing(c, k) == [c EXCEPT !.force = Clamped(k)]
Injected(c, n) == IF n \in ToSet(c.inject) THEN c
                  ELSE [c EXCEPT !.inject = Append(@, n)]
Retired(c, n) == [c EXCEPT !.retire = @ \cup {n}]
Overridden(c, t) == [c EXCEPT !.override = t]

\* registry.resolve_seats: known seats, each once, in the order written.
Resolved(names) ==
    FoldLeft(LAMBDA found, n : IF RoleOf[n] \in ToSet(found) \cup {Nobody}
                               THEN found ELSE Append(found, RoleOf[n]),
             <<>>, names)

\* apply_seats: an injected name counts as seated only if it is spelt like a seat.
Seated(current, c) ==
    LET kept == SelectSeq(current, LAMBDA s : s \notin c.retire)
    IN  kept \o Resolved(SelectSeq(c.inject, LAMBDA n : n \notin ToSet(kept)))

\* Mutation: the cap is forgotten.
UncappedLimit(planned, extra) == planned + extra

\* The bound on forced rounds.
RaisedLimit(planned, extra) ==
    IF planned + extra < AbsMaxRounds THEN planned + extra ELSE AbsMaxRounds

(***************************************************************************)
(* Signals computed from a round (debate.py).                              *)
(***************************************************************************)
WeightFor(chairs, given, kinds) ==
    LET sum[i \in 0..Len(chairs)] ==
            IF i = 0 THEN 0
            ELSE sum[i - 1] + IF given[i] \in kinds THEN WeightOf[chairs[i]] ELSE 0
    IN  sum[Len(chairs)]
TotalWeight(chairs, given) == WeightFor(chairs, given, Stances)

\* compute_convergence: the modal stance reaches the threshold.
Converged(chairs, given, percent) ==
    LET total == TotalWeight(chairs, given)
    IN  /\ total > 0
        /\ \E s \in ToSet(given) :
              100 * WeightFor(chairs, given, {s}) >= percent * total

\* tally_votes: the heaviest stance, the first of this order on a tie.
Order == <<"support", "oppose", "conditional", "abstain">>
Winner(chairs, given) ==
    LET w == [i \in 1..4 |-> WeightFor(chairs, given, {Order[i]})]
    IN  IF TotalWeight(chairs, given) = 0 THEN "abstain"
        ELSE Order[CHOOSE i \in 1..4 : /\ \A j \in 1..4 : w[i] >= w[j]
                                       /\ \A j \in 1..(i - 1) : w[i] > w[j]]

\* The stance that holds more than half of the weight, if one does.
Majority(chairs, given) ==
    LET total == TotalWeight(chairs, given)
    IN  {s \in ToSet(given) : 2 * WeightFor(chairs, given, {s}) > total}

Rounds == [loop : BOOLEAN, converged : BOOLEAN]

(***************************************************************************)
(* State.                                                                  *)
(***************************************************************************)
Topologies == [rounds : 1..MaxPlanned, redTeam : BOOLEAN, loops : BOOLEAN]

Engines ==
    [pc : {"control", "reread", "clear", "round", "save", "list", "redteam",
           "loopback", "redteam_again", "vote", "done", "failed"},
     r : Nat,                   \* the round counter
     limit : Nat,               \* max_rounds
     threshold : Overrides \cup {Threshold},
     seats : Seq(Roles),        \* debate_seats
     forced : Nat,              \* force_more_rounds, as read before the round
     view : Controls,           \* what _consume_force_rounds read
     rounds : Seq(Rounds),      \* the rounds held
     stances : Seq(Stances),    \* prev_stances, seat by seat
     report : {"none", "satisfied", "unsatisfied"},   \* red_team
     stop : {"max_rounds", "converged", "red_team_satisfied"},
     agreed : SUBSET Stances,   \* the majority that convergence reports
     decision : Stances \cup {"none"}]                \* the vote's decision

TypeOK ==
    /\ topology \in Topologies
    /\ engine \in Engines
    /\ saved \subseteq Nat
    /\ index \in Seq(Nat)
    /\ control \in Controls
    /\ operator \in [Operators -> [busy : BOOLEAN, copy : Controls]]
    /\ calls \in 0..MaxCalls
    /\ asked \in Nat
    /\ granted \in Nat

Init ==
    /\ topology \in Topologies
    /\ engine = [pc |-> "control", r |-> 0, limit |-> topology.rounds,
                 threshold |-> Threshold, seats |-> Committee, forced |-> 0,
                 view |-> DefaultControl, rounds |-> <<>>, stances |-> <<>>,
                 report |-> "none", stop |-> "max_rounds", agreed |-> {},
                 decision |-> "none"]
    /\ saved = {}
    /\ index = <<>>
    /\ control = DefaultControl
    /\ operator = [o \in Operators |-> [busy |-> FALSE, copy |-> DefaultControl]]
    /\ calls = 0
    /\ asked = 0
    /\ granted = 0

At(phase) == engine.pc = phase
AfterLoop == IF topology.redTeam THEN "redteam" ELSE "vote"

(***************************************************************************)
(* The engine.                                                             *)
(***************************************************************************)
(* A round begins: the directives standing in the control document apply. *)
ReadControl ==
    /\ At("control")
    /\ engine' = [engine EXCEPT
          !.pc = IF control.force = 0 THEN "round" ELSE "reread",
          !.r = @ + 1,
          !.seats = Seated(@, control),
          !.threshold = IF control.override = NoOverride THEN @ ELSE control.override,
          !.forced = control.force]
    /\ UNCHANGED <<topology, saved, index, control, operator, calls, asked, granted>>

(* _consume_force_rounds reads the document again ... *)
RereadControl ==
    /\ At("reread")
    /\ engine' = [engine EXCEPT !.pc = "clear", !.view = control]
    /\ UNCHANGED <<topology, saved, index, control, operator, calls, asked, granted>>

(* ... and writes it back without the directive it is about to apply. *)
ClearForce ==
    /\ At("clear")
    /\ control' = [engine.view EXCEPT !.force = 0]
    /\ granted' = granted + engine.forced
    /\ engine' = [engine EXCEPT !.pc = "round", !.forced = 0, !.view = DefaultControl,
                                !.limit = RaisedLimit(@, engine.forced)]
    /\ UNCHANGED <<topology, saved, index, operator, calls, asked>>

Positions == [DOMAIN engine.seats -> Answers \cup {"abstain"}]
Held(given, loop, next) ==
    [engine EXCEPT
        !.pc = next,
        !.stances = given,
        !.agreed = Majority(engine.seats, given),
        !.rounds = Append(@, [loop |-> loop,
                              converged |-> Converged(engine.seats, given,
                                                      engine.threshold)])]

(* Mutation: a debate that lost all its seats waits for somebody to sit down. *)
HoldRoundWhenSeated ==
    /\ At("round") /\ engine.seats # <<>>
    /\ \E given \in Positions : engine' = Held(given, FALSE, "save")
    /\ UNCHANGED <<topology, saved, index, control, operator, calls, asked, granted>>

(* _run_round and compute_convergence: every seat takes a position. *)
HoldRound ==
    /\ At("round")
    /\ \E given \in Positions : engine' = Held(given, FALSE, "save")
    /\ UNCHANGED <<topology, saved, index, control, operator, calls, asked, granted>>

(* Mutation: the loop is left without a stop reason. *)
NextRoundQuietly(e) ==
    [e EXCEPT !.pc = IF e.r < e.limit /\ ~Last(e.rounds).converged
                     THEN "control" ELSE AfterLoop]

(* The debate stops when the round converged, or when max_rounds are held. *)
NextRound(e) ==
    IF Last(e.rounds).converged
    THEN [e EXCEPT !.pc = AfterLoop, !.stop = "converged"]
    ELSE [e EXCEPT !.pc = IF e.r < e.limit THEN "control" ELSE AfterLoop]

(* Mutation: the checkpoint is listed though it was not stored. *)
SaveCheckpointLater ==
    /\ At("save")
    /\ engine' = [engine EXCEPT !.pc = "list"]
    /\ UNCHANGED <<topology, saved, index, control, operator, calls, asked, granted>>

(* emit_cb stores a checkpoint of the round ... *)
SaveCheckpoint ==
    /\ At("save")
    /\ saved' = saved \cup {engine.r}
    /\ engine' = [engine EXCEPT !.pc = "list"]
    /\ UNCHANGED <<topology, index, control, operator, calls, asked, granted>>

(* ... and lists it as the head of the thread ... *)
ListCheckpoint ==
    /\ At("list")
    /\ index' = Append(index, engine.r)
    /\ engine' = NextRound(engine)
    /\ UNCHANGED <<topology, saved, control, operator, calls, asked, granted>>

(* ... unless Redis raises: emit_cb goes on without the checkpoint. *)
SkipCheckpoint ==
    /\ At("save") \/ At("list")
    /\ engine' = NextRound(engine)
    /\ UNCHANGED <<topology, saved, index, control, operator, calls, asked, granted>>

(* Mutation: the red team is heard, and the debate goes on to the vote. *)
RedTeamIgnored ==
    /\ At("redteam")
    /\ \E given \in {"none", "satisfied", "unsatisfied"} :
          engine' = [engine EXCEPT !.report = given, !.pc = "vote"]
    /\ UNCHANGED <<topology, saved, index, control, operator, calls, asked, granted>>

(* The red team's report, none when the call fails. *)
RedTeam ==
    /\ At("redteam")
    /\ \E given \in {"none", "satisfied", "unsatisfied"} :
          engine' = [engine EXCEPT
              !.report = given,
              !.pc = IF given = "unsatisfied" /\ topology.loops
                     THEN "loopback" ELSE "vote"]
    /\ UNCHANGED <<topology, saved, index, control, operator, calls, asked, granted>>

(* The loop-back round: no directive is read before it, no checkpoint after. *)
LoopBack ==
    /\ At("loopback")
    /\ \E given \in Positions : engine' = Held(given, TRUE, "redteam_again")
    /\ UNCHANGED <<topology, saved, index, control, operator, calls, asked, granted>>

(* The second report; the first one stands if this call fails. *)
RedTeamAgain ==
    /\ At("redteam_again")
    /\ \E given \in {"none", "satisfied", "unsatisfied"} :
          engine' = [engine EXCEPT
              !.pc = "vote",
              !.report = IF given = "none" THEN @ ELSE given,
              !.stop = IF given = "satisfied" THEN "red_team_satisfied" ELSE @]
    /\ UNCHANGED <<topology, saved, index, control, operator, calls, asked, granted>>

(* One vote for each position of the last round.  The negotiation before it and
   the CFO's synthesis after it produce texts that no later step looks at. *)
Vote ==
    /\ At("vote")
    /\ engine' = [engine EXCEPT !.pc = "done",
                                !.decision = Winner(engine.seats, engine.stances)]
    /\ UNCHANGED <<topology, saved, index, control, operator, calls, asked, granted>>

(* A read or write of the control document raises, or the process dies: the
   local variables of run_debate are gone, what is in Redis stays. *)
Gone(e) == [e EXCEPT !.pc = "failed", !.rounds = <<>>, !.stances = <<>>,
                     !.agreed = {}, !.seats = Committee, !.forced = 0,
                     !.view = DefaultControl, !.threshold = Threshold,
                     !.report = "none", !.stop = "max_rounds"]
Abort ==
    /\ engine.pc \notin {"done", "failed"}
    /\ engine' = Gone(engine)
    /\ UNCHANGED <<topology, saved, index, control, operator, calls, asked, granted>>

(***************************************************************************)
(* Operators: POST /orchestration/control/{thread_id}.                     *)
(***************************************************************************)
OperatorReads(o) ==
    /\ ~operator[o].busy
    /\ calls < MaxCalls
    /\ calls' = calls + 1
    /\ operator' = [operator EXCEPT ![o] = [busy |-> TRUE, copy |-> control]]
    /\ UNCHANGED <<topology, engine, saved, index, control, asked, granted>>

Finish(o) ==
    operator' = [operator EXCEPT ![o] = [busy |-> FALSE, copy |-> DefaultControl]]

OperatorSteers(o) ==
    LET c == operator[o].copy IN
    /\ operator[o].busy
    /\ \/ \E n \in Names : control' \in {Injected(c, n), Retired(c, n)}
       \/ \E t \in Overrides : control' = Overridden(c, t)
    /\ Finish(o)
    /\ UNCHANGED <<topology, engine, saved, index, calls, asked, granted>>

OperatorForces(o, k) ==
    /\ operator[o].busy
    /\ control' = Forcing(operator[o].copy, k)
    /\ asked' = asked + Clamped(k)
    /\ Finish(o)
    /\ UNCHANGED <<topology, engine, saved, index, calls, granted>>

OperatorFails(o) ==
    /\ operator[o].busy
    /\ Finish(o)
    /\ UNCHANGED <<topology, engine, saved, index, control, calls, asked, granted>>

Engine ==
    \/ ReadControl \/ RereadControl \/ ClearForce \/ HoldRound
    \/ SaveCheckpoint \/ ListCheckpoint \/ SkipCheckpoint
    \/ RedTeam \/ LoopBack \/ RedTeamAgain \/ Vote

Operate ==
    \E o \in Operators : \/ OperatorReads(o) \/ OperatorSteers(o) \/ OperatorFails(o)
                         \/ \E k \in Forces : OperatorForces(o, k)

Next == Engine \/ Abort \/ Operate

Spec == Init /\ [][Next]_vars

\* The event loop keeps running the debate, whose model calls all return.
FairSpec == Spec /\ WF_vars(Engine)

(***************************************************************************)
(* Properties.                                                             *)
(***************************************************************************)
LoopEnded == engine.pc \in {"redteam", "loopback", "redteam_again", "vote", "done"}
Least(a, b) == IF a < b THEN a ELSE b

\* However often operators force rounds, and whatever they overwrite, a debate
\* holds at most the capped number of rounds and one loop-back; what raised the
\* limit is accounted for ("an operator (or a bug) can never make a debate run
\* unbounded", control.py).
RoundsBounded ==
    /\ engine.limit = Least(AbsMaxRounds, topology.rounds + granted)
    /\ engine.r <= engine.limit
    /\ Len(engine.rounds) <= engine.r + 1

\* The stop reason reported is what happened: only the last round of the main
\* loop, the r-th, can have converged; max_rounds means all of them were held
\* without agreement; and a satisfied red team was satisfied after a loop-back.
StopReasonIsTrue == LoopEnded =>
    /\ \A i \in 1..(engine.r - 1) : ~engine.rounds[i].converged
    /\ engine.stop = "converged" => engine.rounds[engine.r].converged
    /\ engine.stop = "max_rounds" =>
          engine.r = engine.limit /\ ~engine.rounds[engine.r].converged
    /\ engine.stop = "red_team_satisfied" =>
          Len(engine.rounds) = engine.r + 1 /\ engine.report = "satisfied"

\* An unsatisfied red team gets exactly one more round, the last, where the plan
\* allows loops, and no other debate gets one.
RedTeamIsAnswered ==
    /\ \A i \in 1..Len(engine.rounds) : engine.rounds[i].loop =>
          i = engine.r + 1 /\ topology.redTeam /\ topology.loops
    /\ engine.pc \in {"vote", "done"} /\ engine.report = "unsatisfied" /\ topology.loops
       => /\ Len(engine.rounds) = engine.r + 1
          /\ engine.rounds[engine.r + 1].loop

\* A listed checkpoint is stored, the list is in the order of the rounds, and it
\* never names a round that was not held, whatever fails in between.
CheckpointsFollowRounds ==
    /\ \A i \in 1..Len(index) : index[i] \in saved
    /\ \A i, j \in 1..Len(index) : i < j => index[i] < index[j]
    /\ engine.pc # "failed" =>
          \A k \in saved : /\ k \in 1..Len(engine.rounds)
                           /\ ~engine.rounds[k].loop

\* Every debate comes to an end, even if its operators keep forcing rounds: it
\* fails, or its vote, taken later from prev_stances, settles on the stance that
\* held the majority of the weight in the last round held.
DebateEnds ==
    <>(\/ engine.pc = "failed"
       \/ engine.pc = "done" /\ engine.agreed \subseteq {engine.decision})

\* A force_more_rounds directive is applied once ("cleared after they are applied
\* so they don't re-fire every round", control.py).
ForcedOnce == granted <= asked

\* A retired seat is dropped from the next round ("retire seats (drop a seat from
\* the next round)", control.py).
RetiredSeatsLeave ==
    [][engine.pc = "control" /\ engine'.pc \in {"round", "reread"}
       => ToSet(engine'.seats) \cap control.retire = {}]_vars
=============================================================================
