-------------------------- MODULE AgentReplacement --------------------------
(***************************************************************************)
(* The selection and replacement of the council's agents                   *)
(* (agent/src/self_improvement.py), with the rolling reliability prior it  *)
(* resets (agent/src/council_influence.py) and the demo reset that deletes *)
(* both.                                                                   *)
(*                                                                         *)
(* Every debate ends with an audit, which blends its scores into the prior *)
(* of each analyst, and a replacement, which reads the improvement state,  *)
(* awaits a model call for the weakest analyst and writes the whole state  *)
(* back.  The code between two awaits runs without interruption, so the    *)
(* debates of several threads interleave at that call; the reset runs in   *)
(* another thread, one command at a time.                                  *)
(*                                                                         *)
(* An incarnation is its generation.  A prior is modelled by where it came *)
(* from: seeded, blended by an audit, or given to a new incarnation.       *)
(* Directives, rationales and version labels are left out.                 *)
(*                                                                         *)
(* Definitions marked "Mutation:" are plausible bugs in the definition     *)
(* that follows them.                                                      *)
(***************************************************************************)
EXTENDS Integers, Sequences, SequencesExt, FiniteSets

CONSTANTS
    Debates,     \* threads of the chat, one debate each at a time
    Roles,       \* SUBAGENTS, in the order ties are broken: a sequence
    Scores,      \* reliability scores
    HistoryCap,  \* HISTORY_CAP
    MaxRounds,   \* bound of the model: debates run
    MaxResets,   \* bound of the model: demo resets
    MaxFailures  \* bound of the model: commands that fail

ASSUME RosterBounds ==
    /\ HistoryCap \in Nat \ {0}
    /\ MaxRounds \in Nat /\ MaxResets \in Nat /\ MaxFailures \in Nat
    /\ Scores \subseteq 0..100 /\ Scores # {}

Subagents == Range(Roles)

\* SUBAGENTS names each analyst once, and there are some.
ASSUME RolesAssumption ==
    /\ Roles \in Seq(Subagents) /\ Roles # <<>>
    /\ \A i, j \in DOMAIN Roles : Roles[i] = Roles[j] => i = j

VARIABLES
    stored,       \* atlas:evaluation:agent_improvement:<company>, or {} when absent
    prior,        \* atlas:evaluation:reliability_history:<company>, or {}
    improvements, \* atlas:stream:agent_improvements
    debate,       \* where a debate stands and the state it holds
    reset,        \* where the demo reset stands
    overlaps,     \* whether a write hit a document read before another's write
    rounds,       \* debates started so far
    resets,       \* resets started so far
    failures      \* commands failed so far

rosterVars == <<stored, prior, improvements, debate, reset, overlaps, rounds, resets, failures>>

(***************************************************************************)
(* The improvement state.                                                  *)
(***************************************************************************)
Lasts(s) == IF Len(s) <= HistoryCap THEN s ELSE SubSeq(s, Len(s) - HistoryCap + 1, Len(s))

BlankAgent == [generation |-> 1, lineage |-> <<>>, applied |-> 0, history |-> <<>>]
BlankState == [round |-> 0, agents |-> [r \in Subagents |-> BlankAgent], rounds |-> <<>>]

\* agent_improvement_state: the stored document, or a blank one.
ImprovementState == IF stored = {} THEN BlankState ELSE CHOOSE s \in stored : TRUE

\* _select_weakest: the lowest score, the first of the roster among equals.
Weakest(score) ==
    Roles[CHOOSE i \in DOMAIN Roles :
             /\ \A j \in DOMAIN Roles : score[Roles[i]] <= score[Roles[j]]
             /\ \A j \in DOMAIN Roles : score[Roles[j]] = score[Roles[i]] => i <= j]

\* The round's score joins every history.
Scored(s, score) ==
    [s EXCEPT !.agents = [r \in Subagents |->
        [s.agents[r] EXCEPT !.history =
            Lasts(Append(@, [round |-> s.round + 1, reliability |-> score[r]]))]]]

\* _replacement_baseline, for a dimension with the default lift of 6.
Baseline(score) ==
    LET lack == IF 62 > score THEN (62 - score) \div 4 ELSE 0
        lifted == IF 58 + lack > 78 THEN 78 ELSE 58 + lack
    IN  IF lifted < 52 THEN 52 ELSE lifted

\* Mutation: the retired generation stays out of the lineage.
ReplacedForgets(s, w, score) ==
    [round |-> s.round + 1,
     agents |-> [s.agents EXCEPT ![w] =
        [@ EXCEPT !.generation = @ + 1, !.applied = s.round + 1]],
     rounds |-> Lasts(Append(s.rounds,
        [round |-> s.round + 1, replaced |-> w, generation |-> s.agents[w].generation + 1]))]

\* The weakest is retired to its lineage, its successor starts a history of
\* its own, and the round is recorded.
Replaced(s, w, score) ==
    [round |-> s.round + 1,
     agents |-> [s.agents EXCEPT ![w] =
        [generation |-> @.generation + 1,
         lineage |-> Lasts(Append(@.lineage,
            [round |-> s.round + 1, generation |-> @.generation, final |-> score[w]])),
         applied |-> s.round + 1,
         history |-> <<[round |-> s.round + 1, reliability |-> Baseline(score[w])]>>]],
     rounds |-> Lasts(Append(s.rounds,
        [round |-> s.round + 1, replaced |-> w, generation |-> s.agents[w].generation + 1]))]

RosterInit ==
    /\ stored = {} /\ prior = {} /\ improvements = <<>>
    /\ debate = [d \in Debates |-> [at |-> "idle"]]
    /\ reset = "idle"
    /\ overlaps = FALSE
    /\ rounds = 0 /\ resets = 0 /\ failures = 0

(***************************************************************************)
(* The debates.                                                            *)
(***************************************************************************)
Outcome(ok) ==
    /\ ok \/ failures < MaxFailures
    /\ failures' = IF ok THEN failures ELSE failures + 1

\* The prior document, or the defaults.
Prior == IF prior = {} THEN [r \in Subagents |-> "seeded"] ELSE CHOOSE p \in prior : TRUE

\* update_historical_reliability, in the reliability node; a failure is
\* caught and leaves the prior as it was.
Audit(d) ==
    /\ debate[d].at = "idle"
    /\ rounds < MaxRounds
    /\ rounds' = rounds + 1
    /\ \E ok \in BOOLEAN :
          /\ Outcome(ok)
          /\ prior' = IF ok THEN {[r \in Subagents |-> "blended"]} ELSE prior
    /\ \E score \in [Subagents -> Scores] : debate' = [debate EXCEPT ![d] = [at |-> "audited", score |-> score]]
    /\ UNCHANGED <<stored, improvements, reset, overlaps, resets>>

\* replace_weakest_agent up to the model call.
Select(d) ==
    /\ debate[d].at = "audited"
    /\ LET s == Scored(ImprovementState, debate[d].score)
       IN  debate' = [debate EXCEPT ![d] =
              [at |-> "spawning", score |-> debate[d].score, state |-> s,
               base |-> stored, weakest |-> Weakest(debate[d].score)]]
    /\ UNCHANGED <<stored, prior, improvements, reset, overlaps, rounds, resets, failures>>

\* Mutation: the event is the oldest round the document keeps.
WritesOldest(s, done) ==
    /\ stored' = IF done >= 1 THEN {s} ELSE stored
    /\ improvements' = IF done >= 2 THEN Append(improvements, Head(s.rounds)) ELSE improvements

\* SET, then XADD; a failure of either is caught, and skips what follows.
Writes(s, done) ==
    /\ stored' = IF done >= 1 THEN {s} ELSE stored
    /\ improvements' = IF done >= 2 THEN Append(improvements, Last(s.rounds)) ELSE improvements

\* The model has answered, or has not: a directive is derived then.  The prior
\* of the slot is reset, in a try of its own, and the state written back.
Replace(d) ==
    /\ debate[d].at = "spawning"
    /\ LET w == debate[d].weakest
           s == Replaced(debate[d].state, w, debate[d].score)
       IN  \E ok \in BOOLEAN, done \in 0..2 :
              /\ Outcome(ok /\ done = 2)
              /\ prior' = IF ok THEN {[Prior EXCEPT ![w] = "fresh"]} ELSE prior
              /\ Writes(s, done)
              /\ overlaps' = (overlaps \/ stored # debate[d].base)
    /\ debate' = [debate EXCEPT ![d] = [at |-> "idle"]]
    /\ UNCHANGED <<reset, rounds, resets>>

\* The sponsors are not ready when the node is entered, which ends the run, or
\* the process dies at the model call.
Abandon(d) ==
    /\ debate[d].at \in {"audited", "spawning"}
    /\ Outcome(FALSE)
    /\ debate' = [debate EXCEPT ![d] = [at |-> "idle"]]
    /\ UNCHANGED <<stored, prior, improvements, reset, overlaps, rounds, resets>>

(***************************************************************************)
(* The demo reset: streams, keys, then the seed.                           *)
(***************************************************************************)
ResetBegins ==
    /\ reset = "idle" /\ resets < MaxResets
    /\ resets' = resets + 1
    /\ improvements' = <<>>
    /\ reset' = "streams"
    /\ UNCHANGED <<stored, prior, debate, overlaps, rounds, failures>>

\* atlas:evaluation:* goes.
ResetDeletes ==
    /\ reset = "streams"
    /\ stored' = {} /\ prior' = {}
    /\ reset' = "deleted"
    /\ UNCHANGED <<improvements, debate, overlaps, rounds, resets, failures>>

\* seed_historical_reliability and seed_agent_improvement_state read a
\* document and write it when there is none.
SeedReads ==
    /\ reset = "deleted"
    /\ reset' = IF stored = {} THEN "blank" ELSE "idle"
    /\ prior' = IF prior = {} THEN {[r \in Subagents |-> "seeded"]} ELSE prior
    /\ UNCHANGED <<stored, improvements, debate, overlaps, rounds, resets, failures>>

SeedWrites ==
    /\ reset = "blank"
    /\ stored' = {BlankState}
    /\ overlaps' = (overlaps \/ stored # {})
    /\ reset' = "idle"
    /\ UNCHANGED <<prior, improvements, debate, rounds, resets, failures>>

RosterNext ==
    \/ \E d \in Debates : Audit(d) \/ Select(d) \/ Replace(d) \/ Abandon(d)
    \/ ResetBegins \/ ResetDeletes \/ SeedReads \/ SeedWrites

RosterSpec == RosterInit /\ [][RosterNext]_rosterVars

(***************************************************************************)
(* Properties.                                                             *)
(***************************************************************************)
TheWeakestGoes(s) ==
    s.rounds # <<>> =>
        LET e == Last(s.rounds)
            final == Last(s.agents[e.replaced].lineage).final
            score(r) == IF r = e.replaced THEN final ELSE Last(s.agents[r].history).reliability
        IN  \A i, j \in DOMAIN Roles : Roles[i] = e.replaced =>
               /\ final <= score(Roles[j])
               /\ j < i => final < score(Roles[j])

TellsOneStory(s) ==
    /\ Len(s.rounds) = IF s.round < HistoryCap THEN s.round ELSE HistoryCap
    /\ \A i \in DOMAIN s.rounds : s.rounds[i].round = s.round - Len(s.rounds) + i
    /\ FoldFunction(LAMBDA a, n : n + a.generation - 1, 0, s.agents) = s.round
    /\ \A r \in Subagents :
          LET a == s.agents[r]
          IN  /\ a.generation = 1 <=> a.lineage = <<>>
              /\ a.lineage # <<>> =>
                    /\ Last(a.lineage).generation = a.generation - 1
                    /\ Last(a.lineage).round = a.applied
              /\ \A i \in DOMAIN a.history : a.history[i].round \in a.applied..s.round
              /\ s.round > 0 => Last(a.history).round = s.round
    /\ TheWeakestGoes(s)

\* The improvement state tells one story, whoever wrote it and over whose
\* version: its rounds are the last ones and count up to its round number, the
\* generations of the roster add up to the rounds played, an agent's lineage
\* ends with the generation before its own and the round that replaced it, and
\* its history is its own: no score of an incarnation before it is in it.  And the
\* analyst the last round retired was its weakest: nobody scored lower, and of
\* equals the first went (agent_improvement_state, replace_weakest_agent).
RosterTellsOneStory == \A s \in stored : TellsOneStory(s)

\* As long as no debate wrote over another's round, no reset ran and no command
\* failed, the stream is the history of the roster: each round once, ending
\* with the round of the document (append_event(IMPROVE_STREAM)).
StreamIsTheHistory ==
    ~overlaps /\ resets = 0 /\ failures = 0 =>
        /\ \A i \in DOMAIN improvements : improvements[i].round = i
        /\ Len(improvements) = ImprovementState.round
        /\ \A s \in stored : IsSuffix(s.rounds, improvements)
=============================================================================
