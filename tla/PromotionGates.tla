--------------------------- MODULE PromotionGates ---------------------------
(***************************************************************************)
(* Promotion candidates and the gates that decide on them                  *)
(* (agent/src/promotion_gates.py), as the API, the command line            *)
(* (agent/src/eval_cli.py) and the seed (agent/src/data/seed.py) use them. *)
(*                                                                         *)
(* A candidate is registered, replayed, blocked or marked by a person.     *)
(* Each of these reads the candidate, decides, and records the decision    *)
(* with a series of Redis commands; the replay awaits minutes of model     *)
(* calls in between.  Callers are coroutines of the API and processes of   *)
(* the command line, so that their commands interleave.                    *)
(*                                                                         *)
(* A decision is modelled by its status, who took it and, for a replay,    *)
(* whether what was replayed deserved it.  Labels, explanations and Weave  *)
(* are left out.                                                           *)
(*                                                                         *)
(* Definitions marked "Mutation:" are plausible bugs in the definition     *)
(* that follows them.                                                      *)
(***************************************************************************)
EXTENDS Integers, Sequences, FiniteSets

CONSTANTS
    Callers,    \* coroutines and processes that act on candidates
    Candidates, \* the prompt versions that may be registered
    Points,     \* scores of a dimension, in whole points
    Cases,      \* sizes of the replay set
    MaxCalls,   \* bound of the model: calls made
    MaxFaults   \* bound of the model: calls that fail

MIN_RELIABILITY_GAIN == 30 \* tenths of a point
MIN_CASES == 2

ASSUME BoundsAssumption ==
    /\ MaxCalls \in Nat /\ MaxFaults \in Nat
    /\ Points \subseteq 0..100 /\ Cases \subseteq Nat

VARIABLES
    candidates, \* atlas:evaluation:candidate:<id>
    listed,     \* the candidate index
    gates,      \* atlas:evaluation:promotion:<id>: the ids stored
    latest,     \* atlas:evaluation:promotion:latest: an id, or 0
    stream,     \* the stream of promotions: ids, newest last
    call,       \* where a caller stands, and what it holds
    taken,      \* every decision taken, by id
    overlapped, \* whether two calls recorded decisions at once
    faults      \* calls that failed so far

vars == <<candidates, listed, gates, latest, stream, call, taken, overlapped, faults>>

Statuses == {"proposed", "approved", "blocked", "needs_review"}
Absent == [status |-> "absent", gate |-> 0]
Idle == [pc |-> "idle"]

Init ==
    /\ candidates = [c \in Candidates |-> Absent]
    /\ listed = {} /\ gates = {} /\ latest = 0 /\ stream = <<>>
    /\ call = [k \in Callers |-> Idle]
    /\ taken = <<>>
    /\ overlapped = FALSE
    /\ faults = 0

(***************************************************************************)
(* What a replay is worth.                                                 *)
(***************************************************************************)
Dimensions == {"evidence_grounding", "policy_compliance", "calibration"}

\* _composite_reliability, in tenths of a point.
CompositeReliability(s) ==
    4 * s["evidence_grounding"] + 3 * s["policy_compliance"] + 3 * s["calibration"]

\* A replay: the scores of incumbent and candidate, how many cases were
\* replayed, how many of the candidate's predictions took no stance, and
\* whether weave.Evaluation scored it or the direct loop.
Replays ==
    [incumbent : [Dimensions -> Points], candidate : [Dimensions -> Points],
     cases : Cases, malformed : 0..1, direct : BOOLEAN]

\* _aggregate_from_summary finds no malformed prediction in a summary.
Invalid(r) == IF r.direct THEN r.malformed ELSE 0

Gain(r) == CompositeReliability(r.candidate) - CompositeReliability(r.incumbent)

\* Mutation: the composite stands for the three dimensions.
HardGatesCompositeOnly(r) ==
    /\ Gain(r) >= 0
    /\ r.cases >= MIN_CASES
    /\ Invalid(r) = 0

\* The six hard gates: no regression of reliability and of each dimension,
\* coverage and trace quality.
HardGates(r) ==
    /\ Gain(r) >= 0
    /\ \A d \in Dimensions : r.candidate[d] >= r.incumbent[d]
    /\ r.cases >= MIN_CASES
    /\ Invalid(r) = 0

\* evaluate_promotion.
Verdict(r) ==
    IF ~HardGates(r) THEN "blocked"
    ELSE IF Gain(r) >= MIN_RELIABILITY_GAIN THEN "approved" ELSE "needs_review"

(***************************************************************************)
(* Recording a decision.                                                   *)
(***************************************************************************)
At(k, pc) == call[k].pc = pc
Goto(k, pc) == call' = [call EXCEPT ![k].pc = pc]
Ends(k) == call' = [call EXCEPT ![k] = Idle]

Recording == {"gate", "latest", "event", "candidate"}

Busy(k) == call[k].pc \in Recording \cup {"register"}

\* Decision d is taken and gets an id; the caller goes on to record it.
Takes(k, d) ==
    /\ Len(taken) < MaxCalls
    /\ taken' = Append(taken, d)
    /\ call' = [call EXCEPT ![k] = [pc |-> "gate", candidate |-> d.candidate, id |-> Len(taken) + 1]]
    /\ overlapped' = (overlapped \/ \E j \in Callers \ {k} : Busy(j))

\* record_gate_decision: the gate, the latest gate and the event, which is then
\* announced.
RecordGate(k) ==
    /\ At(k, "gate") /\ Goto(k, "latest")
    /\ gates' = gates \cup {call[k].id}
    /\ UNCHANGED <<candidates, listed, latest, stream, taken, overlapped, faults>>

RecordLatest(k) ==
    /\ At(k, "latest") /\ Goto(k, "event")
    /\ latest' = call[k].id
    /\ UNCHANGED <<candidates, listed, gates, stream, taken, overlapped, faults>>

RecordEvent(k) ==
    /\ At(k, "event") /\ Goto(k, "candidate")
    /\ stream' = Append(stream, call[k].id)
    /\ UNCHANGED <<candidates, listed, gates, latest, taken, overlapped, faults>>

\* One of them fails: the rest is skipped, and the candidate follows.
RecordFails(k) ==
    /\ call[k].pc \in {"gate", "latest", "event"}
    /\ faults < MaxFaults
    /\ faults' = faults + 1
    /\ Goto(k, "candidate")
    /\ UNCHANGED <<candidates, listed, gates, latest, stream, taken, overlapped>>

\* Mutation: the candidate keeps the name of its first gate.
ReflectionFirst(k) ==
    [status |-> taken[call[k].id].status,
     gate |-> IF candidates[call[k].candidate].gate # 0
              THEN candidates[call[k].candidate].gate ELSE call[k].id]

\* The decision is reflected back onto the candidate.
Reflection(k) == [status |-> taken[call[k].id].status, gate |-> call[k].id]

Reflect(k) ==
    /\ At(k, "candidate")
    /\ candidates' = [candidates EXCEPT ![call[k].candidate] = Reflection(k)]
    /\ Ends(k)
    /\ UNCHANGED <<listed, gates, latest, stream, taken, overlapped, faults>>

\* A read or write of the candidate fails, or the process dies: the call ends.
Fails(k) ==
    /\ ~At(k, "idle")
    /\ faults < MaxFaults
    /\ faults' = faults + 1
    /\ Ends(k)
    /\ UNCHANGED <<candidates, listed, gates, latest, stream, taken, overlapped>>

(***************************************************************************)
(* The calls.                                                              *)
(***************************************************************************)
\* What a decision is remembered by: who took it, and of a replay whether it is
\* sound and whether a prediction was malformed.
Decision(c, status, by, sound, malformed) ==
    [candidate |-> c, status |-> status, by |-> by, sound |-> sound, malformed |-> malformed]

\* run_promotion_replay, up to its model calls.
StartReplay(k, c) ==
    /\ At(k, "idle") /\ Len(taken) < MaxCalls
    /\ candidates[c] # Absent
    /\ call' = [call EXCEPT ![k] = [pc |-> "replaying", candidate |-> c, id |-> 0]]
    /\ UNCHANGED <<candidates, listed, gates, latest, stream, taken, overlapped, faults>>

\* What the gates are there to ensure: the candidate is better where it differs.
Sound(r) ==
    /\ \A d \in Dimensions : r.candidate[d] >= r.incumbent[d]
    /\ r.candidate # r.incumbent
    /\ r.cases >= 2
    /\ r.direct => r.malformed = 0

Outcomes ==
    {[status |-> Verdict(r), sound |-> Sound(r), malformed |-> r.malformed > 0] : r \in Replays}

\* The replay has been scored.
DecideReplay(k) ==
    /\ At(k, "replaying")
    /\ \E o \in Outcomes :
          Takes(k, Decision(call[k].candidate, o.status, "replay", o.sound, o.malformed))
    /\ UNCHANGED <<candidates, listed, gates, latest, stream, faults>>

\* block_unproven_candidate, which does not ask whether the candidate is proven.
Block(k, c) ==
    /\ candidates[c] # Absent
    /\ Takes(k, Decision(c, "blocked", "unproven", FALSE, FALSE))
    /\ UNCHANGED <<candidates, listed, gates, latest, stream, faults>>

\* mark_candidate.
Mark(k, c) ==
    /\ At(k, "idle") /\ candidates[c] # Absent
    /\ \E status \in {"approved", "blocked", "needs_review"} :
          Takes(k, Decision(c, status, "human", FALSE, FALSE))
    /\ UNCHANGED <<candidates, listed, gates, latest, stream, faults>>

\* upsert_candidates_from_prompt_versions, the first loop of the seed, for
\* one candidate; the second loop then blocks it if this one found it unproven.
Unproven(c) == candidates[c].status = "proposed" /\ candidates[c].gate = 0

Upsert(k, c) ==
    /\ At(k, "idle") /\ Len(taken) < MaxCalls
    /\ \/ /\ candidates[c] = Absent
          /\ call' = [call EXCEPT ![k] = [pc |-> "register", candidate |-> c, id |-> 0]]
       \/ /\ Unproven(c)
          /\ call' = [call EXCEPT ![k] = [pc |-> "unproven", candidate |-> c, id |-> 0]]
    /\ UNCHANGED <<candidates, listed, gates, latest, stream, taken, overlapped, faults>>

\* save_candidate: SET, then SADD, whose failure is swallowed.
Register(k) ==
    /\ At(k, "register") /\ Goto(k, "list")
    /\ candidates' = [candidates EXCEPT ![call[k].candidate] = [status |-> "proposed", gate |-> 0]]
    /\ UNCHANGED <<listed, gates, latest, stream, taken, overlapped, faults>>

List(k) ==
    /\ At(k, "list") /\ Goto(k, "unproven")
    /\ \E ok \in BOOLEAN :
          /\ ok \/ faults < MaxFaults
          /\ faults' = IF ok THEN faults ELSE faults + 1
          /\ listed' = IF ok THEN listed \cup {call[k].candidate} ELSE listed
    /\ UNCHANGED <<candidates, gates, latest, stream, taken, overlapped>>

\* The test of the second loop, on the copy the first loop has returned.
SeedBlocks(k) == At(k, "unproven")

Seed(k) == SeedBlocks(k) /\ Block(k, call[k].candidate)

(***************************************************************************)
(* The specification.                                                      *)
(***************************************************************************)
Proceeds(k) ==
    \/ RecordGate(k) \/ RecordLatest(k) \/ RecordEvent(k) \/ Reflect(k)
    \/ DecideReplay(k) \/ Register(k) \/ List(k) \/ Seed(k)

Next ==
    \E k \in Callers :
        \/ Proceeds(k) \/ RecordFails(k) \/ Fails(k)
        \/ \E c \in Candidates :
              \/ StartReplay(k, c) \/ Mark(k, c) \/ Upsert(k, c)
              \/ At(k, "idle") /\ Block(k, c)

Spec == Init /\ [][Next]_vars

(***************************************************************************)
(* Properties.                                                             *)
(***************************************************************************)
TypeOK ==
    /\ candidates \in [Candidates -> [status : Statuses \cup {"absent"}, gate : 0..MaxCalls]]
    /\ listed \subseteq Candidates
    /\ gates \subseteq 1..Len(taken) /\ latest \in 0..Len(taken)
    /\ \A i \in DOMAIN stream : stream[i] \in 1..Len(taken)
    /\ \A k \in Callers : call[k].pc \in Recording => call[k].id \in 1..Len(taken)
    /\ faults \in 0..MaxFaults

\* "Before any candidate can be promoted it must be replayed against a replay
\* set and beat the incumbent": a candidate is approved only by a person, or by
\* a replay that regressed in no dimension, gained in one, covered two cases and
\* had no malformed prediction the direct loop could see; and whatever becomes
\* of the gate's own record, the candidate says what its gate decided
\* (evaluate_promotion, record_gate_decision).
ApprovalIsEarned ==
    \A c \in Candidates : candidates[c].gate # 0 =>
        LET d == taken[candidates[c].gate]
        IN  /\ d.candidate = c /\ d.status = candidates[c].status
            /\ d.status = "approved" => d.by = "human" \/ d.sound

\* What an event, the latest pointer or a candidate names can be looked up,
\* whichever calls overlap; only a failed write leaves a candidate, and never an
\* event, that names a gate nobody stored.
NamedGatesAreStored ==
    /\ latest \in gates \cup {0} /\ \A i \in DOMAIN stream : stream[i] \in gates
    /\ faults = 0 => \A c \in Candidates : candidates[c].gate \in gates \cup {0}

\* Nothing failed, no two decisions were recorded at once, and none is being
\* recorded.
Settled == ~overlapped /\ faults = 0 /\ \A k \in Callers : ~Busy(k)

\* The summary counts the last event of each candidate, and the gate of each is
\* looked up by its id: named gates are stored, as above, and where recordings
\* neither failed nor overlapped the last event is the candidate's own status, its
\* gate is stored and the latest gate is the last event (record_gate_decision,
\* promotion_status_summary).
CandidateFollowsStream ==
    /\ NamedGatesAreStored
    /\ Settled =>
        /\ \A c \in Candidates :
              LET own == {i \in DOMAIN stream : taken[stream[i]].candidate = c}
              IN  IF own = {} THEN candidates[c].gate = 0
                  ELSE \E i \in own : (\A j \in own : j <= i) /\ candidates[c].gate = stream[i]
        /\ gates = {stream[i] : i \in DOMAIN stream}
        /\ stream # <<>> => latest = stream[Len(stream)]

\* "No malformed/empty candidate predictions" is a hard gate (summarize_gates);
\* the summary of weave.Evaluation never has one.
PredictionsAreWellFormed ==
    \A c \in Candidates : candidates[c].status = "approved" /\ candidates[c].gate # 0 =>
        LET d == taken[candidates[c].gate] IN d.by = "replay" => ~d.malformed
=============================================================================
