----------------------- MODULE SelfImprovementProofs -----------------------
(***************************************************************************)
(* Theorems about the council's improvement of itself, with their proofs:  *)
(* the promotion gates (PromotionGates) and the replacement of the weakest *)
(* agent (AgentReplacement).  The two share nothing, and neither part      *)
(* cites the other.                                                        *)
(***************************************************************************)
EXTENDS PromotionGates, AgentReplacement, FiniteSetTheorems, WellFoundedInduction, TLAPS

(***************************************************************************)
(* PromotionGates.                                                         *)
(*                                                                         *)
(* A candidate is written from a decision that was taken, by a caller that *)
(* still holds its id.  Decisions are never taken back, so that what is    *)
(* claimed of a candidate is an invariant of the decisions, of the callers *)
(* that have one to record, and of the candidates, whoever overtakes whom  *)
(* and whatever fails in between.                                          *)
(*                                                                         *)
(* The stream is another matter: it is in order only as long as nothing    *)
(* fails and no two decisions are recorded at once.  Then the decision     *)
(* being recorded is the last one taken, and the gates, the latest gate,   *)
(* the stream and the candidates, in the order in which they are written,  *)
(* are complete but for it (Ordered).  That what they name is stored needs *)
(* no such premise but for the candidates, which follow after a failure    *)
(* (Stored).                                                               *)
(***************************************************************************)

Decisions ==
    [candidate : Candidates, status : Statuses, by : {"replay", "human", "unproven"},
     sound : BOOLEAN, malformed : BOOLEAN]

\* The steps of a call, and what a caller holds at them.
Pcs == Recording \cup {"idle", "replaying", "register", "list", "unproven"}
Calls == {Idle} \cup [pc : Pcs \ {"idle"}, candidate : Candidates, id : Nat]

Typed ==
    /\ taken \in Seq(Decisions)
    /\ candidates \in [Candidates -> [status : Statuses \cup {"absent"}, gate : Nat]]
    /\ call \in [Callers -> Calls]

\* No decision approves what neither a person nor a sound replay vouches for.
Earned(d) == d.status = "approved" => d.by = "human" \/ d.sound

DecisionsEarned == \A i \in 1..Len(taken) : Earned(taken[i])

\* Who records a decision records one that was taken of this candidate.
CallersHold ==
    \A k \in Callers : call[k].pc \in Recording =>
        /\ call[k].id \in 1..Len(taken)
        /\ taken[call[k].id].candidate = call[k].candidate

CandidatesTell ==
    \A c \in Candidates : candidates[c].gate # 0 =>
        /\ candidates[c].gate \in 1..Len(taken)
        /\ taken[candidates[c].gate].candidate = c
        /\ taken[candidates[c].gate].status = candidates[c].status

GateInv == Typed /\ DecisionsEarned /\ CallersHold /\ CandidatesTell

----------------------------------------------------------------------------
\* The scores of a replay are integers.
LEMMA CompositeType ==
    ASSUME NEW s \in [Dimensions -> Points]
    PROVE  /\ CompositeReliability(s) \in Int
           /\ \A d \in Dimensions : s[d] \in Int
<1>1. \A d \in Dimensions : s[d] \in Points
  OBVIOUS
<1>2. Points \subseteq Int
  BY BoundsAssumption, SMT DEF BoundsAssumption
<1>3. \A d \in Dimensions : s[d] \in Int
  BY <1>1, <1>2
<1> QED
  BY <1>3 DEF CompositeReliability, Dimensions

\* The gates are strict enough: whatever is replayed, what they approve is no
\* worse in any dimension, differs, covers two cases, and had no malformed
\* prediction that was counted (evaluate_promotion).
LEMMA VerdictIsSound ==
    ASSUME NEW r \in Replays, Verdict(r) = "approved"
    PROVE  Sound(r)
<1>1. /\ r.incumbent \in [Dimensions -> Points] /\ r.candidate \in [Dimensions -> Points]
      /\ r.cases \in Nat
  BY BoundsAssumption DEF BoundsAssumption, Replays
<1>2. HardGates(r) /\ Gain(r) >= MIN_RELIABILITY_GAIN
  BY DEF Verdict
<1>3. r.candidate # r.incumbent
  <2>1. SUFFICES ASSUME r.candidate = r.incumbent PROVE FALSE
    OBVIOUS
  <2>2. Gain(r) = 0
    BY <1>1, <2>1, CompositeType DEF Gain
  <2> QED
    BY <1>2, <2>2 DEF MIN_RELIABILITY_GAIN
<1>4. r.direct => r.malformed = 0
  BY <1>2 DEF HardGates, Invalid
<1>5. \A d \in Dimensions : r.candidate[d] >= r.incumbent[d]
  BY <1>2 DEF HardGates
<1>6. r.cases >= 2
  BY <1>2 DEF HardGates, MIN_CASES
<1> QED
  BY <1>3, <1>4, <1>5, <1>6 DEF Sound

LEMMA OutcomeType ==
    ASSUME NEW o \in Outcomes
    PROVE  /\ o.status \in Statuses /\ o.sound \in BOOLEAN /\ o.malformed \in BOOLEAN
           /\ o.status = "approved" => o.sound
<1>1. PICK r \in Replays :
          o = [status |-> Verdict(r), sound |-> Sound(r), malformed |-> r.malformed > 0]
  BY DEF Outcomes
<1>2. Verdict(r) \in Statuses
  BY DEF Verdict, Statuses
<1>3. Sound(r) \in BOOLEAN
  BY DEF Sound
<1>4. (r.malformed > 0) \in BOOLEAN
  OBVIOUS
<1>5. Verdict(r) = "approved" => Sound(r)
  BY VerdictIsSound
<1> QED
  BY <1>1, <1>2, <1>3, <1>4, <1>5

----------------------------------------------------------------------------
LEMMA GateInit == Init => GateInv
<1> SUFFICES ASSUME Init PROVE GateInv
  OBVIOUS
<1>1. Typed
  BY DEF Init, Typed, Absent, Idle, Calls
<1>2. DecisionsEarned
  BY DEF Init, DecisionsEarned
<1>3. CallersHold
  BY DEF Init, CallersHold, Idle, Recording
<1>4. CandidatesTell
  BY DEF Init, CandidatesTell, Absent
<1> QED
  BY <1>1, <1>2, <1>3, <1>4 DEF GateInv

\* Taking a decision that is earned keeps the invariant: the ones taken before
\* stay where they are.
LEMMA TakesKeeps ==
    ASSUME GateInv, NEW k \in Callers, NEW d \in Decisions, Earned(d), Takes(k, d),
           UNCHANGED candidates
    PROVE  GateInv'
<1>1. /\ taken \in Seq(Decisions) /\ taken' = Append(taken, d) /\ Len(taken) \in Nat
      /\ call' = [call EXCEPT ![k] =
                     [pc |-> "gate", candidate |-> d.candidate, id |-> Len(taken) + 1]]
  BY DEF GateInv, Typed, Takes
<1>2. /\ Len(taken') = Len(taken) + 1 /\ taken'[Len(taken) + 1] = d
      /\ \A i \in 1..Len(taken) : taken'[i] = taken[i]
  BY <1>1
<1>3. Typed'
  <2>1. taken' \in Seq(Decisions)
    BY <1>1
  <2>2. [pc |-> "gate", candidate |-> d.candidate, id |-> Len(taken) + 1] \in Calls
    BY <1>1 DEF Decisions, Calls, Pcs, Recording
  <2> QED
    BY <1>1, <2>1, <2>2 DEF GateInv, Typed
<1>4. DecisionsEarned'
  BY <1>1, <1>2 DEF GateInv, DecisionsEarned, Earned
<1>5. CallersHold'
  <2> SUFFICES ASSUME NEW j \in Callers, call'[j].pc \in Recording
               PROVE  /\ call'[j].id \in 1..Len(taken')
                      /\ taken'[call'[j].id].candidate = call'[j].candidate
    BY DEF CallersHold
  <2>1. CASE j = k
    <3>1. call'[k] = [pc |-> "gate", candidate |-> d.candidate, id |-> Len(taken) + 1]
      BY <1>1 DEF GateInv, Typed
    <3> QED
      BY <1>1, <1>2, <2>1, <3>1
  <2>2. CASE j # k
    <3>1. call'[j] = call[j]
      BY <1>1, <2>2 DEF GateInv, Typed
    <3> QED
      BY <1>1, <1>2, <3>1 DEF GateInv, CallersHold
  <2> QED
    BY <2>1, <2>2
<1>6. CandidatesTell'
  BY <1>1, <1>2 DEF GateInv, CandidatesTell
<1> QED
  BY <1>3, <1>4, <1>5, <1>6 DEF GateInv

\* So does moving on within a call, or ending one, when nothing else changes.
LEMMA MovesKeep ==
    ASSUME GateInv, UNCHANGED <<taken, candidates>>, NEW k \in Callers, NEW b \in Calls,
           call' = [call EXCEPT ![k] = b],
           b.pc \in Recording =>
               b.id \in 1..Len(taken) /\ taken[b.id].candidate = b.candidate
    PROVE  GateInv'
<1>1. \A j \in Callers : call'[j] = IF j = k THEN b ELSE call[j]
  BY DEF GateInv, Typed
<1>2. Typed'
  BY DEF GateInv, Typed
<1>3. DecisionsEarned' /\ CandidatesTell'
  BY DEF GateInv, DecisionsEarned, CandidatesTell
<1>4. CallersHold'
  BY <1>1 DEF GateInv, CallersHold
<1> QED
  BY <1>2, <1>3, <1>4 DEF GateInv

\* A caller that has decided something goes from one write to the next.
LEMMA RecordingKeeps ==
    ASSUME GateInv, UNCHANGED <<taken, candidates>>, NEW k \in Callers,
           call[k].pc \in Recording, NEW pc \in Recording, Goto(k, pc)
    PROVE  GateInv'
<1>1. call[k] \in [pc : Pcs \ {"idle"}, candidate : Candidates, id : Nat]
  BY DEF GateInv, Typed, Calls, Idle, Recording
<1> DEFINE b == [call[k] EXCEPT !.pc = pc]
<1>2. b \in Calls /\ b.id = call[k].id /\ b.candidate = call[k].candidate
  BY <1>1 DEF Calls, Pcs, Recording
<1>3. call' = [call EXCEPT ![k] = b]
  BY DEF Goto
<1>4. b.id \in 1..Len(taken) /\ taken[b.id].candidate = b.candidate
  BY <1>2 DEF GateInv, CallersHold
<1> HIDE DEF b
<1> QED
  BY <1>2, <1>3, <1>4, MovesKeep

\* A caller between two writes of a registration holds no decision.
LEMMA RegisteringKeeps ==
    ASSUME GateInv, NEW k \in Callers, NEW pc \in {"list", "unproven"}, ~At(k, "idle"),
           Goto(k, pc), UNCHANGED <<taken, candidates>>
    PROVE  GateInv'
<1>1. call[k] \in [pc : Pcs \ {"idle"}, candidate : Candidates, id : Nat]
  BY DEF GateInv, Typed, Calls, Idle, At
<1> DEFINE b == [call[k] EXCEPT !.pc = pc]
<1>2. b \in Calls /\ b.pc \notin Recording
  BY <1>1 DEF Calls, Pcs, Recording
<1>3. call' = [call EXCEPT ![k] = b]
  BY DEF Goto
<1> HIDE DEF b
<1> QED
  BY <1>2, <1>3, MovesKeep

----------------------------------------------------------------------------
\* Every step keeps the invariant.
LEMMA ProceedsKeeps ==
    ASSUME GateInv, NEW k \in Callers, Proceeds(k)
    PROVE  GateInv'
<1>1. CASE RecordGate(k) \/ RecordLatest(k) \/ RecordEvent(k)
  BY <1>1, RecordingKeeps DEF RecordGate, RecordLatest, RecordEvent, At, Recording
<1>2. CASE Reflect(k)
  <2> DEFINE c == call[k].candidate
             i == call[k].id
  <2>1. /\ call[k] \in [pc : Pcs \ {"idle"}, candidate : Candidates, id : Nat]
        /\ i \in 1..Len(taken) /\ taken[i].candidate = c
    BY <1>2 DEF Reflect, At, GateInv, Typed, Calls, Idle, CallersHold, Recording
  <2>2. c \in Candidates /\ Len(taken) \in Nat /\ taken[i] \in Decisions
    BY <2>1 DEF GateInv, Typed
  <2>3. /\ candidates' = [candidates EXCEPT ![c] = [status |-> taken[i].status, gate |-> i]]
        /\ call' = [call EXCEPT ![k] = Idle] /\ taken' = taken
    BY <1>2 DEF Reflect, Reflection, Ends
  <2>4. [status |-> taken[i].status, gate |-> i] \in [status : Statuses \cup {"absent"}, gate : Nat]
    BY <2>1, <2>2 DEF Decisions
  <2>5. Typed'
    BY <2>2, <2>3, <2>4 DEF GateInv, Typed, Calls
  <2>6. DecisionsEarned'
    BY <2>3 DEF GateInv, DecisionsEarned
  <2>7. CallersHold'
    BY <2>3 DEF GateInv, Typed, CallersHold, Idle, Recording
  <2>8. CandidatesTell'
    <3> SUFFICES ASSUME NEW e \in Candidates, candidates'[e].gate # 0
                 PROVE  /\ candidates'[e].gate \in 1..Len(taken)
                        /\ taken[candidates'[e].gate].candidate = e
                        /\ taken[candidates'[e].gate].status = candidates'[e].status
      BY <2>3 DEF CandidatesTell
    <3>1. CASE e = c
      BY <2>1, <2>2, <2>3, <3>1 DEF GateInv, Typed
    <3>2. CASE e # c
      BY <2>3, <3>2 DEF GateInv, Typed, CandidatesTell
    <3> QED
      BY <3>1, <3>2
  <2> QED
    BY <2>5, <2>6, <2>7, <2>8 DEF GateInv
<1>3. CASE DecideReplay(k)
  <2>1. PICK o \in Outcomes :
            Takes(k, Decision(call[k].candidate, o.status, "replay", o.sound, o.malformed))
    BY <1>3 DEF DecideReplay
  <2>2. call[k].candidate \in Candidates
    BY <1>3 DEF DecideReplay, At, GateInv, Typed, Calls, Idle
  <2>3. Decision(call[k].candidate, o.status, "replay", o.sound, o.malformed) \in Decisions
    BY <2>2, OutcomeType DEF Decision, Decisions
  <2>4. Earned(Decision(call[k].candidate, o.status, "replay", o.sound, o.malformed))
    BY OutcomeType DEF Earned, Decision
  <2> QED
    BY <1>3, <2>1, <2>3, <2>4, TakesKeeps DEF DecideReplay
<1>4. CASE Register(k)
  <2> DEFINE c == call[k].candidate
             b == [call[k] EXCEPT !.pc = "list"]
  <2>1. call[k] \in [pc : Pcs \ {"idle"}, candidate : Candidates, id : Nat]
    BY <1>4 DEF Register, At, GateInv, Typed, Calls, Idle
  <2>2. /\ candidates' = [candidates EXCEPT ![c] = [status |-> "proposed", gate |-> 0]]
        /\ call' = [call EXCEPT ![k] = b] /\ taken' = taken
    BY <1>4 DEF Register, Goto
  <2>3. b \in Calls /\ b.pc = "list" /\ c \in Candidates
    BY <2>1 DEF Calls, Pcs, Recording
  <2> HIDE DEF b, c
  <2>4. Typed'
    BY <2>2, <2>3 DEF GateInv, Typed, Statuses
  <2>5. DecisionsEarned'
    BY <2>2 DEF GateInv, DecisionsEarned
  <2>6. CallersHold'
    <3>1. \A j \in Callers : call'[j] = IF j = k THEN b ELSE call[j]
      BY <2>2 DEF GateInv, Typed
    <3> QED
      BY <2>2, <2>3, <3>1 DEF GateInv, CallersHold, Recording
  <2>7. CandidatesTell'
    BY <2>2, <2>3 DEF GateInv, Typed, CandidatesTell
  <2> QED
    BY <2>4, <2>5, <2>6, <2>7 DEF GateInv
<1>5. CASE List(k)
  BY <1>5, RegisteringKeeps DEF List, At
<1>6. CASE Seed(k)
  <2>1. Decision(call[k].candidate, "blocked", "unproven", FALSE, FALSE) \in Decisions
    BY <1>6 DEF Seed, SeedBlocks, At, GateInv, Typed, Calls, Idle, Decision, Decisions, Statuses
  <2>2. Earned(Decision(call[k].candidate, "blocked", "unproven", FALSE, FALSE))
    BY DEF Earned, Decision
  <2> QED
    BY <1>6, <2>1, <2>2, TakesKeeps DEF Seed, Block
<1> QED
  BY <1>1, <1>2, <1>3, <1>4, <1>5, <1>6 DEF Proceeds

LEMMA FailureKeeps ==
    ASSUME GateInv, NEW k \in Callers, RecordFails(k) \/ Fails(k)
    PROVE  GateInv'
<1>1. CASE RecordFails(k)
  BY <1>1, RecordingKeeps DEF RecordFails, Recording
<1>2. CASE Fails(k)
  <2>1. Idle \in Calls /\ Idle.pc \notin Recording
    BY DEF Calls, Idle, Recording
  <2> QED
    BY <1>2, <2>1, MovesKeep DEF Fails, Ends
<1> QED
  BY <1>1, <1>2

LEMMA CallKeeps ==
    ASSUME GateInv, NEW k \in Callers, NEW c \in Candidates,
           StartReplay(k, c) \/ Mark(k, c) \/ Upsert(k, c) \/ Block(k, c)
    PROVE  GateInv'
<1>1. CASE StartReplay(k, c) \/ Upsert(k, c)
  <2>1. PICK pc \in {"replaying", "register", "unproven"} :
            call' = [call EXCEPT ![k] = [pc |-> pc, candidate |-> c, id |-> 0]]
    BY <1>1 DEF StartReplay, Upsert
  <2>2. /\ [pc |-> pc, candidate |-> c, id |-> 0] \in Calls
        /\ [pc |-> pc, candidate |-> c, id |-> 0].pc \notin Recording
    BY DEF Calls, Pcs, Recording
  <2>3. UNCHANGED <<taken, candidates>>
    BY <1>1 DEF StartReplay, Upsert
  <2> QED
    BY <2>1, <2>2, <2>3, MovesKeep
<1>2. CASE Mark(k, c)
  <2>1. PICK status \in {"approved", "blocked", "needs_review"} :
            Takes(k, Decision(c, status, "human", FALSE, FALSE))
    BY <1>2 DEF Mark
  <2>2. Decision(c, status, "human", FALSE, FALSE) \in Decisions
    BY DEF Decision, Decisions, Statuses
  <2>3. Earned(Decision(c, status, "human", FALSE, FALSE))
    BY DEF Earned, Decision
  <2> QED
    BY <1>2, <2>1, <2>2, <2>3, TakesKeeps DEF Mark
<1>3. CASE Block(k, c)
  <2>1. Decision(c, "blocked", "unproven", FALSE, FALSE) \in Decisions
    BY DEF Decision, Decisions, Statuses
  <2>2. Earned(Decision(c, "blocked", "unproven", FALSE, FALSE))
    BY DEF Earned, Decision
  <2> QED
    BY <1>3, <2>1, <2>2, TakesKeeps DEF Block
<1> QED
  BY <1>1, <1>2, <1>3

LEMMA GateStep == GateInv /\ [Next]_vars => GateInv'
<1> SUFFICES ASSUME GateInv, [Next]_vars PROVE GateInv'
  OBVIOUS
<1>1. CASE Next
  <2>1. PICK k \in Callers :
            \/ Proceeds(k) \/ RecordFails(k) \/ Fails(k)
            \/ \E c \in Candidates :
                  StartReplay(k, c) \/ Mark(k, c) \/ Upsert(k, c) \/ Block(k, c)
    BY <1>1 DEF Next
  <2> QED
    BY <2>1, ProceedsKeeps, FailureKeeps, CallKeeps
<1>2. CASE UNCHANGED vars
  BY <1>2 DEF vars, GateInv, Typed, DecisionsEarned, CallersHold, CandidatesTell
<1> QED
  BY <1>1, <1>2

----------------------------------------------------------------------------
\* Whoever acts on the candidates, however their calls interleave and whatever
\* fails: a candidate is approved only by a person or by a replay that earned
\* it, and says what its gate decided (evaluate_promotion, record_gate_decision).
THEOREM ApprovalsAreEarned == Spec => []ApprovalIsEarned
<1>1. GateInv => ApprovalIsEarned
  BY DEF GateInv, DecisionsEarned, Earned, CandidatesTell, ApprovalIsEarned
<1> QED
  BY <1>1, GateInit, GateStep, PTL DEF Spec

----------------------------------------------------------------------------
(***************************************************************************)
(* The stream.                                                             *)
(***************************************************************************)
\* Whether a caller, as f has them, is still to write what the steps S write, and
\* up to which decision the last of n decisions is written then.
Awaited(f, S) == \E k \in Callers : f[k].pc \in S
Upto(f, S, n) == IF Awaited(f, S) THEN n - 1 ELSE n

\* Gate g of candidate c is its last among the first n of the decisions T.
GateIsLast(g, T, c, n) ==
    /\ g \in 0..n
    /\ g # 0 => T[g].candidate = c
    /\ \A i \in 1..n : i > g => T[i].candidate # c

OneRecords ==
    \A j, k \in Callers : call[j].pc \in Recording /\ call[k].pc \in Recording => j = k

\* With no overlap and no failure one decision at most is being recorded, the last,
\* and what is behind it in the series of commands lacks just this decision.  A
\* candidate about to be registered has none.
Ordered ==
    /\ OneRecords
    /\ \A k \in Callers : call[k].pc \in Recording => call[k].id = Len(taken)
    /\ gates = 1..Upto(call, {"gate"}, Len(taken))
    /\ latest = Upto(call, {"gate", "latest"}, Len(taken))
    /\ Len(stream) = Upto(call, {"gate", "latest", "event"}, Len(taken))
    /\ \A i \in 1..Len(stream) : stream[i] = i
    /\ \A c \in Candidates :
          GateIsLast(candidates[c].gate, taken, c, Upto(call, Recording, Len(taken)))
    /\ \A k \in Callers : call[k].pc = "register" =>
          \A i \in 1..Len(taken) : taken[i].candidate # call[k].candidate

\* Who has been decided on, or is about to be, is registered.
Registered ==
    /\ \A i \in 1..Len(taken) : candidates[taken[i].candidate] # Absent
    /\ \A k \in Callers : call[k].pc \in Recording \cup {"replaying", "list", "unproven"} =>
          candidates[call[k].candidate] # Absent

Counted == faults \in Nat /\ overlapped \in BOOLEAN /\ stream \in Seq(Nat)

StreamInv == GateInv /\ Counted /\ Registered /\ (~overlapped /\ faults = 0 => Ordered)

\* Only the caller that records a decision is awaited.
LEMMA AwaitedIs ==
    ASSUME NEW f, NEW k \in Callers, NEW S \in SUBSET Recording,
           \A j \in Callers \ {k} : f[j].pc \notin Recording
    PROVE  Awaited(f, S) <=> f[k].pc \in S
  BY DEF Awaited

LEMMA NobodyAwaited ==
    ASSUME NEW f, NEW S \in SUBSET Recording, \A j \in Callers : f[j].pc \notin Recording
    PROVE  ~Awaited(f, S)
  BY DEF Awaited

\* The call of k after a step that leaves the other calls alone.
LEMMA CallIs ==
    ASSUME Typed, NEW k \in Callers, NEW b, call' = [call EXCEPT ![k] = b]
    PROVE  /\ call'[k] = b
           /\ \A j \in Callers \ {k} : call'[j] = call[j]
  BY DEF Typed

\* What a caller at work holds, and holds still after the next step.
LEMMA GotoIs ==
    ASSUME Typed, NEW k \in Callers, NEW pc, ~At(k, "idle"), Goto(k, pc)
    PROVE  /\ call'[k].pc = pc /\ call'[k].candidate = call[k].candidate
           /\ call'[k].id = call[k].id /\ call[k].candidate \in Candidates
           /\ \A j \in Callers \ {k} : call'[j] = call[j]
<1>1. call[k] \in [pc : Pcs \ {"idle"}, candidate : Candidates, id : Nat]
  BY DEF Typed, Calls, Idle, At
<1> DEFINE b == [call[k] EXCEPT !.pc = pc]
<1>2. b.pc = pc /\ b.candidate = call[k].candidate /\ b.id = call[k].id
  BY <1>1
<1>3. call' = [call EXCEPT ![k] = b]
  BY DEF Goto
<1> HIDE DEF b
<1> QED
  BY <1>1, <1>2, <1>3, CallIs

LEMMA StreamInit == Init => StreamInv
<1> SUFFICES ASSUME Init PROVE StreamInv
  OBVIOUS
<1>1. \A k \in Callers : call[k].pc = "idle"
  BY DEF Init, Idle
<1>2. \A S \in SUBSET Recording : ~Awaited(call, S)
  BY <1>1 DEF Awaited, Recording
<1>3. Len(taken) = 0 /\ Len(stream) = 0 /\ gates = {} /\ latest = 0
  BY DEF Init
<1>4. \A S \in SUBSET Recording : Upto(call, S, Len(taken)) = 0
  BY <1>2, <1>3 DEF Upto
<1>5. /\ {"gate"} \in SUBSET Recording /\ {"gate", "latest"} \in SUBSET Recording
      /\ {"gate", "latest", "event"} \in SUBSET Recording /\ Recording \in SUBSET Recording
  BY DEF Recording
<1>6. \A c \in Candidates : GateIsLast(candidates[c].gate, taken, c, 0)
  BY DEF Init, GateIsLast, Absent
<1>7. OneRecords /\ Registered
  BY <1>1, <1>3 DEF OneRecords, Registered, Recording
<1>8. Ordered
  BY <1>1, <1>3, <1>4, <1>5, <1>6, <1>7 DEF Ordered, Recording
<1>9. Counted
  <2>1. stream = <<>> /\ faults = 0 /\ overlapped = FALSE
    BY DEF Init
  <2>2. stream \in Seq(Nat) /\ faults \in Nat
    BY <2>1
  <2>3. overlapped \in BOOLEAN
    BY <2>1, Zenon
  <2> QED
    BY <2>2, <2>3 DEF Counted
<1> QED
  BY <1>7, <1>8, <1>9, GateInit DEF StreamInv

\* A decision is taken when nobody records another, or that is an overlap.
LEMMA TakesOrders ==
    ASSUME StreamInv, NEW k \in Callers, NEW d \in Decisions, Takes(k, d), ~Busy(k),
           candidates[d.candidate] # Absent,
           UNCHANGED <<candidates, gates, latest, stream, faults>>
    PROVE  Counted' /\ Registered' /\ (~overlapped' /\ faults' = 0 => Ordered')
<1> DEFINE n == Len(taken)
           b == [pc |-> "gate", candidate |-> d.candidate, id |-> n + 1]
<1>1. /\ taken \in Seq(Decisions) /\ taken' = Append(taken, d) /\ Typed
      /\ overlapped' = (overlapped \/ \E j \in Callers \ {k} : Busy(j))
      /\ call' = [call EXCEPT ![k] = b]
  BY DEF StreamInv, GateInv, Typed, Takes
<1>2. /\ n \in Nat /\ Len(taken') = n + 1 /\ taken'[n + 1] = d
      /\ \A i \in 1..n : taken'[i] = taken[i]
  BY <1>1
<1>3. /\ call'[k].pc = "gate" /\ call'[k].candidate = d.candidate /\ call'[k].id = n + 1
      /\ \A j \in Callers \ {k} : call'[j] = call[j]
  <2>1. call'[k] = b /\ \A j \in Callers \ {k} : call'[j] = call[j]
    BY <1>1, CallIs
  <2> QED
    BY <2>1
<1> HIDE DEF b, n
<1>4. Counted'
  BY <1>1 DEF StreamInv, Counted
<1>5. Registered'
  <2>1. \A i \in 1..(n + 1) : candidates[taken'[i].candidate] # Absent
    BY <1>2 DEF StreamInv, Registered, n
  <2> QED
    BY <1>2, <1>3, <2>1 DEF StreamInv, Registered
<1>6. ASSUME ~overlapped', faults' = 0 PROVE Ordered'
  <2>1. \A j \in Callers : call[j].pc \notin Recording \cup {"register"}
    BY <1>1, <1>6 DEF Busy
  <2>2. Ordered
    BY <1>1, <1>6 DEF StreamInv
  <2>3. \A S \in SUBSET Recording : Upto(call, S, n) = n
    BY <2>1, NobodyAwaited DEF Upto
  <2>4. \A j \in Callers \ {k} : call'[j].pc \notin Recording \cup {"register"}
    BY <1>3, <2>1
  <2>5. \A S \in SUBSET Recording : "gate" \in S => Upto(call', S, n + 1) = n
    <3> SUFFICES ASSUME NEW S \in SUBSET Recording, "gate" \in S PROVE Upto(call', S, n + 1) = n
      OBVIOUS
    <3>1. Awaited(call', S)
      BY <1>3 DEF Awaited
    <3> QED
      BY <1>2, <3>1 DEF Upto
  <2>6. /\ {"gate"} \in SUBSET Recording /\ {"gate", "latest"} \in SUBSET Recording
        /\ {"gate", "latest", "event"} \in SUBSET Recording
        /\ Recording \in SUBSET Recording /\ "gate" \in Recording
    BY DEF Recording
  <2>7. \A c \in Candidates : GateIsLast(candidates[c].gate, taken, c, n)
    BY <2>2, <2>3, <2>6 DEF Ordered, n
  <2>8. \A c \in Candidates : GateIsLast(candidates[c].gate, taken', c, n)
    BY <1>2, <2>7 DEF GateIsLast, n
  <2>9. /\ gates = 1..n /\ latest = n /\ Len(stream) = n /\ \A i \in 1..Len(stream) : stream[i] = i
    BY <2>2, <2>3, <2>6 DEF Ordered, n
  <2>10. /\ gates' = 1..Upto(call', {"gate"}, n + 1)
         /\ latest' = Upto(call', {"gate", "latest"}, n + 1)
         /\ Len(stream') = Upto(call', {"gate", "latest", "event"}, n + 1)
         /\ \A i \in 1..Len(stream') : stream'[i] = i
    BY <2>5, <2>6, <2>9
  <2>11. \A c \in Candidates :
              GateIsLast(candidates[c].gate, taken', c, Upto(call', Recording, n + 1))
    BY <2>5, <2>6, <2>8
  <2>12. /\ OneRecords'
         /\ \A j \in Callers : call'[j].pc \in Recording => call'[j].id = n + 1
         /\ \A j \in Callers : call'[j].pc # "register"
    BY <1>3, <2>4 DEF OneRecords
  <2> QED
    BY <1>2, <2>10, <2>11, <2>12 DEF Ordered
<1> QED
  BY <1>4, <1>5, <1>6

\* The commands that record a decision, one after the other.
LEMMA RecordingOrders ==
    ASSUME StreamInv, NEW k \in Callers, RecordGate(k) \/ RecordLatest(k) \/ RecordEvent(k)
    PROVE  Counted' /\ Registered' /\ (~overlapped' /\ faults' = 0 => Ordered')
<1> DEFINE n == Len(taken)
<1>1. PICK pc \in {"latest", "event", "candidate"} :
          /\ Goto(k, pc) /\ ~At(k, "idle") /\ call[k].pc \in Recording
          /\ UNCHANGED <<candidates, taken, overlapped, faults>>
  BY DEF RecordGate, RecordLatest, RecordEvent, At, Recording
<1>2. /\ call'[k].pc = pc /\ call'[k].candidate = call[k].candidate /\ call'[k].id = call[k].id
      /\ \A j \in Callers \ {k} : call'[j] = call[j]
  BY <1>1, GotoIs DEF StreamInv, GateInv
<1>3. taken \in Seq(Decisions) /\ n \in Nat /\ call[k].id \in 1..n
  BY <1>1 DEF StreamInv, GateInv, Typed, CallersHold
<1>4. Counted'
  <2>1. CASE stream' = stream
    BY <1>1, <2>1 DEF StreamInv, Counted
  <2>2. CASE stream' = Append(stream, call[k].id)
    BY <1>1, <1>3, <2>2 DEF StreamInv, Counted
  <2> QED
    BY <2>1, <2>2 DEF RecordGate, RecordLatest, RecordEvent
<1>5. Registered'
  BY <1>1, <1>2 DEF StreamInv, Registered, Recording
<1>6. ASSUME ~overlapped', faults' = 0 PROVE Ordered'
  <2>1. Ordered
    BY <1>1, <1>6 DEF StreamInv
  <2>2. call[k].id = n /\ \A j \in Callers \ {k} : call[j].pc \notin Recording
    BY <1>1, <2>1 DEF Ordered, OneRecords
  <2>3. \A S \in SUBSET Recording :
           /\ Upto(call, S, n) = IF call[k].pc \in S THEN n - 1 ELSE n
           /\ Upto(call', S, n) = IF pc \in S THEN n - 1 ELSE n
    BY <1>2, <2>2, AwaitedIs DEF Upto
  <2>4. /\ {"gate"} \in SUBSET Recording /\ {"gate", "latest"} \in SUBSET Recording
        /\ {"gate", "latest", "event"} \in SUBSET Recording
        /\ Recording \in SUBSET Recording
    BY DEF Recording
  <2>5. /\ gates = 1..Upto(call, {"gate"}, n) /\ latest = Upto(call, {"gate", "latest"}, n)
        /\ Len(stream) = Upto(call, {"gate", "latest", "event"}, n)
        /\ \A i \in 1..Len(stream) : stream[i] = i
        /\ stream \in Seq(Nat)
    BY <2>1 DEF Ordered, StreamInv, Counted
  <2>6. /\ gates' = 1..Upto(call', {"gate"}, n) /\ latest' = Upto(call', {"gate", "latest"}, n)
        /\ Len(stream') = Upto(call', {"gate", "latest", "event"}, n)
        /\ \A i \in 1..Len(stream') : stream'[i] = i
    <3>1. CASE RecordGate(k)
      <4>1. call[k].pc = "gate" /\ pc = "latest" /\ gates' = gates \cup {n} /\ latest' = latest /\ stream' = stream
        BY <1>2, <2>2, <3>1, GotoIs DEF RecordGate, At, StreamInv, GateInv
      <4>2. gates = 1..(n - 1)
        BY <2>3, <2>4, <2>5, <4>1
      <4>3. gates' = 1..n
        BY <1>3, <4>1, <4>2
      <4> QED
        BY <2>3, <2>4, <2>5, <4>1, <4>3
    <3>2. CASE RecordLatest(k)
      <4>1. call[k].pc = "latest" /\ pc = "event" /\ gates' = gates /\ latest' = n /\ stream' = stream
        BY <1>2, <2>2, <3>2, GotoIs DEF RecordLatest, At, StreamInv, GateInv
      <4> QED
        BY <2>3, <2>4, <2>5, <4>1
    <3>3. CASE RecordEvent(k)
      <4>1. /\ call[k].pc = "event" /\ pc = "candidate" /\ gates' = gates /\ latest' = latest
            /\ stream' = Append(stream, n)
        BY <1>2, <2>2, <3>3, GotoIs DEF RecordEvent, At, StreamInv, GateInv
      <4>2. Len(stream) = n - 1
        BY <2>3, <2>4, <2>5, <4>1
      <4>3. Len(stream') = n /\ \A i \in 1..Len(stream') : stream'[i] = i
        BY <1>3, <2>5, <4>1, <4>2
      <4> QED
        BY <2>3, <2>4, <2>5, <4>1, <4>3
    <3> QED
      BY <3>1, <3>2, <3>3
  <2>7. Upto(call', Recording, n) = Upto(call, Recording, n)
    BY <1>1, <2>3, <2>4 DEF Recording
  <2>8. \A c \in Candidates :
           GateIsLast(candidates'[c].gate, taken', c, Upto(call', Recording, n))
    BY <1>1, <2>1, <2>7 DEF Ordered
  <2>9. OneRecords' /\ \A j \in Callers : call'[j].pc \in Recording => call'[j].id = n
    BY <1>2, <2>2 DEF OneRecords
  <2>10. \A j \in Callers : call'[j].pc = "register" =>
            \A i \in 1..n : taken[i].candidate # call'[j].candidate
    BY <1>2, <2>1 DEF Ordered
  <2> QED
    BY <1>1, <2>6, <2>8, <2>9, <2>10 DEF Ordered
<1> QED
  BY <1>4, <1>5, <1>6

\* The decision reaches its candidate.
LEMMA ReflectOrders ==
    ASSUME StreamInv, NEW k \in Callers, Reflect(k)
    PROVE  Counted' /\ Registered' /\ (~overlapped' /\ faults' = 0 => Ordered')
<1> DEFINE n == Len(taken)
           i == call[k].id
           e == call[k].candidate
<1>1. /\ call[k].pc = "candidate" /\ "candidate" \in Recording
      /\ candidates' = [candidates EXCEPT ![e] = [status |-> taken[i].status, gate |-> i]]
      /\ call' = [call EXCEPT ![k] = Idle]
      /\ UNCHANGED <<gates, latest, stream, taken, overlapped, faults>>
  BY DEF Reflect, Reflection, Ends, At, Recording
<1>2. /\ i \in 1..n /\ taken[i].candidate = e /\ taken \in Seq(Decisions)
      /\ candidates \in [Candidates -> [status : Statuses \cup {"absent"}, gate : Nat]]
  BY <1>1 DEF StreamInv, GateInv, Typed, CallersHold
<1>3. taken[i] \in Decisions /\ n \in Nat
  BY <1>2
<1>4. e \in Candidates /\ taken[i].status \in Statuses
  BY <1>2, <1>3 DEF Decisions
<1>5. /\ call'[k].pc = "idle" /\ \A j \in Callers \ {k} : call'[j] = call[j]
  <2>1. call'[k] = Idle /\ \A j \in Callers \ {k} : call'[j] = call[j]
    BY <1>1, CallIs DEF StreamInv, GateInv
  <2> QED
    BY <2>1 DEF Idle
<1>6. /\ candidates'[e].gate = i /\ candidates'[e] # Absent
      /\ \A c \in Candidates \ {e} : candidates'[c] = candidates[c]
  <2>1. candidates'[e] = [status |-> taken[i].status, gate |-> i]
    BY <1>1, <1>2, <1>4
  <2>2. taken[i].status # "absent"
    BY <1>4 DEF Statuses
  <2>3. candidates'[e] # Absent
    BY <2>1, <2>2 DEF Absent
  <2> QED
    BY <1>1, <1>2, <2>1, <2>3
<1> HIDE DEF n, i, e
<1>7. Counted'
  BY <1>1 DEF StreamInv, Counted
<1>8. Registered'
  <2>1. \A c \in Candidates : candidates[c] # Absent => candidates'[c] # Absent
    BY <1>6
  <2>2. \A j \in 1..Len(taken) : taken[j].candidate \in Candidates
    <3>1. \A j \in 1..Len(taken) : taken[j] \in Decisions
      BY <1>2
    <3> QED
      BY <3>1 DEF Decisions
  <2>3. \A j \in Callers : call[j].pc \in Recording \cup {"replaying", "list", "unproven"} =>
            call[j].candidate \in Candidates
    BY DEF StreamInv, GateInv, Typed, Calls, Idle, Recording
  <2> QED
    BY <1>1, <1>5, <2>1, <2>2, <2>3 DEF StreamInv, Registered, Recording
<1>9. ASSUME ~overlapped', faults' = 0 PROVE Ordered'
  <2>1. Ordered
    BY <1>1, <1>9 DEF StreamInv
  <2>2. i = n /\ \A j \in Callers \ {k} : call[j].pc \notin Recording
    BY <1>1, <2>1 DEF Ordered, OneRecords, n, i
  <2>3. \A S \in SUBSET Recording :
           /\ Upto(call, S, n) = IF "candidate" \in S THEN n - 1 ELSE n
           /\ Upto(call', S, n) = n
    <3>1. \A j \in Callers : call'[j].pc \notin Recording
      BY <1>5, <2>2 DEF Recording
    <3>2. \A S \in SUBSET Recording : Awaited(call, S) <=> "candidate" \in S
      BY <1>1, <2>2, AwaitedIs
    <3>3. \A S \in SUBSET Recording : ~Awaited(call', S)
      BY <3>1, NobodyAwaited
    <3> QED
      BY <3>2, <3>3 DEF Upto
  <2>4. /\ {"gate"} \in SUBSET Recording /\ {"gate", "latest"} \in SUBSET Recording
        /\ {"gate", "latest", "event"} \in SUBSET Recording
        /\ Recording \in SUBSET Recording
    BY DEF Recording
  <2>5. /\ gates' = 1..Upto(call', {"gate"}, n) /\ latest' = Upto(call', {"gate", "latest"}, n)
        /\ Len(stream') = Upto(call', {"gate", "latest", "event"}, n)
        /\ \A j \in 1..Len(stream') : stream'[j] = j
    BY <1>1, <2>1, <2>3, <2>4 DEF Ordered, n
  <2>6. ASSUME NEW c \in Candidates
        PROVE  GateIsLast(candidates'[c].gate, taken, c, n)
    <3>1. CASE c = e
      BY <1>2, <1>3, <1>6, <2>2, <3>1 DEF GateIsLast
    <3>2. CASE c # e
      <4>1. GateIsLast(candidates[c].gate, taken, c, n - 1)
        BY <1>1, <2>1, <2>3, <2>4 DEF Ordered, n
      <4>2. \A j \in 1..n : j \in 1..(n - 1) \/ j = n
        BY <1>3
      <4> QED
        BY <1>2, <1>3, <1>6, <2>2, <3>2, <4>1, <4>2 DEF GateIsLast
    <3> QED
      BY <3>1, <3>2
  <2>7. OneRecords' /\ \A j \in Callers : call'[j].pc \notin Recording
    BY <1>5, <2>2 DEF OneRecords, Recording
  <2>8. \A j \in Callers : call'[j].pc = "register" =>
            \A m \in 1..n : taken[m].candidate # call'[j].candidate
    BY <1>5, <2>1 DEF Ordered, n
  <2>9. \A c \in Candidates :
           GateIsLast(candidates'[c].gate, taken', c, Upto(call', Recording, n))
    BY <1>1, <2>3, <2>4, <2>6
  <2>10. taken' = taken /\ Len(taken') = n
    BY <1>1 DEF n
  <2> QED
    BY <2>5, <2>7, <2>8, <2>9, <2>10 DEF Ordered
<1> QED
  BY <1>7, <1>8, <1>9

\* A step that records nothing, of a caller that does not record either: it starts
\* a call, goes on with a registration, or writes the candidate anew that nobody
\* has decided on.
LEMMA QuietOrders ==
    ASSUME StreamInv, NEW k \in Callers, NEW b, call' = [call EXCEPT ![k] = b],
           call[k].pc \notin Recording, b.pc \notin Recording,
           b.pc = "register" =>
               b.candidate \in Candidates
               /\ \A i \in 1..Len(taken) : taken[i].candidate # b.candidate,
           b.pc \in {"replaying", "list", "unproven"} => candidates'[b.candidate] # Absent,
           \A c \in Candidates :
               \/ candidates'[c] = candidates[c]
               \/ /\ candidates'[c] # Absent /\ candidates'[c].gate = 0
                  /\ ~overlapped /\ faults = 0 =>
                         \A i \in 1..Len(taken) : taken[i].candidate # c,
           UNCHANGED <<gates, latest, stream, taken, overlapped>>, faults' \in Nat,
           faults' = 0 => faults = 0
    PROVE  Counted' /\ Registered' /\ (~overlapped' /\ faults' = 0 => Ordered')
<1>1. /\ call'[k] = b /\ \A j \in Callers \ {k} : call'[j] = call[j]
      /\ Typed /\ taken \in Seq(Decisions) /\ Len(taken) \in Nat
  BY CallIs DEF StreamInv, GateInv, Typed
<1>2. Counted'
  BY DEF StreamInv, Counted
<1>3. Registered'
  <2>1. \A c \in Candidates : candidates[c] # Absent => candidates'[c] # Absent
    OBVIOUS
  <2>2. \A j \in 1..Len(taken) : taken[j].candidate \in Candidates
    <3>1. \A j \in 1..Len(taken) : taken[j] \in Decisions
      BY <1>1
    <3> QED
      BY <3>1 DEF Decisions
  <2>3. \A j \in Callers : call[j].pc \in Recording \cup {"replaying", "list", "unproven"} =>
            call[j].candidate \in Candidates
    BY DEF StreamInv, GateInv, Typed, Calls, Idle, Recording
  <2>4. \A j \in Callers : call'[j].pc \in Recording \cup {"replaying", "list", "unproven"} =>
            candidates'[call'[j].candidate] # Absent
    BY <1>1, <2>1, <2>3 DEF StreamInv, Registered
  <2> QED
    BY <2>1, <2>2, <2>4 DEF StreamInv, Registered
<1>4. ASSUME ~overlapped', faults' = 0 PROVE Ordered'
  <2>1. Ordered /\ ~overlapped /\ faults = 0
    BY <1>4 DEF StreamInv
  <2>2. \A S \in SUBSET Recording : Awaited(call', S) <=> Awaited(call, S)
    BY <1>1 DEF Awaited
  <2>3. \A S \in SUBSET Recording : Upto(call', S, Len(taken)) = Upto(call, S, Len(taken))
    BY <2>2 DEF Upto
  <2>4. /\ {"gate"} \in SUBSET Recording /\ {"gate", "latest"} \in SUBSET Recording
        /\ {"gate", "latest", "event"} \in SUBSET Recording
        /\ Recording \in SUBSET Recording
    BY DEF Recording
  <2>5. \A c \in Candidates :
           GateIsLast(candidates'[c].gate, taken, c, Upto(call, Recording, Len(taken)))
    <3> SUFFICES ASSUME NEW c \in Candidates
                 PROVE  GateIsLast(candidates'[c].gate, taken, c, Upto(call, Recording, Len(taken)))
      OBVIOUS
    <3>1. GateIsLast(candidates[c].gate, taken, c, Upto(call, Recording, Len(taken)))
      BY <2>1 DEF Ordered
    <3>2. CASE candidates'[c] = candidates[c]
      BY <3>1, <3>2
    <3>3. CASE candidates'[c].gate = 0 /\ \A i \in 1..Len(taken) : taken[i].candidate # c
      <4> DEFINE u == Upto(call, Recording, Len(taken))
      <4>1. u \in {Len(taken), Len(taken) - 1} /\ candidates[c].gate \in 0..u
        BY <3>1 DEF Upto, GateIsLast
      <4>2. 0 \in 0..u /\ \A i \in 1..u : i \in 1..Len(taken)
        BY <1>1, <4>1
      <4> HIDE DEF u
      <4> QED
        BY <3>3, <4>2 DEF GateIsLast, u
    <3> QED
      BY <2>1, <3>2, <3>3
  <2>6. OneRecords' /\ \A j \in Callers : call'[j].pc \in Recording => call'[j].id = Len(taken)
    BY <1>1, <2>1 DEF Ordered, OneRecords
  <2>7. \A j \in Callers : call'[j].pc = "register" =>
            \A m \in 1..Len(taken) : taken[m].candidate # call'[j].candidate
    BY <1>1, <2>1 DEF Ordered
  <2>8. /\ gates' = 1..Upto(call', {"gate"}, Len(taken))
        /\ latest' = Upto(call', {"gate", "latest"}, Len(taken))
        /\ Len(stream') = Upto(call', {"gate", "latest", "event"}, Len(taken))
        /\ \A i \in 1..Len(stream') : stream'[i] = i
    BY <2>1, <2>3, <2>4 DEF Ordered
  <2>9. \A c \in Candidates :
           GateIsLast(candidates'[c].gate, taken, c, Upto(call', Recording, Len(taken)))
    BY <2>3, <2>4, <2>5
  <2> QED
    BY <2>6, <2>7, <2>8, <2>9 DEF Ordered
<1> QED
  BY <1>2, <1>3, <1>4

\* A failure leaves the order to itself, and what is registered.
LEMMA FailureOrders ==
    ASSUME StreamInv, NEW k \in Callers, RecordFails(k) \/ Fails(k)
    PROVE  Counted' /\ Registered' /\ (~overlapped' /\ faults' = 0 => Ordered')
<1>1. /\ UNCHANGED <<candidates, taken, overlapped, stream>> /\ faults' = faults + 1
      /\ ~At(k, "idle") /\ faults \in Nat /\ Typed
  BY DEF RecordFails, Fails, StreamInv, Counted, GateInv, At, Recording
<1>2. faults' # 0 /\ Counted'
  BY <1>1 DEF StreamInv, Counted
<1>3. \A j \in Callers : call'[j].pc \in Recording \cup {"replaying", "list", "unproven"} =>
          candidates[call'[j].candidate] # Absent
  <2>1. CASE RecordFails(k)
    <3>1. Goto(k, "candidate") /\ call[k].pc \in Recording
      BY <2>1 DEF RecordFails, Recording
    <3> QED
      BY <1>1, <3>1, GotoIs DEF StreamInv, Registered
  <2>2. CASE Fails(k)
    <3>1. call'[k] = Idle /\ \A j \in Callers \ {k} : call'[j] = call[j]
      BY <1>1, <2>2, CallIs DEF Fails, Ends
    <3> QED
      BY <3>1 DEF StreamInv, Registered, Idle, Recording
  <2> QED
    BY <2>1, <2>2
<1>4. Registered'
  BY <1>1, <1>3 DEF StreamInv, Registered
<1> QED
  BY <1>2, <1>4

LEMMA ProceedsOrders ==
    ASSUME StreamInv, NEW k \in Callers, Proceeds(k)
    PROVE  Counted' /\ Registered' /\ (~overlapped' /\ faults' = 0 => Ordered')
<1>1. CASE RecordGate(k) \/ RecordLatest(k) \/ RecordEvent(k)
  BY <1>1, RecordingOrders
<1>2. CASE Reflect(k)
  BY <1>2, ReflectOrders
<1>3. CASE DecideReplay(k)
  <2>1. PICK o \in Outcomes :
            Takes(k, Decision(call[k].candidate, o.status, "replay", o.sound, o.malformed))
    BY <1>3 DEF DecideReplay
  <2> DEFINE d == Decision(call[k].candidate, o.status, "replay", o.sound, o.malformed)
  <2>2. call[k].pc = "replaying" /\ call[k].candidate \in Candidates
    BY <1>3 DEF DecideReplay, At, StreamInv, GateInv, Typed, Calls, Idle
  <2>3. d \in Decisions /\ d.candidate = call[k].candidate
    BY <2>2, OutcomeType DEF Decision, Decisions
  <2>4. candidates[d.candidate] # Absent /\ ~Busy(k)
    BY <2>2, <2>3 DEF StreamInv, Registered, Busy, Recording
  <2> HIDE DEF d
  <2>5. Takes(k, d)
    BY <2>1 DEF d
  <2> QED
    BY <1>3, <2>3, <2>4, <2>5, TakesOrders DEF DecideReplay
<1>4. CASE Register(k) \/ List(k)
  <2> DEFINE pc == IF call[k].pc = "register" THEN "list" ELSE "unproven"
             b == [call[k] EXCEPT !.pc = pc]
  <2>1. /\ call[k].pc \in {"register", "list"} /\ Goto(k, pc)
        /\ UNCHANGED <<gates, latest, stream, taken, overlapped>>
    BY <1>4 DEF Register, List, At
  <2>2. call[k] \in [pc : Pcs \ {"idle"}, candidate : Candidates, id : Nat]
    BY <2>1 DEF StreamInv, GateInv, Typed, Calls, Idle
  <2>3. /\ b.pc = pc /\ b.candidate = call[k].candidate /\ call[k].candidate \in Candidates
        /\ call' = [call EXCEPT ![k] = b]
    BY <2>1, <2>2 DEF Goto
  <2>4. call[k].pc \notin Recording /\ pc \in {"list", "unproven"} /\ pc \notin Recording
    BY <2>1 DEF Recording
  <2>5. faults' \in Nat /\ (faults' = 0 => faults = 0)
    BY <1>4 DEF Register, List, StreamInv, Counted
  <2>6. candidates \in [Candidates -> [status : Statuses \cup {"absent"}, gate : Nat]]
    BY DEF StreamInv, GateInv, Typed
  <2> HIDE DEF b, pc
  <2>7. CASE Register(k)
    <3>1. candidates' = [candidates EXCEPT ![call[k].candidate] = [status |-> "proposed", gate |-> 0]]
          /\ call[k].pc = "register" /\ faults' = faults
      BY <2>7 DEF Register, At
    <3>2. candidates'[call[k].candidate] = [status |-> "proposed", gate |-> 0]
      BY <2>3, <2>6, <3>1
    <3>3. candidates'[call[k].candidate].gate = 0 /\ candidates'[call[k].candidate] # Absent
      BY <3>2 DEF Absent
    <3>4. \A c \in Candidates \ {call[k].candidate} : candidates'[c] = candidates[c]
      BY <2>3, <2>6, <3>1
    <3>5. ~overlapped /\ faults = 0 =>
              \A i \in 1..Len(taken) : taken[i].candidate # call[k].candidate
      BY <3>1 DEF StreamInv, Ordered
    <3> QED
      BY <2>1, <2>3, <2>4, <2>5, <3>3, <3>4, <3>5, QuietOrders
  <2>8. CASE List(k)
    <3>1. candidates' = candidates /\ candidates[call[k].candidate] # Absent
      BY <2>8 DEF List, At, StreamInv, Registered
    <3> QED
      BY <2>1, <2>3, <2>4, <2>5, <3>1, QuietOrders
  <2> QED
    BY <1>4, <2>7, <2>8
<1>5. CASE Seed(k)
  <2> DEFINE d == Decision(call[k].candidate, "blocked", "unproven", FALSE, FALSE)
  <2>1. call[k].pc = "unproven" /\ Takes(k, d) /\ UNCHANGED <<candidates, gates, latest, stream, faults>>
    BY <1>5 DEF Seed, SeedBlocks, At, Block
  <2>2. d \in Decisions /\ d.candidate = call[k].candidate
    BY <2>1 DEF StreamInv, GateInv, Typed, Calls, Idle, Decision, Decisions, Statuses
  <2>3. candidates[d.candidate] # Absent /\ ~Busy(k)
    BY <2>1, <2>2 DEF StreamInv, Registered, Busy, Recording
  <2> HIDE DEF d
  <2> QED
    BY <2>1, <2>2, <2>3, TakesOrders
<1> QED
  BY <1>1, <1>2, <1>3, <1>4, <1>5 DEF Proceeds

LEMMA CallOrders ==
    ASSUME StreamInv, NEW k \in Callers, NEW c \in Candidates,
           \/ StartReplay(k, c) \/ Mark(k, c) \/ Upsert(k, c)
           \/ At(k, "idle") /\ Block(k, c)
    PROVE  Counted' /\ Registered' /\ (~overlapped' /\ faults' = 0 => Ordered')
<1>1. call[k].pc = "idle" /\ call[k].pc \notin Recording /\ ~Busy(k)
  BY DEF StartReplay, Mark, Upsert, At, Busy, Recording
<1>2. CASE StartReplay(k, c) \/ Upsert(k, c)
  <2>1. PICK pc \in {"replaying", "register", "unproven"} :
            /\ call' = [call EXCEPT ![k] = [pc |-> pc, candidate |-> c, id |-> 0]]
            /\ pc = "register" <=> candidates[c] = Absent
    BY <1>2 DEF StartReplay, Upsert, Unproven, Absent
  <2> DEFINE b == [pc |-> pc, candidate |-> c, id |-> 0]
  <2>2. b.pc = pc /\ b.candidate = c /\ call' = [call EXCEPT ![k] = b] /\ b.pc \notin Recording
    BY <2>1 DEF Recording
  <2>3. UNCHANGED <<candidates, gates, latest, stream, taken, overlapped, faults>> /\ faults \in Nat
    BY <1>2 DEF StartReplay, Upsert, StreamInv, Counted
  <2>4. b.pc = "register" => \A i \in 1..Len(taken) : taken[i].candidate # b.candidate
    BY <2>1, <2>2 DEF StreamInv, Registered
  <2>5. b.pc \in {"replaying", "list", "unproven"} => candidates[b.candidate] # Absent
    BY <2>1, <2>2
  <2> HIDE DEF b
  <2> QED
    BY <1>1, <2>2, <2>3, <2>4, <2>5, QuietOrders
<1>3. CASE Mark(k, c)
  <2>1. PICK status \in {"approved", "blocked", "needs_review"} :
            Takes(k, Decision(c, status, "human", FALSE, FALSE))
    BY <1>3 DEF Mark
  <2>2. /\ Decision(c, status, "human", FALSE, FALSE) \in Decisions
        /\ Decision(c, status, "human", FALSE, FALSE).candidate = c
    BY DEF Decision, Decisions, Statuses
  <2>3. candidates[c] # Absent /\ UNCHANGED <<candidates, gates, latest, stream, faults>>
    BY <1>3 DEF Mark
  <2> QED
    BY <1>1, <2>1, <2>2, <2>3, TakesOrders
<1>4. CASE Block(k, c)
  <2>1. /\ Decision(c, "blocked", "unproven", FALSE, FALSE) \in Decisions
        /\ Decision(c, "blocked", "unproven", FALSE, FALSE).candidate = c
    BY DEF Decision, Decisions, Statuses
  <2> QED
    BY <1>1, <1>4, <2>1, TakesOrders DEF Block
<1> QED
  BY <1>2, <1>3, <1>4

LEMMA StreamStep == StreamInv /\ [Next]_vars => StreamInv'
<1> SUFFICES ASSUME StreamInv, [Next]_vars PROVE StreamInv'
  OBVIOUS
<1>1. GateInv'
  BY GateStep DEF StreamInv
<1>2. CASE Next
  <2>1. PICK k \in Callers :
            \/ Proceeds(k) \/ RecordFails(k) \/ Fails(k)
            \/ \E c \in Candidates :
                  \/ StartReplay(k, c) \/ Mark(k, c) \/ Upsert(k, c)
                  \/ At(k, "idle") /\ Block(k, c)
    BY <1>2 DEF Next
  <2>2. Counted' /\ Registered' /\ (~overlapped' /\ faults' = 0 => Ordered')
    BY <2>1, ProceedsOrders, FailureOrders, CallOrders
  <2> QED
    BY <1>1, <2>2 DEF StreamInv
<1>3. CASE UNCHANGED vars
  BY <1>1, <1>3 DEF vars, StreamInv, Counted, Registered, Ordered, OneRecords
<1> QED
  BY <1>2, <1>3

\* Whatever fails or overlaps: a caller past the first write has stored the gate it
\* goes on to name, unless a write failed and sent it on to the candidate.
HoldersStored ==
    \A k \in Callers :
        /\ call[k].pc \in {"latest", "event"} => call[k].id \in gates
        /\ call[k].pc = "candidate" /\ faults = 0 => call[k].id \in gates

Stored == NamedGatesAreStored /\ HoldersStored

LEMMA StoredInit == Init => Stored
  BY DEF Init, Idle, Absent, Stored, NamedGatesAreStored, HoldersStored

\* The writes of a recording, one after the other.
LEMMA RecordingStores ==
    ASSUME StreamInv, Stored, NEW k \in Callers,
           RecordGate(k) \/ RecordLatest(k) \/ RecordEvent(k) \/ RecordFails(k)
    PROVE  Stored'
<1>1. Typed /\ faults \in Nat /\ stream \in Seq(Nat)
  BY DEF StreamInv, GateInv, Counted
<1>2. ~At(k, "idle")
  BY DEF RecordGate, RecordLatest, RecordEvent, RecordFails, At
<1>3. candidates' = candidates
  BY DEF RecordGate, RecordLatest, RecordEvent, RecordFails
<1>4. CASE RecordGate(k)
  <2>1. Goto(k, "latest") /\ gates' = gates \cup {call[k].id}
        /\ UNCHANGED <<latest, stream, faults>>
    BY <1>4 DEF RecordGate
  <2>2. HoldersStored'
    BY <1>1, <1>2, <2>1, GotoIs DEF Stored, HoldersStored
  <2> QED
    BY <1>3, <2>1, <2>2 DEF Stored, NamedGatesAreStored
<1>5. CASE RecordLatest(k)
  <2>1. Goto(k, "event") /\ latest' = call[k].id /\ call[k].id \in gates
        /\ UNCHANGED <<gates, stream, faults>>
    BY <1>5 DEF RecordLatest, At, Stored, HoldersStored
  <2>2. HoldersStored'
    BY <1>1, <1>2, <2>1, GotoIs DEF Stored, HoldersStored
  <2> QED
    BY <1>3, <2>1, <2>2 DEF Stored, NamedGatesAreStored
<1>6. CASE RecordEvent(k)
  <2>1. Goto(k, "candidate") /\ stream' = Append(stream, call[k].id) /\ call[k].id \in gates
        /\ UNCHANGED <<gates, latest, faults>>
    BY <1>6 DEF RecordEvent, At, Stored, HoldersStored
  <2>2. HoldersStored'
    BY <1>1, <1>2, <2>1, GotoIs DEF Stored, HoldersStored
  <2>3. call[k].id \in Nat
    BY <1>1, <1>6 DEF RecordEvent, At, Typed, Calls, Idle
  <2>4. \A i \in DOMAIN stream' : stream'[i] \in gates
    BY <1>1, <2>1, <2>3 DEF Stored, NamedGatesAreStored
  <2> QED
    BY <1>3, <2>1, <2>2, <2>4 DEF Stored, NamedGatesAreStored
<1>7. CASE RecordFails(k)
  <2>1. Goto(k, "candidate") /\ faults' # 0 /\ UNCHANGED <<gates, latest, stream>>
    BY <1>1, <1>7 DEF RecordFails
  <2>2. HoldersStored'
    BY <1>1, <1>2, <2>1, GotoIs DEF Stored, HoldersStored
  <2> QED
    BY <2>1, <2>2 DEF Stored, NamedGatesAreStored
<1> QED
  BY <1>4, <1>5, <1>6, <1>7

\* Any other step leaves the gates, and what names them, alone, or gives a candidate
\* a gate that its caller holds, or none.
LEMMA OthersStore ==
    ASSUME StreamInv, Stored, NEW k \in Callers, NEW b, call' = [call EXCEPT ![k] = b],
           b.pc \notin {"latest", "event", "candidate"},
           UNCHANGED <<gates, latest, stream>>, faults' = 0 => faults = 0,
           \A c \in Candidates :
               candidates'[c].gate \in {candidates[c].gate, 0}
                   \cup IF call[k].pc = "candidate" THEN {call[k].id} ELSE {}
    PROVE  Stored'
<1>1. call'[k] = b /\ \A j \in Callers \ {k} : call'[j] = call[j]
  BY CallIs DEF StreamInv, GateInv
<1>2. HoldersStored'
  BY <1>1 DEF Stored, HoldersStored
<1>3. NamedGatesAreStored'
  BY DEF Stored, NamedGatesAreStored, HoldersStored
<1> QED
  BY <1>2, <1>3 DEF Stored

LEMMA StoredStep == StreamInv /\ Stored /\ [Next]_vars => Stored'
<1> SUFFICES ASSUME StreamInv, Stored, [Next]_vars PROVE Stored'
  OBVIOUS
<1>1. Typed /\ faults \in Nat
  BY DEF StreamInv, GateInv, Counted
<1>2. CASE UNCHANGED vars
  BY <1>2 DEF vars, Stored, NamedGatesAreStored, HoldersStored
<1>3. CASE Next
  <2>1. PICK k \in Callers :
            \/ Proceeds(k) \/ RecordFails(k) \/ Fails(k)
            \/ \E c \in Candidates :
                  \/ StartReplay(k, c) \/ Mark(k, c) \/ Upsert(k, c)
                  \/ At(k, "idle") /\ Block(k, c)
    BY <1>3 DEF Next
  <2>2. CASE RecordGate(k) \/ RecordLatest(k) \/ RecordEvent(k) \/ RecordFails(k)
    BY <2>2, RecordingStores
  <2>3. CASE Reflect(k)
    <3>1. /\ call' = [call EXCEPT ![k] = Idle] /\ call[k].pc = "candidate"
          /\ UNCHANGED <<gates, latest, stream, faults>>
          /\ candidates' = [candidates EXCEPT ![call[k].candidate] = Reflection(k)]
      BY <2>3 DEF Reflect, Ends, At
    <3>2. \A c \in Candidates : candidates'[c].gate \in {candidates[c].gate, call[k].id}
      BY <1>1, <3>1 DEF Typed, Reflection
    <3>3. Idle.pc = "idle" /\ (faults' = 0 => faults = 0)
      BY <3>1 DEF Idle
    <3>4. \A c \in Candidates :
              candidates'[c].gate \in {candidates[c].gate, 0}
                  \cup IF call[k].pc = "candidate" THEN {call[k].id} ELSE {}
      BY <3>1, <3>2
    <3> QED
      BY <3>1, <3>3, <3>4, OthersStore
  <2>4. CASE Fails(k)
    <3>1. /\ call' = [call EXCEPT ![k] = Idle] /\ faults' = faults + 1
          /\ UNCHANGED <<candidates, gates, latest, stream>>
      BY <2>4 DEF Fails, Ends
    <3>2. Idle.pc = "idle" /\ (faults' = 0 => faults = 0)
      BY <1>1, <3>1 DEF Idle
    <3> QED
      BY <3>1, <3>2, OthersStore
  <2>5. CASE \E d : Takes(k, d) /\ UNCHANGED <<candidates, gates, latest, stream, faults>>
    <3>1. PICK d : Takes(k, d) /\ UNCHANGED <<candidates, gates, latest, stream, faults>>
      BY <2>5
    <3> DEFINE b == [pc |-> "gate", candidate |-> d.candidate, id |-> Len(taken) + 1]
    <3>2. call' = [call EXCEPT ![k] = b] /\ b.pc = "gate"
      BY <3>1 DEF Takes
    <3> HIDE DEF b
    <3> QED
      BY <3>1, <3>2, OthersStore
  <2>6. CASE Register(k) \/ List(k)
    <3> DEFINE pc == IF call[k].pc = "register" THEN "list" ELSE "unproven"
               b == [call[k] EXCEPT !.pc = pc]
    <3>1. /\ call[k].pc \in {"register", "list"} /\ Goto(k, pc)
          /\ UNCHANGED <<gates, latest, stream>>
      BY <2>6 DEF Register, List, At
    <3>2. call[k] \in [pc : Pcs \ {"idle"}, candidate : Candidates, id : Nat]
      BY <1>1, <3>1 DEF Typed, Calls, Idle
    <3>3. b.pc = pc /\ call' = [call EXCEPT ![k] = b] /\ pc \in {"list", "unproven"}
      BY <3>1, <3>2 DEF Goto
    <3>4. faults' = 0 => faults = 0
      BY <1>1, <2>6 DEF Register, List
    <3>5. \A c \in Candidates : candidates'[c].gate \in {candidates[c].gate, 0}
      BY <1>1, <2>6 DEF Register, List, Typed
    <3> HIDE DEF b, pc
    <3> QED
      BY <3>1, <3>3, <3>4, <3>5, OthersStore
  <2>7. CASE \E c \in Candidates : StartReplay(k, c) \/ Upsert(k, c)
    <3>1. PICK c \in Candidates, pc \in {"replaying", "register", "unproven"} :
              call' = [call EXCEPT ![k] = [pc |-> pc, candidate |-> c, id |-> 0]]
      BY <2>7 DEF StartReplay, Upsert
    <3>2. UNCHANGED <<candidates, gates, latest, stream, faults>>
      BY <2>7 DEF StartReplay, Upsert
    <3> DEFINE b == [pc |-> pc, candidate |-> c, id |-> 0]
    <3>3. call' = [call EXCEPT ![k] = b] /\ b.pc = pc
      BY <3>1
    <3> HIDE DEF b
    <3> QED
      BY <3>2, <3>3, OthersStore
  <2>8. ASSUME \/ DecideReplay(k) \/ Seed(k)
               \/ \E c \in Candidates : Mark(k, c) \/ (At(k, "idle") /\ Block(k, c))
        PROVE  \E d : Takes(k, d) /\ UNCHANGED <<candidates, gates, latest, stream, faults>>
    <3>1. CASE DecideReplay(k)
      BY <3>1 DEF DecideReplay
    <3>2. CASE \E c \in Candidates : Mark(k, c)
      BY <3>2 DEF Mark
    <3>3. CASE Seed(k)
      BY <3>3 DEF Seed, Block
    <3>4. CASE \E c \in Candidates : Block(k, c)
      BY <3>4 DEF Block
    <3> QED
      BY <2>8, <3>1, <3>2, <3>3, <3>4
  <2> QED
    BY <2>1, <2>2, <2>3, <2>4, <2>5, <2>6, <2>7, <2>8 DEF Proceeds
<1> QED
  BY <1>2, <1>3

LEMMA StreamHolds == StreamInv /\ Stored => CandidateFollowsStream
<1> SUFFICES ASSUME StreamInv, Stored, Settled PROVE CandidateFollowsStream
  BY DEF CandidateFollowsStream, Stored
<1> DEFINE n == Len(taken)
<1>1. Ordered /\ n \in Nat /\ stream \in Seq(Nat)
  BY DEF Settled, StreamInv, GateInv, Typed, Counted
<1>2. \A S \in SUBSET Recording : Upto(call, S, n) = n
  <2>1. \A k \in Callers : call[k].pc \notin Recording
    BY DEF Settled, Busy
  <2> QED
    BY <2>1, NobodyAwaited DEF Upto
<1>3. /\ {"gate"} \in SUBSET Recording /\ {"gate", "latest"} \in SUBSET Recording
      /\ {"gate", "latest", "event"} \in SUBSET Recording
      /\ Recording \in SUBSET Recording
  BY DEF Recording
<1>4. /\ gates = 1..n /\ latest = n /\ Len(stream) = n /\ \A i \in 1..n : stream[i] = i
      /\ \A c \in Candidates : GateIsLast(candidates[c].gate, taken, c, n)
  BY <1>1, <1>2, <1>3 DEF Ordered
<1>5. DOMAIN stream = 1..n
  BY <1>1, <1>4
<1>6. ASSUME NEW c \in Candidates
      PROVE  LET own == {i \in DOMAIN stream : taken[stream[i]].candidate = c}
             IN  IF own = {} THEN candidates[c].gate = 0
                 ELSE \E i \in own : (\A j \in own : j <= i) /\ candidates[c].gate = stream[i]
  <2> DEFINE own == {i \in DOMAIN stream : taken[stream[i]].candidate = c}
             g == candidates[c].gate
  <2>1. \A i : i \in own <=> i \in 1..n /\ taken[i].candidate = c
    BY <1>4, <1>5
  <2>2. g \in 0..n /\ (g # 0 => taken[g].candidate = c) /\ \A i \in 1..n : i > g => taken[i].candidate # c
    BY <1>4 DEF GateIsLast
  <2> HIDE DEF own, g, n
  <2>3. CASE own = {}
    <3>1. g = 0
      BY <1>1, <2>1, <2>2, <2>3
    <3> QED
      BY <2>3, <3>1 DEF own, g
  <2>4. CASE own # {}
    <3>1. g \in own /\ \A j \in own : j <= g
      BY <1>1, <2>1, <2>2, <2>4
    <3>2. stream[g] = g
      BY <1>4, <2>1, <3>1
    <3> QED
      BY <2>4, <3>1, <3>2 DEF own, g
  <2> QED
    BY <2>3, <2>4
<1>7. gates = {stream[i] : i \in DOMAIN stream}
  <2>1. \A x : x \in {stream[i] : i \in DOMAIN stream} <=> x \in 1..n
    BY <1>4, <1>5
  <2> QED
    BY <1>4, <2>1
<1>8. stream # <<>> => latest = stream[Len(stream)]
  <2>1. stream # <<>> => Len(stream) \in 1..n
    BY <1>1, <1>4
  <2> QED
    BY <1>4, <2>1
<1> QED
  BY <1>6, <1>7, <1>8 DEF CandidateFollowsStream, Stored

\* Whoever acts on the candidates and whatever fails, events and the latest pointer
\* name gates that are stored, and without a failure so do the candidates; with
\* nothing failing and no two recordings at once, a candidate's gate is the last
\* event of the stream that is about it and the latest gate is the last event, so
\* that the summary may count either (record_gate_decision, promotion_status_summary).
THEOREM CandidatesFollowTheStream == Spec => []CandidateFollowsStream
<1>1. StreamInv /\ Stored /\ [Next]_vars => (StreamInv /\ Stored)'
  BY StreamStep, StoredStep
<1>2. Init => StreamInv /\ Stored
  BY StreamInit, StoredInit
<1> QED
  BY <1>1, <1>2, StreamHolds, PTL DEF Spec

(***************************************************************************)
(* AgentReplacement.                                                       *)
(*                                                                         *)
(* Whatever debates overlap, abandon or are reset under, the improvement   *)
(* state tells one story; undisturbed, the stream is its history.          *)
(*                                                                         *)
(* A document here is written whole, over whatever stands.  So the story   *)
(* is said of every document by itself: of the one that is stored, and of  *)
(* the one a debate has read and will write a successor of, which no other *)
(* debate can spoil.  What carries the proof is that a replacement keeps   *)
(* the story (ReplacementTells), for any scores; the interleaving then     *)
(* only matters to the stream.                                             *)
(*                                                                         *)
(* That the generations add up to the rounds is a fold over the roster.    *)
(* The first part computes it without induction: of the sets of roles for  *)
(* which a claim about the fold fails, a smallest one cannot exist.        *)
(***************************************************************************)

(***************************************************************************)
(* What the roster grew by.                                                *)
(***************************************************************************)
\* Of sets of subsets of a finite set, some are smallest.
LEMMA MinimalSubset ==
    ASSUME NEW S, IsFiniteSet(S), NEW T, T \subseteq SUBSET S, T # {}
    PROVE  \E U \in T : \A V \in T : V \subseteq U => V = U
<1>1. T \subseteq FiniteSubsetsOf(S)
  BY FS_FiniteSubsetsOfFinite
<1>2. IsWellFoundedOn(StrictSubsetOrdering(S), FiniteSubsetsOf(S))
  BY FS_StrictSubsetOrderingWellFounded
<1>3. PICK U \in T : \A V \in T : <<V, U>> \notin StrictSubsetOrdering(S)
  BY <1>1, <1>2, WFMin
<1> QED
  BY <1>3 DEF StrictSubsetOrdering

\* The element a fold takes next.
Pick(s) == CHOOSE x \in s : TRUE

\* it adds up what the agents f grew by, over each set of roles in S.
Steps(f, it, S) ==
    it = [s \in SUBSET S |-> IF s = {} THEN 0 ELSE it[s \ {Pick(s)}] + f[Pick(s)].generation - 1]

\* The sum in TellsOneStory.
Total(f) == FoldFunction(LAMBDA a, n : n + a.generation - 1, 0, f)

LEMMA TotalIs ==
    ASSUME NEW f
    PROVE  Total(f) = (CHOOSE it : Steps(f, it, DOMAIN f))[DOMAIN f]
BY DEF Total, FoldFunction, FoldFunctionOnSet, MapThenFoldSet, Steps, Pick

LEMMA StepsAreUnique ==
    ASSUME NEW f, NEW S, IsFiniteSet(S), NEW g, NEW h, Steps(f, g, S), Steps(f, h, S)
    PROVE  g = h
<1>1. /\ g = [s \in SUBSET S |-> IF s = {} THEN 0 ELSE g[s \ {Pick(s)}] + f[Pick(s)].generation - 1]
      /\ h = [s \in SUBSET S |-> IF s = {} THEN 0 ELSE h[s \ {Pick(s)}] + f[Pick(s)].generation - 1]
  BY DEF Steps
<1> DEFINE T == {s \in SUBSET S : g[s] # h[s]}
<1>2. SUFFICES T = {}
  BY <1>1
<1>3. SUFFICES ASSUME T # {}
               PROVE  FALSE
  OBVIOUS
<1>4. PICK U \in T : \A V \in T : V \subseteq U => V = U
  <2> HIDE DEF T
  <2>1. T \subseteq SUBSET S
    BY DEF T
  <2> QED
    BY <2>1, <1>3, MinimalSubset
<1>5. U # {}
  BY <1>1, <1>4
<1>6. Pick(U) \in U
  BY <1>5 DEF Pick
<1>7. U \ {Pick(U)} \in SUBSET S /\ U \ {Pick(U)} # U
  BY <1>4, <1>6
<1>8. g[U \ {Pick(U)}] = h[U \ {Pick(U)}]
  BY <1>4, <1>7
<1> QED
  BY <1>1, <1>4, <1>5, <1>8

LEMMA StepsRestrict ==
    ASSUME NEW f, NEW S, NEW g, Steps(f, g, S), NEW R \in SUBSET S
    PROVE  Steps(f, [s \in SUBSET R |-> g[s]], R)
<1> DEFINE h == [s \in SUBSET R |-> g[s]]
<1>1. g = [s \in SUBSET S |-> IF s = {} THEN 0 ELSE g[s \ {Pick(s)}] + f[Pick(s)].generation - 1]
  BY DEF Steps
<1>2. \A s \in SUBSET R : h[s] = IF s = {} THEN 0 ELSE h[s \ {Pick(s)}] + f[Pick(s)].generation - 1
  <2> TAKE s \in SUBSET R
  <2>1. s \in SUBSET S /\ s \ {Pick(s)} \in SUBSET R
    OBVIOUS
  <2>2. g[s] = IF s = {} THEN 0 ELSE g[s \ {Pick(s)}] + f[Pick(s)].generation - 1
    BY <1>1, <2>1
  <2> QED
    BY <2>1, <2>2
<1>3. h = [s \in SUBSET R |-> h[s]]
  OBVIOUS
<1> HIDE DEF h
<1>4. h = [s \in SUBSET R |-> IF s = {} THEN 0 ELSE h[s \ {Pick(s)}] + f[Pick(s)].generation - 1]
  BY <1>2, <1>3
<1>5. Steps(f, h, R)
  BY <1>4 DEF Steps
<1> QED
  BY <1>5 DEF h

LEMMA StepsExist ==
    ASSUME NEW f, NEW S, IsFiniteSet(S)
    PROVE  \E it : Steps(f, it, S)
<1> DEFINE T == {s \in SUBSET S : ~\E it : Steps(f, it, s)}
<1>1. SUFFICES ASSUME T # {}
               PROVE  FALSE
  OBVIOUS
<1>2. PICK U \in T : \A V \in T : V \subseteq U => V = U
  <2> HIDE DEF T
  <2>1. T \subseteq SUBSET S
    BY DEF T
  <2> QED
    BY <2>1, <1>1, MinimalSubset
<1> DEFINE of(V) == CHOOSE it : Steps(f, it, V)
<1>3. ASSUME NEW V \in SUBSET U, V # U
      PROVE  Steps(f, of(V), V)
  <2>1. V \in SUBSET S /\ V \notin T
    BY <1>2, <1>3
  <2>2. \E it : Steps(f, it, V)
    BY <2>1
  <2> QED
    BY <2>2
<1> HIDE DEF of
<1> DEFINE value(s) == IF s = {} THEN 0
                       ELSE of(s \ {Pick(s)})[s \ {Pick(s)}] + f[Pick(s)].generation - 1
           g == [s \in SUBSET U |-> value(s)]
<1>4. ASSUME NEW V \in SUBSET U, V # U
      PROVE  of(V)[V] = value(V)
  <2>1. of(V) = [s \in SUBSET V |-> IF s = {} THEN 0
                      ELSE of(V)[s \ {Pick(s)}] + f[Pick(s)].generation - 1]
    BY <1>3, <1>4 DEF Steps
  <2>2. of(V)[V] = IF V = {} THEN 0 ELSE of(V)[V \ {Pick(V)}] + f[Pick(V)].generation - 1
    BY <2>1
  <2>3. CASE V = {}
    BY <2>2, <2>3
  <2>4. CASE V # {}
    <3> DEFINE W == V \ {Pick(V)}
    <3>1. W \in SUBSET V /\ W \in SUBSET U /\ W # U
      BY <1>4, <2>4 DEF Pick
    <3>2. Steps(f, of(W), W)
      BY <3>1, <1>3
    <3>3. Steps(f, [s \in SUBSET W |-> of(V)[s]], W)
      <4> HIDE DEF W
      <4> QED
        BY <1>3, <1>4, <3>1, StepsRestrict
    <3>4. IsFiniteSet(W)
      <4>1. U \in SUBSET S
        BY <1>2
      <4> QED
        BY <3>1, <4>1, FS_Subset
    <3>5. of(W) = [s \in SUBSET W |-> of(V)[s]]
      <4> HIDE DEF W
      <4> QED
        BY <3>2, <3>3, <3>4, StepsAreUnique
    <3>6. of(W)[W] = of(V)[W]
      BY <3>5
    <3> QED
      BY <2>2, <2>4, <3>6
  <2> QED
    BY <2>3, <2>4
<1>5. \A s \in SUBSET U : g[s] = IF s = {} THEN 0 ELSE g[s \ {Pick(s)}] + f[Pick(s)].generation - 1
  <2> TAKE s \in SUBSET U
  <2>1. CASE s = {}
    BY <2>1
  <2>2. CASE s # {}
    <3> DEFINE V == s \ {Pick(s)}
    <3>1. V \in SUBSET U /\ V # U
      BY <2>2 DEF Pick
    <3>2. of(V)[V] = g[V]
      <4> HIDE DEF value, V
      <4> QED
        BY <3>1, <1>4
    <3> QED
      BY <2>2, <3>2
  <2> QED
    BY <2>1, <2>2
<1>6. g = [s \in SUBSET U |-> g[s]]
  OBVIOUS
<1> HIDE DEF g
<1>7. g = [s \in SUBSET U |-> IF s = {} THEN 0 ELSE g[s \ {Pick(s)}] + f[Pick(s)].generation - 1]
  BY <1>5, <1>6
<1>8. Steps(f, g, U)
  BY <1>7 DEF Steps
<1> QED
  BY <1>2, <1>8

LEMMA TotalSteps ==
    ASSUME NEW f, IsFiniteSet(DOMAIN f)
    PROVE  \E it : Steps(f, it, DOMAIN f) /\ Total(f) = it[DOMAIN f]
BY TotalIs, StepsExist

LEMMA TotalOfBlank ==
    ASSUME NEW f, IsFiniteSet(DOMAIN f), \A r \in DOMAIN f : f[r].generation = 1
    PROVE  Total(f) = 0
<1>1. PICK it : Steps(f, it, DOMAIN f) /\ Total(f) = it[DOMAIN f]
  BY TotalSteps
<1> DEFINE S == DOMAIN f
           T == {s \in SUBSET S : it[s] # 0}
<1>2. it = [s \in SUBSET S |-> IF s = {} THEN 0 ELSE it[s \ {Pick(s)}] + f[Pick(s)].generation - 1]
  BY <1>1 DEF Steps
<1>3. SUFFICES ASSUME T # {}
               PROVE  FALSE
  BY <1>1
<1>4. PICK U \in T : \A V \in T : V \subseteq U => V = U
  <2> HIDE DEF T
  <2>1. T \subseteq SUBSET S
    BY DEF T
  <2> QED
    BY <2>1, <1>3, MinimalSubset
<1>5. U # {} /\ Pick(U) \in U
  BY <1>2, <1>4 DEF Pick
<1>6. U \ {Pick(U)} \in SUBSET S /\ U \ {Pick(U)} # U
  BY <1>4, <1>5
<1>7. it[U \ {Pick(U)}] = 0
  BY <1>4, <1>6
<1>8. U \in SUBSET S /\ it[U] # 0
  BY <1>4
<1>9. f[Pick(U)].generation = 1
  BY <1>5, <1>8
<1>10. it[U] = it[U \ {Pick(U)}] + f[Pick(U)].generation - 1
  BY <1>2, <1>5, <1>8
<1> QED
  BY <1>7, <1>8, <1>9, <1>10

\* One more generation of one role is one more in all.
LEMMA TotalGrows ==
    ASSUME NEW f, NEW g, IsFiniteSet(DOMAIN f), DOMAIN g = DOMAIN f,
           \A r \in DOMAIN f : f[r].generation \in Int,
           NEW w \in DOMAIN f, g[w].generation = f[w].generation + 1,
           \A r \in DOMAIN f \ {w} : g[r].generation = f[r].generation
    PROVE  Total(g) = Total(f) + 1
<1> DEFINE S == DOMAIN f
<1>1. PICK it : Steps(f, it, S) /\ Total(f) = it[S]
  BY TotalSteps
<1>2. PICK jt : Steps(g, jt, S) /\ Total(g) = jt[S]
  BY TotalSteps
<1>3. /\ it = [s \in SUBSET S |-> IF s = {} THEN 0 ELSE it[s \ {Pick(s)}] + f[Pick(s)].generation - 1]
      /\ jt = [s \in SUBSET S |-> IF s = {} THEN 0 ELSE jt[s \ {Pick(s)}] + g[Pick(s)].generation - 1]
  BY <1>1, <1>2 DEF Steps
<1> DEFINE Fine(s) == it[s] \in Int /\ jt[s] = it[s] + IF w \in s THEN 1 ELSE 0
           T == {s \in SUBSET S : ~Fine(s)}
<1>4. SUFFICES ASSUME T # {}
               PROVE  FALSE
  BY <1>1, <1>2
<1>5. PICK U \in T : \A V \in T : V \subseteq U => V = U
  <2> HIDE DEF T
  <2>1. T \subseteq SUBSET S
    BY DEF T
  <2> QED
    BY <2>1, <1>4, MinimalSubset
<1>6. U # {} /\ Pick(U) \in U
  BY <1>3, <1>5 DEF Pick
<1>7. U \ {Pick(U)} \in SUBSET S /\ U \ {Pick(U)} # U
  BY <1>5, <1>6
<1>8. Fine(U \ {Pick(U)})
  BY <1>5, <1>7
<1>9. /\ it[U] = it[U \ {Pick(U)}] + f[Pick(U)].generation - 1
      /\ jt[U] = jt[U \ {Pick(U)}] + g[Pick(U)].generation - 1
  BY <1>3, <1>5, <1>6
<1>10. Pick(U) \in S
  BY <1>5, <1>6
<1>11. CASE Pick(U) = w
  <2>1. w \in U /\ w \notin U \ {Pick(U)}
    BY <1>6, <1>11
  <2>2. Fine(U)
    BY <1>8, <1>9, <1>10, <1>11, <2>1
  <2> QED
    BY <1>5, <2>2
<1>12. CASE Pick(U) # w
  <2>1. w \in U <=> w \in U \ {Pick(U)}
    BY <1>12
  <2>2. Fine(U)
    BY <1>8, <1>9, <1>10, <1>12, <2>1
  <2> QED
    BY <1>5, <2>2
<1> QED
  BY <1>11, <1>12

(***************************************************************************)
(* Scores and sequences.                                                   *)
(***************************************************************************)
\* A set of natural numbers has a least one.
LEMMA LeastExists ==
    ASSUME NEW K \in SUBSET Nat, K # {}
    PROVE  \E k \in K : \A j \in K : k <= j
<1>1. PICK n \in K : TRUE
  OBVIOUS
<1> DEFINE S == 0..n
           T == {0..k : k \in {k \in K : k <= n}}
<1>2. n \in Nat
  OBVIOUS
<1>3. IsFiniteSet(S)
  BY <1>2, FS_Interval
<1>4. T \subseteq SUBSET S
  BY <1>2
<1>5. 0..n \in T
  BY <1>1, <1>2
<1>6. PICK U \in T : \A V \in T : V \subseteq U => V = U
  <2> HIDE DEF T, S
  <2> QED
    BY <1>3, <1>4, <1>5, MinimalSubset
<1>7. PICK k \in K : k <= n /\ U = 0..k
  OBVIOUS
<1>8. ASSUME NEW j \in K, j < k
      PROVE  FALSE
  <2>1. 0..j \in T /\ 0..j \subseteq U
    BY <1>2, <1>7, <1>8
  <2>2. 0..j = 0..k
    BY <2>1, <1>6, <1>7
  <2>3. k \in 0..k /\ k \notin 0..j
    BY <1>8
  <2> QED
    BY <2>2, <2>3
<1>9. \A j \in K : k <= j
  BY <1>8
<1> QED
  BY <1>9

\* The replaced analyst scored lowest, and of equals it is the first.
LEMMA WeakestIs ==
    ASSUME NEW score \in [Subagents -> Scores]
    PROVE  /\ Weakest(score) \in Subagents
           /\ \A i, j \in DOMAIN Roles : Roles[i] = Weakest(score) =>
                 /\ score[Weakest(score)] <= score[Roles[j]]
                 /\ j < i => score[Weakest(score)] < score[Roles[j]]
<1> DEFINE at(i) == score[Roles[i]]
           Best(i) == /\ \A j \in DOMAIN Roles : at(i) <= at(j)
                      /\ \A j \in DOMAIN Roles : at(j) = at(i) => i <= j
<1>1. DOMAIN Roles \in SUBSET Nat /\ DOMAIN Roles # {}
  BY RolesAssumption
<1>2. \A i \in DOMAIN Roles : Roles[i] \in Subagents /\ at(i) \in Nat
  <2> TAKE i \in DOMAIN Roles
  <2>1. Roles[i] \in Subagents
    BY DEF Subagents, Range
  <2>2. score[Roles[i]] \in Scores
    BY <2>1
  <2>3. Scores \subseteq Nat
    BY RosterBounds
  <2>4. score[Roles[i]] \in Nat
    BY <2>2, <2>3
  <2> QED
    BY <2>1, <2>4
<1>3. PICK low \in {at(i) : i \in DOMAIN Roles} : \A v \in {at(i) : i \in DOMAIN Roles} : low <= v
  <2>1. {at(i) : i \in DOMAIN Roles} \in SUBSET Nat /\ {at(i) : i \in DOMAIN Roles} # {}
    BY <1>1, <1>2
  <2> HIDE DEF at
  <2> QED
    BY <2>1, LeastExists
<1>4. PICK i \in {j \in DOMAIN Roles : at(j) = low} : \A k \in {j \in DOMAIN Roles : at(j) = low} : i <= k
  <2>1. {j \in DOMAIN Roles : at(j) = low} \in SUBSET Nat /\ {j \in DOMAIN Roles : at(j) = low} # {}
    BY <1>1, <1>3
  <2> HIDE DEF at
  <2> QED
    BY <2>1, LeastExists
<1>5. i \in DOMAIN Roles /\ Best(i)
  BY <1>3, <1>4
<1> DEFINE b == CHOOSE k \in DOMAIN Roles : Best(k)
<1>6. b \in DOMAIN Roles /\ Best(b)
  BY <1>5
<1>7. Weakest(score) = Roles[b]
  BY DEF Weakest
<1> HIDE DEF b
<1>8. ASSUME NEW k \in DOMAIN Roles, NEW j \in DOMAIN Roles, Roles[k] = Weakest(score)
      PROVE  at(b) <= at(j) /\ (j < k => at(b) < at(j))
  <2>1. k = b
    BY <1>6, <1>7, <1>8, RolesAssumption
  <2>2. at(b) \in Nat /\ at(j) \in Nat /\ b \in Nat /\ j \in Nat
    BY <1>1, <1>2, <1>6
  <2>3. at(j) = at(b) => b <= j
    BY <1>6
  <2> QED
    BY <2>1, <2>2, <2>3, <1>6
<1> QED
  BY <1>2, <1>6, <1>7, <1>8

\* n is the end of s with e after it, cut to the cap.
EndsWith(n, s, e) ==
    /\ Len(n) = IF Len(s) < HistoryCap THEN Len(s) + 1 ELSE HistoryCap
    /\ Len(n) \in 1..(Len(s) + 1) /\ DOMAIN n = 1..Len(n) /\ n # <<>>
    /\ n[Len(n)] = e
    /\ \A i \in 1..(Len(n) - 1) :
          /\ Len(s) + 1 - Len(n) + i \in 1..Len(s)
          /\ n[i] = s[Len(s) + 1 - Len(n) + i]

LEMMA LastsAre ==
    ASSUME NEW T, NEW s \in Seq(T), NEW e \in T, NEW n, n = Lasts(Append(s, e))
    PROVE  n \in Seq(T) /\ EndsWith(n, s, e)
<1>1. HistoryCap \in Nat \ {0} /\ Len(s) \in Nat
  BY RosterBounds
<1> DEFINE a == Append(s, e)
<1>2. /\ a \in Seq(T) /\ Len(a) = Len(s) + 1 /\ a[Len(s) + 1] = e
      /\ \A i \in 1..Len(s) : a[i] = s[i]
  OBVIOUS
<1> HIDE DEF a
<1>3. CASE Len(s) < HistoryCap
  <2>1. n = a
    BY <1>1, <1>2, <1>3 DEF Lasts, a
  <2>2. \A i \in 1..(Len(n) - 1) : Len(s) + 1 - Len(n) + i = i /\ i \in 1..Len(s)
    BY <1>1, <1>2, <2>1
  <2>3. \A i \in 1..(Len(n) - 1) : n[i] = s[Len(s) + 1 - Len(n) + i]
    BY <1>2, <2>1, <2>2
  <2> QED
    BY <1>1, <1>2, <1>3, <2>1, <2>2, <2>3 DEF EndsWith
<1>4. CASE ~(Len(s) < HistoryCap)
  <2>1. n = SubSeq(a, Len(a) - HistoryCap + 1, Len(a))
    <3>1. ~(Len(a) <= HistoryCap)
      BY <1>1, <1>2, <1>4
    <3> QED
      BY <3>1 DEF Lasts, a
  <2>2. Len(a) - HistoryCap + 1 \in 1..(Len(a) + 1) /\ Len(a) \in 0..Len(a)
    BY <1>1, <1>2, <1>4
  <2>3. n \in Seq(T) /\ Len(n) = HistoryCap
    BY <1>1, <1>2, <1>4, <2>1, <2>2
  <2>4. \A i \in 1..Len(n) : n[i] = a[Len(a) - HistoryCap + i]
    BY <1>1, <1>2, <1>4, <2>1, <2>2, <2>3
  <2>5. n[HistoryCap] = e
    BY <1>1, <1>2, <2>3, <2>4
  <2>6. \A i \in 1..(Len(n) - 1) : /\ Len(s) + 1 - Len(n) + i = Len(a) - HistoryCap + i
                                   /\ Len(s) + 1 - Len(n) + i \in 1..Len(s) /\ i \in 1..Len(n)
    BY <1>1, <1>2, <1>4, <2>3
  <2>7. \A i \in 1..(Len(n) - 1) : n[i] = s[Len(s) + 1 - Len(n) + i]
    <3> TAKE i \in 1..(Len(n) - 1)
    <3> DEFINE j == Len(s) + 1 - Len(n) + i
    <3>1. n[i] = a[j] /\ j \in 1..Len(s)
      BY <2>4, <2>6
    <3> HIDE DEF j
    <3>2. a[j] = s[j]
      BY <1>2, <3>1
    <3> QED
      BY <3>1, <3>2 DEF j
  <2> QED
    BY <1>1, <1>4, <2>3, <2>5, <2>6, <2>7 DEF EndsWith
<1> QED
  BY <1>3, <1>4

(***************************************************************************)
(* The improvement state.                                                  *)
(***************************************************************************)
Reviews == [round : Nat, reliability : Int]
Retired == [round : Nat, generation : Nat, final : Int]
Incarnations == [generation : Nat \ {0}, lineage : Seq(Retired), applied : Nat, history : Seq(Reviews)]
RoundsHeld == [round : Nat, replaced : Subagents, generation : Nat]
Documents == [round : Nat, agents : [Subagents -> Incarnations], rounds : Seq(RoundsHeld)]

\* What is true of every improvement state that was written or will be.
Story(s) ==
    /\ s \in Documents
    /\ TellsOneStory(s)
    /\ \A r \in Subagents : s.agents[r].applied <= s.round

LEMMA SubagentsAreFinite == IsFiniteSet(Subagents)
<1>1. PICK n \in Nat : Len(Roles) = n /\ DOMAIN Roles = 1..n
  BY RolesAssumption
<1>2. IsFiniteSet(DOMAIN Roles)
  BY <1>1, FS_Interval
<1>3. Roles \in Surjection(DOMAIN Roles, Subagents)
  BY RolesAssumption DEF Subagents, Range, Surjection
<1> QED
  BY <1>2, <1>3, FS_Surjection

LEMMA BlankTells == Story(BlankState)
<1>1. /\ BlankState.round = 0 /\ BlankState.rounds = <<>> /\ DOMAIN BlankState.agents = Subagents
      /\ \A r \in Subagents : BlankState.agents[r] = BlankAgent
  BY DEF BlankState
<1>2. BlankAgent \in Incarnations
  BY DEF BlankAgent, Incarnations
<1>3. BlankState \in Documents
  BY <1>2 DEF BlankState, Documents
<1>4. Total(BlankState.agents) = 0
  BY <1>1, SubagentsAreFinite, TotalOfBlank DEF BlankAgent
<1>5. \A r \in Subagents :
        LET a == BlankState.agents[r]
        IN  a.generation = 1 /\ a.lineage = <<>> /\ a.history = <<>> /\ a.applied = 0
  BY <1>1 DEF BlankAgent
<1>6. TellsOneStory(BlankState)
  <2>1. Len(BlankState.rounds) = IF BlankState.round < HistoryCap THEN BlankState.round ELSE HistoryCap
    BY <1>1, RosterBounds
  <2>2. TheWeakestGoes(BlankState)
    BY <1>1 DEF TheWeakestGoes
  <2>3. FoldFunction(LAMBDA a, n : n + a.generation - 1, 0, BlankState.agents) = BlankState.round
    BY <1>1, <1>4 DEF Total
  <2>4. \A r \in Subagents :
          LET a == BlankState.agents[r]
          IN  /\ a.generation = 1 <=> a.lineage = <<>>
              /\ a.lineage # <<>> =>
                    /\ Last(a.lineage).generation = a.generation - 1
                    /\ Last(a.lineage).round = a.applied
              /\ \A i \in DOMAIN a.history : a.history[i].round \in a.applied..BlankState.round
              /\ BlankState.round > 0 => Last(a.history).round = BlankState.round
    BY <1>1, <1>5
  <2>5. \A i \in DOMAIN BlankState.rounds :
            BlankState.rounds[i].round = BlankState.round - Len(BlankState.rounds) + i
    BY <1>1
  <2> QED
    BY <2>1, <2>2, <2>3, <2>4, <2>5 DEF TellsOneStory
<1> QED
  BY <1>1, <1>3, <1>5, <1>6 DEF Story

LEMMA BaselineIs ==
    ASSUME NEW score \in Nat
    PROVE  Baseline(score) \in Int
BY DEF Baseline

\* The fields of the state that replace_weakest_agent writes.
LEMMA ReplacedIs ==
    ASSUME NEW g \in Documents, NEW score \in [Subagents -> Scores], NEW w \in Subagents,
           NEW s, s = Replaced(Scored(g, score), w, score)
    PROVE  /\ s = [round |-> s.round, agents |-> s.agents, rounds |-> s.rounds]
           /\ s.round = g.round + 1
           /\ s.rounds = Lasts(Append(g.rounds, [round |-> g.round + 1, replaced |-> w,
                                                 generation |-> g.agents[w].generation + 1]))
           /\ s.agents = [r \in Subagents |-> s.agents[r]]
           /\ s.agents[w] = [generation |-> g.agents[w].generation + 1,
                             lineage |-> Lasts(Append(g.agents[w].lineage,
                                [round |-> g.round + 1, generation |-> g.agents[w].generation,
                                 final |-> score[w]])),
                             applied |-> g.round + 1,
                             history |-> <<[round |-> g.round + 1, reliability |-> Baseline(score[w])]>>]
           /\ \A r \in Subagents \ {w} :
                 s.agents[r] = [generation |-> g.agents[r].generation, lineage |-> g.agents[r].lineage,
                                applied |-> g.agents[r].applied,
                                history |-> Lasts(Append(g.agents[r].history,
                                    [round |-> g.round + 1, reliability |-> score[r]]))]
<1> DEFINE k == Scored(g, score)
<1>1. /\ k.round = g.round /\ k.rounds = g.rounds /\ DOMAIN k.agents = Subagents
      /\ \A r \in Subagents : k.agents[r] = [generation |-> g.agents[r].generation,
                                lineage |-> g.agents[r].lineage, applied |-> g.agents[r].applied,
                                history |-> Lasts(Append(g.agents[r].history,
                                    [round |-> g.round + 1, reliability |-> score[r]]))]
  BY DEF Scored, Documents, Incarnations
<1> HIDE DEF k
<1>2. s = Replaced(k, w, score)
  BY DEF k
<1>3. /\ s = [round |-> s.round, agents |-> s.agents, rounds |-> s.rounds]
      /\ s.round = k.round + 1
      /\ s.rounds = Lasts(Append(k.rounds, [round |-> k.round + 1, replaced |-> w,
                                            generation |-> k.agents[w].generation + 1]))
  BY <1>2 DEF Replaced
<1>4. s.agents = [k.agents EXCEPT ![w] =
        [generation |-> @.generation + 1,
         lineage |-> Lasts(Append(@.lineage,
            [round |-> k.round + 1, generation |-> @.generation, final |-> score[w]])),
         applied |-> k.round + 1,
         history |-> <<[round |-> k.round + 1, reliability |-> Baseline(score[w])]>>]]
  BY <1>2 DEF Replaced
<1>5. /\ DOMAIN s.agents = Subagents
      /\ s.agents[w] = [generation |-> k.agents[w].generation + 1,
                        lineage |-> Lasts(Append(k.agents[w].lineage,
                            [round |-> k.round + 1, generation |-> k.agents[w].generation,
                             final |-> score[w]])),
                        applied |-> k.round + 1,
                        history |-> <<[round |-> k.round + 1, reliability |-> Baseline(score[w])]>>]
      /\ \A r \in Subagents \ {w} : s.agents[r] = k.agents[r]
  BY <1>1, <1>4
<1>6. s.agents = [r \in Subagents |-> s.agents[r]]
  BY <1>4, <1>5
<1>7. k.agents[w].generation = g.agents[w].generation /\ k.agents[w].lineage = g.agents[w].lineage
  <2>1. PICK h : k.agents[w] = [generation |-> g.agents[w].generation, lineage |-> g.agents[w].lineage,
                                applied |-> g.agents[w].applied, history |-> h]
    BY <1>1
  <2> QED
    BY <2>1
<1>8. s.rounds = Lasts(Append(g.rounds, [round |-> g.round + 1, replaced |-> w,
                                         generation |-> g.agents[w].generation + 1]))
  BY <1>1, <1>3, <1>7
<1>9. s.agents[w] = [generation |-> g.agents[w].generation + 1,
                     lineage |-> Lasts(Append(g.agents[w].lineage,
                        [round |-> g.round + 1, generation |-> g.agents[w].generation,
                         final |-> score[w]])),
                     applied |-> g.round + 1,
                     history |-> <<[round |-> g.round + 1, reliability |-> Baseline(score[w])]>>]
  BY <1>1, <1>5, <1>7
<1> QED
  BY <1>1, <1>3, <1>5, <1>6, <1>8, <1>9

\* A replacement keeps the story: the rounds go on, one generation more is
\* counted, the incarnation that goes joins the lineage and its successor's
\* history starts with the round.
LEMMA ReplacementTells ==
    ASSUME NEW g, Story(g), NEW score \in [Subagents -> Scores],
           NEW s, s = Replaced(Scored(g, score), Weakest(score), score)
    PROVE  Story(s)
<1> DEFINE w == Weakest(score)
           e == [round |-> g.round + 1, replaced |-> w, generation |-> g.agents[w].generation + 1]
           old == [round |-> g.round + 1, generation |-> g.agents[w].generation, final |-> score[w]]
           new(r) == [round |-> g.round + 1, reliability |-> score[r]]
<1>1. w \in Subagents
  BY WeakestIs
<1>2. g \in Documents /\ g.round \in Nat /\ g.rounds \in Seq(RoundsHeld) /\ TellsOneStory(g)
      /\ DOMAIN g.agents = Subagents
  BY DEF Story, Documents
<1>3. \A r \in Subagents : /\ g.agents[r].generation \in Nat \ {0} /\ g.agents[r].lineage \in Seq(Retired)
                           /\ g.agents[r].applied \in Nat /\ g.agents[r].history \in Seq(Reviews)
                           /\ g.agents[r].applied <= g.round
  BY DEF Story, Documents, Incarnations
<1>4. \A r \in Subagents : score[r] \in Nat
  <2>1. \A r \in Subagents : score[r] \in Scores
    OBVIOUS
  <2>2. Scores \subseteq Nat
    BY RosterBounds
  <2> QED
    BY <2>1, <2>2
<1>5. e \in RoundsHeld /\ old \in Retired /\ \A r \in Subagents : new(r) \in Reviews
  BY <1>1, <1>2, <1>3, <1>4 DEF RoundsHeld, Retired, Reviews
<1> HIDE DEF w
<1>6. /\ s = [round |-> s.round, agents |-> s.agents, rounds |-> s.rounds]
      /\ s.round = g.round + 1
      /\ s.rounds = Lasts(Append(g.rounds, e))
      /\ s.agents = [r \in Subagents |-> s.agents[r]]
      /\ s.agents[w] = [generation |-> g.agents[w].generation + 1,
                        lineage |-> Lasts(Append(g.agents[w].lineage, old)),
                        applied |-> g.round + 1,
                        history |-> <<[round |-> g.round + 1, reliability |-> Baseline(score[w])]>>]
      /\ \A r \in Subagents \ {w} :
            s.agents[r] = [generation |-> g.agents[r].generation, lineage |-> g.agents[r].lineage,
                           applied |-> g.agents[r].applied,
                           history |-> Lasts(Append(g.agents[r].history, new(r)))]
  <2>1. s = Replaced(Scored(g, score), w, score)
    BY DEF w
  <2> QED
    BY <1>1, <1>2, <2>1, ReplacedIs
<1> HIDE DEF e, old, new
<1>7. /\ e.round = g.round + 1 /\ e.replaced = w
      /\ old.round = g.round + 1 /\ old.generation = g.agents[w].generation /\ old.final = score[w]
      /\ \A r \in Subagents : new(r).round = g.round + 1 /\ new(r).reliability = score[r]
  BY DEF e, old, new
<1> DEFINE R == s.rounds
           a == s.agents[w]
<1>8. R \in Seq(RoundsHeld) /\ EndsWith(R, g.rounds, e)
  <2> HIDE DEF R
  <2>1. R = Lasts(Append(g.rounds, e))
    BY <1>6 DEF R
  <2> QED
    BY <1>2, <1>5, <2>1, LastsAre
<1>9. /\ a.generation = g.agents[w].generation + 1 /\ a.applied = g.round + 1
      /\ a.lineage = Lasts(Append(g.agents[w].lineage, old))
      /\ a.history = <<[round |-> g.round + 1, reliability |-> Baseline(score[w])]>>
  <2> HIDE DEF a
  <2>1. PICK l, h : /\ a = [generation |-> g.agents[w].generation + 1, lineage |-> l,
                            applied |-> g.round + 1, history |-> h]
                    /\ l = Lasts(Append(g.agents[w].lineage, old))
                    /\ h = <<[round |-> g.round + 1, reliability |-> Baseline(score[w])]>>
    BY <1>6 DEF a
  <2> QED
    BY <2>1
<1>10. a.lineage \in Seq(Retired) /\ a.lineage # <<>> /\ Last(a.lineage) = old
  <2> HIDE DEF a
  <2>1. a.lineage \in Seq(Retired) /\ EndsWith(a.lineage, g.agents[w].lineage, old)
    BY <1>1, <1>3, <1>5, <1>9, LastsAre
  <2> QED
    BY <2>1 DEF EndsWith, Last
<1>11. a \in Incarnations
  <2>1. a.history \in Seq(Reviews)
    <3> HIDE DEF a
    <3>1. Baseline(score[w]) \in Int
      BY <1>1, <1>4, BaselineIs
    <3>2. [round |-> g.round + 1, reliability |-> Baseline(score[w])] \in Reviews
      BY <1>2, <3>1 DEF Reviews
    <3> QED
      BY <1>9, <3>2
  <2>2. a = [generation |-> a.generation, lineage |-> a.lineage, applied |-> a.applied, history |-> a.history]
    <3>1. PICK n, l, p, h : a = [generation |-> n, lineage |-> l, applied |-> p, history |-> h]
      BY <1>6
    <3> HIDE DEF a
    <3> QED
      BY <3>1
  <2> HIDE DEF a
  <2>3. a.generation \in Nat \ {0} /\ a.applied \in Nat
    BY <1>1, <1>2, <1>3, <1>9
  <2> QED
    BY <1>10, <2>1, <2>2, <2>3 DEF Incarnations
<1>12. ASSUME NEW r \in Subagents \ {w}
       PROVE  /\ s.agents[r] \in Incarnations
              /\ s.agents[r].generation = g.agents[r].generation
              /\ s.agents[r].lineage = g.agents[r].lineage
              /\ s.agents[r].applied = g.agents[r].applied
              /\ EndsWith(s.agents[r].history, g.agents[r].history, new(r))
  <2> DEFINE b == s.agents[r]
             h == b.history
  <2>1. /\ b = [generation |-> b.generation, lineage |-> b.lineage, applied |-> b.applied, history |-> h]
        /\ b.generation = g.agents[r].generation /\ b.lineage = g.agents[r].lineage
        /\ b.applied = g.agents[r].applied /\ h = Lasts(Append(g.agents[r].history, new(r)))
    <3>1. PICK k : /\ b = [generation |-> g.agents[r].generation, lineage |-> g.agents[r].lineage,
                           applied |-> g.agents[r].applied, history |-> k]
                   /\ k = Lasts(Append(g.agents[r].history, new(r)))
      BY <1>6, <1>12
    <3> HIDE DEF b
    <3> QED
      BY <3>1
  <2> HIDE DEF b, h
  <2>2. h \in Seq(Reviews) /\ EndsWith(h, g.agents[r].history, new(r))
    <3>1. g.agents[r].history \in Seq(Reviews) /\ new(r) \in Reviews
      BY <1>3, <1>5, <1>12
    <3> QED
      BY <2>1, <3>1, LastsAre
  <2>3. b \in Incarnations
    BY <1>3, <1>12, <2>1, <2>2 DEF Incarnations
  <2> QED
    BY <2>1, <2>2, <2>3 DEF b, h
<1> HIDE DEF a, R
<1>13. s \in Documents
  <2>1. \A r \in Subagents : s.agents[r] \in Incarnations
    BY <1>11, <1>12 DEF a
  <2>2. s.agents \in [Subagents -> Incarnations]
    BY <1>6, <2>1
  <2>3. s.round \in Nat
    BY <1>2, <1>6
  <2> QED
    BY <1>6, <1>8, <2>2, <2>3 DEF Documents, R
<1>14. \A r \in Subagents : s.agents[r].applied <= s.round
  <2>1. a.applied <= s.round
    BY <1>2, <1>6, <1>9
  <2>2. \A r \in Subagents \ {w} : s.agents[r].applied <= s.round
    BY <1>2, <1>3, <1>6, <1>12
  <2> QED
    BY <2>1, <2>2 DEF a
<1>15. Len(s.rounds) = IF s.round < HistoryCap THEN s.round ELSE HistoryCap
  <2>1. Len(g.rounds) = IF g.round < HistoryCap THEN g.round ELSE HistoryCap
    BY <1>2 DEF TellsOneStory
  <2> QED
    BY <2>1, <1>2, <1>6, <1>8, RosterBounds DEF R, EndsWith
<1>16. \A i \in DOMAIN s.rounds : s.rounds[i].round = s.round - Len(s.rounds) + i
  <2>1. \A i \in DOMAIN g.rounds : g.rounds[i].round = g.round - Len(g.rounds) + i
    BY <1>2 DEF TellsOneStory
  <2>2. Len(R) \in Nat /\ Len(g.rounds) \in Nat /\ DOMAIN g.rounds = 1..Len(g.rounds)
    BY <1>2, <1>8
  <2>3. R[Len(R)].round = g.round + 1
    BY <1>7, <1>8 DEF EndsWith
  <2>4. ASSUME NEW i \in 1..(Len(R) - 1)
        PROVE  R[i].round = g.round + 1 - Len(R) + i
    <3> DEFINE m == Len(g.rounds) + 1 - Len(R) + i
    <3>1. m \in DOMAIN g.rounds /\ R[i] = g.rounds[m]
      BY <1>8, <2>2 DEF EndsWith
    <3>2. g.round \in Nat
      BY <1>2
    <3> DEFINE x == Len(g.rounds)
               y == Len(R)
    <3>3. R[i].round = g.round - x + m
      BY <2>1, <3>1
    <3>4. m = x + 1 - y + i /\ x \in Nat /\ y \in Nat
      BY <2>2
    <3> HIDE DEF m, R, x, y
    <3>5. i \in Nat
      BY <2>4
    <3>6. R[i].round = g.round + 1 - y + i
      BY <3>2, <3>3, <3>4, <3>5
    <3> QED
      BY <3>6 DEF y
  <2>5. DOMAIN R = 1..Len(R)
    BY <1>8
  <2>6. \A i \in 1..Len(R) : R[i].round = g.round + 1 - Len(R) + i
    BY <1>2, <2>2, <2>3, <2>4
  <2>7. \A i \in 1..Len(R) : R[i].round = s.round - Len(R) + i
    <3>1. s.round = g.round + 1 /\ g.round \in Nat
      BY <1>2, <1>6
    <3> QED
      BY <2>2, <2>6, <3>1
  <2> QED
    BY <2>5, <2>7 DEF R
<1>17. Total(s.agents) = s.round
  <2>1. Total(g.agents) = g.round
    BY <1>2 DEF TellsOneStory, Total
  <2>2. Total(s.agents) = Total(g.agents) + 1
    <3>1. DOMAIN s.agents = Subagents /\ DOMAIN g.agents = Subagents /\ IsFiniteSet(Subagents)
      BY <1>2, <1>6, SubagentsAreFinite
    <3>2. s.agents[w].generation = g.agents[w].generation + 1
      BY <1>9 DEF a
    <3>3. \A r \in Subagents \ {w} : s.agents[r].generation = g.agents[r].generation
      BY <1>12
    <3>4. \A r \in Subagents : g.agents[r].generation \in Int
      BY <1>3
    <3> DEFINE sa == s.agents
               ga == g.agents
    <3>5. /\ IsFiniteSet(DOMAIN ga) /\ DOMAIN sa = DOMAIN ga /\ w \in DOMAIN ga
          /\ \A r \in DOMAIN ga : ga[r].generation \in Int
          /\ sa[w].generation = ga[w].generation + 1
          /\ \A r \in DOMAIN ga \ {w} : sa[r].generation = ga[r].generation
      BY <1>1, <3>1, <3>2, <3>3, <3>4
    <3> HIDE DEF sa, ga
    <3>6. Total(sa) = Total(ga) + 1
      BY <3>5, TotalGrows
    <3> QED
      BY <3>6 DEF sa, ga
  <2> QED
    BY <1>6, <2>1, <2>2

<1> DEFINE Tells(r) ==
            LET b == s.agents[r]
            IN  /\ b.generation = 1 <=> b.lineage = <<>>
                /\ b.lineage # <<>> =>
                      /\ Last(b.lineage).generation = b.generation - 1
                      /\ Last(b.lineage).round = b.applied
                /\ \A i \in DOMAIN b.history : b.history[i].round \in b.applied..s.round
                /\ s.round > 0 => Last(b.history).round = s.round
<1>18. Tells(w)
  <2>1. a.generation # 1
    BY <1>1, <1>3, <1>9
  <2>2. Last(a.lineage).generation = a.generation - 1 /\ Last(a.lineage).round = a.applied
    BY <1>1, <1>3, <1>7, <1>9, <1>10
  <2>3. DOMAIN a.history = {1} /\ a.history[1].round = g.round + 1 /\ Last(a.history).round = g.round + 1
    BY <1>9 DEF Last
  <2>4. \A i \in DOMAIN a.history : a.history[i].round \in a.applied..s.round
    BY <1>2, <1>6, <1>9, <2>3
  <2> QED
    BY <1>6, <1>10, <2>1, <2>2, <2>3, <2>4 DEF a
<1>19. ASSUME NEW r \in Subagents \ {w}
       PROVE  Tells(r)
  <2> DEFINE b == s.agents[r]
             c == g.agents[r]
  <2>1. /\ c.generation = 1 <=> c.lineage = <<>>
        /\ c.lineage # <<>> => Last(c.lineage).generation = c.generation - 1 /\ Last(c.lineage).round = c.applied
        /\ \A i \in DOMAIN c.history : c.history[i].round \in c.applied..g.round
    BY <1>2, <1>19 DEF TellsOneStory
  <2>2. /\ b.generation = c.generation /\ b.lineage = c.lineage /\ b.applied = c.applied
        /\ b.history \in Seq(Reviews) /\ c.history \in Seq(Reviews)
        /\ EndsWith(b.history, c.history, new(r))
    BY <1>3, <1>12, <1>19 DEF Incarnations
  <2>3. c.applied \in Nat /\ c.applied <= g.round /\ new(r).round = g.round + 1
    BY <1>3, <1>7, <1>19
  <2> HIDE DEF b, c
  <2>4. \A i \in 1..Len(b.history) : b.history[i].round \in b.applied..s.round
    <3>1. b.history[Len(b.history)].round \in b.applied..s.round
      BY <1>2, <1>6, <2>2, <2>3 DEF EndsWith
    <3>2. ASSUME NEW i \in 1..(Len(b.history) - 1)
          PROVE  b.history[i].round \in b.applied..s.round
      <4>1. PICK m \in DOMAIN c.history : b.history[i] = c.history[m]
        <5> DEFINE m == Len(c.history) + 1 - Len(b.history) + i
        <5>1. m \in 1..Len(c.history) /\ b.history[i] = c.history[m]
          BY <2>2 DEF EndsWith
        <5>2. DOMAIN c.history = 1..Len(c.history)
          BY <2>2
        <5> HIDE DEF m
        <5> QED
          BY <5>1, <5>2
      <4>2. c.history[m].round \in c.applied..g.round
        BY <2>1, <4>1
      <4> QED
        BY <4>1, <4>2, <1>2, <1>6, <2>2, <2>3
    <3> QED
      BY <2>2, <3>1, <3>2
  <2>5. DOMAIN b.history = 1..Len(b.history)
    BY <2>2
  <2>6. Last(b.history).round = s.round
    BY <1>6, <2>2, <2>3 DEF EndsWith, Last
  <2> QED
    BY <2>1, <2>2, <2>4, <2>5, <2>6 DEF b
<1>20. TheWeakestGoes(s)
  <2>1. Last(s.rounds).replaced = w
    BY <1>7, <1>8 DEF R, EndsWith, Last
  <2>2. Last(s.agents[w].lineage).final = score[w]
    BY <1>7, <1>10 DEF a
  <2>3. \A r \in Subagents \ {w} : Last(s.agents[r].history).reliability = score[r]
    <3> TAKE r \in Subagents \ {w}
    <3>1. Last(s.agents[r].history) = new(r)
      BY <1>12 DEF EndsWith, Last
    <3> QED
      BY <1>7, <3>1
  <2>4. \A i \in DOMAIN Roles : Roles[i] \in Subagents
    BY DEF Subagents, Range
  <2> DEFINE seen(r) == IF r = w THEN score[w] ELSE Last(s.agents[r].history).reliability
  <2>5. \A r \in Subagents : seen(r) = score[r]
    BY <2>3
  <2>6. ASSUME NEW i \in DOMAIN Roles, NEW j \in DOMAIN Roles, Roles[i] = w
        PROVE  score[w] <= seen(Roles[j]) /\ (j < i => score[w] < seen(Roles[j]))
    <3>1. score[w] <= score[Roles[j]] /\ (j < i => score[w] < score[Roles[j]])
      BY <2>6, WeakestIs DEF w
    <3> QED
      BY <2>4, <2>5, <3>1
  <2> QED
    BY <2>1, <2>2, <2>6 DEF TheWeakestGoes
<1>21. TellsOneStory(s)
  <2>1. \A r \in Subagents : Tells(r)
    BY <1>18, <1>19
  <2>2. FoldFunction(LAMBDA c, n : n + c.generation - 1, 0, s.agents) = s.round
    BY <1>17 DEF Total
  <2> QED
    BY <1>15, <1>16, <1>20, <2>1, <2>2 DEF TellsOneStory
<1> QED
  BY <1>13, <1>14, <1>21 DEF Story

(***************************************************************************)
(* The stream.                                                             *)
(***************************************************************************)
LEMMA SuffixIs ==
    ASSUME NEW T, NEW s \in Seq(T), NEW t \in Seq(T)
    PROVE  IsSuffix(s, t) <=> /\ Len(s) <= Len(t)
                              /\ \A i \in 1..Len(s) : s[i] = t[Len(t) - Len(s) + i]
<1> DEFINE m == Len(s)
           n == Len(t)
           rs == Reverse(s)
           rt == Reverse(t)
<1>1. m \in Nat /\ n \in Nat /\ DOMAIN s = 1..m /\ DOMAIN t = 1..n
  OBVIOUS
<1>2. /\ rs \in Seq(T) /\ Len(rs) = m /\ \A i \in 1..m : rs[i] = s[m - i + 1]
      /\ rt \in Seq(T) /\ Len(rt) = n /\ \A i \in 1..n : rt[i] = t[n - i + 1]
  BY DEF Reverse
<1>3. IsSuffix(s, t) <=> m <= n /\ SubSeq(rs, 1, m) = SubSeq(rt, 1, m)
  BY <1>2 DEF IsSuffix, IsPrefix
<1> HIDE DEF m, n, rs, rt
<1>4. ASSUME m <= n
      PROVE  SubSeq(rs, 1, m) = SubSeq(rt, 1, m) <=> \A i \in 1..m : s[i] = t[n - m + i]
  <2>1. SubSeq(rs, 1, m) = SubSeq(rt, 1, m) <=> \A i \in 1..m : rs[i] = rt[i]
    <3>1. /\ SubSeq(rs, 1, m) = [i \in 1..m |-> rs[i]]
          /\ SubSeq(rt, 1, m) = [i \in 1..m |-> rt[i]]
      BY <1>1, <1>2, <1>4
    <3> QED
      BY <3>1
  <2>2. ASSUME \A i \in 1..m : rs[i] = rt[i], NEW i \in 1..m
        PROVE  s[i] = t[n - m + i]
    <3>1. m - i + 1 \in 1..m /\ m - i + 1 \in 1..n /\ m - (m - i + 1) + 1 = i /\ n - (m - i + 1) + 1 = n - m + i
      BY <1>1, <1>4
    <3>2. rs[m - i + 1] = rt[m - i + 1]
      BY <2>2, <3>1
    <3> QED
      BY <1>2, <3>1, <3>2
  <2>3. ASSUME \A i \in 1..m : s[i] = t[n - m + i], NEW i \in 1..m
        PROVE  rs[i] = rt[i]
    <3>1. m - i + 1 \in 1..m /\ i \in 1..n /\ n - m + (m - i + 1) = n - i + 1
      BY <1>1, <1>4
    <3>2. s[m - i + 1] = t[n - m + (m - i + 1)]
      BY <2>3, <3>1
    <3> QED
      BY <1>2, <3>1, <3>2
  <2> QED
    BY <2>1, <2>2, <2>3
<1> QED
  BY <1>3, <1>4 DEF m, n

\* The stream t is the history of the state s.
Told(t, s) ==
    /\ \A i \in DOMAIN t : t[i].round = i
    /\ Len(t) = s.round
    /\ IsSuffix(s.rounds, t)

LEMMA ReplacedRounds ==
    ASSUME NEW g \in Documents, NEW score \in [Subagents -> Scores], NEW w \in Subagents,
           NEW s, s = Replaced(Scored(g, score), w, score)
    PROVE  /\ s.round = g.round + 1
           /\ s.rounds = Lasts(Append(g.rounds, [round |-> g.round + 1, replaced |-> w,
                                                 generation |-> g.agents[w].generation + 1]))
<1> DEFINE k == Scored(g, score)
<1>1. /\ k.round = g.round /\ k.rounds = g.rounds
      /\ k.agents[w].generation = g.agents[w].generation
  BY DEF Scored, Documents, Incarnations
<1> HIDE DEF k
<1>2. s = Replaced(k, w, score)
  BY DEF k
<1>3. /\ s.round = k.round + 1
      /\ s.rounds = Lasts(Append(k.rounds, [round |-> k.round + 1, replaced |-> w,
                                            generation |-> k.agents[w].generation + 1]))
  BY <1>2 DEF Replaced
<1> QED
  BY <1>1, <1>3

\* A state whose last round joins the stream is told as the one before it.
LEMMA ToldGoesOn ==
    ASSUME NEW g \in Documents, NEW score \in [Subagents -> Scores], NEW w \in Subagents,
           NEW s, s = Replaced(Scored(g, score), w, score), NEW t \in Seq(RoundsHeld), Told(t, g)
    PROVE  /\ Append(t, Last(s.rounds)) \in Seq(RoundsHeld)
           /\ Told(Append(t, Last(s.rounds)), s)
<1> DEFINE e == [round |-> g.round + 1, replaced |-> w, generation |-> g.agents[w].generation + 1]
           u == Append(t, Last(s.rounds))
           R == s.rounds
           G == g.rounds
<1>1. R = Lasts(Append(G, e)) /\ s.round = g.round + 1
  <2>1. /\ s.round = g.round + 1
        /\ s.rounds = Lasts(Append(g.rounds, [round |-> g.round + 1, replaced |-> w,
                                              generation |-> g.agents[w].generation + 1]))
    BY ReplacedRounds
  <2> QED
    BY <2>1
<1>2. e \in RoundsHeld /\ G \in Seq(RoundsHeld) /\ g.round \in Nat
  BY DEF Documents, Incarnations, RoundsHeld
<1>3. e.round = g.round + 1
  OBVIOUS
<1> HIDE DEF e, R, G
<1>4. R \in Seq(RoundsHeld) /\ EndsWith(R, G, e)
  BY <1>1, <1>2, LastsAre
<1>5. u = Append(t, e)
  BY <1>4 DEF EndsWith, Last, R
<1> HIDE DEF u
<1>6. /\ u \in Seq(RoundsHeld) /\ Len(u) = Len(t) + 1 /\ u[Len(t) + 1] = e
      /\ \A i \in 1..Len(t) : u[i] = t[i]
  BY <1>2, <1>5
<1>7. Len(t) = g.round /\ \A i \in 1..Len(t) : t[i].round = i
  BY DEF Told
<1>8. \A i \in DOMAIN u : u[i].round = i
  <2>1. DOMAIN u = 1..(Len(t) + 1)
    BY <1>6
  <2> QED
    BY <2>1, <1>2, <1>3, <1>6, <1>7
<1>9. Len(G) <= Len(t) /\ \A i \in 1..Len(G) : G[i] = t[Len(t) - Len(G) + i]
  <2>1. IsSuffix(G, t)
    BY DEF Told, G
  <2> QED
    BY <2>1, <1>2, SuffixIs
<1>10. Len(R) <= Len(u)
  BY <1>2, <1>6, <1>9, <1>4 DEF EndsWith
<1>11. R[Len(R)] = u[Len(u) - Len(R) + Len(R)]
  BY <1>4, <1>6 DEF EndsWith
<1>12. ASSUME NEW i \in 1..(Len(R) - 1)
       PROVE  R[i] = u[Len(u) - Len(R) + i]
  <2> DEFINE m == Len(G) + 1 - Len(R) + i
  <2>1. m \in 1..Len(G) /\ R[i] = G[m]
    BY <1>4 DEF EndsWith
  <2> HIDE DEF m
  <2>2. G[m] = t[Len(t) - Len(G) + m]
    BY <1>9, <2>1
  <2>3. Len(t) - Len(G) + m \in 1..Len(t)
    BY <1>2, <1>9, <2>1
  <2>4. Len(t) - Len(G) + m = Len(u) - Len(R) + i
    BY <1>2, <1>4, <1>6 DEF m
  <2> QED
    BY <1>6, <2>1, <2>2, <2>3, <2>4
<1>13. \A i \in 1..Len(R) : R[i] = u[Len(u) - Len(R) + i]
  BY <1>4, <1>11, <1>12
<1>14. IsSuffix(R, u)
  BY <1>4, <1>6, <1>10, <1>13, SuffixIs
<1> QED
  BY <1>1, <1>6, <1>7, <1>8, <1>14 DEF Told, u, R

(***************************************************************************)
(* The invariant.                                                          *)
(***************************************************************************)
\* The improvement state that a reader of S finds.
StateOf(S) == IF S = {} THEN BlankState ELSE CHOOSE s \in S : TRUE

SoundRoster(S) ==
    /\ \A s, t \in S : s = t
    /\ \A s \in S : Story(s)

\* A debate at its model call holds the version it read, with its scores added.
Fits(h) ==
    /\ h.at \in {"idle", "audited", "spawning"}
    /\ h.at \in {"audited", "spawning"} => h.score \in [Subagents -> Scores]
    /\ h.at = "spawning" => /\ SoundRoster(h.base)
                            /\ h.state = Scored(StateOf(h.base), h.score)
                            /\ h.weakest = Weakest(h.score)

RosterTyped ==
    /\ overlaps \in BOOLEAN /\ resets \in Nat /\ failures \in Nat
    /\ improvements \in Seq(RoundsHeld)
    /\ DOMAIN debate = Debates

\* Nothing has disturbed the stream.
Quiet == ~overlaps /\ resets = 0 /\ failures = 0

RosterInv ==
    /\ RosterTyped
    /\ SoundRoster(stored)
    /\ \A d \in Debates : Fits(debate[d])
    /\ Quiet => reset = "idle" /\ Told(improvements, StateOf(stored))

LEMMA StateTells ==
    ASSUME NEW S, SoundRoster(S)
    PROVE  /\ Story(StateOf(S)) /\ StateOf(S) \in Documents
           /\ \A s \in S : StateOf(S) = s
BY BlankTells DEF StateOf, SoundRoster, Story

LEMMA InitRoster == RosterInit => RosterInv
<1> SUFFICES ASSUME RosterInit
             PROVE  RosterInv
  OBVIOUS
<1>1. RosterTyped /\ SoundRoster(stored)
  <2>1. DOMAIN debate = Debates /\ stored = {} /\ overlaps = FALSE /\ resets = 0 /\ failures = 0
    BY DEF RosterInit
  <2>2. improvements \in Seq(RoundsHeld)
    BY DEF RosterInit
  <2> QED
    BY <2>1, <2>2 DEF RosterTyped, SoundRoster
<1>2. \A d \in Debates : Fits(debate[d])
  BY DEF RosterInit, Fits
<1>3. StateOf(stored) = BlankState
  BY DEF RosterInit, StateOf
<1>4. Told(improvements, BlankState)
  <2>1. BlankState.rounds = <<>> /\ BlankState.round = 0 /\ improvements = <<>>
    BY DEF BlankState, RosterInit
  <2>2. IsSuffix(BlankState.rounds, improvements)
    <3>1. Reverse(<<>>) = <<>>
      BY DEF Reverse
    <3>2. IsPrefix(<<>>, <<>>)
      BY DEF IsPrefix
    <3> QED
      BY <2>1, <3>1, <3>2 DEF IsSuffix
  <2> QED
    BY <2>1, <2>2 DEF Told
<1> QED
  BY <1>1, <1>2, <1>3, <1>4 DEF RosterInv, RosterInit

(***************************************************************************)
(* The steps.                                                              *)
(***************************************************************************)
LEMMA DebateMoves ==
    ASSUME RosterInv, NEW d \in Debates, NEW h, Fits(h), debate' = [debate EXCEPT ![d] = h]
    PROVE  DOMAIN debate' = Debates /\ \A e \in Debates : Fits(debate'[e])
BY DEF RosterInv, RosterTyped

LEMMA FaultsCount ==
    ASSUME failures \in Nat, NEW ok \in BOOLEAN, Outcome(ok)
    PROVE  failures' \in Nat /\ (failures' = 0 => failures = 0 /\ ok)
BY DEF Outcome

LEMMA AuditKeeps ==
    ASSUME RosterInv, NEW d \in Debates, Audit(d)
    PROVE  RosterInv'
<1>1. /\ UNCHANGED <<stored, improvements, reset, overlaps, resets>>
      /\ \E ok \in BOOLEAN : Outcome(ok)
      /\ \E score \in [Subagents -> Scores] : debate' = [debate EXCEPT ![d] = [at |-> "audited", score |-> score]]
  BY DEF Audit
<1>2. failures' \in Nat /\ (failures' = 0 => failures = 0)
  BY <1>1, FaultsCount DEF RosterInv, RosterTyped
<1>3. PICK score \in [Subagents -> Scores] : debate' = [debate EXCEPT ![d] = [at |-> "audited", score |-> score]]
  BY <1>1
<1>4. Fits([at |-> "audited", score |-> score])
  BY DEF Fits
<1>5. DOMAIN debate' = Debates /\ \A e \in Debates : Fits(debate'[e])
  BY <1>3, <1>4, DebateMoves
<1>6. RosterTyped'
  BY <1>1, <1>2, <1>5 DEF RosterInv, RosterTyped
<1>7. Quiet' => Quiet
  BY <1>1, <1>2 DEF Quiet
<1> QED
  BY <1>1, <1>5, <1>6, <1>7 DEF RosterInv

LEMMA SelectKeeps ==
    ASSUME RosterInv, NEW d \in Debates, Select(d)
    PROVE  RosterInv'
<1>1. /\ UNCHANGED <<stored, improvements, reset, overlaps, resets, failures>>
      /\ debate[d].at = "audited"
      /\ debate' = [debate EXCEPT ![d] =
            [at |-> "spawning", score |-> debate[d].score,
             state |-> Scored(ImprovementState, debate[d].score),
             base |-> stored, weakest |-> Weakest(debate[d].score)]]
  BY DEF Select
<1> DEFINE h == [at |-> "spawning", score |-> debate[d].score,
                 state |-> Scored(ImprovementState, debate[d].score),
                 base |-> stored, weakest |-> Weakest(debate[d].score)]
<1>2. Fits(h)
  <2>1. debate[d].score \in [Subagents -> Scores]
    BY <1>1 DEF RosterInv, Fits
  <2>2. SoundRoster(stored) /\ ImprovementState = StateOf(stored)
    BY DEF RosterInv, ImprovementState, StateOf
  <2> QED
    BY <2>1, <2>2 DEF Fits
<1> HIDE DEF h
<1>3. DOMAIN debate' = Debates /\ \A e \in Debates : Fits(debate'[e])
  <2>1. debate' = [debate EXCEPT ![d] = h]
    BY <1>1 DEF h
  <2> QED
    BY <1>2, <2>1, DebateMoves
<1>4. RosterTyped' /\ (Quiet' => Quiet)
  BY <1>1, <1>3 DEF RosterInv, RosterTyped, Quiet
<1> QED
  BY <1>1, <1>3, <1>4 DEF RosterInv

LEMMA ReplaceKeeps ==
    ASSUME RosterInv, NEW d \in Debates, Replace(d)
    PROVE  RosterInv'
<1> DEFINE h == debate[d]
           g == StateOf(h.base)
           s == Replaced(h.state, h.weakest, h.score)
<1>1. /\ UNCHANGED <<reset, resets>>
      /\ h.at = "spawning"
      /\ debate' = [debate EXCEPT ![d] = [at |-> "idle"]]
      /\ overlaps' = (overlaps \/ stored # h.base)
  BY DEF Replace
<1>2. PICK ok \in BOOLEAN, done \in 0..2 : Outcome(ok /\ done = 2) /\ Writes(s, done)
  BY DEF Replace
<1>3. /\ h.score \in [Subagents -> Scores] /\ SoundRoster(h.base)
      /\ s = Replaced(Scored(g, h.score), Weakest(h.score), h.score)
  BY <1>1 DEF RosterInv, Fits
<1>4. Story(g) /\ g \in Documents
  BY <1>3, StateTells
<1> HIDE DEF h, g
<1>5. Story(s)
  <2> HIDE DEF s
  <2> QED
    BY <1>3, <1>4, ReplacementTells
<1> HIDE DEF s
<1>6. /\ stored' = IF done >= 1 THEN {s} ELSE stored
      /\ improvements' = IF done >= 2 THEN Append(improvements, Last(s.rounds)) ELSE improvements
  BY <1>2 DEF Writes
<1>7. SoundRoster(stored')
  BY <1>5, <1>6 DEF RosterInv, SoundRoster
<1>8. failures' \in Nat /\ (failures' = 0 => failures = 0 /\ done = 2)
  BY <1>2, FaultsCount DEF RosterInv, RosterTyped
<1>9. DOMAIN debate' = Debates /\ \A e \in Debates : Fits(debate'[e])
  <2>1. Fits([at |-> "idle"])
    BY DEF Fits
  <2> QED
    BY <1>1, <2>1, DebateMoves
<1>10. improvements' \in Seq(RoundsHeld)
  <2>1. Last(s.rounds) \in RoundsHeld
    <3>1. s.rounds = Lasts(Append(g.rounds, [round |-> g.round + 1, replaced |-> Weakest(h.score),
                                generation |-> g.agents[Weakest(h.score)].generation + 1]))
      BY <1>3, <1>4, WeakestIs, ReplacedRounds
    <3>2. g.rounds \in Seq(RoundsHeld)
          /\ [round |-> g.round + 1, replaced |-> Weakest(h.score),
              generation |-> g.agents[Weakest(h.score)].generation + 1] \in RoundsHeld
      BY <1>3, <1>4, WeakestIs DEF Documents, Incarnations, RoundsHeld
    <3>3. PICK e \in RoundsHeld : EndsWith(s.rounds, g.rounds, e)
      BY <3>1, <3>2, LastsAre
    <3> QED
      BY <3>3 DEF EndsWith, Last
  <2>2. improvements \in Seq(RoundsHeld)
    BY DEF RosterInv, RosterTyped
  <2> QED
    BY <1>6, <2>1, <2>2
<1>11. overlaps' \in BOOLEAN
  BY <1>1 DEF RosterInv, RosterTyped
<1>12. RosterTyped'
  BY <1>1, <1>8, <1>9, <1>10, <1>11 DEF RosterInv, RosterTyped
<1>13. ASSUME Quiet'
       PROVE  reset' = "idle" /\ Told(improvements', StateOf(stored'))
  <2>1. Quiet /\ done = 2 /\ stored = h.base
    BY <1>1, <1>8, <1>13 DEF Quiet
  <2>2. reset = "idle" /\ Told(improvements, g)
    BY <2>1 DEF RosterInv, g
  <2>3. stored' = {s} /\ improvements' = Append(improvements, Last(s.rounds))
    BY <1>6, <2>1
  <2>4. StateOf(stored') = s
    BY <2>3 DEF StateOf
  <2>5. improvements \in Seq(RoundsHeld) /\ Weakest(h.score) \in Subagents
    BY <1>3, WeakestIs DEF RosterInv, RosterTyped
  <2>6. Told(Append(improvements, Last(s.rounds)), s)
    BY <1>3, <1>4, <2>2, <2>5, ToldGoesOn
  <2> QED
    BY <1>1, <2>2, <2>3, <2>4, <2>6
<1> QED
  BY <1>7, <1>9, <1>12, <1>13 DEF RosterInv

LEMMA AbandonKeeps ==
    ASSUME RosterInv, NEW d \in Debates, Abandon(d)
    PROVE  RosterInv'
<1>1. /\ UNCHANGED <<stored, improvements, reset, overlaps, resets>>
      /\ Outcome(FALSE) /\ debate' = [debate EXCEPT ![d] = [at |-> "idle"]]
  BY DEF Abandon
<1>2. failures' \in Nat /\ failures' # 0
  BY <1>1, FaultsCount DEF RosterInv, RosterTyped
<1>3. Fits([at |-> "idle"])
  BY DEF Fits
<1>4. DOMAIN debate' = Debates /\ \A e \in Debates : Fits(debate'[e])
  BY <1>1, <1>3, DebateMoves
<1>5. RosterTyped' /\ ~Quiet'
  BY <1>1, <1>2, <1>4 DEF RosterInv, RosterTyped, Quiet
<1> QED
  BY <1>1, <1>4, <1>5 DEF RosterInv

LEMMA ResetKeeps ==
    ASSUME RosterInv, ResetBegins \/ ResetDeletes \/ SeedReads \/ SeedWrites
    PROVE  RosterInv'
<1>1. UNCHANGED <<debate, failures>>
  BY DEF ResetBegins, ResetDeletes, SeedReads, SeedWrites
<1>2. resets' \in Nat /\ overlaps' \in BOOLEAN
  <2>1. resets' = resets \/ resets' = resets + 1
    BY DEF ResetBegins, ResetDeletes, SeedReads, SeedWrites
  <2>2. overlaps' = overlaps \/ overlaps' = (overlaps \/ stored # {})
    BY DEF ResetBegins, ResetDeletes, SeedReads, SeedWrites
  <2>3. resets \in Nat /\ overlaps \in BOOLEAN
    BY DEF RosterInv, RosterTyped
  <2>4. overlaps' \in BOOLEAN
    BY <2>2, <2>3, Zenon
  <2> QED
    BY <2>1, <2>3, <2>4
<1>3. improvements' \in Seq(RoundsHeld)
  <2>1. <<>> \in Seq(RoundsHeld)
    OBVIOUS
  <2> QED
    BY <2>1 DEF RosterInv, RosterTyped, ResetBegins, ResetDeletes, SeedReads, SeedWrites
<1>4. SoundRoster(stored')
  <2>1. SoundRoster({}) /\ SoundRoster({BlankState})
    BY BlankTells DEF SoundRoster
  <2>2. stored' = stored \/ stored' = {} \/ stored' = {BlankState}
    BY DEF ResetBegins, ResetDeletes, SeedReads, SeedWrites
  <2> QED
    BY <2>1, <2>2 DEF RosterInv
<1>5. RosterTyped'
  BY <1>1, <1>2, <1>3 DEF RosterInv, RosterTyped
<1>6. ~Quiet'
  <2>1. CASE ResetBegins
    BY <2>1 DEF ResetBegins, RosterInv, RosterTyped, Quiet
  <2>2. CASE ResetDeletes \/ SeedReads \/ SeedWrites
    <3>1. reset # "idle"
      BY <2>2 DEF ResetDeletes, SeedReads, SeedWrites
    <3>2. ~Quiet
      BY <3>1 DEF RosterInv
    <3>3. resets' = resets /\ failures' = failures
      BY <2>2 DEF ResetDeletes, SeedReads, SeedWrites
    <3>4. overlaps' = overlaps \/ overlaps' = (overlaps \/ stored # {})
      BY <2>2 DEF ResetDeletes, SeedReads, SeedWrites
    <3>5. overlaps => overlaps'
      BY <3>4, Zenon
    <3> QED
      BY <3>2, <3>3, <3>5 DEF Quiet
  <2> QED
    BY <2>1, <2>2
<1> QED
  BY <1>1, <1>4, <1>5, <1>6 DEF RosterInv

LEMMA NextRoster == RosterInv /\ [RosterNext]_rosterVars => RosterInv'
<1> SUFFICES ASSUME RosterInv, [RosterNext]_rosterVars
             PROVE  RosterInv'
  OBVIOUS
<1>1. ASSUME NEW d \in Debates, Audit(d) \/ Select(d) \/ Replace(d) \/ Abandon(d)
      PROVE  RosterInv'
  BY <1>1, AuditKeeps, SelectKeeps, ReplaceKeeps, AbandonKeeps
<1>2. CASE ResetBegins \/ ResetDeletes \/ SeedReads \/ SeedWrites
  BY <1>2, ResetKeeps
<1>3. CASE UNCHANGED rosterVars
  BY <1>3 DEF rosterVars, RosterInv, RosterTyped, Quiet
<1> QED
  BY <1>1, <1>2, <1>3 DEF RosterNext

LEMMA SpecRoster == RosterSpec => []RosterInv
BY InitRoster, NextRoster, PTL DEF RosterSpec

\* Whoever wrote it and over whose version, the improvement state tells one story:
\* rounds, generations, lineages and histories of the roster add up, and the
\* analyst that was retired was the weakest (replace_weakest_agent).
THEOREM RostersTellOneStory == RosterSpec => []RosterTellsOneStory
<1>1. RosterInv => RosterTellsOneStory
  BY DEF RosterInv, SoundRoster, Story, RosterTellsOneStory
<1> QED
  BY <1>1, SpecRoster, PTL

\* Without an overlap, a reset or a failure the stream holds each round of the
\* roster once, in order, and ends with those the state keeps (append_event).
THEOREM StreamsAreTheHistory == RosterSpec => []StreamIsTheHistory
<1>1. RosterInv => StreamIsTheHistory
  <2> SUFFICES ASSUME RosterInv, Quiet
               PROVE  /\ \A i \in DOMAIN improvements : improvements[i].round = i
                      /\ Len(improvements) = ImprovementState.round
                      /\ \A s \in stored : IsSuffix(s.rounds, improvements)
    BY DEF StreamIsTheHistory, Quiet
  <2>1. Told(improvements, StateOf(stored)) /\ SoundRoster(stored)
    BY DEF RosterInv
  <2>2. ImprovementState = StateOf(stored) /\ \A s \in stored : StateOf(stored) = s
    BY <2>1, StateTells DEF ImprovementState, StateOf
  <2> QED
    BY <2>1, <2>2 DEF Told
<1> QED
  BY <1>1, SpecRoster, PTL
=============================================================================
