--------------------------- MODULE FinanceDebate ---------------------------
(***************************************************************************)
(* The finance council's own graph (agent/src/agent.py): intake, planner,  *)
(* committee_parallel, challenge, debate, influence, synthesis,            *)
(* governance, reliability, self_improvement, persist.                     *)
(*                                                                         *)
(* A thread of the chat holds one graph state, which survives from one     *)
(* decision to the next; the decisions of all threads share the operator's *)
(* room, the approval requests, debate:latest and the stream of decisions. *)
(* A node runs from one await to the next without interruption, so that    *)
(* the nodes of two threads, and the four analysts of one committee,       *)
(* interleave at model calls.                                              *)
(*                                                                         *)
(* A key of the graph state is modelled by the decision it was written     *)
(* for, which is 0 when intake has cleared it; positions, the ruling and   *)
(* the governance keep what the properties tell apart.  Left out: the      *)
(* statuses, events, telemetry and activity lists that only feed the       *)
(* screen, and what the scorers compute.                                   *)
(*                                                                         *)
(* Definitions marked "Mutation:" are plausible bugs in the definition     *)
(* that follows them.                                                      *)
(***************************************************************************)
EXTENDS Integers, Sequences, FiniteSets

CONSTANTS
    Threads,      \* chat threads that run the graph
    Roles,        \* ANALYSTS
    Fast,         \* ATLAS_FAST_COUNCIL
    MaxPolls,     \* polls after which a pause no longer holds (45 in the code)
    MaxDecisions, \* bound of the model: decisions submitted
    MaxFaults     \* bound of the model: calls and commands that fail

ASSUME BoundsAssumption ==
    /\ MaxPolls \in Nat /\ MaxDecisions \in Nat /\ MaxFaults \in Nat
    /\ Fast \in BOOLEAN

Decisions == 1..MaxDecisions
Tags == 0..MaxDecisions

VARIABLES
    node,      \* the node of the graph a thread is at, or "idle"
    step,      \* whether the node is entered, held by a pause, or at work
    polls,     \* polls of the room a held node has made
    st,        \* DebateState, as the checkpointer keeps it for the thread
    live,      \* _ParallelCouncil, and where each analyst is
    submitted, \* decisions submitted so far; the last one's name
    paused,    \* the operator's pause in the command state of the room
    ready,     \* sponsor_health()["ready"]
    requests,  \* decisions with a stored approval request
    latest,    \* debate:latest
    log,       \* the stream of decisions
    warned,    \* decisions whose persistence ended with a warning
    faults     \* failures so far

vars == <<node, step, polls, st, live, submitted, paused, ready, requests, latest,
          log, warned, faults>>
store == <<requests, latest, log, warned>>

(***************************************************************************)
(* The state.                                                              *)
(***************************************************************************)
Graph == <<"intake", "planner", "committee_parallel", "challenge", "debate", "influence",
           "synthesis", "governance", "reliability", "self_improvement", "persist">>
Nodes == {Graph[i] : i \in DOMAIN Graph}
PauseNodes == {"planner", "committee_parallel", "challenge", "debate"}

\* Mutation: the request for sign-off is routed before the CFO has ruled.
SuccessorGovernFirst(n) ==
    CASE n = "influence" -> "governance" [] n = "governance" -> "synthesis"
      [] n = "synthesis" -> "reliability" [] n = "persist" -> "idle"
      [] OTHER -> Graph[(CHOOSE i \in DOMAIN Graph : Graph[i] = n) + 1]

\* The edges of the workflow.
Successor(n) ==
    IF n = "persist" THEN "idle"
    ELSE Graph[(CHOOSE i \in DOMAIN Graph : Graph[i] = n) + 1]

\* A position in the list; an analyst whose call failed leaves one too.
Positions == [of : Decisions, role : Roles, ok : BOOLEAN]

\* A turn of the transcript; "by" names the analyst of a thinking turn.
Turns == [of : Decisions, kind : {"framing", "thinking", "position", "challenge",
              "rebuttal", "influence", "decision", "governance", "reliability"},
          by : Roles \cup {"council"}]

Rulings == [of : Tags, ok : BOOLEAN]
Governances == [of : Tags, status : {"", "governed", "error"}]

DebateState ==
    [decision : Tags, plan : Tags, positions : SUBSET Positions, transcript : SUBSET Turns,
     report : Tags, influence : Tags, recommendation : Rulings, memo : Tags,
     governance : Governances, scores : Tags]

EmptyState ==
    [decision |-> 0, plan |-> 0, positions |-> {}, transcript |-> {}, report |-> 0,
     influence |-> 0, recommendation |-> [of |-> 0, ok |-> FALSE], memo |-> 0,
     governance |-> [of |-> 0, status |-> ""], scores |-> 0]

Stages == {"waiting", "asked", "recorded", "raised"}
NoCouncil == [stage |-> [r \in Roles |-> "waiting"], positions |-> {}, transcript |-> {}]

LogEntries == [decision : Decisions, ok : BOOLEAN, approval : Governances]

Turn(d, kind) == [of |-> d, kind |-> kind, by |-> "council"]
Thinking(d, r) == [of |-> d, kind |-> "thinking", by |-> r]

TypeOK ==
    /\ node \in [Threads -> Nodes \cup {"idle"}]
    /\ step \in [Threads -> {"enter", "held", "work"}]
    /\ polls \in [Threads -> 0..MaxPolls]
    /\ st \in [Threads -> DebateState]
    /\ live \in [Threads -> [stage : [Roles -> Stages], positions : SUBSET Positions,
                             transcript : SUBSET Turns]]
    /\ submitted \in Tags
    /\ paused \in BOOLEAN /\ ready \in BOOLEAN
    /\ requests \subseteq Decisions
    /\ latest \in DebateState
    /\ log \in Seq(LogEntries)
    /\ warned \subseteq Decisions
    /\ faults \in 0..MaxFaults

Init ==
    /\ node = [t \in Threads |-> "idle"]
    /\ step = [t \in Threads |-> "enter"]
    /\ polls = [t \in Threads |-> 0]
    /\ st = [t \in Threads |-> EmptyState]
    /\ live = [t \in Threads |-> NoCouncil]
    /\ submitted = 0
    /\ paused = FALSE
    /\ ready = TRUE
    /\ requests = {}
    /\ latest = EmptyState
    /\ log = <<>>
    /\ warned = {}
    /\ faults = 0

(***************************************************************************)
(* The surroundings: messages of the chat, the operator, the sponsors.     *)
(***************************************************************************)
\* A message starts the graph on its thread; _extract_decision names it.
Submit(t) ==
    /\ node[t] = "idle"
    /\ submitted < MaxDecisions
    /\ submitted' = submitted + 1
    /\ node' = [node EXCEPT ![t] = "intake"]
    /\ step' = [step EXCEPT ![t] = "enter"]
    /\ st' = [st EXCEPT ![t].decision = submitted + 1]
    /\ UNCHANGED <<polls, live, paused, ready, store, faults>>

\* The operator's pause and resume commands.
TogglePause ==
    /\ paused' = ~paused
    /\ UNCHANGED <<node, step, polls, st, live, submitted, ready, store, faults>>

\* Redis, the model provider, Weave or CopilotKit fail, and recover.
SponsorsFail ==
    /\ ready
    /\ faults < MaxFaults
    /\ ready' = FALSE
    /\ faults' = faults + 1
    /\ UNCHANGED <<node, step, polls, st, live, submitted, paused, store>>

SponsorsRecover ==
    /\ ~ready
    /\ ready' = TRUE
    /\ UNCHANGED <<node, step, polls, st, live, submitted, paused, store, faults>>

(***************************************************************************)
(* Running a node.                                                         *)
(***************************************************************************)
\* A node begins with require_live_ready, which ends the run by raising, and
\* in four nodes with _honor_pause.
Enter(t) ==
    /\ node[t] # "idle" /\ step[t] = "enter"
    /\ ready
    /\ step' = [step EXCEPT ![t] = IF node[t] \in PauseNodes /\ paused THEN "held" ELSE "work"]
    /\ polls' = [polls EXCEPT ![t] = 0]
    /\ UNCHANGED <<node, st, live, submitted, paused, ready, store, faults>>

Abort(t) ==
    /\ node[t] # "idle" /\ step[t] = "enter"
    /\ ~ready
    /\ node' = [node EXCEPT ![t] = "idle"]
    /\ UNCHANGED <<step, polls, st, live, submitted, paused, ready, store, faults>>

\* Mutation: the pause holds for as long as the operator keeps it.
HeldForever(t) == step[t] = "held" /\ paused

\* The loop of _honor_pause, which PAUSE_MAX_SECONDS bounds.
Held(t) == step[t] = "held" /\ paused /\ polls[t] < MaxPolls

Poll(t) ==
    /\ Held(t)
    /\ polls' = [polls EXCEPT ![t] = IF @ < MaxPolls THEN @ + 1 ELSE @]
    /\ UNCHANGED <<node, step, st, live, submitted, paused, ready, store, faults>>

Release(t) ==
    /\ step[t] = "held" /\ ~Held(t)
    /\ step' = [step EXCEPT ![t] = "work"]
    /\ UNCHANGED <<node, polls, st, live, submitted, paused, ready, store, faults>>

\* Node n of thread t is at work.
At(t, n) == node[t] = n /\ step[t] = "work"

\* The node has returned: its keys are merged, and the next one is entered.
Return(t, s) ==
    /\ st' = [st EXCEPT ![t] = s]
    /\ node' = [node EXCEPT ![t] = Successor(node[t])]
    /\ step' = [step EXCEPT ![t] = "enter"]
    /\ UNCHANGED <<polls, submitted, ready>>

\* A model call or a command that may fail.
Outcome(ok) == faults' = IF ok THEN faults ELSE faults + 1
CanFail(ok) == ok \/ faults < MaxFaults

\* A read of Redis outside any try, or the auditor's model, raises; nothing
\* catches it, and the run is over.
Raises(t) ==
    /\ node[t] \in {"intake", "influence", "synthesis", "self_improvement"}
                   \cup (IF Fast THEN {} ELSE {"reliability"})
    /\ step[t] = "work"
    /\ faults < MaxFaults
    /\ node' = [node EXCEPT ![t] = "idle"]
    /\ step' = [step EXCEPT ![t] = "enter"]
    /\ faults' = faults + 1
    /\ paused' = (paused /\ node[t] # "intake")
    /\ UNCHANGED <<polls, st, live, submitted, ready, store>>

(***************************************************************************)
(* The nodes.                                                              *)
(***************************************************************************)
\* Mutation: intake keeps the positions of the thread's last decision.
FreshStateKeeps(s) ==
    [EmptyState EXCEPT !.decision = s.decision, !.positions = s.positions,
                       !.transcript = {Turn(s.decision, "framing")},
                       !.governance = s.governance]

\* The keys intake sets anew; it leaves the last decision's governance.
FreshState(s) ==
    [EmptyState EXCEPT !.decision = s.decision,
                       !.transcript = {Turn(s.decision, "framing")},
                       !.governance = s.governance]

\* reset_command_state(ROOM), which ends a pause, then the context.
Intake(t) ==
    /\ At(t, "intake")
    /\ Return(t, FreshState(st[t]))
    /\ paused' = FALSE
    /\ UNCHANGED <<live, store, faults>>

\* A planner without a plan falls back to a general one.
Planner(t) ==
    /\ At(t, "planner")
    /\ \E ok \in BOOLEAN :
          /\ CanFail(ok) /\ Outcome(ok)
          /\ Return(t, [st[t] EXCEPT !.plan = st[t].decision])
    /\ UNCHANGED <<live, paused, store>>

\* The committee opens: every analyst has a thinking turn.
CommitteeOpens(t) ==
    /\ At(t, "committee_parallel")
    /\ \A r \in Roles : live[t].stage[r] = "waiting"
    /\ live' = [live EXCEPT ![t] =
          [stage |-> [r \in Roles |-> "asked"],
           positions |-> st[t].positions,
           transcript |-> st[t].transcript \cup {Thinking(st[t].decision, r) : r \in Roles}]]
    /\ UNCHANGED <<node, step, polls, st, submitted, paused, ready, store, faults>>

\* record_position, under the council's lock.
Recorded(t, p) == live[t].positions \cup {p}

\* An analyst's model call has answered, or has failed, which is recorded too.
AnalystAnswers(t, r) ==
    /\ At(t, "committee_parallel") /\ live[t].stage[r] = "asked"
    /\ \E ok \in BOOLEAN :
          /\ CanFail(ok) /\ Outcome(ok)
          /\ live' = [live EXCEPT
                ![t].stage[r] = "recorded",
                ![t].positions = Recorded(t, [of |-> st[t].decision, role |-> r, ok |-> ok]),
                ![t].transcript = {x \in @ : ~(x.kind = "thinking" /\ x.by = r)}
                                  \cup {[of |-> st[t].decision, kind |-> "position", by |-> r]}]
    /\ UNCHANGED <<node, step, polls, st, submitted, paused, ready, store>>

\* An analyst raises, and gather keeps the exception.
AnalystRaises(t, r) ==
    /\ At(t, "committee_parallel") /\ live[t].stage[r] = "asked"
    /\ faults < MaxFaults
    /\ live' = [live EXCEPT ![t].stage[r] = "raised"]
    /\ faults' = faults + 1
    /\ UNCHANGED <<node, step, polls, st, submitted, paused, ready, store>>

\* asyncio.gather(..., return_exceptions=True) has returned.
Gathered(t) == \A r \in Roles : live[t].stage[r] \in {"recorded", "raised"}

CommitteeCloses(t) ==
    /\ At(t, "committee_parallel") /\ Gathered(t)
    /\ Return(t, [st[t] EXCEPT !.positions = live[t].positions,
                               !.transcript = live[t].transcript])
    /\ live' = [live EXCEPT ![t] = NoCouncil]
    /\ UNCHANGED <<paused, store, faults>>

\* The challenge report; a panel that failed leaves a report without findings
\* and no turn.
Challenge(t) ==
    /\ At(t, "challenge")
    /\ \E ok \in (IF Fast THEN {TRUE} ELSE BOOLEAN) :
          /\ CanFail(ok) /\ Outcome(ok)
          /\ Return(t, [st[t] EXCEPT !.report = st[t].decision,
                !.transcript = IF ok THEN @ \cup {Turn(st[t].decision, "challenge")} ELSE @])
    /\ UNCHANGED <<live, paused, store>>

CrossExamine(t) ==
    /\ At(t, "debate")
    /\ \E ok \in BOOLEAN :
          /\ CanFail(ok) /\ Outcome(ok)
          /\ Return(t, [st[t] EXCEPT
                !.transcript = IF ok THEN @ \cup {Turn(st[t].decision, "rebuttal")} ELSE @])
    /\ UNCHANGED <<live, paused, store>>

\* Weights are assigned whether or not the model answers.
Influence(t) ==
    /\ At(t, "influence")
    /\ \E ok \in (IF Fast THEN {TRUE} ELSE BOOLEAN) :
          /\ CanFail(ok) /\ Outcome(ok)
          /\ Return(t, [st[t] EXCEPT !.influence = st[t].decision,
                !.transcript = @ \cup {Turn(st[t].decision, "influence")}])
    /\ UNCHANGED <<live, paused, store>>

\* A CFO who does not answer defers, with confidence 0 and no board memo.
Synthesis(t) ==
    /\ At(t, "synthesis")
    /\ \E ok, memo \in BOOLEAN :
          /\ CanFail(ok) /\ Outcome(ok)
          /\ memo => ok /\ ~Fast
          /\ Return(t, [st[t] EXCEPT !.recommendation = [of |-> st[t].decision, ok |-> ok],
                !.memo = IF memo THEN st[t].decision ELSE 0,
                !.transcript = @ \cup {Turn(st[t].decision, "decision")}])
    /\ UNCHANGED <<live, paused, store>>

\* The except branch of the node.
GovernanceFailed(s) == [of |-> s.decision, status |-> "error"]

\* The request is stored before its audit events: what fails after that leaves it.
Governance(t) ==
    /\ At(t, "governance")
    /\ \E ok, stored \in BOOLEAN :
          /\ CanFail(ok) /\ Outcome(ok)
          /\ ok => stored
          /\ requests' = IF stored THEN requests \cup {st[t].decision} ELSE requests
          /\ Return(t, [st[t] EXCEPT
                !.governance = IF ok THEN [of |-> st[t].decision, status |-> "governed"]
                               ELSE GovernanceFailed(st[t]),
                !.transcript = IF ok THEN @ \cup {Turn(st[t].decision, "governance")} ELSE @])
    /\ UNCHANGED <<live, paused, latest, log, warned>>

Reliability(t) ==
    /\ At(t, "reliability")
    /\ Return(t, [st[t] EXCEPT !.scores = st[t].decision,
                               !.transcript = @ \cup {Turn(st[t].decision, "reliability")}])
    /\ UNCHANGED <<live, paused, store, faults>>

\* What becomes of the roster is modelled in AgentReplacement.
SelfImprovement(t) ==
    /\ At(t, "self_improvement")
    /\ Return(t, st[t])
    /\ UNCHANGED <<live, paused, store, faults>>

\* The event of a decision in the stream.
Entry(s) == [decision |-> s.decision, ok |-> s.recommendation.ok, approval |-> s.governance]

\* Mutation: the event is appended before the snapshot is stored.
PersistedLogFirst(s, done) ==
    /\ log' = IF done >= 1 THEN Append(log, Entry(s)) ELSE log
    /\ latest' = IF done >= 2 THEN s ELSE latest

\* The snapshot, the event and the announcement, in that order; "done" counts
\* the commands that succeed.
Persisted(s, done) ==
    /\ latest' = IF done >= 1 THEN s ELSE latest
    /\ log' = IF done >= 2 THEN Append(log, Entry(s)) ELSE log

\* A command that fails ends the node with a warning; the run is done either way.
Persist(t) ==
    /\ At(t, "persist")
    /\ \E done \in 0..3 :
          /\ CanFail(done = 3) /\ Outcome(done = 3)
          /\ Persisted(st[t], done)
          /\ warned' = IF done = 3 THEN warned ELSE warned \cup {st[t].decision}
    /\ Return(t, st[t])
    /\ UNCHANGED <<live, paused, requests>>

(***************************************************************************)
(* The specification.                                                      *)
(***************************************************************************)
Committee(t) ==
    \/ CommitteeOpens(t) \/ CommitteeCloses(t)
    \/ \E r \in Roles : AnalystAnswers(t, r) \/ AnalystRaises(t, r)

Run(t) ==
    \/ Enter(t) \/ Abort(t) \/ Poll(t) \/ Release(t) \/ Raises(t)
    \/ Intake(t) \/ Planner(t) \/ Committee(t) \/ Challenge(t) \/ CrossExamine(t)
    \/ Influence(t) \/ Synthesis(t) \/ Governance(t) \/ Reliability(t)
    \/ SelfImprovement(t) \/ Persist(t)

Next ==
    \/ \E t \in Threads : Submit(t) \/ Run(t)
    \/ TogglePause \/ SponsorsFail \/ SponsorsRecover

\* The event loop keeps running a graph that has started: model calls have a
\* timeout, and a pause sleeps.
Fairness == \A t \in Threads : WF_vars(Run(t))

Spec == Init /\ [][Next]_vars /\ Fairness

(***************************************************************************)
(* Properties.                                                             *)
(***************************************************************************)
\* The result keys of a graph state.
KeysOf(s) ==
    {p.of : p \in s.positions} \cup {x.of : x \in s.transcript}
    \cup {s.plan, s.report, s.influence, s.recommendation.of, s.governance.of, s.scores}

CommitteeAccounted ==
    \A t \in Threads : node[t] \in {"challenge", "debate", "influence"} =>
        LET by == {p.role : p \in st[t].positions}
            left == {x.by : x \in {y \in st[t].transcript : y.kind = "thinking"}}
        IN  /\ by \cup left = Roles
            /\ by \cap left = {}
            /\ \A p, q \in st[t].positions : p.role = q.role => p = q

\* debate:latest is the record of one decision: no position, turn, ruling or
\* governance of the thread's last one, or of another thread, is in it, and a
\* board memo is of a ruling the CFO made (persist_node; export-memo reads it).
\* Nor is anything missing: the analysts work at once and each is accounted for
\* when the challenge begins, by one position, or by a thinking turn as the only
\* trace of a call that raised (committee_parallel_node).
SnapshotIsOfOneDecision ==
    /\ CommitteeAccounted
    /\ latest.decision # 0 =>
          /\ KeysOf(latest) = {latest.decision}
          /\ latest.memo # 0 => latest.memo = latest.decision /\ latest.recommendation.ok

LoggedIsGoverned ==
    \A i \in DOMAIN log :
        /\ log[i].approval.of = log[i].decision
        /\ log[i].approval.status = "governed" => log[i].decision \in requests

LogFollowsSnapshot ==
    /\ log # <<>> =>
          \/ log[Len(log)].decision = latest.decision
          \/ latest.decision \in warned
    /\ \A i, j \in DOMAIN log : log[i].decision = log[j].decision => i = j

\* The decision stream tells the debates as they were.  Every event says how its
\* decision is governed: the approval it names was stored for this very decision,
\* or it says "error"; the last event is that of debate:latest, unless persisting
\* that decision ended with a warning; and no decision is logged twice
\* (governance_node, persist_node).
LogTellsTheDebate == LoggedIsGoverned /\ LogFollowsSnapshot

\* A debate that was submitted ends, however the operator pauses it: "so a
\* submitted decision always reaches a ruling" (_honor_pause), or its run fails.
DebateEnds == \A t \in Threads : node[t] # "idle" ~> node[t] = "idle"

(***************************************************************************)
(* The lifecycle of a decision.                                            *)
(***************************************************************************)
\* The thread at work on decision d, if any.
WorksOn(t, d) == node[t] # "idle" /\ st[t].decision = d

StatusOf(d) ==
    IF d > submitted THEN "new"
    ELSE IF \E t \in Threads : WorksOn(t, d) THEN
        LET s == st[CHOOSE t \in Threads : WorksOn(t, d)]
        IN  IF s.governance.of = d THEN "governed"
            ELSE IF s.recommendation.of = d THEN "ruled" ELSE "open"
    ELSE IF \E i \in DOMAIN log : log[i].decision = d THEN "logged"
    ELSE "dropped"

Lifecycle == INSTANCE DecisionLifecycle WITH status <- [d \in Decisions |-> StatusOf(d)]

\* The graph implements the lifecycle of a decision: ruled, then governed, then
\* logged, and dropped only where it stands.
ImplementsLifecycle == Lifecycle!Spec
=============================================================================
