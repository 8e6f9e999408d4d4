# Finance council: a verification development

TLA+ models of the agent backend of this repository (`src/agent/src`), checked
with TLC on small instances, with theorems proved by TLAPS for every instance.
Every definition is translated from the Python source; `PROJECT.json` maps each
one to the lines it stands for.

Contents: [1 the system](#1-the-system) · [2 modules](#2-modules) ·
[3 runs](#3-runs) · [4 fairness](#4-fairness) · [5 proofs](#5-proofs) ·
[6 what the code does otherwise than it says](#6-what-the-code-does-otherwise-than-it-says) ·
[7 what is not modelled](#7-what-is-not-modelled) · [8 plan](#8-plan)

## 1 The system

A council of model-driven finance agents debates spending decisions. One Python
process serves a FastAPI application and two LangGraph graphs; Redis keeps
everything shared. Three kinds of concurrency meet in it:

- **coroutines of one event loop**: the debate graphs, the AG-UI command route,
  uploads, promotion replays. They interleave only where they `await`;
- **pool threads**: every route written as a plain `def` (approvals, operator
  control, reconciliation, deletion of documents, demo reset), and what is sent to
  `asyncio.to_thread`. Their Redis commands interleave with everything;
- **other processes**: the seeding and import command lines.

Nothing in the code locks, watches or versions a Redis document. A Redis command
is atomic; a `GET ... SET` pair is not. That is where most of what can go wrong
here comes from, so the models of what keeps state work at the granularity of Redis
commands. The engines that keep none (governance, planning, scenarios,
reconciliation, influence) are arithmetic with many boundaries; they are modelled as
operators over exact integers, and their properties compare an engine with itself on
related inputs, or two of its results computed apart.

### Inventory

| component | state it keeps | operations | hard behaviour | what makes it correct |
|---|---|---|---|---|
| Approvals service (`approvals.py`, `governance_models.py`) | one JSON document per request (status, route steps, decisions), audit stream | create, read with lazy expiry, list, decide, request an exception, supersede | handlers interleave between GET and SET; failure between SET and XADD; deadlines | legal status walks, no sign-off nobody gave, decided stays decided, complete audit, one live request per topic |
| Governance engine, policies (`governance.py`, `policies.py`) | none of their own | derive inputs, evaluate controls, route, assess evidence and obligations, create the request | numeric boundaries; two computations of one fact | what clears by itself needed nobody; route and obligations agree; dearer is never lighter; every recommendation ends with a request |
| Orchestrated debate (`orchestration/debate.py`, `graph.py`, `models.py`) | the coroutine's locals, checkpoints | rounds, convergence, red team, one loop-back, vote | steered while it runs; failing model calls; crash between checkpoint and index | bounded, ends, reports what happened, decides by the last round |
| Operator control (`orchestration/control.py`, `api.py`) | one control document per thread | inject, retire, force rounds, override the threshold; the engine reads and clears | two writers of one document | one-shot directives fire once; the last seat change wins |
| Orchestration store (`store.py`, `namespace.py`, `whatif.py`) | checkpoints and index, precedents, bus | save, list, branch, publish, consume | index updated by GET/SET; consumer group | listed = stored; branches do not mix |
| Conductor, registry, sub-debates | none | plan a topology, resolve names to seats | model output as a plan | plans stay inside their limits |
| Council command layer (`council_commands.py`, `agui_commands.py`) | one room document, command stream | clarify, route, challenge, defend, rerun, scenario, compare, pin, pause, resume, export | commands wait for models and overtake each other; bounded histories | no command loses another's effect; stream and room agree |
| Finance debate graph (`agent.py`) | graph state per thread, `debate:latest`, decision stream | intake ... synthesis, governance, persist | four analysts at once; pauses at node boundaries; failing nodes; state kept from one decision to the next | a submitted decision reaches a ruling and is logged as it went; what is stored is of one decision |
| Influence and model calls (`council_influence.py`, `openai_council.py`) | reliability prior | weights, caps, normalisation; structured call with retry; evidence plan and evidence; exchanges | rounding; a model that answers anything or nothing | shares sum to 100 and follow the evidence; every lane gets its evidence and its challenge |
| Connector imports (`integrations/`) | dataset and provenance per source, vendors, reports | import, upload, reconcile, reset | idempotency by checksum; two writers; last known good; spellings and formats of exports | a good import is never destroyed by a bad one; how a fact was recorded hides no discrepancy |
| Document pipeline (`documents/`) | document registry, parse jobs, chunks | upload, extract, index, delete, reset | crash in mid-pipeline; job read-modify-write | a job ends; a ready document is complete; deletion leaves nothing |
| Promotion gates (`promotion_gates.py`) | candidate, gates, latest, stream | replay, decide, block, promote, seed | minutes of model calls between read and write; four writes per decision | no promotion that was not earned; candidate, gates and stream agree |
| Self-improvement (`self_improvement.py`) | improvement state, prior, stream | audit, select the weakest, replace it, seed | a model call between read and write of one document | the roster tells one story |
| Planning, playbooks (`planning.py`, `playbooks.py`, `stress_tests.py`) | best-effort saves | project cash, summarise, compare, sweep | boundaries and rounding; sums over steps | a plan adds up; comparisons are true of what they compare |
| Scenarios (`scenario_engine.py`) | best-effort saves | apply changes to a fork, project, find violations | order of changes; two computations of one runway | spending more removes no violation; projection and runway agree |
| Evaluation and seeding; health, environment, voice | read-mostly or none | scripts, probes | none | - |
| Redis access (`redis_layer.py`, ...) | - | thin wrappers of single commands | - | atomic steps of the other models |
| HTTP API (`api.py`, ...) | - | routes | pool threads or event loop, per route | decides the interleavings above |
| Demo data and reset (`data/`) | - | seed, full reset | deletes key families while everything else runs | nothing newer is lost |
| Frontend | views | - | - | - |

How they meet: the finance graph's governance node calls the governance engine,
which calls the approvals service to supersede and create; the approvals routes
call the same service from pool threads. The debate engine reads the control
document operators write, and writes checkpoints that branching reads. The
command layer and the finance graph share the room document: commands set the
pause and the focus, nodes of the graph honour them, intake empties them. The
graph's reliability node blends its audit into the prior that the next debate's
influence reads, and its self-improvement node replaces an analyst. A document
uploaded as a connector export goes through the import before it is indexed. The
demo reset deletes keys of all of them.

## 2 Modules

| module | stands for |
|---|---|
| `ApprovalLifecycle` | abstract: what the approvals service promises of one request |
| `Approvals` | `approvals.py`, the creation in `governance.py`, the routes that call them |
| `ApprovalsProofs` | theorems about `Approvals` |
| `Debate` | `run_debate`, the debate node with its checkpoints, `control.py` |
| `DebateProofs` | theorems about `Debate` |
| `DecisionLifecycle` | abstract: what the finance council promises of one decision |
| `FinanceDebate` | the graph of `agent.py`, node by node |
| `FinanceDebateProofs` | theorems about `FinanceDebate` |
| `CouncilCommands` | `council_commands.py`, `agui_commands.py`, the graph nodes that touch the room, the demo reset of it |
| `CouncilCommandsProofs` | theorems about `CouncilCommands` |
| `ConnectorImport` | `integrations/service.py` and `store.py`, the import, reconciliation and reset routes, `cli.py`, the demo reset of what they keep |
| `ConnectorImportProofs` | theorems about `ConnectorImport` |
| `DocumentPipeline` | `documents/pipeline.py` and `store.py`, `file_validation.py`, the document routes, the demo reset of what they keep |
| `DocumentPipelineProofs` | theorems about `DocumentPipeline` |
| `AgentReplacement` | `self_improvement.py`, the rolling prior of `council_influence.py`, the demo reset of both |
| `PromotionGates` | `promotion_gates.py`, `eval_cli.py`, the promotion routes, the seeding of candidates |
| `SelfImprovementProofs` | theorems about `PromotionGates` and about `AgentReplacement` |
| `Amounts` | Python's rounding on exact integers |
| `GovernanceRules` | `governance.py`, `policies.py`, the approval matrix |
| `OperatingPlan`, `PlaybookPortfolio` | `planning.py`, `playbooks.py`, the sweeps of `stress_tests.py` |
| `ScenarioBranch` | `scenario_engine.py` |
| `LedgerRows` | `integrations/ledger_normalization.py`: a bank's row to a ledger entry |
| `ImportQuality` | `invoice_messiness.py`, `crm_pipeline_quality.py`, `headcount_quality.py`: what an import counts of its rows |
| `Reconciliation` | the seven workflows of `integrations/reconcile.py`, over the rows of those two |
| `CouncilInfluence` | `council_influence.py`, the scorers that feed it |
| `CouncilRules` | `openai_council.py`, `documents/retrieval.py`: structured calls, evidence plan, evidence, exchanges |
| `RulesProofs` | theorems about `GovernanceRules`, `CouncilRules`, `CouncilInfluence`, `ScenarioBranch`, `OperatingPlan` and `PlaybookPortfolio` |
| `MCRules` | composes the seven rule modules for TLC |
| `MCApprovals`, `MCDebate`, `MCCouncilCommands`, `MCConnectorImport`, `MCDocumentPipeline`, `MCFinanceDebate`, `MCAgentReplacement`, `MCPromotionGates` | small instances for TLC |

Definitions whose comment begins with "Mutation:" are no part of a
specification. Each is a plausible bug in the definition that follows it; with it
in place TLC must find the property named in `PROJECT.json` violated.

### Approvals

`docs[r]` is the stored document of a request, `audit` the audit stream,
`lapsed` the requests whose deadline has passed, and `handler[t]` the call that
thread `t` is running: its program counter, what is left to do and **its own copy
of the document**. One action is one Redis command together with the local
computation that prepares the next:

| action | code |
|---|---|
| `Open` | a get, decide or exception call arrives and issues `get_request`'s JSON.GET |
| `SaveExpiry`, `AuditExpiry` | `refresh_status` stores and audits an expiry it computed from its copy |
| `Decide`, `Refuse`, `AttachException`, `AppendAudit` | `record_decision` and `request_exception`: the SET of the changed copy, the error path, the XADD at the end of `save_request` |
| `StartList`, `RefreshExpire`, `RefreshKeep`, `RefreshDone`, `DropFromPage` | `list_requests`: one search, then each listed copy is refreshed, a failing one dropped |
| `StartCreate`, `LoadPrior`, `SavePrior`, `SaveNew`, `AuditNew` | `govern_recommendation`: list the pending requests, supersede those on the topic one by one, store the new request, audit it |
| `Lapse` | a deadline passes |
| `Fail` | a command raises or the process dies: the call ends where it stood |

What a handler does to its copy is a set of operators named for the code
(`Expired`, `Decided`, `Replaced`, `WithException`, `NewDocument`), so the same
operators serve TLC and the proofs. Names, rationales, amounts and obligations
are left out: no property tells them apart. Which controls trigger, and so which
route and which initial status a request gets, is a nondeterministic choice over
the outcomes the engine can produce.

### Debate

`engine` holds the locals of `run_debate` and where it stands; `control` the
control document; `operator[o]` an operator call between its GET and its SET;
`saved` and `index` the checkpoint documents and the thread's index. A round (`HoldRound`, `LoopBack`), a red-team report (`RedTeam`,
`RedTeamAgain`) and the `Vote` are one action each: what they wait for in between
reads no shared state. `ReadControl`, `RereadControl` and `ClearForce` (the GET before
a round, the GET and the SET of `_consume_force_rounds`) and `SaveCheckpoint`,
`ListCheckpoint`, `SkipCheckpoint` are actions of their own, for operators' commands
(`OperatorReads`, then `OperatorSteers`, `OperatorForces` or `OperatorFails`) and
crashes (`Abort`) fall between them. Stances are any
assignment of the model's answers to the seats; a failed call repeats the seat's
previous stance or abstains. `asked` and `granted` are history, read by no action.

### CouncilCommands

`room` is the command-state document, `stream` the command stream, `command[c]`
a dispatched command with its copy of the room, `debate[d]` the node a run of
the graph is in. `Dispatch`
runs a command that needs no model; `Ask` and `Answer` are the two halves of one
that does. The event loop is the guard `LoopFree`: `_finalize` never awaits,
so while a command is between its XADD, GET and SET no other coroutine moves. The
demo reset is a pool thread and moves at any time. The nodes from influence to
persist read the room no differently from synthesis and stand with it. `recent`
is history: the commands saved since the room was last emptied.

Left out because nothing reads them: the reserved command queue, memo documents
and the phase a pause names. Commands of other rooms touch no debate.

### ConnectorImport

`source[c]` and `dataset[c]` are the two documents of connector `c`, its
provenance and its rows; `company`, `vendors` and `report` what is derived from
them. `call[a]` is a call in progress: `pc` names the Redis command it issues
next, the other fields are the locals that are still read.

| action | code |
|---|---|
| `Upload`, `Import`, `Derive`, `Reconcile`, `Reset` | a call arrives: the two upload routes, `import` and `reconcile` of the command line, the reconciliation and the reset route |
| `Check`, `ReadPrior`, `KeepGood`, `SaveStatus`, `SaveSource`, `SaveRows` | `import_connector` and `import_uploaded_file`: the checksum, the outcome of parsing, `_fail`, the SET of the provenance alone, or of the provenance and then of the rows |
| `ReadLedger`, `SaveCompany`, `ReadExport`, `Vacate`, `SaveVendor` | `apply_company_derivation` |
| `ReadCompany`, `ReadVendors`, `ReadData`, `ListSources`, `ReadMark`, `SaveMark`, `SaveReport` | `run_reconciliation` |
| `ClearSource`, `ClearRows`, `ClearReport`, `ClearCompany`, `SaveVendor` | `full_demo_reset` with its seeding |
| `Fail` | a command raises or the process dies between two of them |

An upload never awaits once its file is read: `LoopFree` keeps a second one from
starting. Reconciliation and reset run in pool threads, the command line is a
process of its own. What a file holds is the constant `Outcome`; the company is
named by the ledger rows it was derived from, for the record's other inputs
(headcount, opportunities, policies) only refine its numbers and cannot stop it.
`met` (which calls ran beside this one) and `orderly` (no two calls have
overlapped, none has failed) are history.

### FinanceDebate

A thread of the chat is at a node of the graph (`node`), which it has entered, is
held at by a pause, or is working in (`step`). `st` is the graph state that the
checkpointer keeps for the thread, from one decision to the next: each key is
modelled by the decision it was written for, so that a key `intake` forgets to clear
shows as the last decision's. `live` is the parallel council's record while its
analysts are at work.

| action | code |
|---|---|
| `Submit` | a message with a decision reaches the graph |
| `Enter`, `Held`, `Poll`, `Release` | a node is entered: sponsors must be ready (`Abort`), and five of the nodes wait out a pause, poll by poll |
| `Intake`, `Planner`, `Challenge`, `CrossExamine`, `Influence`, `Synthesis`, `Governance`, `Reliability`, `SelfImprovement`, `Persist` | the node's body, with each way its model call or its storage can fail and what it then leaves |
| `CommitteeOpens`, `AnalystAnswers`, `AnalystRaises`, `CommitteeCloses` | the four analysts at once: one action per analyst, which records a thinking turn first and a position afterwards |
| `TogglePause`, `SponsorsFail`, `SponsorsRecover` | the room and the sponsors change meanwhile |

`Persist` writes the snapshot and the event of the decision; either can fail. Bodies
between two awaits are one action, as the event loop makes them.

### DocumentPipeline

`job[j]` is the stored job, `meta`, `registry`, `chunk` and `jobRegistry` the other
keys; `run[j]` is the upload of `j` with what its pipeline has yet to do; `call[c]`
a deletion or a reset; `stream[j]` a client that follows the job.

| action | code |
|---|---|
| `Upload`, `ListNew`, `Reply` | `create_parse_job` by the three upload routes and the answer of each |
| `Start`, `ReadJob`, `WriteJob`, `Enlist` | `update_parse_job_status`: GET, SET, SADD, before each stage |
| `SaveMeta`, `Register`, `SaveChunk` | `save_document`: metadata, registry, then chunk by chunk |
| `Raise`, `Die` | a stage raises, which stores `failed`; the process dies, which stores nothing |
| `StartDelete`, `GetMeta`, `SearchChunks`, `DropChunk`, `PassOver`, `DropMeta`, `Unlist` | `delete_document`; a failing search is passed over |
| `StartReset`, `Scan`, `Unlink`, `Members`, `ScanJobs`, `UnlinkJobs`, `DropJobs`, `GiveUp` | `clear_runtime_state` and `clear_all_documents` |
| `Follow`, `Poll` | `documents_parse_job_stream` |

A file is what validation makes of it: kind, extension, soundness, chunks, route.

### AgentReplacement

`stored` is the improvement document, `prior` the rolling reliability, `stream` the
stream of rounds. A debate audits (`Audit`), selects the weakest from the state it
reads (`Select`), awaits a model, and writes the whole state back (`Replace`, or
`Abandon` when the node fails); the demo reset deletes and seeds again
(`ResetBegins`, `ResetDeletes`, `SeedReads`, `SeedWrites`). `overlaps` is history:
whether a write hit a document read before another's write.

### PromotionGates

`candidates`, `gates`, `latest`, `stream` are the four places a decision is recorded;
`call[k]` is a caller and `taken` every decision ever taken. `StartReplay` reads the
candidate, `DecideReplay` is what minutes of model calls make of it; `Block`, `Mark`
and `Seed` decide at once. Then `RecordGate`, `RecordLatest`, `RecordEvent`,
`Reflect` are the four writes in their order, `RecordFails` the end of one that
raises. `Upsert`, `Register` and `List` add candidates. The verdict itself
(`CompositeReliability`, `Gain`, `HardGates`, `Verdict`) is computed from points per
dimension and cases, not chosen.

### The rule modules

These engines keep no state while they work, and share none. Each module holds the
engine's operators, a variable for its last result, and an action that applies the
engine to any of its inputs; where the code loops over months (`OperatingPlan`) a
step of the loop is a step of the module. `MCRules` chooses one `engine` in the
first state and lets it work on the inputs listed there.

| module | how amounts are kept | what is computed |
|---|---|---|
| `GovernanceRules` | dollars; runways in tenths of a month | inputs from a text and the record, seven controls, tier, approvers, obligations, evidence, status (`Governed`) |
| `OperatingPlan` | dollars; rates in thousandths | steps of a playbook, `MonthAfter` by month, summary, capital, milestones, blockers |
| `PlaybookPortfolio` | criteria in thousandths, scores in tenths | `compare_playbooks`, `run_sensitivity` |
| `ScenarioBranch` | hundreds of dollars; margins in ten-thousandths | changes applied to a fork, metrics, violations, projection |
| `LedgerRows`, `ImportQuality` | dollars, days, thousandths | the entry a bank's row becomes, with the sign of its column and the vendor, type and category found in its words; the rows each import summary counts, by issue |
| `Reconciliation` | dollars, days, thousandths | what each of seven workflows reports of the imported rows |
| `CouncilInfluence` | weights in hundredths | signals, weights, blend, caps, `normalize_analyst_weights`, prior |
| `CouncilRules` | - | a structured call with its retry, the enforced evidence plan, what is gathered, the exchanges |

Where Python computes on floats whose decimals are few, the integers are exact and
the roundings (half to even) are those of `round()`. A fraction of a dollar is dropped
in `OperatingPlan`: its properties compare projections by more than a dollar. Names
and texts are members of small sets with the spellings the code tells apart.

## 3 Runs

| run | instance | distinct states | shows |
|---|---|---|---|
| `approvals_sequential` | 1 thread, 2 requests on one topic, routes of ≤ 2 steps, 3 calls, no failures | 166,503 | one handler at a time, the service implements `ApprovalLifecycle` (`ImplementsLifecycle`), never rewrites a decision or leaves one out of the audit (`DecisionsAreImmutable`), leaves one live request per topic, and finishes what it begins |
| `approvals_concurrent` | 2 interleaved threads, same requests and calls, every command may fail; thread symmetry | 3,166,089 | what survives lost updates: `NoFabricatedApproval`, `DecisionLogIsLegal`, `LapsedIsFinal` |
| `debate_steered` | ≤ 2 planned rounds, cap of 3, two seats of weights 2 and 3, a specialist to seat, one operator with 2 calls | 906,092 | bounded rounds, true stop reason, red team answered once, checkpoints consistent; every debate ends, and decides by its last round |
| `commands_shared` | 3 commands that between them can be of every kind, 1 debate, 1 demo reset, saves that fail | 1,182,824 | no saved command is lost to another and the audit is in stream order (`RoomRemembers`); no pause keeps a debate from its end |
| `imports_shared` | 2 callers, 3 calls of any kind, a ledger and a vendor export, 2 workbooks (one with a ledger that cannot be read, one with a rejected row), every command may fail; caller symmetry | 3,602,881 | skips are safe; company, vendors and report follow the rows and every source is reviewed (`ImportsAreComplete`); no failed command-line attempt costs a good import |
| `documents_shared` | 1 upload of a file with 0, 1 or 2 chunks by each route, 2 deletions or resets, a page of 1 chunk, every command may fail, the process may die | 1,209,720 | what is shown is whole, what is removed is gone, jobs move forward, clients that follow one are let go |
| `finance_shared` | 2 threads, 2 analysts, 2 decisions, 1 failure, a pause of 1 poll | 178,866 | the graph implements `DecisionLifecycle`; the snapshot is of one decision, the log tells the debates, every debate ends |
| `roster_shared` | 2 threads, 4 debates, 2 analysts, 2 scores, 1 reset, 1 failure | 1,675,566 | overlapping replacements lose rounds, never the roster's story; without overlap the stream is its history |
| `promotions_shared` | the API and a command line, 3 calls, 1 candidate, 1 failure, 2 sizes of replay set | 1,545,123 | no approval that a person did not give or a replay earn; what events and pointers name is stored, and undisturbed candidate, gates and stream agree |
| `rules` | the inputs of `MCRules`, one engine at a time | 368,938 | ten properties of the engines, below |
| `approvals_superseded`, `reconciliation_reports` | - | counterexample | section 6 |

**Why the bounds are enough.** The hazards here take two actors on one document,
and one more call to see the damage. Two threads with three calls give a creation,
a reading handler and a writer that overtakes it; a third thread adds no new
overlap on two documents. Two requests are needed for supersession; the page
limit of two never cuts a listing of two (the limit itself is a parameter). Two
steps tell the first matching step from a later one and partial from complete
sign-off. A cap of three rounds with two planned lets an operator force a round
within and against the cap; two seats of different weight tell a split vote from
a unanimous one, and a third seat allows joining, leaving and an empty table. One
operator races the engine. Three commands with an audit bound of two, pins bounded
to one and two hits per pin overflow both histories. One poll stands for the
`PAUSE_MAX_SECONDS` of a wait: the number of polls only repeats the step. Three
imports are what it takes to import, fail and import again, two connectors what
it takes to derive from one and fill the other, two files of one connector what
it takes for a checksum to stand beside the wrong rows. Two chunks against a page of
one are what tells a deletion that finds everything from one that does not; a
document is alone because its keys bear its name. Two decisions on two threads show
what is left of one in the next and what leaks between threads; two analysts answer,
raise or think in every order. Four debates with a history of two overflow it, with
two of them overlapping. One candidate is written by two callers; candidates share
only the stream and `latest`.

The inputs of `rules` sit on both sides of every comparison of the engines: a
control's threshold, one dollar below and above it; a runway that is missing; a
dial in each of its directions; for `Reconciliation` every field of a row that a
workflow or a summary tests, spelled the ways it knows, with ledger amounts signed or in
two columns and books thirty days behind and ahead of the summaries' fixed day; for `CouncilInfluence` priors of 0 and
100, citations below and above the caps; for `CouncilRules` planners and models that
forget, misspell and repeat roles.

`CHECK_DEADLOCK FALSE` stands in every configuration because the instances really
stop: calls are bounded, debates end, commands are done.

**Properties.** Each is stated in its module with the behaviour it is about. The
ones that carry the most: `ImplementsLifecycle` (detailed to abstract: for approvals
the refinement mapping reads status, signatures and route from the documents, for the
finance graph the stage of a decision from the graph state and the log);
`NoFabricatedApproval` (whatever interleaves or fails, a stored approval has a
person's entry in its own log unless nobody was on the route);
`RoomRemembers` (the room ends with the latest commands, slice by slice);
`SkipsAreSafe` (a checksum that makes the next import skip a file stands beside
that file's rows); `StopReasonIsTrue` and `DebateEnds` (what a debate reports is what
happened in the last round it held); `SnapshotIsOfOneDecision` (nothing of another
decision or another thread in `debate:latest`, and no analyst unaccounted for);
`ShownIsWhole` (a job that says ready has all its chunks, whoever else writes);
`RosterTellsOneStory` (generations, rounds, lineage and history of the roster add up,
though whole-document writes overtake each other); `ApprovalIsEarned` (computed from
the scores of the replay). Of the engines:

| property | of | relates |
|---|---|---|
| `AutoClearIsHarmless`, `BoardIsTold` | `GovernanceRules` | the status to what a person would have had to see; the route to the obligations, which are computed apart |
| `CostlierIsNoLighter` | `GovernanceRules` | two decisions that differ in cost, within the cash and but for a runway on record that holds the cheaper one |
| `PlansAddUp` | `OperatingPlan` | the cash of a month to every month before it; two plans that differ in a step |
| `ComparisonsAreTrue` | `PlaybookPortfolio` | scores, portfolio and sweeps to the projections they compare |
| `BranchesAddUp` | `ScenarioBranch` | two branches that differ in a change; projection to runway |
| `RecordingHidesNothing` | `Reconciliation` | reports on recordings of the same facts that differ in spelling, billing or columns; the import's counts to what the workflows raise |
| `SharesAreFair` | `CouncilInfluence` | shares to evidence, whatever the priors have become |
| `LanesAreFed`, `TableIsAnswerable` | `CouncilRules` | what analysts get and say to what any model answered |

The modules that keep state have a `TypeOK` (in `AgentReplacement` and the rule modules
the properties themselves say what a value is). A configuration checks it where
nothing else would notice a value of the wrong type; for `Approvals`, `FinanceDebate`,
`DocumentPipeline`, `ConnectorImport` and `CouncilCommands` it is proved, as part of the
invariant everything else rests on.

## 4 Fairness

Liveness is checked under weak fairness only, one conjunct per thing the runtime
keeps moving:

- `Approvals`: `WF` of a thread's next step. A pool thread that runs a handler is
  scheduled and Redis answers. Clients never have to call.
- `Debate`: `WF` of the engine's step. The event loop resumes the coroutine and
  every model call returns or times out (`llm_io` catches it). Operators never
  have to act, and the debate may crash.
- `CouncilCommands`: `WF(Serve(c))` for a dispatched command, `WF(Proceed(d))` for
  a running debate: answers arrive and sleeps end. Nobody has to send a `resume`,
  which is the point of `DebatesReachTheirRuling`.
- `FinanceDebate`: `WF(Run(t))`, a thread that is at a node goes on. Sponsors may stay
  down (the run then aborts) and nobody has to lift a pause.
- `DocumentPipeline`: `WF(PipelineStep(j))` for a background task that has begun, and
  `WF(Poll(j))` for a client that follows; the process may die, and no call has to come.

`PromotionGates`, `AgentReplacement`, `ConnectorImport` and the rule modules state no
fairness: nothing of theirs is claimed to happen eventually.

## 5 Proofs

TLAPS checks all of these for every value of the constants: any number of threads,
requests, seats, rounds, operators, analysts, candidates, uploads, callers, commands and
failures, any files, texts, vendors and companies. Assumptions are the named ASSUMEs of the
modules, which say what the code's constants are (`RolesAssumption`: SUBAGENTS names each
analyst once, and there are some; `NoneAssumption`: None is no connector, no command, no
number) or what types its inputs are parsed into (`PlansAssumption`, `InputsAssumption`,
`PlanAssumption`, `PortfolioAssumption`). What a theorem assumes beyond them is in its
statement: `RoomIsRemembered` that no GET of the room fails, for a failed one
reads as an empty room and is saved back (section 6); `ComparisonsAreAlwaysTrue` that the
books are ordinary; three theorems about `Approvals` that handlers run one at a time.

| theorem | statement |
|---|---|
| `TypeCorrect` | `Approvals` is well-typed, failures and interleavings included (and so are `DocumentPipeline`, `ConnectorImport` and `CouncilCommands`, under the same name) |
| `ApprovalsAreGenuine` | no approval, and no signed step, without a person's entry or a route that asks for nobody |
| `LogsAreLegal` | every document's decisions are one walk of the transition table that ends in its status |
| `LapsesAreFinal` | a request that expired by its deadline is never approved or rejected afterwards |
| `ImplementsTheLifecycle` | one handler at a time: `Approvals` implements `ApprovalLifecycle`, whatever fails |
| `DecisionsStay` | one handler at a time, nothing failing: no decision is rewritten or lost, none stays out of the audit stream |
| `OneRequestWaits` | one handler at a time, nothing failing, requests within a page: a creation leaves no earlier request of its topic waiting |
| `DebatesAreBounded` | at most the capped number of rounds and one loop-back, whatever operators force |
| `StopReasonsAreTrue` | the stop reason is what happened |
| `RedTeamsAreAnswered` | an unsatisfied red team gets exactly one loop-back round where the plan allows loops, no other debate gets one |
| `CheckpointsAreSound` | every listed checkpoint is stored, in round order, and names a round that was held |
| `LogsTellTheDebate` | every logged event says how its own decision is governed, the last one is that of the snapshot unless a warning said otherwise, none is logged twice |
| `CouncilImplementsLifecycle` | `FinanceDebate` implements `DecisionLifecycle`: ruled, then governed, then logged, dropped only where it stands |
| `SnapshotsAreOfOneDecision` | `debate:latest` and the state behind it have nothing of another decision or thread, and account for every analyst |
| `RoomIsRemembered` | no saved command is lost to another one: log, pins and slices of the room show the latest commands, in the order of the stream |
| `SkipsStaySafe` | among orderly calls, a checksum that makes an import skip a file stands beside that file's rows |
| `ImportsStayComplete` | an import that answers left company, vendors and report in line with the rows, unless a writer ran beside it |
| `LastGoodStays` | a good import gives way to an upload, a reset, the save of a parsed file or an overlapping call only |
| `CandidatesFollowTheStream` | whatever overlaps or fails, events and the latest pointer name stored gates, and candidates do unless a write failed; without overlap and failure a candidate says what the last gate of the stream says of it |
| `RostersTellOneStory` | rounds, generations, lineages and history of the roster add up, whatever overlaps, fails or is reset |
| `StreamsAreTheHistory` | undisturbed, the improvement stream has each round once, in order, and ends with the rounds the state keeps |
| `ApprovalsAreEarned` | an approved candidate was approved by a decision taken for it, by a person or on a sound replay |
| `ReadyMeansStored` | a job is ready only behind its whole document, and what a search finds is listed, while no deletion or reset has touched it |
| `JobsOnlyMoveForward` | a stored job never moves back in the pipeline, and a failure is the last thing it says |
| `RemovalsAreComplete` | what is deleted after its pipeline stays away, and a reset that no upload overlaps leaves no key |
| `AutoClearIsAlwaysHarmless` | what governance clears by itself engages no control, is within the delegated authority, concerns internal data, is of low or moderate risk and was not refused |
| `CostlierIsNeverLighter` | a decision that costs more, all else equal and within the cash, needs no fewer approvers, stays blocked and owes no less evidence, unless the cheaper one was held by the runway on record |
| `BoardIsAlwaysTold` | the board approves exactly what it is told of, Security Review exactly what security evidence is collected for |
| `LanesAreAlwaysFed` | whatever the planner answers and whatever is out, every analyst speaks with all entries of its lane, the answers to its two policy queries or a warning that policies could not be searched and, where documents bear on the decision, a search of them |
| `TableIsAlwaysAnswerable` | whatever exchanges a model proposes: nobody challenges themselves or an analyst without a position, and the cut to six turns silences nobody, up to one exchange too many |
| `SharesAreAlwaysFair` | after any debates, for any priors, citations and audits: the baseline's shares make 100 with at least 5 for each seat, and who cited nothing does not lead one who cited twice |
| `PlansAlwaysAddUp` | of any books, dials and horizon: the cash of a month is that of the opening less the burn of every month and with what each step brought or cost at once, counted once; a step that only costs makes no month better and lifts no policy, one that only saves makes none worse, a raise never shortens the runway |
| `ComparisonsChooseWell` | of any books, playbooks and horizon: a playbook at least as good as another on every criterion scores at least as much, the ranking descends, the portfolio is a choice among what was compared, its weights a whole, with a stabilizer wherever one was compared that could steady the best |
| `ComparisonsAreAlwaysTrue` | of ordinary books moreover: a sweep that moves the lowest cash moves it the way the lever works, in plans of any length |
| `BranchesAlwaysAddUp` | of any company and any changes: spending more removes no constraint a branch violates, and the projection ends in the month that the runway names |

**Approvals.** `TypeInv` is `TypeOK` with `HandlerInv`, which says what each
program counter implies about the handler's fields. The safety invariants are not
inductive on the stored documents: a stale copy may be SET at any later time, over
any document. `DocInv` therefore states them of **every document and of every
handler's copy** (`CopyOK`). One lemma per operator on a document (`DecidedOK`,
`ExpiredOK`, `ReplacedOK`, ...) shows that it keeps a good copy good; then each
action is a short step, and a SET stores a copy already known to be good. That is
also why these three properties survive lost updates while those of section 6 do
not: they speak of one document by itself.

**Approvals, one handler at a time.** The properties of `approvals_sequential` are false with two
threads (section 6), so their theorems have the hypothesis of that run, and no more of it:
`Alone` (any two threads are the same one), and for two of them `~CanFail`. The refinement
needs no more than `Alone`: the handler's copy is never stale (`Fits`), so each SET stores the
document it read with one decision more (`MadeFrom`), and a decision is a step of the abstract
lifecycle (`Moves`). For the audit, every decision of a stored document is in the stream or in
the buffer of the handler that is at its audit point (`AuditInv`): a failure in between is
what `AuditComplete` of section 6 shows. `OneRequestWaits` follows the listing of a creation: what waits
and has the topic is still in its buffer (`PendingInv`), and for that the listing must hold all
there is, `FitsOnePage`, as `list_requests` reads one page of 100.

**Debate.** `DebateInv` is the conjunction of `Typed` (the part of the type that
arithmetic needs), `Budget` (limits never above the cap, forced and granted rounds
non-negative), `Progress` (rounds held against the round counter, by program
counter), `History` (convergence and loop-back against what was held), `Outcome`
(stop reason against history) and `Checkpoints`. Each action lemma shows the
conjuncts it can disturb.

**Finance debate.** `CouncilInv` has seven parts. Of a graph state that outlives its
decision one has to know which keys are of the decision at hand: `Progress` says, node
by node, that the ruling is of it exactly after `synthesis` and the governance exactly
after `governance`; `Known` that nothing in a state is of a decision yet to come, so
that a new one finds neither. `Apart` says that two threads never work on one
decision, `HasDecision` that a thread at work has one, `Logged` that nobody works on
what is in the stream. With `TypeOK` and the property itself these are inductive.
The eleven nodes fall into three kinds (`Carries`, `Governs`, `Persists`), and each kind
is one step of the proof. For the refinement, `StatusIs` gives the status of a decision
by the one thread at work on it or by the log; `StageIs` the stage of a thread by its
node; so the step of a node is the step of one decision (`ReturnMoves`, `DropMoves`,
`PersistMoves`, `SubmitMoves`) or of none (`QuietStays`). `SnapshotInv` adds to `CouncilInv`,
for every thread (`Whole`), which keys of its state are of the decision at hand at which
node, that at the committee's nodes every analyst has one position or is still thinking
in the transcript, and the same of the analysts a running committee waits for; and that
`debate:latest` has the keys of one decision (`LatestIsWhole`).

**Promotion gates.** A candidate is written long after the decision it is written from.
Decisions are never taken back, so `GateInv` speaks of them: all of them were earned
(`DecisionsEarned`, where the arithmetic of the gates comes in: `VerdictIsSound`), a
caller in the middle of recording holds the id of one for its own candidate
(`CallersHold`), and what a candidate says is what one of them said (`CandidatesTell`).
Who overtakes whom then makes no difference. The stream is in order only while no two
decisions are recorded at once and nothing fails: then (`Ordered`) the decision being
recorded is the last one taken, and the gates, the latest gate, the stream and the
candidates, in the order in which they are written, are complete but for it. That what is
named is stored needs no such premise (`Stored`): a failed write skips the rest of the series
and goes to the candidate, the only one to name a gate that is not there.

**Agent replacement.** The improvement state is one document that is written whole, so the
story is said of every document by itself: of the one stored, and of the one a debate has
read and will write a successor of (`Fits`). `ReplacementTells` shows that a replacement
keeps the story, for any scores. That the generations add up to the rounds is a fold over
the roster. Induction is out of reach (below), but its conclusion is not: of the sets of
roles for which a claim about the fold fails a smallest one would exist (`MinimalSubset`,
from the well-foundedness of the subset relation), and it does not.

**Command layer.** A command is in `_finalize` from its record to its SET, and nothing else
of the event loop runs meanwhile (`OneFinishes`), so at most one copy of the room is held.
`Shows(doc, cmds, rec)` says that the room `doc` is what the commands `rec` made of it; it
is claimed of the stored room and the commands saved, and of the copy, the commands saved
and the one that holds it (`Pending`). The demo reset's thread runs at any time and may
delete the room in between: the copy stays right because what shows some commands at its end
shows the last of them alone (`BackForgets`, `ShowsForgets`). `StreamIsOf` puts the command
in `_finalize` at the end of the stream, so that what is appended to the log is in order
(`OrderGrows`). The pins are a flattened sequence, a recursive function: what it comes to is
again shown by a least counterexample (`FlattenType`, `FlattenAppend`).

**Imports.** `Types` says where a call of each kind can be and what it holds there;
`Companions` turns the history of who met whom into who can be running now. What a call may
rely on then comes in three strengths: `AloneFits` and `SeenFits` (what it is about to write
agrees with what it read) while it has met no other call, `DerivedFits` and `PendingFits`
(company, vendors and reviews) as long as only reconciliations ran beside it, `Types`
always. `KeptOrBeingWritten` says that among orderly calls the rows behind a checksum are its
file's, or are about to be written. A
step disturbs only what the calls beside it do not rely on, which is what the two families
of lemmas (a call's own steps, the steps of others) show.

**Document pipeline.** The two lemmas `StepsOfOneJob` and `StepsOfOneCall` reduce `Next` to
the steps that concern one upload or one call; everything else is said of one of them.
`JobFits` gives the status of the stored job by the point its upload has reached, so that an
update always replaces what it read (`MayBecome`). `DocFits` gives what is stored of a
document by the same points, while nothing has touched it, and `CallFits` that whatever a
deletion is about to remove is touched. For the removals, an upload that is over stores
nothing (`OverStays`) and a small document has no more chunks than a page (`Bounded`,
`PageIsAll`, the one place where cardinalities are counted); so `Cleans` says what a deletion
has left to remove, and `Wipes` that all there is was found by the scan of the reset. That
a *late* upload, or a deletion *during* a pipeline, leaves chunks behind is why both
properties carry the condition they do.

**Governance.** A request is `Governed(q)` of a question `q` that can be asked (`Made`);
the rest is about the operators: which controls an amount, a runway and a scope of
data engage, and whom the matrix then sends the request to. For two questions that differ in
cost, every control the cheaper one engages engages for the dearer (`ControlsPersist`), the
risk does not fall (`RiskPersists`, over Python's rounding, `RoundedMonotone`) and so the
route does not shrink (`RoutePersists`). The first attempt at this failed and was right to: a
decision that costs nothing is judged by the runway on record, and one that costs a little
by its own, which may be longer (`HeldByRecord`, section 6).

**Evidence of the council.** The planner's answer is any sequence of role plans. What is
enforced of it (`EnforcedIsPlanned`) still names every analyst and routes every plan it holds
of one, an insertion (`SoundInsert`) and a cut (`SoundCut`) at a time; so whichever plan the
search for an analyst finds (`RolePlanFound`) feeds the whole lane (`BundleIs`). A bundle lists a
query only once it was answered: with the search of policies or of documents out, its queries
are missing from it and a warning stands in their place; with policies searched the lane's two
come before what documents were asked (`LanesFirst`). `LanesInv` carries this from the
planner's turn to the evidence. An outage is of a tool, on each of its calls; plans that ask
for documents by their kind alone are not among the inputs.

**Exchanges of the council.** What is kept of the model's exchanges is picked at a set of indices
(`Picked`, by rank, in place of `SelectSeq`, which the provers cannot unfold), so it can be
counted: the exchanges kept are at most one more than the roles they are from (`KeptCounts`), and
one is added for each role that is silent (`LanesCount`); five roles make six turns at most.
The theorem asks for `MaxTurns >= 6`; the code has `[:6]`.

**Influence.** The shares are rounded three times: raw scores to weights, weights to a whole,
and once more after the caps. The report brings them to a whole again, which leaves the
baseline's as they are (`ReportedAsItIs`). `NormalizedIs` bounds what a rounding may move: half a point
of a share, one and a half of the last seat's, which takes the rest. The raw scores lie
within 2345 and 10550, below 8520 without a citation and above 3325 with two (`RawIs`). Whoever leads by
more than one under the cap of 18 held 51 or more before it was capped, while nobody else is
capped or reaches 18 (`LeaderHeldMore`; two ties at a half come close, and rounding to even
decides both, `TieUp` and `TieDown`); but beside 51 of a seat without citations a seat with two
holds 18 or more (`ShareIsKept`). The margin of one that the property leaves to rounding is needed: with priors
of 100, 0, 0 and 100, two citations of the second seat and the last one challenging the first, the
shares are 26, 26, 21 and 27.

**Scenario branches.** The changes are folded over the company. The function that `FoldLeft`
chooses exists and is the last state of a trace (`FoldTrace`, by least counterexample), so one
more change is one more step (`FoldStep`). A change that only costs leaves revenue, cost of
revenue and new recurring revenue alone (`CostIs`), so burn grows, cash and rounded runway
shrink, for a negative cash too (`SpendingIs`), and each code stays but the one the board
takes over (`SpendingKeepsCodes`). The runway is caught between the whole months around it
(`RoundedBetween`). Writing the proof corrected the model: only a slip and a churn clamp revenue
at zero in `_apply_change`, and revenue may be negative when another change meets it.

**Plans.** A plan is a projection of its book, so far or to its horizon (`PlanInv`). What the
steps come to in a month is a sum over their numbers, a fold, which is shown to exist and to
come apart at any step, again by least counterexamples (`AddsUpExists`, `PartWithout`,
`PartOfTwo`). So the cash is accounted for month by month (`NextAccounts`). Of two projections of
one book with the same dials, the one that earns as much, costs no more and pays no more has
the same revenue (`SameRevenue`), burns no more (`LessCost`) and has as much cash in every month
(`MoreCash`); where it is below a floor the other one is too, negative cash included
(`FloorIsShared`). Taking a step out of a plan, or its raises, gives two such projections
(`WithoutACost`, `WithoutASaving`, `WithoutRaises`); for that every step of the playbooks is
shown to be of a kind that does what its kind says (`StepOK`, `ListsAreOK`).

**Comparisons.** A comparison and a sweep are made at once, so nothing is left over from an
earlier step and each property is inductive; the work is in the operators. The digits of
`Thousandths` are one rounded quotient (`ThousandthsIs`), which is monotone, so a criterion's
points (`NormalizeGrows`) and the rounded sum of them (`ScoreGrows`) follow the criterion.
Ranks are counts of what is before a candidate; they differ (`BeforeGrows`), so each of 1 to
n is somebody's (`RankedIs`, as an injection between finite sets of one size is onto). The
weights of a portfolio are those of one, two or three picks (`MadeWholeIs`). For a sweep two
projections are compared whose dials and steps differ as far as the sweep lets them: the
favoured one has in every month as much revenue and as much cash (`MonthAhead`, `StaysAhead`),
for which more has to leave more at a lower churn, rounding included (`KeptGrows`). A later
raise is only behind between the two closes (`EarlierCash`). The lowest cash follows
(`MoreGetsBy`), and of five outputs that rise or fall the direction (`DirectionIs`).
`ComparisonsAreAlwaysTrue` has a hypothesis, `OrdinaryBooks`: revenue, margin and new business
are not negative and churn is a share. It is needed: on books with a margin of -20 % more
revenue costs more, and the sweep of churn says, rightly, "increases". Nothing in the code keeps
such books out, so it is no assumption of the module; the books of the run `rules` satisfy it
(`BooksAssumption` of `MCRules`). `ComparisonsChooseWell` does without.

**Model-checked only.** Liveness under fairness. What a recursive operator computes for every
input needs induction over data, which the installed provers cannot instantiate; a smallest
counterexample replaces it where the data is a set or a recursive function (above), but not
the vote of `Debate`, the chains of supersession in `Approvals` and the sums of
`Reconciliation`, so `TypeOK` of `Debate` and `RecordingHidesNothing` stay with TLC.

## 6 What the code does otherwise than it says

Two of these have a run whose counterexample shows them: `SupersededIsFinal`
(`approvals_superseded`) and `EveryWorkflowReports` (`reconciliation_reports`). The others
are stated in their modules, and TLC finds each violated when its name is put into the
module's configuration: `AuditComplete` in `ApprovalsSequential.cfg` with `CanFail = TRUE`,
`ApprovalEnteredByPerson` there with `MaxCalls = 5` and without fairness, the others in
their configuration as it is.

- `SupersededIsFinal` (`approvals.py:249`): a decision read before and written
  after a concurrent supersession revives the superseded request.
- `AuditComplete` (`approvals.py:249`): document first, audit events afterwards; a
  failure in between leaves a decision the "system of record" never sees.
- `ApprovalEnteredByPerson` (`approvals.py:401`): steps keep their signatures when
  a request expires and is reopened; a system actor's step-level action that matches
  no step then derives an approval from them.
- `ForcedOnce` (`control.py:85`): a stale operator write restores a one-shot
  directive that the engine has cleared.
- `RetiredSeatsLeave` (`control.py:97`): a seat once injected cannot be retired.
- `CommandsOfThisRun` (`council_commands.py:929`): a command that waits for a model
  while the next debate's intake empties the room is folded into that debate.
- `GoodImportSurvives` (`integrations/service.py:382`): "Imports ... never destroy a
  prior good import" (README of the repository). `import_connector` asks for a good
  import before it stores an error; the upload, or a sheet of an uploaded workbook,
  stores it at once, and the good import's status and checksum are gone.
- `EveryWorkflowReports` (`integrations/reconcile.py:571`): a vendor with a contract whose
  invoices bear no date makes the annualization take the length of a set that is not there; the
  exception takes the reports of all seven workflows with it.
- `CategoriesAreReadAlike` (`integrations/reconcile.py:742`): a spend that its export calls
  "uncategorised" or "not categorized" is counted by the import and not raised by the
  workflow.
- `AcceptedKindsParse` (`integrations/file_validation.py:386`): half of the announced kinds
  (PDF, DOCX, text) end in an error of the validation.
- `PredictionsAreWellFormed` (`promotion_gates.py:373`): on the evaluation's path the hard
  gate on malformed predictions always counts none.
- `ExchangesArePreserved` (`openai_council.py:826`): an exchange that names "FP&A" is
  dropped, for "&" has become "and" before the alias is looked up.
- `HumanEvidenceIsMissing` (`governance.py:233`): the financing plan that a person owes
  counts as present, for its name contains "runway".
- `EveryDialCounts` (`planning.py:549`): the growth a plan presents as its assumption
  changes nothing in its projection.
- `ModelSharesSumTo100` (`council_influence.py:297`): the last seat's minimum is added on
  top of 100.
- `WeakNeverLeadsTheModel` (`council_influence.py:188`): what the caps take, the
  normalisation gives back.

Seen while modelling, of the councils: the red-team gate is described as
binding (`debate.py:11-12`, `models.py:96`) and only ever costs one loop-back; the
loop-back round has no checkpoint (`graph.py:305`), and `stop_reason` stays
"converged" after it even if the loop-back round splits; a padded name (`"risk "`)
seats a copy each round; injecting the chair seats it as a voter; ties go to
support by order; a pause is honoured at any boundary whatever phase it names, and
its cap holds per boundary; a failing GET of the room is taken for an empty room, which is then
saved back (`RoomRemembers` is stated for saves that fail, not for this); answers
apply in completion order, so an older, slower question overwrites a newer focus;
an export without a stored result takes the payload's copy (`agent.py:3042` says it
is not browser-supplied); a demo reset between a command's GET and SET puts the
deleted entries back.

For imports: a checksum can come to stand beside another file's rows, after a
failure between the two SETs (`store.py:42-43`), after a stale `mark_reconciled`
write-back, or when the command line and an upload overlap; every later import of
that file is then skipped (`SkipsAreSafe` is stated for orderly calls). A file
that is empty, or all of whose rows are rejected, replaces a good import by
design of `save_source`. A reset does not delete uploaded vendors: seeding writes
its own beside them. `import` alone, on the command line, derives nothing until
`reconcile` runs. The summaries of an import and the workflows judge the same rows by
different criteria, and `ImportHidesNothing` is stated up to these: the import counts a
foreign invoice at its face amount and a cancelled one as open, and it counts days
from a fixed `AS_OF_DATE`, so that it finds aged and stale what is not so on the day of
the books. The alias "software_credit" (`ledger_normalization.py:30`) is never found,
for its underscore is gone before it is looked up; a vendor that the patterns do not
know by its spelling leaves a credit to be read as revenue.

Of the engines: a one-time cost that exceeds the cash leaves `runway_after` unset, and
the dearest decisions pass the runway floor, and a decision that burns no cash is held by a
runway on record below the floor while a dearer one, for which a runway is computed, passes
(`governance.py:194`; `CostlierIsNoLighter` is stated up to both); a workflow reports "ok" on data that are not
there; an exported vendor replaces the seeded one, contract terms included; a paid amount
in a foreign currency is subtracted from dollars; of two invoices with one id both count;
`[:6]` cuts a lane's challenge and `[:40]` the rows a workflow names; `_merge_preferred` with
a limit of two drops whatever queries the model planned; telemetry counts the tokens of a
call's last attempt only.

Of what follows a decision: intake does not clear `governance`, which still is the last
decision's until the node runs (no reader in between; `Progress` of
`FinanceDebateProofs` says so); a late replay overwrites a person's mark;
`block_unproven_candidate` does not ask whether the candidate has been proven since; of
overlapping improvement rounds all but the last are lost (`RosterTellsOneStory` says what
remains true).

## 7 What is not modelled

- **Texts and model output** beyond the choice they make: prompts, wording, narratives,
  memos, context slices, logging, telemetry, vector search and ranking.
- **Extraction and parsing** of documents and workbooks: a file is what validation makes
  of it, a row is accepted or rejected. Of the quality summaries the tallies by status,
  month and team, the raw and cleaned texts, card digits and confidences are left out: nothing
  but a reader reads them.
- **Monte-Carlo stress tests** (`run_stress_test`): random sampling of the projection that
  `OperatingPlan` models. `weave_eval`, `role_distinction_eval`, `replay_sets`: scores and data.
- **Edited policy rules and approval matrices**: `GovernanceRules` has the defaults of the
  code. Policy texts and their search are data.
- **Orchestration store** beyond checkpoints: branching, migrations, precedents, the bus;
  the conductor's plans and sub-debates reach `Debate` only as its inputs.
- **Frontend, realtime voice, health, environment**: views of what the agent streams, proxies
  of a third party's sessions, probes.
- What is left of `redis_layer.py` and `redis_store.py` are wrappers, which appear as the
  atomic steps of the other modules.

## 8 Plan

Done: `Approvals`, `Debate`, `CouncilCommands`, `ConnectorImport`, `DocumentPipeline`,
`FinanceDebate`, `AgentReplacement`, `PromotionGates`, the rule modules; proofs about each
of those that keeps state, and about `GovernanceRules`, `CouncilRules`,
`CouncilInfluence`, `ScenarioBranch`, `OperatingPlan` and `PlaybookPortfolio`.

Next, in order of importance:

1. Theorems about `Reconciliation`: `RecordingHidesNothing`.
2. The orchestration store's branches and precedents, on top of `Debate`'s checkpoints.
3. `GovernanceRules` as the source of the routes that `Approvals` chooses among.
