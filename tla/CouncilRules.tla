---------------------------- MODULE CouncilRules ----------------------------
(***************************************************************************)
(* What surrounds a model's answer in the finance council                  *)
(* (agent/src/openai_council.py, agent/src/documents/retrieval.py): the    *)
(* structured call with its retry and telemetry, the evidence plan that    *)
(* the code enforces on the planner's, the evidence each analyst is given, *)
(* and the exchanges of the cross-examination.                             *)
(*                                                                         *)
(* A role is its lower-case name, as enforce and _role_plan compare it; an *)
(* exchange names its roles as the model spells them.  Left out: prompts,  *)
(* rationales, the context slices a plan names (those the record has are   *)
(* handed over), the kinds of document it names (a plan that names nothing *)
(* else of documents is not among the inputs), the order of its tools, and *)
(* a tool that fails on one of its calls only.                             *)
(*                                                                         *)
(* Definitions marked "Mutation:" are plausible bugs in the definition     *)
(* that follows them.                                                      *)
(***************************************************************************)
EXTENDS Amounts, SequencesExt

CONSTANTS
    DecisionKinds,  \* types the classifier may give
    PlannedRoles,   \* sequences of role plans the planner may answer with
    ModelExchanges, \* sequences of exchanges the cross-examination may answer with
    Outages,        \* sets of tools, and searches, that fail
    Retries,        \* retries of a structured call, 1 in the code
    MaxTurns        \* exchanges that are kept, 6 in the code

ASSUME CouncilAssumption == Retries \in Nat /\ MaxTurns \in Nat \ {0}

\* The planner's answer is parsed into role plans.
RolePlans ==
    [role : STRING, tools : SUBSET STRING, queries : Seq(STRING), categories : SUBSET STRING,
     documents : Seq(STRING)]

ASSUME PlansAssumption == PlannedRoles \subseteq Seq(RolePlans)

ASSUME ExchangesAssumption == ModelExchanges \subseteq Seq([from : STRING, to : STRING])

VARIABLES
    turn,      \* "planner", "evidence", "debate" or "done"
    call,      \* the structured call in progress
    telemetry, \* model_telemetry of the debate
    plans,     \* role_plans of the evidence plan
    kind,      \* decision_type
    bundles,   \* the evidence of each analyst
    seated,    \* analysts that hold a position
    asked,     \* the exchanges the model answered with
    table      \* the exchanges of the transcript

council == <<turn, call, telemetry, plans, kind, bundles, seated, asked, table>>

Analysts == {"treasury", "fpna", "risk", "procurement"}
Lanes == <<"treasury", "fpna", "risk", "procurement", "cfo">>

(***************************************************************************)
(* The structured call.                                                    *)
(***************************************************************************)
Outcomes == {"timeout", "error", "refusal", "unparsed", "parsed"}

NewCall == [attempts |-> 0, error |-> FALSE, refusal |-> FALSE, used |-> 0, ok |-> FALSE]
NoTelemetry == [calls |-> 0, successful |-> 0, errors |-> 0, refusals |-> 0, tokens |-> 0]

\* One turn of the loop; an answer's usage replaces the one before it.
Attempted(c, outcome) ==
    [attempts |-> c.attempts + 1,
     error    |-> c.error \/ outcome \in {"timeout", "error", "unparsed"},
     refusal  |-> c.refusal \/ outcome = "refusal",
     used     |-> IF outcome \in {"timeout", "error"} THEN c.used ELSE 1,
     ok       |-> outcome = "parsed"]

Ended(c) == c.ok \/ c.attempts = Retries + 1

\* merge_telemetry; a call that succeeded reports neither error nor refusal.
Merged(tel, c) ==
    [calls      |-> tel.calls + 1,
     successful |-> tel.successful + (IF c.ok THEN 1 ELSE 0),
     errors     |-> Least(12, tel.errors + (IF c.error /\ ~c.ok THEN 1 ELSE 0)),
     refusals   |-> Least(12, tel.refusals + (IF c.refusal /\ ~c.ok THEN 1 ELSE 0)),
     tokens     |-> tel.tokens + c.used]

(***************************************************************************)
(* The evidence plan.                                                      *)
(***************************************************************************)
\* TREASURY_PREFERRED_TOOLS and its like.
Shared == {"list_operations_sources", "get_operations_data_confidence",
           "get_reconciliation_summary", "list_open_discrepancies", "search_scenarios",
           "search_finance_policies"}

TreasuryTools == Shared \cup
    {"get_company_financials", "compute_runway", "list_invoices", "list_vendors",
     "build_strategic_plan", "run_plan_stress_test", "run_plan_sensitivity"}

FpnaTools == Shared \cup
    {"get_company_financials", "build_strategic_plan", "compare_finance_playbooks",
     "run_plan_sensitivity", "run_plan_stress_test", "list_arr_movements",
     "list_customer_contracts"}

RiskTools == Shared \cup
    {"get_company_financials", "search_finance_knowledge", "required_approvals",
     "check_controls", "missing_evidence", "obligations_if_approved", "run_plan_stress_test"}

ProcurementTools == Shared \cup
    {"list_vendors", "list_invoices", "list_purchase_orders", "search_finance_knowledge",
     "obligations_if_approved"}

PreferredTools ==
    [treasury |-> TreasuryTools, fpna |-> FpnaTools, risk |-> RiskTools,
     procurement |-> ProcurementTools]

\* A role plan; its queries of policies are the role's own ("lane") or the
\* model's, its queries of documents those of the type ("document") or the model's.
RolePlan(role, tools, queries, categories) ==
    [role |-> role, tools |-> tools, queries |-> queries, categories |-> categories,
     documents |-> <<>>]

\* _merge_preferred with a limit of two: the two queries of the role.
MergedQueries(queries) == SubSeq(<<"lane", "lane">> \o queries, 1, 2)

\* _treasury_role_plan and its like; another role keeps its plan.
LanePlan(p) ==
    IF p.role \in Analysts
    THEN [p EXCEPT !.tools = PreferredTools[p.role] \cup @, !.queries = MergedQueries(@)]
    ELSE p

EmptyPlan(role) == RolePlan(role, {}, <<>>, {})

\* document_plan_for_decision: the categories of document of a type.
DocumentCategories(type) ==
    CASE type = "vendor_renewal" -> {"vendor_contract", "invoice", "procurement_note"}
      [] type = "hiring_plan" -> {"headcount_sheet", "board_approval"}
      [] type = "security_blocker" -> {"security_evidence", "policy_doc"}
      [] type = "financing_scenario" -> {"financing_memo", "board_approval", "policy_doc"}
      [] OTHER -> {}

\* _attach_documents: a type with documents sends every role to search them,
\* with two queries of the type unless the model gave the role its own.
WithDocuments(p, type) ==
    IF DocumentCategories(type) = {} THEN p
    ELSE [p EXCEPT !.tools = @ \cup {"search_uploaded_documents"},
                   !.documents = IF @ # <<>> THEN @ ELSE <<"document", "document">>,
                   !.categories = IF @ # {} THEN @ ELSE DocumentCategories(type)]

LaneRoute(p, type) == WithDocuments(LanePlan(p), type)

Names(seq, role) == \E i \in DOMAIN seq : seq[i].role = role

\* Mutation: a role that is spelled otherwise counts as seen.
EnforcedByLabel(seq, type) ==
    LET given == [i \in DOMAIN seq |-> LaneRoute(seq[i], type)]
        missing == SelectSeq(<<"treasury", "fpna", "risk", "procurement">>,
                       LAMBDA r : ~Names(seq, r) /\ ~(r = "fpna" /\ Names(seq, "fp&a")))
    IN  given \o [i \in DOMAIN missing |-> LaneRoute(EmptyPlan(missing[i]), type)]

\* enforce_role_specific_evidence_plan: a role the planner left out is put in
\* its place.
Enforced(seq, type) ==
    LET given == [i \in DOMAIN seq |-> LaneRoute(seq[i], type)]
        lane(r) == LaneRoute(EmptyPlan(r), type)
        first == IF Names(seq, "treasury") THEN given ELSE <<lane("treasury")>> \o given
        second == IF Names(seq, "fpna") THEN first
                  ELSE InsertAt(first, IF first[1].role = "treasury" THEN 2 ELSE 1, lane("fpna"))
        third == IF Names(seq, "risk") THEN second
                 ELSE InsertAt(second, Least(3, Len(second) + 1), lane("risk"))
    IN  IF Names(seq, "procurement") THEN third ELSE Append(third, lane("procurement"))

\* planner_node without a plan: the preferences of the four roles.
FallbackPlan ==
    [i \in 1..4 |-> RolePlan(Lanes[i], PreferredTools[Lanes[i]], <<"lane", "lane">>, {})]

(***************************************************************************)
(* The evidence.                                                           *)
(***************************************************************************)
\* The entries of a lane's evidence, each with the tool it comes from
\* (_gather_treasury_liquidity_evidence and its like; four names are shortened).
Operations ==
    [operations_sources |-> "list_operations_sources",
     data_confidence |-> "get_operations_data_confidence",
     reconciliation |-> "get_reconciliation_summary",
     discrepancies |-> "list_open_discrepancies",
     scenarios |-> "search_scenarios"]

\* What every lane looks at, and what only this one does.
LaneOf(own) ==
    [entry \in DOMAIN Operations \cup DOMAIN own |->
        IF entry \in DOMAIN own THEN own[entry] ELSE Operations[entry]]

TreasuryEvidence == LaneOf(
    [outstanding_invoices |-> "list_invoices", overdue_invoices |-> "list_invoices",
     financing_close_sensitivity |-> "run_plan_sensitivity",
     runway_stress_test |-> "run_plan_stress_test"])

FpnaEvidence == LaneOf(
    [arr_movements |-> "list_arr_movements", customer_contracts |-> "list_customer_contracts",
     base_operating_plan |-> "build_strategic_plan",
     playbook_comparison |-> "compare_finance_playbooks",
     forecast_sensitivity |-> "run_plan_sensitivity",
     forecast_stress_test |-> "run_plan_stress_test"])

RiskEvidence == LaneOf(
    [governance_controls |-> "check_controls", approval_route |-> "required_approvals",
     missing_evidence |-> "missing_evidence", hidden_obligations |-> "obligations_if_approved",
     high_discrepancies |-> "list_open_discrepancies",
     audit_knowledge |-> "search_finance_knowledge",
     downside_stress_test |-> "run_plan_stress_test"])

ProcurementEvidence == LaneOf(
    [vendor_exports |-> "list_vendors", outstanding_invoices |-> "list_invoices",
     overdue_invoices |-> "list_invoices", purchase_orders |-> "list_purchase_orders",
     vendor_clauses |-> "search_finance_knowledge",
     commercial_obligations |-> "obligations_if_approved"])

LaneEvidence ==
    [treasury |-> TreasuryEvidence, fpna |-> FpnaEvidence, risk |-> RiskEvidence,
     procurement |-> ProcurementEvidence]

\* Tools that run when they are named; the others run for a plan without any.
NamedOnly == {"build_strategic_plan", "compare_finance_playbooks", "run_plan_sensitivity",
              "run_plan_stress_test"}

Runs(tool, tools) == tool \in tools \/ (tools = {} /\ tool \notin NamedOnly)

\* _json_tool_payload: a tool that fails leaves a warning for its payload.
Gathered(role, tools, outage) ==
    LET evidence == LaneEvidence[role]
    IN  [e \in {x \in DOMAIN evidence : Runs(evidence[x], tools)} |->
            IF evidence[e] \in outage THEN "warning" ELSE "payload"]

NoBundle == [gathered |-> <<>>, queries |-> <<>>, warned |-> {}, documents |-> "none", within |-> {}]

FirstTwo(queries) == SubSeq(queries, 1, Least(2, Len(queries)))

\* A search by some queries: the bundle lists those that were answered; a search
\* that fails leaves a warning for them.
Answered(search, queries, outage) == IF search \in outage THEN <<>> ELSE queries

\* gather_role_evidence for an analyst, whose plan _role_plan finds: the first
\* that names it.  Documents are searched when the plan asks for any, by its
\* queries or the decision itself, within the categories of build_retrieval_filter.
BundleOf(role, seq, type, outage, found) ==
    IF ~Names(seq, role) THEN NoBundle
    ELSE LET i == CHOOSE j \in DOMAIN seq : seq[j].role = role /\ ~Names(SubSeq(seq, 1, j - 1), role)
             p == LanePlan(seq[i])
             searched == p.documents # <<>> \/ p.categories # {}
             sought == IF ~searched THEN <<>>
                       ELSE IF p.documents # <<>> THEN FirstTwo(p.documents) ELSE <<"decision">>
             policies == Answered("search_finance_policies", FirstTwo(p.queries), outage)
             read == Answered("search_document_chunks", sought, outage)
         IN  [gathered  |-> Gathered(role, p.tools, outage),
              queries   |-> policies \o read,
              warned    |-> outage \cap ({"search_finance_policies"}
                                          \cup IF searched THEN {"search_document_chunks"} ELSE {}),
              documents |-> IF ~searched THEN "none"
                            ELSE IF found /\ read # <<>> THEN "cited" ELSE "insufficient",
              within    |-> IF ~searched THEN {}
                            ELSE IF p.categories # {} THEN p.categories ELSE DocumentCategories(type)]

(***************************************************************************)
(* The cross-examination.                                                  *)
(***************************************************************************)
\* normalize_challenge_role: "&" has become "and" before "fp&a" is looked up.
NormalizedRole(name) ==
    CASE name \in {"fpna", "FPA", "Financial_Planning_and_Analysis"} -> "fpna"
      [] name \in {"cfo", "Office_of_the_CFO", "Chief_Financial_Officer"} -> "cfo"
      [] name \in {"risk", "Risk_&_Audit", "risk-audit"} -> "risk"
      [] name = "FP&A" -> "fpanda"
      [] OTHER -> name

\* ROLE_CHALLENGE_TARGETS, for each role those it challenges first.
Targets ==
    [treasury |-> <<"fpna", "procurement", "cfo", "risk">>,
     fpna |-> <<"treasury", "procurement", "cfo", "risk">>,
     risk |-> <<"fpna", "procurement", "treasury", "cfo">>,
     procurement |-> <<"treasury", "risk", "fpna", "cfo">>,
     cfo |-> <<"risk", "treasury", "fpna", "procurement">>]

\* _select_challenge_target: the first that is at the table.
TargetOf(from, available) ==
    LET order == Targets[from]
        present == {i \in DOMAIN order : order[i] \in available}
    IN  IF present # {} THEN order[Min(present)] ELSE "cfo"

\* Mutation: an exchange keeps whom the model names.
AimedAsGiven(exchange, available) ==
    [from |-> NormalizedRole(exchange.from), to |-> NormalizedRole(exchange.to)]

\* A kept exchange is aimed at another role that is at the table.
Aimed(exchange, available) ==
    LET from == NormalizedRole(exchange.from)
        to == NormalizedRole(exchange.to)
    IN  [from |-> from,
         to |-> IF to \in available /\ to # from THEN to ELSE TargetOf(from, available)]

\* The elements of seq at the indices in S, in their order.
Picked(seq, S) ==
    [k \in 1..Cardinality(S) |->
        seq[CHOOSE i \in S : Cardinality({j \in S : j <= i}) = k]]

\* ensure_role_specific_exchanges, for the roles that hold a position.
Exchanges(model, seats) ==
    LET available == seats \cup {"cfo"}
        kept == Picked(model, {i \in DOMAIN model : NormalizedRole(model[i].from) \in DOMAIN Targets})
        given == [i \in DOMAIN kept |-> Aimed(kept[i], available)]
        heard == {given[i].from : i \in DOMAIN given}
        silent == Picked(Lanes, {i \in DOMAIN Lanes : Lanes[i] \in available \ heard})
        added == [i \in DOMAIN silent |-> [from |-> silent[i], to |-> TargetOf(silent[i], available)]]
    IN  SubSeq(given \o added, 1, Least(MaxTurns, Len(given) + Len(added)))

(***************************************************************************)
(* The specification.                                                      *)
(***************************************************************************)
CouncilInit ==
    /\ turn = "planner"
    /\ call = NewCall
    /\ telemetry = NoTelemetry
    /\ plans = <<>>
    /\ kind = "general"
    /\ bundles = [r \in Analysts |-> NoBundle]
    /\ seated = {}
    /\ asked = <<>>
    /\ table = <<>>

\* structured_call, one attempt; the planner and the debate make one call each.
AttemptCall ==
    /\ turn \in {"planner", "debate"}
    /\ ~Ended(call)
    /\ \E outcome \in Outcomes : call' = Attempted(call, outcome)
    /\ UNCHANGED <<turn, telemetry, plans, kind, bundles, seated, asked, table>>

\* classify_and_plan and planner_node.
PlanEvidence ==
    /\ turn = "planner" /\ Ended(call)
    /\ IF call.ok
       THEN \E type \in DecisionKinds, seq \in PlannedRoles :
               kind' = type /\ plans' = Enforced(seq, type)
       ELSE kind' = "general" /\ plans' = FallbackPlan
    /\ telemetry' = Merged(telemetry, call)
    /\ call' = NewCall
    /\ turn' = "evidence"
    /\ UNCHANGED <<bundles, seated, asked, table>>

\* committee_parallel: every analyst gathers evidence before it speaks.
GatherEvidence ==
    /\ turn = "evidence"
    /\ \E outage \in Outages, found \in BOOLEAN :
          bundles' = [r \in Analysts |-> BundleOf(r, plans, kind, outage, found)]
    /\ turn' = "debate"
    /\ UNCHANGED <<call, telemetry, plans, kind, seated, asked, table>>

\* debate_node: the analysts that hold a position challenge each other.
CrossExamine ==
    /\ turn = "debate" /\ Ended(call)
    /\ seated' \in SUBSET Analysts
    /\ IF call.ok
       THEN \E model \in ModelExchanges : asked' = model /\ table' = Exchanges(model, seated')
       ELSE asked' = <<>> /\ table' = <<>>
    /\ telemetry' = Merged(telemetry, call)
    /\ turn' = "done"
    /\ UNCHANGED <<call, plans, kind, bundles>>

CouncilNext == AttemptCall \/ PlanEvidence \/ GatherEvidence \/ CrossExamine

CouncilSpec == CouncilInit /\ [][CouncilNext]_council

(***************************************************************************)
(* Properties.                                                             *)
(***************************************************************************)
\* "Guarantee role-specific evidence routes for analysts with strict lanes":
\* whatever the planner answered, or if it did not answer, every analyst has
\* looked at everything its lane is made of and at its own policies, or has been
\* warned that these could not be searched ("surface, do not fabricate"), and a
\* decision that documents bear on sends it to them; a tool that is out leaves its
\* entry in place (enforce_role_specific_evidence_plan, gather_role_evidence).
LanesAreFed ==
    turn \in {"debate", "done"} =>
        \A r \in Analysts :
            /\ DOMAIN bundles[r].gathered = DOMAIN LaneEvidence[r]
            /\ \/ IsPrefix(<<"lane", "lane">>, bundles[r].queries)
               \/ "search_finance_policies" \in bundles[r].warned
            /\ DocumentCategories(kind) # {} => bundles[r].documents # "none" /\ bundles[r].within # {}

\* Whoever at the table has a position: nobody challenges themselves or an
\* analyst without one, and every one of them and the CFO raises a challenge, up
\* to one exchange that the model gave a lane too many; with two, the cut to six
\* may silence a lane (ensure_role_specific_exchanges).
TableIsAnswerable ==
    turn = "done" /\ call.ok /\ seated # {} =>
        /\ \A i \in DOMAIN table : table[i].to \in (seated \cup {"cfo"}) \ {table[i].from}
        /\ Len(asked) <= Cardinality({NormalizedRole(asked[i].from) : i \in DOMAIN asked}) + 1
              => seated \cup {"cfo"} \subseteq {table[i].from : i \in DOMAIN table}

\* "Preserve model exchanges while ensuring each debate lane has a typed
\* challenge": FP&A, named as its persona and the prompt name it, keeps its
\* exchange.
ExchangesArePreserved ==
    \A i \in DOMAIN asked : asked[i].from = "FP&A" =>
        \E j \in DOMAIN table : table[j] = [from |-> "fpna", to |-> NormalizedRole(asked[i].to)]
=============================================================================
