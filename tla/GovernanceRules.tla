-------------------------- MODULE GovernanceRules --------------------------
(***************************************************************************)
(* What governance makes of a decision (agent/src/governance.py), by the   *)
(* policies (agent/src/policies.py) and the approval matrix                *)
(* (agent/src/approvals.py): the inputs it derives, the controls that      *)
(* engage, the risk tier, the approvers, the obligations, the evidence and *)
(* the status the request is created in.  Approvals models what happens to *)
(* a request after that.                                                   *)
(*                                                                         *)
(* Amounts are whole dollars and runways tenths of a month.  A decision's  *)
(* text is the set of telling words in it; the policies are those          *)
(* data/seed.py stores, which are the defaults of the code.  Due dates,    *)
(* titles and wording are left out.                                        *)
(*                                                                         *)
(* Definitions marked "Mutation:" are plausible bugs in the definition     *)
(* that follows them.                                                      *)
(***************************************************************************)
EXTENDS Amounts, FiniteSets, FiniteSetsExt

CONSTANTS
    Texts,       \* texts of decisions: sets of words
    VendorSets,  \* vendors a text may refer to: sets of records
    OneTimes, Monthlies, Revenues, \* estimates of a decision, in dollars
    Confidences, \* confidences of a recommendation
    RiskCounts,  \* numbers of key risks it names
    Companies    \* the company's financial records; a runway may be None

\* Where a decision comes from: a debate computes the runway impact itself,
\* a caller of the API or of a tool leaves it to governance.
Paths == {"debate", "api"}
Rulings == {"APPROVE", "CONDITIONAL", "REJECT", "DEFER"}

NoRequest == [status |-> "none"]

ASSUME QuestionsAssumption ==
    /\ OneTimes \subseteq Nat /\ Monthlies \subseteq Nat /\ Revenues \subseteq Nat
    /\ Confidences \subseteq 0..100 /\ RiskCounts \subseteq Nat
    /\ \A set \in VendorSets :
           /\ \A v \in set : v.annual \in Nat
           /\ set = {} \/ \E v \in set : \A w \in set : w.annual <= v.annual
    /\ \A c \in Companies :
           /\ c.cash \in Int /\ c.burn \in Int /\ c.revenue \in Nat /\ c.cogs \in Nat
           /\ c.runway \in Nat \cup {None} /\ c.gap \in BOOLEAN

VARIABLE request \* the governed request, with what it was made of

(***************************************************************************)
(* The text: what its words are taken for.                                 *)
(***************************************************************************)
IsHeadcount(words) == words \cap {"hire", "engineers"} # {}
IsGrowthSpend(words) == words \cap {"campaign"} # {}
IsCogsLike(words) == words \cap {"infra", "snowflake"} # {}
IsSecurityInvestment(words) == words \cap {"soc2"} # {}

\* _infer_department: the first pattern that matches, then the vendors.  Only Data
\* matters to a control: a vendor's data says that of the vendors it is the first
\* whose category names a department, and that it names Data.
Department(words, vendors) ==
    CASE words \cap {"engineers", "infra"} # {} -> "Engineering"
      [] words \cap {"engineers", "infra", "campaign"} = {"campaign"} -> "Marketing"
      [] words \cap {"engineers", "infra", "campaign", "soc2"} = {"soc2"} -> "Security"
      [] words \cap {"engineers", "infra", "campaign", "soc2"} = {}
         /\ words \cap {"snowflake", "customer_data"} # {} -> "Data"
      [] OTHER -> IF \E v \in vendors : v.data THEN "Data" ELSE "Cross-functional"

Sensitivity(words, vendors) ==
    CASE "hipaa" \in words -> "regulated"
      [] "hipaa" \notin words /\ "customer_data" \in words -> "customer_data"
      [] OTHER -> IF \E v \in vendors : v.sensitive THEN "customer_data" ELSE "internal"

(***************************************************************************)
(* The amounts.                                                            *)
(***************************************************************************)
Annualized(q) ==
    LET highest == IF q.vendors = {} THEN 0 ELSE Max({v.annual : v \in q.vendors})
    IN  Greatest(q.oneTime + 12 * q.monthly, highest)

CashAfter(q) == q.company.cash - q.oneTime
BurnAfter(q) == q.company.burn + q.monthly - q.revenue

\* compute_runway, which a debate calls: nothing when no cash is burnt, and
\* less than nothing when the cash does not cover the one-time cost.
Impact(q) ==
    IF q.path = "debate" /\ BurnAfter(q) > 0 THEN Rounded(10 * CashAfter(q), BurnAfter(q)) ELSE None

RunwayBefore(q) == q.company.runway

\* derive_inputs computes the runway that it was not given, unless the cash
\* does not cover the one-time cost; failing that it keeps the present one.
Solvent(q) == BurnAfter(q) > 0 /\ CashAfter(q) > 0

RunwayAfter(q) ==
    CASE Impact(q) # None -> Impact(q)
      [] Impact(q) = None /\ q.oneTime + q.monthly + q.revenue > 0 /\ Solvent(q) ->
             Rounded(10 * CashAfter(q), BurnAfter(q))
      [] OTHER -> RunwayBefore(q)

(***************************************************************************)
(* The controls (evaluate_controls): each is the set of what it finds.     *)
(***************************************************************************)
Finding(id, severity, flags, evidence) ==
    [control |-> id, severity |-> severity, flags |-> flags, evidence |-> evidence]

FLOOR == 90
CFO_THRESHOLD == 50000
BOARD_THRESHOLD == 150000

\* A breach of the floor blocks; pressure on it is for the board to know.
RunwayFloor(q) ==
    LET before == RunwayBefore(q)
        after  == RunwayAfter(q)
    IN  IF after = None THEN {}
        ELSE IF after < FLOOR
        THEN {Finding("CTRL-RUNWAY-FLOOR", "critical", {"blocking", "exception", "board"},
                      {"financing_plan_or_runway_exception", "runway_forecast"})}
        ELSE IF before # None /\ before - after >= 10 /\ after < FLOOR + 20
        THEN {Finding("CTRL-RUNWAY-FLOOR", "medium", {"board"}, {})}
        ELSE {}

SpendCFO(q) ==
    IF Annualized(q) > CFO_THRESHOLD
    THEN {Finding("CTRL-SPEND-CFO", "medium", {}, {"CFO_memo", "signed_contract"})} ELSE {}

IsSensitive(q) == Sensitivity(q.words, q.vendors) \in {"customer_data", "regulated"}

BoardNotify(q) ==
    IF Annualized(q) > BOARD_THRESHOLD \/ IsSensitive(q)
    THEN {Finding("CTRL-BOARD-NOTIFY", "medium", {"board"}, {"board_memo", "runway_summary"})} ELSE {}

\* Mutation: the hire is let through when it does not pay for itself.
HeadcountSwapped(q) ==
    IF /\ IsHeadcount(q.words) /\ q.monthly > 0 /\ q.company.burn > 0
       /\ 100 * q.monthly > 8 * q.company.burn
       /\ 2 * q.revenue >= Greatest(q.monthly, 2)
    THEN {Finding("CTRL-HEADCOUNT", "high", {}, {"role_mapping", "headcount_row"})} ELSE {}

\* New people may add 8 % to the burn, unless half of them pays for itself.
Headcount(q) ==
    IF /\ IsHeadcount(q.words) /\ q.monthly > 0 /\ q.company.burn > 0
       /\ 100 * q.monthly > 8 * q.company.burn
       /\ 2 * q.revenue < Greatest(q.monthly, 2)
    THEN {Finding("CTRL-HEADCOUNT", "high", {}, {"role_mapping", "headcount_row"})} ELSE {}

GrossMargin(q) ==
    LET revenue == q.company.revenue + q.revenue
    IN  IF /\ IsCogsLike(q.words) \/ Department(q.words, q.vendors) = "Data"
           /\ ~IsHeadcount(q.words)
           /\ q.company.revenue > 0 /\ q.monthly > 0
           /\ 10 * (revenue - q.company.cogs - q.monthly) < 7 * revenue
        THEN {Finding("CTRL-GROSS-MARGIN", "high", {}, {"unit_economics"})} ELSE {}

\* Below twelve months, growth waits for the security work that sales wait for.
SecurityRevenue(q) ==
    LET now == IF RunwayBefore(q) = None THEN 0 ELSE RunwayBefore(q)
    IN  IF /\ IsGrowthSpend(q.words) /\ ~IsSecurityInvestment(q.words)
           /\ now < 120 /\ q.company.gap /\ Annualized(q) > 0
        THEN {Finding("CTRL-SECURITY-REVENUE", "high", {"security"}, {"gaps_funded_first"})} ELSE {}

DataSecurity(q) ==
    IF IsSensitive(q)
    THEN {Finding("CTRL-DATA-SECURITY", "medium", {"security"}, {"security_sign-off", "DPA"})} ELSE {}

Controls(q) ==
    RunwayFloor(q) \cup SpendCFO(q) \cup BoardNotify(q) \cup Headcount(q)
        \cup GrossMargin(q) \cup SecurityRevenue(q) \cup DataSecurity(q)

Flagged(controls, flag) == \E c \in controls : flag \in c.flags
Engaged(controls) == {c.control : c \in controls}

(***************************************************************************)
(* The risk tier and the approvers.                                        *)
(***************************************************************************)
RiskTier(q, controls) ==
    LET severe == Cardinality({c \in controls : c.severity \in {"high", "critical"}})
    IN  IF \/ Flagged(controls, "blocking") \/ \E c \in controls : c.severity = "critical"
           \/ q.confidence < 50 \/ q.risks >= 4 \/ severe >= 3 THEN "high"
        ELSE IF q.confidence < 65 \/ q.risks >= 3 \/ severe >= 1 THEN "elevated"
        ELSE IF q.confidence < 80 \/ q.risks >= 1 THEN "moderate"
        ELSE "low"

When(condition, name) == IF condition THEN {name} ELSE {}

\* Mutation: the first tier is missing.
TierApproversLate(amount) ==
    When(amount > 25000, "Department_Head") \cup When(amount > 25000, "Controller")
        \cup When(amount > 50000, "CFO") \cup When(amount > 150000, "Board")

\* Each tier has the approvers of the one below it, and one more.
TierApprovers(amount) ==
    When(amount > 10000, "Department_Head") \cup When(amount > 25000, "Controller")
        \cup When(amount > 50000, "CFO") \cup When(amount > 150000, "Board")

RiskApprovers(risk) ==
    When(risk \in {"elevated", "high"}, "RiskAudit") \cup When(risk = "high", "CFO")

DataApprovers(sensitivity) ==
    When(sensitivity \in {"customer_data", "regulated"}, "Security_Review")
        \cup When(sensitivity = "regulated", "Legal")

ControlApprovers(controls) ==
    LET Any(ids) == Engaged(controls) \cap ids # {}
    IN  When(Any({"CTRL-RUNWAY-FLOOR", "CTRL-SPEND-CFO", "CTRL-HEADCOUNT", "CTRL-GROSS-MARGIN"}), "CFO")
        \cup When(Any({"CTRL-RUNWAY-FLOOR", "CTRL-BOARD-NOTIFY"}) \/ Flagged(controls, "board"), "Board")
        \cup When(Any({"CTRL-SECURITY-REVENUE"}), "RiskAudit")
        \cup When(Any({"CTRL-DATA-SECURITY"}) \/ Flagged(controls, "security"), "Security_Review")

Route(q, controls) ==
    TierApprovers(Annualized(q)) \cup RiskApprovers(RiskTier(q, controls))
        \cup DataApprovers(Sensitivity(q.words, q.vendors)) \cup ControlApprovers(controls)

(***************************************************************************)
(* The obligations, the triggers and the evidence.                         *)
(***************************************************************************)
\* Mutation: the board is notified of large commitments only.
ObligationsOfAmount(q, controls) ==
    When(Annualized(q) > BOARD_THRESHOLD, "board_notification") \cup {"forecast_calibration", "follow_up"}

Obligations(q, controls) ==
    {"forecast_calibration", "follow_up"}
        \cup When(Flagged(controls, "board") \/ "CTRL-BOARD-NOTIFY" \in Engaged(controls), "board_notification")
        \cup When(\E v \in q.vendors : v.renews, "renewal_notice")
        \cup When(Engaged(controls) \cap {"CTRL-SECURITY-REVENUE", "CTRL-DATA-SECURITY"} # {}, "soc2_evidence")
        \cup When(q.revenue > 0, "revenue_milestone")
        \cup When(Flagged(controls, "blocking") \/ Flagged(controls, "exception"), "control_remediation")

Monitoring(q, controls) ==
    {"forecast_calibration", "follow_up"}
        \cup When(\E v \in q.vendors : v.renews, "renewal_window")
        \cup When(Engaged(controls) \cap {"CTRL-SECURITY-REVENUE", "CTRL-DATA-SECURITY"} # {}, "soc2_deadline")
        \cup When(q.revenue > 0, "revenue_milestone")
        \cup When("CTRL-RUNWAY-FLOOR" \in Engaged(controls), "runway_recheck")

Demanded(controls) == UNION {c.evidence : c \in controls}

\* _evidence_satisfied: whatever is worded with "runway" or "impact".
Satisfied(item) == item \in {"financing_plan_or_runway_exception", "runway_forecast", "runway_summary"}

(***************************************************************************)
(* The request.                                                            *)
(***************************************************************************)
\* The council recommends; what needs a person's approval waits for it, and
\* what needs none is cleared.
Status(q, controls) ==
    CASE q.ruling = "REJECT" -> "rejected"
      [] q.ruling = "DEFER" -> "draft"
      [] q.ruling \in {"APPROVE", "CONDITIONAL"}
         /\ (Route(q, controls) # {} \/ Flagged(controls, "blocking")) -> "pending"
      [] OTHER -> IF q.ruling = "CONDITIONAL" THEN "conditional" ELSE "approved"

Exceptions(q, controls) ==
    IF Status(q, controls) = "pending"
    THEN {c.control : c \in {d \in controls : d.flags \cap {"blocking", "exception"} # {}}} ELSE {}

\* _build_request.
Governed(q) ==
    LET controls == Controls(q)
    IN  [asked |-> q, controls |-> controls, risk |-> RiskTier(q, controls),
         amount |-> Annualized(q), sensitivity |-> Sensitivity(q.words, q.vendors),
         route |-> Route(q, controls),
         obligations |-> Obligations(q, controls), monitoring |-> Monitoring(q, controls),
         required |-> Demanded(controls),
         missing |-> {item \in Demanded(controls) : ~Satisfied(item)},
         blocked |-> Flagged(controls, "blocking"),
         status |-> Status(q, controls), exceptions |-> Exceptions(q, controls)]

Question(words, vendors, oneTime, monthly, revenue, confidence, risks, ruling, path, company) ==
    [words |-> words, vendors |-> vendors, oneTime |-> oneTime, monthly |-> monthly,
     revenue |-> revenue, confidence |-> confidence, risks |-> risks, ruling |-> ruling,
     path |-> path, company |-> company]

GovernInit == request = NoRequest

\* govern_recommendation, up to the write that Approvals models.
Govern ==
    /\ request = NoRequest
    /\ \E words \in Texts, vendors \in VendorSets, company \in Companies, path \in Paths,
          oneTime \in OneTimes, monthly \in Monthlies, revenue \in Revenues,
          confidence \in Confidences, risks \in RiskCounts, ruling \in Rulings :
           request' = Governed(Question(words, vendors, oneTime, monthly, revenue,
                                        confidence, risks, ruling, path, company))

GovernSpec == GovernInit /\ [][Govern]_request

(***************************************************************************)
(* Properties.                                                             *)
(***************************************************************************)
\* A request that governance clears by itself is one nobody had to see: it is
\* within the delegated authority, no control is engaged, its data are
\* internal, its risk is low or moderate, and the council did not refuse it.
\* The status looks at the route and the blocking controls only; it is the
\* matrix that must send every one of these somewhere.
AutoClearIsHarmless ==
    request.status \in {"approved", "conditional"} =>
        /\ request.amount <= 10000
        /\ request.controls = {}
        /\ request.sensitivity = "internal"
        /\ request.risk \in {"low", "moderate"}
        /\ request.asked.ruling \in {"APPROVE", "CONDITIONAL"}

\* The route and the obligations, which are computed apart, agree: the board
\* has to approve exactly what it has to be told of, and Security Review
\* exactly what security evidence is collected for.
BoardIsTold ==
    request # NoRequest =>
        /\ "Board" \in request.route <=> "board_notification" \in request.obligations
        /\ "Security_Review" \in request.route <=> "soc2_evidence" \in request.obligations

NoLighter(costlier) ==
    /\ request.route \subseteq costlier.route
    /\ request.blocked => costlier.blocked
    /\ request.required \subseteq costlier.required

\* Held by the runway on record, because none was computed for this decision: it
\* costs nothing, or burns no cash.
HeldByRecord(q) ==
    /\ Impact(q) = None /\ ~(q.oneTime + q.monthly + q.revenue > 0 /\ Solvent(q))
    /\ RunwayBefore(q) # None /\ RunwayBefore(q) < FLOOR

\* A decision that costs more, all else equal, needs no fewer approvers and
\* stays blocked, as long as the cash covers its one-time cost and the cheaper one
\* was not held by the runway on record, which knows nothing of either.
CostlierIsNoLighter ==
    request # NoRequest /\ ~HeldByRecord(request.asked) =>
        \A oneTime \in OneTimes, monthly \in Monthlies :
            LET q == [request.asked EXCEPT !.oneTime = oneTime, !.monthly = monthly]
            IN  (/\ oneTime >= request.asked.oneTime /\ monthly >= request.asked.monthly
                 /\ CashAfter(q) > 0)
                    => NoLighter(Governed(q))

\* The docstring of _evidence_satisfied: "Everything a control demands from a
\* human (board memo, DPA, financing plan, security sign-off, ...) is honestly
\* reported as missing until supplied."
HumanEvidenceIsMissing ==
    request # NoRequest =>
        request.required \cap {"board_memo", "DPA", "financing_plan_or_runway_exception", "security_sign-off"}
            \subseteq request.missing
=============================================================================
