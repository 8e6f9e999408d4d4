------------------------------ MODULE MCRules ------------------------------
(***************************************************************************)
(* The engines that compute what the council and its operator are told:    *)
(* governance, operating plans, playbook portfolios, sensitivity, scenario *)
(* branches, reconciliation, influence, and what surrounds a model call.   *)
(* They share no state, so that a behaviour works one engine, which is     *)
(* chosen in its first state, on inputs from the sets below.               *)
(***************************************************************************)
EXTENDS GovernanceRules, PlaybookPortfolio, ScenarioBranch, Reconciliation, CouncilInfluence,
        CouncilRules

VARIABLE engine

vars == <<engine, request, plan, portfolio, sweep, branch, report, influenceVars, council>>

Engines ==
    {"governance", "plan", "portfolio", "sensitivity", "scenario", "reconciliation", "influence",
     "council"}

\* The priors vary where they matter.
SomePrior == [i \in Seats |-> CHOOSE p \in Priors : TRUE]

RulesInit ==
    /\ engine \in Engines
    /\ GovernInit /\ PlanInit /\ PortfolioInit /\ BranchInit /\ ReportInit /\ CouncilInit
    /\ InfluenceInit
    /\ engine # "influence" => prior = SomePrior

GovernanceStep ==
    /\ engine = "governance" /\ Govern
    /\ UNCHANGED <<engine, plan, portfolio, sweep, branch, report, influenceVars, council>>

PlanStep ==
    /\ engine = "plan" /\ PlanNext
    /\ UNCHANGED <<engine, request, portfolio, sweep, branch, report, influenceVars, council>>

PortfolioStep ==
    /\ engine = "portfolio" /\ ComparePlaybooks
    /\ UNCHANGED <<engine, request, plan, branch, report, influenceVars, council>>

SensitivityStep ==
    /\ engine = "sensitivity" /\ RunSensitivity
    /\ UNCHANGED <<engine, request, plan, branch, report, influenceVars, council>>

ScenarioStep ==
    /\ engine = "scenario" /\ BranchNext
    /\ UNCHANGED <<engine, request, plan, portfolio, sweep, report, influenceVars, council>>

ReconciliationStep ==
    /\ engine = "reconciliation" /\ ReportNext
    /\ UNCHANGED <<engine, request, plan, portfolio, sweep, branch, influenceVars, council>>

InfluenceStep ==
    /\ engine = "influence" /\ InfluenceNext
    /\ UNCHANGED <<engine, request, plan, portfolio, sweep, branch, report, council>>

CouncilStep ==
    /\ engine = "council" /\ CouncilNext
    /\ UNCHANGED <<engine, request, plan, portfolio, sweep, branch, report, influenceVars>>

RulesNext ==
    \/ GovernanceStep \/ PlanStep \/ PortfolioStep \/ SensitivityStep
    \/ ScenarioStep \/ ReconciliationStep \/ InfluenceStep \/ CouncilStep

RulesSpec == RulesInit /\ [][RulesNext]_vars

Defaults == [x \in {} |-> 0]

(***************************************************************************)
(* Governance: texts, vendors and companies around each threshold.         *)
(***************************************************************************)
SomeTexts ==
    {{}, {"hire"}, {"engineers", "soc2"}, {"campaign"}, {"campaign", "soc2"}, {"snowflake"},
     {"infra", "hipaa"}, {"customer_data"}}

AVendor(annual, sensitive, data, renews) ==
    [annual |-> annual, sensitive |-> sensitive, data |-> data, renews |-> renews]
SomeVendors ==
    {{}, {AVendor(12000, FALSE, TRUE, TRUE)},
     {AVendor(9000, TRUE, FALSE, FALSE), AVendor(160000, FALSE, FALSE, TRUE)}}

ACompany(cash, burn, revenue, cogs, runway, gap) ==
    [cash |-> cash, burn |-> burn, revenue |-> revenue, cogs |-> cogs, runway |-> runway, gap |-> gap]
SomeCompanies ==
    {ACompany(4200000, 412000, 600000, 170000, 102, TRUE),
     ACompany(300000, 12000, 50000, 14000, 100, FALSE),
     ACompany(12000, 2000, 50000, 0, 60, TRUE),
     ACompany(80000, -5000, 50000, 0, None, TRUE)}

SomeOneTimes == {0, 2000, 90000}
SomeMonthlies == {0, 833, 4000, 40000}
SomeRevenues == {0, 2500}

(***************************************************************************)
(* Plans: a comfortable, a strained and a failing company.                 *)
(***************************************************************************)
ABook(cash, mrr, opex, headcount, growth, churn, margin) ==
    [cash |-> cash, mrr |-> mrr, opex |-> opex, headcount |-> headcount, growth |-> growth,
     churn |-> churn, margin |-> margin]
SomeBooks ==
    {ABook(4200000, 312000, 653000, 38, 90, 18, 780), ABook(1600000, 312000, 400000, 38, 90, 18, 780),
     ABook(300000, 500000, 380000, 38, 20, 18, 780)}

\* The theorem about sweeps is about such books.
ASSUME BooksAssumption == OrdinaryBooks

SomeOverrides == {NoDials, [churn |-> 50], [opexGrowth |-> 20, newBusinessRamp |-> 10]}

PlaybookIds == DOMAIN PLAYBOOKS
SomeRequests ==
    {<<a, b>> : a \in {"extend_runway", "financing_bridge"}, b \in PlaybookIds}
    \cup {<<"extend_runway", "unblock_enterprise", "renegotiate_vendors", "hire_against_revenue",
            "financing_bridge", "growth_to_efficiency", "recover_pipeline">>}

(***************************************************************************)
(* Scenarios: every pair and triple of changes of every type.              *)
(***************************************************************************)
ALive(cash, revenue, opex, netNew) ==
    [cash |-> cash, revenue |-> revenue, cogs |-> revenue \div 4, opex |-> opex, mrr |-> revenue,
     arr |-> 12 * revenue, headcount |-> 38, netNew |-> netNew, cac |-> 80, customers |-> 120]
SomeLive ==
    {ALive(42000, 3120, 6530, 31000), ALive(16000, 3120, 3400, 4000), ALive(9000, 5000, 3600, -500),
     ALive(120000, 3120, 6530, 0)}

SomeChanges ==
    {[type |-> "hire", roles |-> 3, monthly |-> None, adds |-> 0],
     [type |-> "hire", roles |-> 1, monthly |-> 30, adds |-> 250],
     [type |-> "opex_change", monthly |-> -140, adds |-> 0],
     [type |-> "opex_change", monthly |-> 40, adds |-> 0],
     [type |-> "vendor_renegotiation", old |-> 2400, new |-> 1680, adds |-> 0],
     [type |-> "revenue_slip", amount |-> None, pct |-> 100, adds |-> 0],
     [type |-> "revenue_slip", amount |-> 4000, pct |-> 0, adds |-> 0],
     [type |-> "churn_shock", amount |-> None, pct |-> 200, segment |-> 900, adds |-> 0],
     [type |-> "churn_shock", amount |-> None, pct |-> 200, segment |-> 0, adds |-> 0],
     [type |-> "compliance_blocker", amount |-> 5000, adds |-> 0],
     [type |-> "financing", amount |-> 30000, adds |-> 0],
     [type |-> "capex", amount |-> 6000, adds |-> 0]}
SomeLists ==
    {<<>>} \cup {<<a>> : a \in SomeChanges} \cup {<<a, b>> : a \in SomeChanges, b \in SomeChanges}
    \cup {<<a, b, c>> : a \in SomeChanges, b \in SomeChanges, c \in SomeChanges}

(***************************************************************************)
(* Reconciliation: one or two rows of each source, each with the flaws its *)
(* workflow looks for.                                                     *)
(***************************************************************************)
AnInvoice(id, vendor, amount, period, extra) ==
    extra @@ [id |-> id, vid |-> "", vendor |-> vendor, amount |-> amount, currency |-> "USD",
              usd |-> None, rate |-> 0, paid |-> 0, balance |-> None, status |-> "open",
              disputed |-> FALSE, due |-> 20, period |-> period, po |-> TRUE]

AContract(id, name, annual, extra) ==
    extra @@ [id |-> id, name |-> name, aliases |-> {}, annual |-> annual, monthly |-> None,
              billing |-> "monthly", tiered |-> FALSE, origin |-> "seed", approved |-> TRUE,
              approvalId |-> TRUE, dpa |-> TRUE, clause |-> TRUE, sla |-> TRUE, owners |-> 1,
              attested |-> FALSE, renewal |-> None, auto |-> FALSE, notice |-> 0]

Imported ==
    [invoices |-> <<>>, ledger |-> <<>>, exports |-> <<>>, opportunities |-> <<>>,
     forecast |-> 1000000, headcount |-> <<>>,
     plan |-> {[team |-> "engineering", roles |-> 3, cost |-> 60000],
               [team |-> "sales", roles |-> 1, cost |-> 20000]},
     security |-> <<>>, limits |-> [notify |-> 150000, review |-> 100000, days |-> 60],
     drift |-> 0,
     seeds |-> <<AContract("v1", "amazon_web_services", 120000, Defaults),
                 AContract("v2", "datadog", 24000, [aliases |-> {"dd_apm"}])>>]

VendorNames == {"amazon_web_services", "aws", "datadog", "dd_apm", "shadow"}

InvoiceFlaws ==
    {Defaults, [po |-> FALSE, due |-> None], [due |-> -20, paid |-> 2000],
     [due |-> -40, status |-> "overdue"], [currency |-> "EUR", rate |-> 1100, disputed |-> TRUE],
     [status |-> "partial_payment", balance |-> 3000, vid |-> "v2"], [status |-> "paid"],
     [status |-> "cancelled", due |-> None], [currency |-> "EUR", rate |-> 700, po |-> FALSE], [currency |-> "EUR", usd |-> 4000, paid |-> 4500, po |-> FALSE]}
FirstInvoices ==
    {AnInvoice("i1", n, a, p, f) : n \in VendorNames, a \in {6000, 10000, 14000, 40000},
                                   p \in {1, None}, f \in InvoiceFlaws}
SomeInvoices ==
    {<<i>> : i \in FirstInvoices} \cup
    {<<i, AnInvoice(id, n, 2000, p, Defaults)>> :
        i \in {j \in FirstInvoices : j.amount \in {6000, 14000}}, id \in {"i1", "i2"},
        n \in {"aws", "data_dog"}, p \in {1, 2}}

ABooking(vendor, amount, extra) ==
    extra @@ [id |-> "t1", vid |-> "", vendor |-> vendor, category |-> "", kind |-> "", words |-> {},
              amount |-> amount, debit |-> None, credit |-> None, split |-> FALSE]
BookingFlaws ==
    {Defaults, [words |-> {"accrual"}], [words |-> {"fee", "card"}], [words |-> {"ddog", "ach"}],
     [words |-> {"credit"}, category |-> "intercompany"], [words |-> {"transfer"}, split |-> TRUE],
     [kind |-> "refund", vid |-> "v2"], [words |-> {"payroll"}]}
    \cup {[category |-> c] : c \in {"software", "revenue", "uncategorised", "not_categorized", "cash receipt"}}
SomeLedgers ==
    {<<ABooking(n, a, f)>> : n \in VendorNames \cup {"sales_force", ""}, a \in {-4000, 0, 700}, f \in BookingFlaws}
    \cup {<<ABooking("aws", None, [debit |-> d, credit |-> c]), ABooking("shadow", -10, [id |-> "t2"])>> :
            d \in {None, 0, 1500, -1500}, c \in {None, 0, 900}}

AnOpportunity(id, key, account, arr, p, w, extra) ==
    extra @@ [id |-> id, key |-> key, account |-> account, arr |-> arr, probability |-> p,
              weighted |-> w, close |-> 60, prior |-> 60, stageDays |-> 10, entered |-> None,
              idleDays |-> 10, moved |-> FALSE, override |-> FALSE]
OpportunityFlaws ==
    {Defaults, [close |-> None, stageDays |-> 70, moved |-> TRUE],
     [prior |-> 10, idleDays |-> 46, override |-> TRUE],
     [stageDays |-> None, entered |-> 61, idleDays |-> None], [entered |-> 90], [idleDays |-> 40], [idleDays |-> None]}
SomePipelines ==
    {<<AnOpportunity("o1", "k", "acme", a, p, w, f),
       AnOpportunity("o2", k, "acme_inc", 800000, 500, None, Defaults)>> :
        a \in {100000, 900000}, p \in {None, 600, -100}, w \in {None, 60000}, k \in {"k", "l"},
        f \in OpportunityFlaws}

ARole(id, team, mapped, n, extra) ==
    extra @@ [id |-> id, team |-> team, mapped |-> mapped, count |-> n, cost |-> 21000 * n,
              approval |-> "approved", approved |-> None, slip |-> 0, start |-> 20, status |-> "open",
              contractor |-> FALSE, backfill |-> FALSE]
RoleFlaws ==
    {Defaults, [approval |-> "pending", approved |-> 0], [slip |-> 40, start |-> -1],
     [approval |-> "approved", approved |-> 1, start |-> None], [approval |-> "partial", contractor |-> TRUE],
     [approval |-> "in_review", backfill |-> TRUE]}
SomeRosters ==
    {<<ARole("h1", t, m, n, f), ARole("h2", "engineering", "", 1, Defaults)>> :
        t \in {"engineering", "eng", "sales", "legal"}, m \in {"", "eng"}, n \in {0, 1, 3},
        f \in RoleFlaws}

SomeEvidence ==
    {<<[id |-> "c1", age |-> a, blocks |-> b, status |-> s, blocked |-> x]>> :
        a \in {None, 90, 91}, b \in BOOLEAN, s \in {"gap", "satisfied"}, x \in {0, 250000}}

SomeExports ==
    {<<AContract(id, n, a, [approved |-> ap, approvalId |-> ai, renewal |-> r, auto |-> TRUE,
                            dpa |-> ai, owners |-> 2, notice |-> 30])>> :
        id \in {"v1", "v9"}, n \in {"amazon_web_services", "shadow"}, a \in {90000, 150000},
        ap \in BOOLEAN, ai \in BOOLEAN, r \in {None, 20, 44, 61}}

SomeSources ==
    {Imported}
    \cup {[Imported EXCEPT !.invoices = x] : x \in SomeInvoices}
    \cup {[Imported EXCEPT !.ledger = x] : x \in SomeLedgers}
    \cup {[Imported EXCEPT !.opportunities = x, !.drift = d] : x \in SomePipelines, d \in {-30, 0, 31}}
    \cup {[Imported EXCEPT !.headcount = x] : x \in SomeRosters}
    \cup {[Imported EXCEPT !.security = x] : x \in SomeEvidence}
    \cup {[Imported EXCEPT !.exports = x,
                           !.invoices = <<AnInvoice("i1", "shadow", 12000, 1, Defaults)>>] :
             x \in SomeExports}
    \cup {[Imported EXCEPT !.opportunities = CHOOSE z \in SomePipelines : TRUE, !.forecast = None,
                           !.headcount = CHOOSE z \in SomeRosters : TRUE, !.plan = {}]}

(***************************************************************************)
(* Influence: extreme priors, citations below and above the caps, and a    *)
(* model that favours or ignores a seat.                                   *)
(***************************************************************************)
OneType == {"security_blocker"}
TwoCitations == {0, 3}
TwoPriors == {0, 100}
OneAudit == {50}
SomeWeights == {<<70, 0, 0, 70>>, <<0, 0, 0, 70>>, <<0, 70, 70, 0>>}

(***************************************************************************)
(* The council: planners that forget, misspell or repeat a role, and       *)
(* models that repeat or misname a challenger.                             *)
(***************************************************************************)
SomeKinds == {"vendor_renewal", "hiring_plan", "pricing_change"}

PlannedRole(role, tools, categories) == RolePlan(role, tools, <<"model">>, categories)
PlannedSearch(role, queries) == [PlannedRole(role, {}, {}) EXCEPT !.documents = queries]
SomePlannedRoles ==
    {<<>>, <<PlannedRole("treasury", {}, {})>>, <<PlannedSearch("fpna", <<"model">>)>>,
     <<PlannedRole("fp&a", {"list_vendors"}, {}), PlannedRole("risk", {"check_controls"}, {"invoice"})>>,
     <<PlannedRole("procurement", {"list_vendors"}, {}), PlannedRole("procurement", {}, {"invoice"}),
       PlannedRole("cfo", {}, {})>>}

AnExchange(a, b) == [from |-> a, to |-> b]
SomeNames == {"treasury", "FP&A", "fpna", "Risk_&_Audit", "reliability"}
SomeExchanges ==
    {<<>>} \cup {<<AnExchange(a, b)>> : a \in SomeNames, b \in SomeNames}
    \cup {<<AnExchange("treasury", "treasury"), AnExchange(c, b)>> : b \in SomeNames, c \in SomeNames}
    \cup {[i \in 1..6 |-> AnExchange("treasury", "fpna")]}

SomeOutages == {{}, {"list_invoices", "search_finance_policies"}, {"search_document_chunks"}}
=============================================================================
