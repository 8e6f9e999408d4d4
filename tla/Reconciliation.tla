--------------------------- MODULE Reconciliation ---------------------------
(***************************************************************************)
(* The reconciliation workflows (agent/src/integrations/reconcile.py):     *)
(* pure functions over the imported rows and the company's system of       *)
(* record, each of which reports discrepancies.                            *)
(*                                                                         *)
(* A date is a number of days from the day the run is as of, an amount is  *)
(* in whole dollars, a rate or a probability in thousandths, a missing     *)
(* name the empty string.  A discrepancy keeps its kind, its severity,     *)
(* what it is about and the row it was raised for; titles, details and     *)
(* recommended actions are left out.                                       *)
(*                                                                         *)
(* Definitions marked "Mutation:" are plausible bugs in the definition     *)
(* that follows them.                                                      *)
(***************************************************************************)
EXTENDS ImportQuality

CONSTANT SourceSets \* what may have been imported when the workflows run

VARIABLE report \* the report of the last run, with the sources it read

NoReport == [phase |-> "none"]

MISSING_PO_THRESHOLD == 5000
SECURITY_EVIDENCE_STALE_DAYS == 90

(***************************************************************************)
(* Names: some of the spellings that the code knows.                       *)
(***************************************************************************)
VENDOR_ALIASES ==
    [aws |-> "amazon_web_services", amazon_web_svcs |-> "amazon_web_services",
     data_dog |-> "datadog", sales_force |-> "salesforce"]
TEAM_ALIASES ==
    [eng |-> "engineering", cs |-> "customer_success", sales_ops |-> "sales", growth |-> "marketing"]

Canonical(aliases, name) == IF name \in DOMAIN aliases THEN aliases[name] ELSE name
CanonicalVendor(name) == Canonical(VENDOR_ALIASES, name)
CanonicalTeam(name) == Canonical(TEAM_ALIASES, name)

\* _contract_name_index: of two contracts of a name, the later one's.
NamesOf(contract) ==
    LET names == {contract.id, contract.name} \cup contract.aliases
    IN  names \cup {CanonicalVendor(n) : n \in names}

Indexed(contracts, name) ==
    LET hits == {k \in DOMAIN contracts : name \in NamesOf(contracts[k])}
    IN  IF hits = {} THEN 0 ELSE Max(hits)

\* _match_contract: the id as it is, then as a name, then the name; 0 for no
\* contract.
MatchContract(contracts, id, name) ==
    LET byId == {k \in DOMAIN contracts : id # "" /\ contracts[k].id = id}
        tried == SelectSeq(<<Indexed(contracts, CanonicalVendor(id)), Indexed(contracts, id),
                             Indexed(contracts, name), Indexed(contracts, CanonicalVendor(name))>>,
                           LAMBDA k : k # 0)
    IN  IF byId # {} THEN Max(byId) ELSE IF tried = <<>> THEN 0 ELSE Head(tried)

\* _build_contracts: a vendor that is exported is as it was exported, and
\* nothing of its seed is left.
Contracts(sources) ==
    LET exported(id) == {k \in DOMAIN sources.exports : sources.exports[k].id = id}
        seeded(c) == \E k \in DOMAIN sources.seeds : sources.seeds[k].id = c.id
        seed(c) == IF exported(c.id) = {} THEN [c EXCEPT !.origin = "seed"]
                   ELSE [sources.exports[Max(exported(c.id))] EXCEPT !.origin = "known_export"]
        new == SelectSeq(sources.exports, LAMBDA c : ~seeded(c))
    IN  [k \in DOMAIN sources.seeds |-> seed(sources.seeds[k])]
            \o [k \in DOMAIN new |-> [new[k] EXCEPT !.origin = "new_export"]]

Discrepancy(kind, severity, of, row) == [kind |-> kind, severity |-> severity, of |-> of, row |-> row]
RaiseIf(condition, discrepancy) == IF condition THEN {discrepancy} ELSE {}

(***************************************************************************)
(* 1. Invoices and vendors.                                                *)
(***************************************************************************)
InUSD(inv) ==
    IF inv.currency = "USD" THEN inv.amount
    ELSE IF inv.usd # None THEN inv.usd
    ELSE IF inv.rate # 0 THEN (inv.amount * inv.rate) \div 1000
    ELSE inv.amount

Balance(inv) ==
    IF inv.balance # None THEN inv.balance
    ELSE IF InUSD(inv) <= 0 THEN InUSD(inv) ELSE Greatest(0, InUSD(inv) - inv.paid)

IsOpen(inv) == inv.status \notin {"paid", "void", "credit", "cancelled"}
IsPartial(inv) ==
    \/ inv.status \in {"partial", "partially_paid", "partial_payment"}
    \/ inv.paid > 0 /\ Balance(inv) > 0 /\ InUSD(inv) > 0
IsDisputed(inv) == inv.status \in {"disputed", "in_dispute"} \/ inv.disputed
Unpaid ==
    {"open", "unpaid", "pending", "overdue", "late", "past_due", "partial", "partially_paid",
     "disputed", "in_dispute"}

DuplicateInvoice(invoices, k) ==
    LET same == {j \in 1..(k - 1) : invoices[j].id = invoices[k].id}
        first == invoices[Min(same)]
        changed == first.vendor # invoices[k].vendor \/ InUSD(first) # InUSD(invoices[k])
    IN  RaiseIf(same # {}, Discrepancy("duplicate_invoice", IF changed THEN "high" ELSE "medium", invoices[k].id, k))

LateInvoice(inv, k) ==
    LET days == -inv.due
        balance == Balance(inv)
    IN  IF inv.due = None THEN {}
        ELSE RaiseIf(inv.due < 0 /\ inv.status \in Unpaid /\ balance > 0,
                     Discrepancy("late_invoice",
                                 IF days >= 30 /\ balance >= 25000 THEN "critical"
                                 ELSE IF days >= 14 \/ balance >= 25000 THEN "high" ELSE "medium", inv.id, k))

InvoiceRow(contracts, invoices, k) ==
    LET inv == invoices[k]
        usd == InUSD(inv)
        balance == Balance(inv)
        About(kind, severity) == Discrepancy(kind, severity, inv.id, k)
    IN  DuplicateInvoice(invoices, k)
        \cup RaiseIf(MatchContract(contracts, inv.vid, inv.vendor) = 0, About("unmatched_invoice", "medium"))
        \cup RaiseIf(IsPartial(inv), About("partial_payment",
                 IF balance >= 25000 THEN "high" ELSE IF balance >= 5000 THEN "medium" ELSE "low"))
        \cup RaiseIf(IsDisputed(inv), About("disputed_invoice", IF balance >= 5000 THEN "high" ELSE "medium"))
        \cup RaiseIf(inv.due = None /\ IsOpen(inv) /\ usd > 0,
                     About("missing_due_date", IF usd >= MISSING_PO_THRESHOLD THEN "medium" ELSE "low"))
        \cup RaiseIf(inv.currency # "USD",
                     About("non_usd_invoice", IF inv.usd # None /\ inv.rate # 0 THEN "low" ELSE "medium"))
        \cup LateInvoice(inv, k)
        \cup RaiseIf(usd >= MISSING_PO_THRESHOLD /\ IsOpen(inv) /\ ~inv.po,
                     About("missing_po_number", IF usd >= 20000 THEN "high" ELSE "medium"))

(***************************************************************************)
(* 2. Contract terms and spend.                                            *)
(***************************************************************************)
InvoicesOf(contracts, invoices, c) ==
    {k \in DOMAIN invoices : MatchContract(contracts, invoices[k].vid, invoices[k].vendor) = c}

\* Mutation: every invoice is a month of its own.
MonthsPerInvoice(invoices, rows) == Cardinality({k \in rows : invoices[k].period # None})

Months(invoices, rows) == Cardinality({invoices[k].period : k \in rows} \ {None})

\* 12 * total / months against the annual cost, in whole numbers.
SpendOf(contract, invoices, rows) ==
    LET months  == Months(invoices, rows)
        run     == 12 * MapThenSumSet(LAMBDA k : InUSD(invoices[k]), rows)
        agreed  == contract.annual * months
        largest == Max({0} \cup {InUSD(invoices[k]) : k \in rows})
        monthly == IF contract.monthly # None THEN contract.monthly ELSE contract.annual \div 12
        above   == 10 * largest > 11 * monthly
        About(kind, severity) == Discrepancy(kind, severity, contract.id, 0)
    IN  RaiseIf(contract.billing = "annual" /\ months > 1, About("billing_cadence", "medium"))
        \cup RaiseIf(contract.billing = "monthly" /\ above, About("monthly_amount", "medium"))
        \cup RaiseIf(contract.tiered /\ above, About("tiered_pricing", IF 4 * largest > 5 * monthly THEN "high" ELSE "medium"))
        \cup RaiseIf(10 * run > 11 * agreed, About("contract_overspend", IF 4 * run > 5 * agreed THEN "high" ELSE "medium"))
        \cup RaiseIf(10 * run < 9 * agreed, About("contract_underspend", "low"))

\* A vendor none of whose invoices has a month is one the code counts the
\* months of a missing set for: len(None) raises.
Undated(contracts, invoices) ==
    {c \in DOMAIN contracts :
        /\ contracts[c].annual > 0 /\ InvoicesOf(contracts, invoices, c) # {}
        /\ Months(invoices, InvoicesOf(contracts, invoices, c)) = 0}

(***************************************************************************)
(* 2b. The ledger.                                                         *)
(***************************************************************************)
LedgerRow(contracts, entry, k) ==
    LET About(kind, severity) == Discrepancy(kind, severity, entry.id, k)
        credit == entry.amount > 0 /\ entry.category \notin {"revenue", "cash_receipt", "intercompany_transfer"}
    IN  RaiseIf((entry.vid # "" \/ entry.vendor # "") /\ MatchContract(contracts, entry.vid, entry.vendor) = 0,
                About("ledger_vendor_mismatch", "medium"))
        \cup RaiseIf(entry.amount <= -1000 /\ entry.category \in {"", "uncategorized", "not_categorized"},
                     About("ledger_uncategorized_spend", "medium"))
        \cup RaiseIf(credit \/ entry.accrual, About("ledger_accrual_or_credit", IF credit THEN "low" ELSE "medium"))

(***************************************************************************)
(* 3. The pipeline and the forecast.                                       *)
(***************************************************************************)
\* What makes an opportunity an imperfect input of the forecast.
QualityNotes(opps, opp) ==
    LET p == opp.probability
        accounts == {o.account : o \in {q \in Range(opps) : q.key = opp.key}} \ {""}
        off == Weighted(opp) - (opp.arr * p) \div 1000
    IN  {note \in {"probability", "out_of_range", "no_close", "slipped", "aged", "stale", "owner", "override",
                  "weighted", "aliases"} :
            CASE note = "probability" -> p = None
              [] note = "out_of_range" -> p # None /\ p \notin 0..1000
              [] note = "no_close" -> opp.close = None
              [] note = "slipped" -> opp.close # None /\ opp.prior # None /\ opp.close > opp.prior
              [] note = "aged" -> Beyond(opp.stageDays, STAGE_AGING_DAYS) \/ Beyond(opp.entered, STAGE_AGING_DAYS)
              [] note = "stale" -> Beyond(opp.idleDays, STALE_ACTIVITY_DAYS)
              [] note = "owner" -> opp.moved
              [] note = "override" -> opp.override
              [] note = "weighted" -> /\ p # None /\ opp.weighted # None
                                      /\ Greatest(off, -off) > Greatest(5000, opp.arr \div 20)
              [] note = "aliases" -> Cardinality(accounts) > 1}

Opportunity(opps, k) ==
    LET notes == QualityNotes(opps, opps[k])
    IN  RaiseIf(notes # {},
                Discrepancy("crm_probability_quality",
                            IF Cardinality(notes) >= 3 \/ opps[k].arr >= 750000 THEN "medium" ELSE "low", opps[k].id, k))

ForecastVariance(opps, forecast) ==
    LET off == MapThenSumSet(LAMBDA k : Weighted(opps[k]), DOMAIN opps) - forecast
        size == Greatest(off, -off)
    IN  RaiseIf(forecast > 0 /\ 10 * size > forecast,
                Discrepancy("crm_forecast_variance", IF 5 * size > forecast THEN "medium" ELSE "low", "weighted", 0))

(***************************************************************************)
(* 4. Headcount and the hiring plan.                                       *)
(***************************************************************************)
TeamOf(row) == CanonicalTeam(IF row.mapped # "" THEN row.mapped ELSE row.team)

PlannedTeams(plan) == {CanonicalTeam(p.team) : p \in plan}

Role(plan, row, k) ==
    LET approved == IF row.approved # None THEN row.approved ELSE IF row.approval = "approved" THEN row.count ELSE 0
        About(kind, severity) == Discrepancy(kind, severity, row.id, k)
    IN  RaiseIf(TeamOf(row) \notin PlannedTeams(plan), About("unplanned_headcount", "high"))
        \cup RaiseIf(row.approval # "approved" \/ approved < row.count,
                     About("headcount_approval", IF row.approval \in {"unapproved", "pending"} THEN "high" ELSE "medium"))
        \cup RaiseIf(row.slip >= 30, About("headcount_start", "medium"))
        \cup (IF row.start = None THEN {}
              ELSE RaiseIf(row.start <= 0 /\ row.status \in {"planned", "open"}, About("headcount_past_start", "medium")))

Team(plan, rows, team) ==
    LET p == CHOOSE q \in plan : CanonicalTeam(q.team) = team
        own == {k \in DOMAIN rows : TeamOf(rows[k]) = team}
        count == MapThenSumSet(LAMBDA k : rows[k].count, own)
        cost == MapThenSumSet(LAMBDA k : rows[k].cost, own)
        drifts(row) == (row.mapped # "" /\ row.team # row.mapped) \/ row.team # team
        About(kind, severity) == Discrepancy(kind, severity, team, 0)
    IN  RaiseIf(\E k \in own : drifts(rows[k]), About("department_name_drift", "low"))
        \cup RaiseIf(count > p.roles, About("headcount_count", "medium"))
        \cup RaiseIf(p.cost > 0 /\ 100 * cost > 105 * p.cost, About("headcount_cost", "medium"))

(***************************************************************************)
(* 5. The board's policies.                                                *)
(***************************************************************************)
ClauseSeverity(contract) == IF ~contract.dpa THEN "high" ELSE "medium"

\* An exported commitment that the board has to know of, the clauses and the
\* owner of a large one, and its renewal.
Commitments(contract, limits) ==
    LET exported == contract.origin \in {"known_export", "new_export"}
        notice == IF contract.notice # 0 THEN contract.notice ELSE limits.days
        About(kind, severity) == Discrepancy(kind, severity, contract.id, 0)
    IN  RaiseIf(contract.origin = "new_export" /\ contract.annual >= limits.notify /\ ~contract.approved,
                About("board_constraint_violation", "high"))
        \cup RaiseIf(exported /\ contract.annual >= limits.notify /\ ~(contract.approved /\ contract.approvalId),
                     About("missing_board_approval", "high"))
        \cup RaiseIf(contract.annual >= limits.review /\ ~(contract.dpa /\ contract.clause /\ contract.sla),
                     About("sla_security_clause_gap", ClauseSeverity(contract)))
        \cup RaiseIf(contract.annual >= limits.review /\ contract.owners > 1 /\ ~contract.attested,
                     About("owner_attestation_gap", "medium"))
        \cup (IF contract.renewal = None \/ contract.annual <= limits.review THEN {}
              ELSE RaiseIf(contract.auto /\ contract.renewal >= 0 /\ contract.renewal - notice <= 14,
                           About("renewal_urgency", IF contract.renewal < notice THEN "critical" ELSE "high"))
                   \cup RaiseIf(contract.renewal \in 0..limits.days, About("policy_violation", "medium")))

(***************************************************************************)
(* 6. Security and revenue.                                                *)
(***************************************************************************)
SecurityRow(ev, k) ==
    LET stale == IF ev.age = None THEN TRUE ELSE ev.age > SECURITY_EVIDENCE_STALE_DAYS
    IN  RaiseIf(stale, Discrepancy("stale_security_evidence", IF ev.blocks THEN "medium" ELSE "low", ev.id, k))
        \cup RaiseIf(ev.blocks /\ ev.status \in {"gap", "not_started", "in_progress"},
                     Discrepancy("security_revenue_blocker", IF ev.blocked >= 250000 THEN "critical" ELSE "high", ev.id, k))

(***************************************************************************)
(* The run.                                                                *)
(***************************************************************************)
\* _missing, and what a workflow makes of the rows it has.
Outcome(present, workflow, discrepancies) ==
    IF ~present
    THEN [status |-> "insufficient_data", found |-> {Discrepancy("missing_source", "info", workflow, 0)}]
    ELSE [status |-> IF discrepancies = {} THEN "ok" ELSE "discrepancies", found |-> discrepancies]

Over(rows, Found(_)) == UNION {Found(k) : k \in DOMAIN rows}

\* The company's own record is missing: a blocker, and nothing to show.
Blocked == [status |-> "insufficient_data", found |-> {}]

Workflows(s) ==
    LET contracts == Contracts(s)
        inv == s.invoices # <<>>
        ledger == SelectSeq(s.ledger, Accepted)
    IN  [invoices |-> Outcome(inv, "invoices", Over(s.invoices, LAMBDA k : InvoiceRow(contracts, s.invoices, k))),
         spend |-> Outcome(inv, "spend", UNION {SpendOf(contracts[c], s.invoices, InvoicesOf(contracts, s.invoices, c)) :
                       c \in {d \in DOMAIN contracts : contracts[d].annual > 0 /\ InvoicesOf(contracts, s.invoices, d) # {}}}),
         ledger |-> Outcome(ledger # <<>>, "ledger", Over(ledger, LAMBDA k : LedgerRow(contracts, Entry(ledger[k]), k))),
         crm |-> IF s.opportunities # <<>> /\ s.forecast = None THEN Blocked
                 ELSE Outcome(s.opportunities # <<>>, "crm",
                              Over(s.opportunities, LAMBDA k : Opportunity(s.opportunities, k))
                                  \cup ForecastVariance(s.opportunities, s.forecast)),
         headcount |-> IF s.headcount # <<>> /\ s.plan = {} THEN Blocked
                       ELSE Outcome(s.headcount # <<>>, "headcount",
                                    Over(s.headcount, LAMBDA k : Role(s.plan, s.headcount[k], k))
                                        \cup UNION {Team(s.plan, s.headcount, t) :
                                                t \in PlannedTeams(s.plan) \cap {TeamOf(r) : r \in Range(s.headcount)}}),
         policy |-> Outcome(TRUE, "policy", Over(contracts, LAMBDA c : Commitments(contracts[c], s.limits))),
         security |-> Outcome(s.security # <<>>, "security", Over(s.security, LAMBDA k : SecurityRow(s.security[k], k)))]

\* run_workflows: the seven of them, or an exception out of the second.
RunWorkflows ==
    /\ report = NoReport
    /\ \E s \in SourceSets :
           report' = IF s.invoices # <<>> /\ Undated(Contracts(s), s.invoices) # {}
                     THEN [phase |-> "raised", sources |-> s]
                     ELSE [phase |-> "done", sources |-> s, workflows |-> Workflows(s)]

ReportInit == report = NoReport
ReportNext == RunWorkflows

(***************************************************************************)
(* Properties.                                                             *)
(***************************************************************************)
\* A name by an alias of it, by this one if it is one.
Respell(aliases, name, this) ==
    LET others == {a \in DOMAIN aliases : aliases[a] = name}
    IN  IF others = {} THEN name ELSE IF this \in others THEN this ELSE CHOOSE a \in others : TRUE

Respelled(s, this) ==
    LET Row(r) == [r EXCEPT !.vendor = Respell(VENDOR_ALIASES, @, this)]
        Hired(r) == [r EXCEPT !.team = Respell(TEAM_ALIASES, @, this), !.mapped = Respell(TEAM_ALIASES, @, this)]
    IN  [s EXCEPT !.invoices = [k \in DOMAIN @ |-> Row(@[k])], !.ledger = [k \in DOMAIN @ |-> Row(@[k])],
                  !.headcount = [k \in DOMAIN @ |-> Hired(@[k])]]

\* What is about the spelling: a drifting name, and a category, which is inferred
\* from the spellings that _KNOWN_VENDOR_PATTERNS finds (a credit of "Amazon Web
\* Svcs", which it does not, reads as revenue).
OfSpelling == {"department_name_drift", "ledger_uncategorized_spend", "ledger_accrual_or_credit"}

Raised(workflows) ==
    {[kind |-> d.kind, of |-> d.of, row |-> d.row] :
        d \in {e \in UNION {workflows[w].found : w \in DOMAIN workflows} : e.kind \notin OfSpelling}}

SpellingHidesNothing ==
    report.phase = "done" =>
        \A this \in DOMAIN VENDOR_ALIASES :
            Raised(Workflows(Respelled(report.sources, this))) = Raised(report.workflows)

\* The first invoice, billed in two parts of the same month.
Split(s) ==
    LET half == [s.invoices[1] EXCEPT !.amount = @ \div 2, !.usd = IF @ = None THEN None ELSE @ \div 2]
    IN  [s EXCEPT !.invoices = <<half, [half EXCEPT !.id = "second_half"]>> \o Tail(@)]

OffContract(workflows) ==
    {d \in workflows.spend.found : d.kind \in {"contract_overspend", "contract_underspend"}}

SplittingHidesNothing ==
    report.phase = "done" /\ report.sources.invoices # <<>> =>
        OffContract(Workflows(Split(report.sources))) = OffContract(report.workflows)

\* The ledger with its amounts in two columns, and with the vendors that the
\* patterns know named in the descriptor alone.
InColumns(row) ==
    IF row.amount \in {None, 0} THEN row
    ELSE [row EXCEPT !.amount = None, !.debit = IF row.amount < 0 THEN -row.amount ELSE None,
                     !.credit = IF row.amount > 0 THEN row.amount ELSE None]
Described(row) ==
    IF KnownVendor([row EXCEPT !.words = {}]) = NobodyKnown THEN row
    ELSE [row EXCEPT !.vendor = "", !.words = @ \cup {row.vendor}]

Booked(s, How(_)) == [s EXCEPT !.ledger = [k \in DOMAIN @ |-> How(@[k])]]

BookingHidesNothing ==
    report.phase = "done" =>
        /\ Workflows(Booked(report.sources, InColumns)).ledger = report.workflows.ledger
        /\ Workflows(Booked(report.sources, Described)).ledger = report.workflows.ledger

\* The rows for which a workflow raised a kind of discrepancy.
RowsWith(workflow, kind) == {d.row : d \in {e \in workflow.found : e.kind = kind}}

\* The import counts an invoice at its face amount, and one that was cancelled
\* as an open one; apart from those, it and the workflow find the same.
SameInvoices(s, workflow) ==
    LET summary == InvoiceSummary(s.invoices)
        alike == {k \in DOMAIN s.invoices :
                     /\ s.invoices[k].currency = "USD" \/ s.invoices[k].usd \notin {None, 0}
                     /\ s.invoices[k].status # "cancelled"}
        Same(issue, kind) == summary.counted[issue] \cap alike = RowsWith(workflow, kind) \cap alike
    IN  /\ Same("partial", "partial_payment") /\ Same("disputed", "disputed_invoice")
        /\ Same("no_due_date", "missing_due_date") /\ Same("no_po", "missing_po_number")
        /\ summary.counted["non_usd"] = RowsWith(workflow, "non_usd_invoice")
        /\ summary.duplicates = {d.of : d \in {e \in workflow.found : e.kind = "duplicate_invoice"}}

\* Of books that are not older than AS_OF_DATE, what is late for the import is
\* late for the workflow.
SamePipeline(s, workflow) ==
    LET summary == PipelineSummary(s.opportunities, s.drift)
        timeless == PipelineIssues \ (IF s.drift > 0 THEN {"aged", "stale"} ELSE {})
        many == {k \in DOMAIN s.opportunities : s.opportunities[k].key \in summary.accounts}
    IN  UNION {summary.counted[i] : i \in timeless} \cup many \subseteq RowsWith(workflow, "crm_probability_quality")

SameHeadcount(s, workflow) ==
    LET summary == HeadcountSummary(s.headcount)
        drifted == {TeamOf(s.headcount[k]) : k \in summary.counted["drift"]}
    IN  /\ summary.counted["partial"] \cup summary.counted["unapproved"] \subseteq RowsWith(workflow, "headcount_approval")
        /\ RowsWith(workflow, "headcount_start") \subseteq summary.counted["slipped"]
        /\ drifted \cap PlannedTeams(s.plan) \subseteq
               {d.of : d \in {e \in workflow.found : e.kind = "department_name_drift"}}

\* A large spend that the import counts as uncategorized, the workflow raises, and
\* no other; of two spellings that the import knows, the workflow does not.
SameLedger(s, workflow, apart) ==
    LET ledger == SelectSeq(s.ledger, Accepted)
        large == {k \in DOMAIN ledger : SignedAmount(ledger[k]) <= -1000 /\ ledger[k].category \notin apart}
    IN  LedgerSummary(ledger)["uncategorized"] \cap large = RowsWith(workflow, "ledger_uncategorized_spend")

ImportHidesNothing ==
    report.phase = "done" =>
        LET s == report.sources
            w == report.workflows
        IN  /\ SameInvoices(s, w.invoices)
            /\ w.crm # Blocked => SamePipeline(s, w.crm)
            /\ w.headcount # Blocked => SameHeadcount(s, w.headcount)
            /\ SameLedger(s, w.ledger, {"uncategorised", "not categorized"})

\* How a fact was recorded, and who looks at it, hides no discrepancy.  Another
\* spelling of the vendors and the teams that the code knows, in every export,
\* hides none and makes none up, those about the spelling apart
\* (_canonical_vendor_name, _canonical_team); what runs over or under its contract
\* does so however a month's spend is billed (reconcile_contract_terms_to_spend);
\* a ledger reads the same with its amounts in two columns and its vendors in the
\* bank's descriptor (prepare_ledger_row); and what the import counted by criteria
\* of its own the workflows raise by theirs (summarize_*_quality).
RecordingHidesNothing ==
    SpellingHidesNothing /\ SplittingHidesNothing /\ BookingHidesNothing /\ ImportHidesNothing

\* A spend without a category is one however the export says so: what
\* _CATEGORY_ALIASES reads as "uncategorized" at the import, the workflow on the
\* ledger raises.
CategoriesAreReadAlike ==
    report.phase = "done" => SameLedger(report.sources, report.workflows.ledger, {})

\* The docstring of run_workflows: "Run every workflow, returning per-workflow
\* summaries and all discrepancies."
EveryWorkflowReports == report.phase # "raised"
=============================================================================
