---------------------------- MODULE ImportQuality ----------------------------
(***************************************************************************)
(* What an import tells of the quality of the rows it accepted             *)
(* (agent/src/integrations/invoice_messiness.py, crm_pipeline_quality.py   *)
(* and headcount_quality.py): for each issue the rows that it counts, by   *)
(* criteria that are the import's own and not those of the workflows in    *)
(* reconcile.py.  The council quotes these counts.                         *)
(*                                                                         *)
(* The rows are those of Reconciliation.  The import counts days from the  *)
(* day AS_OF_DATE, which is "drift" days after the one the books are of    *)
(* and the rows count from.                                                *)
(***************************************************************************)
EXTENDS LedgerRows, FiniteSetsExt

AsOfImport(days, drift) == IF days = None THEN None ELSE days + drift
Beyond(days, limit) == days # None /\ days > limit

\* What a summary says: each issue with the rows that have it.
Counted(issues, rows, Has(_, _)) == [issue \in issues |-> {k \in DOMAIN rows : Has(issue, rows[k])}]

IssueCount(summary) == MapThenSumSet(LAMBDA i : Cardinality(summary[i]), DOMAIN summary)

(***************************************************************************)
(* Invoices, at the amount on their face: no exchange rate is applied.     *)
(***************************************************************************)
FaceAmount(inv) == IF inv.currency # "USD" /\ inv.usd \notin {None, 0} THEN inv.usd ELSE inv.amount

FaceBalance(inv) ==
    IF inv.balance # None THEN inv.balance
    ELSE IF FaceAmount(inv) <= 0 THEN FaceAmount(inv) ELSE Greatest(0, FaceAmount(inv) - inv.paid)

IsInvoiceIssue(issue, inv) ==
    LET settled == inv.status \in {"paid", "void", "credit"}
    IN  CASE issue = "partial" -> \/ inv.status \in {"partial", "partially_paid", "partial_payment"}
                                  \/ inv.paid > 0 /\ FaceBalance(inv) > 0 /\ FaceAmount(inv) > 0
          [] issue = "overdue" -> inv.status \in {"overdue", "late", "past_due"}
          [] issue = "disputed" -> inv.status \in {"disputed", "in_dispute"} \/ inv.disputed
          [] issue = "no_due_date" -> inv.due = None /\ FaceAmount(inv) > 0 /\ ~settled
          [] issue = "non_usd" -> inv.currency # "USD"
          [] issue = "no_po" -> FaceAmount(inv) >= 5000 /\ ~inv.po /\ ~settled

InvoiceIssues == {"partial", "overdue", "disputed", "no_due_date", "non_usd", "no_po"}

DuplicateIds(rows) == {rows[j].id : j \in {k \in DOMAIN rows : \E i \in 1..(k - 1) : rows[i].id = rows[k].id}}

\* Vendors that go by several names.
ManyNames(rows) ==
    {v \in {rows[k].vid : k \in DOMAIN rows} \ {""} :
        Cardinality({rows[k].vendor : k \in {j \in DOMAIN rows : rows[j].vid = v}} \ {""}) > 1}

InvoiceSummary(rows) ==
    LET counted == Counted(InvoiceIssues, rows, IsInvoiceIssue)
    IN  [counted |-> counted, duplicates |-> DuplicateIds(rows),
         issues |-> IssueCount(counted) + Cardinality(DuplicateIds(rows)) + Cardinality(ManyNames(rows)),
         balance |-> MapThenSumSet(LAMBDA k : Greatest(0, FaceBalance(rows[k])), DOMAIN rows)]

(***************************************************************************)
(* The pipeline.                                                           *)
(***************************************************************************)
STAGE_AGING_DAYS == 60
STALE_ACTIVITY_DAYS == 45

Weighted(opp) ==
    IF opp.weighted # None THEN opp.weighted
    ELSE IF opp.probability # None THEN (opp.arr * opp.probability) \div 1000 ELSE 0

\* _days_in_stage: as exported, else since the stage was entered.
DaysInStage(opp, drift) ==
    IF opp.stageDays # None THEN opp.stageDays
    ELSE IF opp.entered = None THEN 0 ELSE Greatest(0, AsOfImport(opp.entered, drift))

IsStale(opp, drift) ==
    IF opp.idleDays # None THEN Beyond(AsOfImport(opp.idleDays, drift), STALE_ACTIVITY_DAYS)
    ELSE DaysInStage(opp, drift) > STAGE_AGING_DAYS

\* The weighted ARR is off what the probability implies.
IsMismatched(opp) ==
    /\ opp.probability # None /\ opp.weighted # None
    /\ LET off == opp.weighted - (opp.arr * opp.probability) \div 1000
       IN  Greatest(off, -off) > Greatest(5000, opp.arr \div 20)

IsPipelineIssue(issue, opp, drift) ==
    CASE issue = "slipped" -> opp.close # None /\ opp.prior # None /\ opp.close > opp.prior
      [] issue = "aged" -> DaysInStage(opp, drift) > STAGE_AGING_DAYS
      [] issue = "stale" -> IsStale(opp, drift)
      [] issue = "owner" -> opp.moved
      [] issue = "override" -> opp.override
      [] issue = "mismatch" -> IsMismatched(opp)
      [] issue = "no_probability" -> opp.probability = None

PipelineIssues == {"slipped", "aged", "stale", "owner", "override", "mismatch", "no_probability"}

\* The accounts that go by several names.
ManyAccounts(opps) ==
    {key \in {opps[k].key : k \in DOMAIN opps} :
        Cardinality({opps[k].account : k \in {j \in DOMAIN opps : opps[j].key = key}} \ {""}) > 1}

PipelineSummary(opps, drift) ==
    LET counted == Counted(PipelineIssues, opps, LAMBDA issue, opp : IsPipelineIssue(issue, opp, drift))
    IN  [counted |-> counted, accounts |-> ManyAccounts(opps),
         issues |-> IssueCount(counted) + Cardinality(ManyAccounts(opps)),
         weighted |-> MapThenSumSet(LAMBDA k : Weighted(opps[k]), DOMAIN opps)]

(***************************************************************************)
(* Headcount.                                                              *)
(***************************************************************************)
IsPartlyApproved(row) ==
    row.approval = "partial" \/ (row.approved \notin {None, 0} /\ row.approved < row.count)

IsHeadcountIssue(issue, row) ==
    CASE issue = "slipped" -> row.slip > 0
      [] issue = "contractor" -> row.contractor
      [] issue = "backfill" -> row.backfill
      [] issue = "partial" -> IsPartlyApproved(row)
      [] issue = "unapproved" -> ~IsPartlyApproved(row) /\ row.approval \in {"pending", "unapproved", "not_approved", "missing", "unknown"}
      [] issue = "drift" -> row.mapped # "" /\ row.mapped # row.team

HeadcountIssues == {"slipped", "contractor", "backfill", "partial", "unapproved", "drift"}

\* The part of the cost that is not approved, in whole dollars.
CostAtRisk(row) ==
    LET approved == IF row.approved = None THEN 0 ELSE row.approved
    IN  IF IsPartlyApproved(row) THEN (row.cost * Greatest(0, row.count - approved)) \div Greatest(1, row.count)
        ELSE IF IsHeadcountIssue("unapproved", row) THEN row.cost ELSE 0

\* Contractors and backfills are counted by the head, a row without heads as one.
HeadcountSummary(rows) ==
    LET counted == Counted(HeadcountIssues, rows, IsHeadcountIssue)
        more(k) == Greatest(1, rows[k].count) - 1
        Heads(issue) == MapThenSumSet(more, counted[issue])
    IN  [counted |-> counted, issues |-> IssueCount(counted) + Heads("contractor") + Heads("backfill"),
         atRisk |-> MapThenSumSet(LAMBDA k : CostAtRisk(rows[k]), DOMAIN rows)]
=============================================================================
