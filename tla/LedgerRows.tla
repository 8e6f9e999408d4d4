----------------------------- MODULE LedgerRows -----------------------------
(***************************************************************************)
(* How a row of a bank or card export becomes a ledger entry               *)
(* (agent/src/integrations/ledger_normalization.py): the columns it may    *)
(* have its amount in, and what is read out of its texts.                  *)
(*                                                                         *)
(* A row's "words" are the key words that the code's patterns find in its  *)
(* descriptions; its "kind" is the transaction type that the export gives. *)
(* An empty text is a missing one.  What the code keeps for the reader     *)
(* (raw and cleaned texts, card digits, notes) is left out.                *)
(***************************************************************************)
EXTENDS Amounts, SequencesExt, TLC

\* _KNOWN_VENDOR_PATTERNS, the first that is found.
KnownVendors ==
    << [words |-> {"datadog", "data_dog", "ddog"}, id |-> "datadog", name |-> "datadog", category |-> "software"],
       [words |-> {"aws", "amazon_web_services", "amzn_aws"}, id |-> "aws", name |-> "amazon_web_services",
        category |-> "infrastructure"],
       [words |-> {"salesforce", "sales_force", "sfdc"}, id |-> "salesforce", name |-> "salesforce", category |-> "crm"] >>

NobodyKnown == [words |-> {}, id |-> "", name |-> "", category |-> ""]

\* Of a list of rules, each a condition and what follows from it, the first that
\* applies.
FirstOf(rules, otherwise) ==
    LET applying == SelectSeq(rules, LAMBDA r : r[1])
    IN  IF applying = <<>> THEN otherwise ELSE Head(applying)[2]

KnownVendor(row) ==
    LET found(v) == v.words \cap (row.words \cup {row.vendor}) # {}
    IN  FirstOf([i \in DOMAIN KnownVendors |-> <<found(KnownVendors[i]), KnownVendors[i]>>], NobodyKnown)

\* _amount_from_debit_credit: the signed amount, or the sign of its column.
SignedAmount(row) ==
    LET size(x) == IF x = None THEN 0 ELSE Greatest(x, -x)
    IN  FirstOf(<< <<row.amount # None, row.amount>>,
                   <<size(row.debit) # 0, -size(row.debit)>>,
                   <<size(row.credit) # 0, size(row.credit)>> >>, None)

Received(row) == SignedAmount(row) # None /\ SignedAmount(row) > 0

\* _transaction_type.
TransactionType(row) ==
    LET Says(words) == row.words \cap words # {}
    IN  FirstOf(<< <<row.kind # "", row.kind>>,
                   <<Says({"intercompany", "transfer"}), "transfer">>,
                   <<Says({"payroll"}), "payroll">>,
                   <<Says({"fee"}), "fee">>,
                   <<Says({"refund", "reversal"}) \/ (Received(row) /\ Says({"credit"})), "refund">>,
                   <<Says({"card", "visa", "pos"}), "card_charge">>,
                   <<Says({"ach"}), "ach">>,
                   <<Received(row), "cash_in">> >>, "cash_out")

\* _CATEGORY_ALIASES: the source's category in the code's own words, with or without
\* its underscores.  The entry for "software_credit" is none: _norm_key has replaced
\* the underscore it is sought by.
CATEGORY_ALIASES ==
    "not_categorized" :> "uncategorized" @@ "not categorized" :> "uncategorized" @@
    "uncategorised" :> "uncategorized" @@ "cash receipt" :> "revenue" @@ "cash_receipt" :> "revenue" @@
    "bank fee" :> "bank_fees" @@ "wire fee" :> "bank_fees" @@ "intercompany" :> "intercompany_transfer"

\* _infer_category.
NormalizedCategory(row) ==
    LET type == TransactionType(row)
        Says(words) == row.words \cap words # {}
        own == IF row.category \in DOMAIN CATEGORY_ALIASES THEN CATEGORY_ALIASES[row.category] ELSE row.category
    IN  FirstOf(<< <<row.category # "", own>>,
                   <<KnownVendor(row).category # "", KnownVendor(row).category>>,
                   <<type = "payroll" \/ Says({"payroll"}), "payroll">>,
                   <<type = "fee" \/ Says({"fee"}), "bank_fees">>,
                   <<type = "transfer", "intercompany_transfer">>,
                   <<Says({"accrual"}), "accrual">>,
                   <<Says({"parts", "hardware"}), "hardware">>,
                   <<type = "refund" /\ Received(row), "refund">>,
                   <<Received(row), "revenue">> >>, "uncategorized")

\* The columns of a LedgerEntry that the workflows read.  A row without an amount
\* is not accepted.
Accepted(row) == SignedAmount(row) # None

Entry(row) ==
    LET known == KnownVendor(row)
        category == IF row.category # "" THEN row.category ELSE NormalizedCategory(row)
    IN  [id |-> row.id, amount |-> SignedAmount(row), category |-> category,
         vid |-> IF row.vid # "" THEN row.vid ELSE known.id,
         vendor |-> IF row.vendor # "" THEN row.vendor ELSE known.name,
         accrual |-> "accrual" \in row.words \cup {category}]

\* summarize_ledger_normalization: the rows that the import counts, by issue.
LedgerIssues == {"inferred_vendor", "unknown_vendor", "uncategorized", "refund", "fee", "payroll", "transfer", "split"}

IsLedgerIssue(issue, row) ==
    LET type == TransactionType(row)
    IN  CASE issue = "inferred_vendor" -> row.vid = "" /\ KnownVendor(row).id # ""
          [] issue = "unknown_vendor" -> /\ SignedAmount(row) < 0 /\ row.vid = "" /\ KnownVendor(row).id = ""
                                         /\ type \notin {"payroll", "transfer", "fee"}
          [] issue = "uncategorized" -> NormalizedCategory(row) = "uncategorized"
          [] issue = "split" -> row.split /\ type # "transfer"
          [] OTHER -> type = issue

LedgerSummary(rows) == [issue \in LedgerIssues |-> {k \in DOMAIN rows : IsLedgerIssue(issue, rows[k])}]
=============================================================================
