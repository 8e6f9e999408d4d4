--------------------------- MODULE ScenarioBranch ---------------------------
(***************************************************************************)
(* The scenario engine (agent/src/scenario_engine.py): the live company is *)
(* forked, the changes of a branch are applied to the fork one after the   *)
(* other, and metrics, board constraints and an 18-month projection are    *)
(* read off the result.                                                    *)
(*                                                                         *)
(* An amount is in hundreds of dollars, a runway in tenths of a month, a   *)
(* burn multiple in hundredths, a margin in ten-thousandths, a percentage  *)
(* in thousandths.  The document of a vendor and the cohort of a segment,  *)
(* which the engine looks up in Redis, are part of the change that names   *)
(* them.  Labels and the summary's wording are left out.                   *)
(*                                                                         *)
(* Definitions marked "Mutation:" are plausible bugs in the definition     *)
(* that follows them.                                                      *)
(***************************************************************************)
EXTENDS Amounts, Sequences, FiniteSetsExt, SequencesExt

CONSTANTS
    LiveCompanies, \* states the live company may be in
    ChangeLists    \* lists of changes a caller may ask for

MONTHS == 18
DEFAULT_ROLE_COST == 160

\* The defaults of BoardPolicy: floor of the runway, cash buffer, ceiling of
\* the burn multiple, floor of the margin, growth of the net burn in percent,
\* commitments that need the CFO and the board.
BoardPolicy ==
    [runway |-> 90, buffer |-> 15000, multiple |-> 200, margin |-> 7000, growth |-> 8, cfo |-> 500, board |-> 1500]

\* The live company, and the changes with the fields that the engine reads of
\* each type.
States ==
    [cash : Int, revenue : Int, cogs : Int, opex : Int, mrr : Int, arr : Int, headcount : Int,
     netNew : Int, cac : Int, customers : Int]

Changes ==
    [type : {"hire"}, roles : Int, monthly : Int \cup {None}, adds : Int]
    \cup [type : {"opex_change"}, monthly : Int, adds : Int]
    \cup [type : {"vendor_renegotiation"}, old : Int, new : Int, adds : Int]
    \cup [type : {"revenue_slip"}, amount : Int \cup {None}, pct : Int, adds : Int]
    \cup [type : {"churn_shock"}, amount : Int \cup {None}, pct : Int, segment : Int, adds : Int]
    \cup [type : {"compliance_blocker", "financing", "capex"}, amount : Int, adds : Int]

ASSUME InputsAssumption == LiveCompanies \subseteq States /\ ChangeLists \subseteq Seq(Changes)

VARIABLE branch \* the branch that was evaluated

NoBranch == [evaluated |-> FALSE]

(***************************************************************************)
(* The changes.                                                            *)
(***************************************************************************)
Percent(amount, pct) == (amount * pct) \div 1000

\* What a hire, a change of costs or a vendor's new price adds to a month.
MonthlyCost(c) ==
    CASE c.type = "hire" -> IF c.monthly = None THEN c.roles * DEFAULT_ROLE_COST ELSE c.monthly
      [] c.type = "opex_change" -> c.monthly
      [] c.type = "vendor_renegotiation" -> (c.new - c.old) \div 12
      [] OTHER -> 0

\* Revenue that slips, or that churns from a segment; an unknown segment
\* stands for the whole book.
Lost(s, c) ==
    LET book == CASE c.type = "revenue_slip" -> s.revenue
                  [] c.type = "churn_shock" /\ c.segment > 0 -> c.segment
                  [] OTHER -> s.mrr
    IN  IF c.type \notin {"revenue_slip", "churn_shock"} THEN 0
        ELSE IF c.amount # None THEN c.amount ELSE Percent(book, c.pct)

Commitment(c) ==
    CASE c.type = "hire" -> 12 * MonthlyCost(c)
      [] c.type = "opex_change" -> 12 * Greatest(c.monthly, -c.monthly)
      [] c.type = "vendor_renegotiation" -> c.new
      [] c.type = "capex" -> c.amount
      [] OTHER -> 0

\* _apply_change: what the change does of itself, and then the recurring
\* revenue that any change may bring.
Apply(s, c) ==
    LET lost == Lost(s, c)
        Kept(amount, loss) ==
            IF c.type \in {"revenue_slip", "churn_shock"} THEN Greatest(0, amount - loss) ELSE amount
        left == IF c.type = "compliance_blocker" THEN Greatest(0, s.netNew - c.amount)
                ELSE s.netNew - 12 * lost
    IN  [s EXCEPT !.opex = @ + MonthlyCost(c),
                  !.headcount = @ + (IF c.type = "hire" THEN c.roles ELSE 0),
                  !.cash = @ + (IF c.type = "financing" THEN c.amount
                                ELSE IF c.type = "capex" THEN -c.amount ELSE 0),
                  !.revenue = Kept(@, lost) + c.adds,
                  !.mrr = Kept(@, lost) + c.adds,
                  !.arr = Kept(@, 12 * lost) + 12 * c.adds,
                  !.netNew = left + 12 * c.adds]

(***************************************************************************)
(* The metrics.                                                            *)
(***************************************************************************)
MetricsOf(s) ==
    LET burn    == s.cogs + s.opex - s.revenue
        margin  == IF s.revenue > 0 THEN Rounded(10000 * (s.revenue - s.cogs), s.revenue) ELSE 0
        account == s.mrr * margin
    IN  [cash |-> s.cash, revenue |-> s.revenue, opex |-> s.opex, arr |-> s.arr,
         netNew |-> s.netNew, headcount |-> s.headcount, burn |-> burn, margin |-> margin,
         runway |-> IF burn > 0 THEN Rounded(10 * s.cash, burn) ELSE None,
         multiple |-> IF burn > 0 /\ s.netNew > 0 THEN Rounded(1200 * burn, s.netNew) ELSE None,
         payback |-> IF account > 0 /\ s.cac > 0 THEN Rounded(100000 * s.cac * s.customers, account) ELSE None]

Deltas(before, after) ==
    [key \in {"runway", "burn", "margin", "multiple", "payback", "cash", "arr"} |->
        IF before[key] = None \/ after[key] = None THEN None ELSE after[key] - before[key]]

(***************************************************************************)
(* The board's constraints.                                                *)
(***************************************************************************)
ViolationIf(condition, code, severity) ==
    IF condition THEN {[code |-> code, severity |-> severity]} ELSE {}

\* Mutation: the commitment that was made last.
LargestLast(commitments) == IF commitments = <<>> THEN 0 ELSE Last(commitments)

Largest(commitments) == IF commitments = <<>> THEN 0 ELSE Max(Range(commitments))

Violations(after, before, commitments) ==
    LET largest == Largest(commitments)
        policy  == BoardPolicy
    IN  ViolationIf(after.runway # None /\ after.runway < policy.runway, "min_runway_months",
                    IF after.runway < policy.runway - 30 THEN "high" ELSE "medium")
        \cup ViolationIf(after.cash < policy.buffer, "min_cash_buffer", "high")
        \cup ViolationIf(after.multiple # None /\ after.multiple > policy.multiple, "max_burn_multiple", "medium")
        \cup ViolationIf(after.margin < policy.margin, "min_gross_margin", "medium")
        \cup ViolationIf(before.burn > 0 /\ 100 * (after.burn - before.burn) > policy.growth * before.burn,
                         "max_netburn_growth", "medium")
        \cup ViolationIf(largest > policy.board, "board_notify", "medium")
        \cup ViolationIf(largest > policy.cfo /\ largest <= policy.board, "cfo_approval", "low")

(***************************************************************************)
(* The projection.                                                         *)
(***************************************************************************)
\* _projection: the cash at the end of each month, up to the one it ends in.
Projection(after) ==
    LET cash(i) == after.cash - i * after.burn
        dry     == {i \in 1..MONTHS : cash(i) <= 0}
    IN  [i \in 1..(IF dry = {} THEN MONTHS ELSE Min(dry)) |-> cash(i)]

(***************************************************************************)
(* The branch.                                                             *)
(***************************************************************************)
Evaluated(company, changes) ==
    LET before      == MetricsOf(company)
        after       == MetricsOf(FoldLeft(Apply, company, changes))
        commitments == [k \in DOMAIN changes |-> Commitment(changes[k])]
    IN  [evaluated |-> TRUE, company |-> company, changes |-> changes,
         baseline |-> before, projected |-> after, deltas |-> Deltas(before, after),
         violations |-> Violations(after, before, commitments), projection |-> Projection(after)]

\* create_scenario; its document and its event are written together, and a
\* failing event is swallowed.
CreateScenario ==
    /\ branch = NoBranch
    /\ \E company \in LiveCompanies, changes \in ChangeLists : branch' = Evaluated(company, changes)

BranchInit == branch = NoBranch
BranchNext == CreateScenario
BranchSpec == BranchInit /\ [][BranchNext]_branch

(***************************************************************************)
(* Properties.                                                             *)
(***************************************************************************)
\* What only costs.
Costs ==
    {[type |-> "hire", roles |-> 1, monthly |-> None, adds |-> 0],
     [type |-> "opex_change", monthly |-> 60, adds |-> 0],
     [type |-> "capex", amount |-> 700, adds |-> 0]}

Codes(violations) == {v.code : v \in violations}

SpendingClearsNothing ==
    branch.evaluated =>
        \A cost \in Costs :
            LET more == Codes(Evaluated(branch.company, Append(branch.changes, cost)).violations)
            IN  Codes(branch.violations) \ more \subseteq
                    (IF "board_notify" \in more THEN {"cfo_approval"} ELSE {})

ProjectionIsTheRunway ==
    branch.evaluated /\ branch.projected.runway # None /\ branch.projected.cash > 0 =>
        LET n      == Len(branch.projection)
            runway == branch.projected.runway
        IN  IF branch.projection[n] <= 0
            THEN 10 * (n - 1) <= runway /\ runway <= 10 * n
            ELSE runway >= 10 * MONTHS

\* A branch adds up.  It cannot be brought within the board's constraints by
\* spending more: another change that only costs removes none of them, but for an
\* approval by the CFO that becomes a matter of the board (_violations).  And the
\* projection and the runway, computed apart, tell the same story: cash that ends
\* within the projection ends in the month that the runway names, up to the
\* rounding of a runway to a tenth (_projection, _metrics_from_state).
BranchesAddUp == SpendingClearsNothing /\ ProjectionIsTheRunway
=============================================================================
