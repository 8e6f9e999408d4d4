--------------------------- MODULE OperatingPlan ---------------------------
(***************************************************************************)
(* The strategic planning engine (agent/src/planning.py) on the playbooks  *)
(* (agent/src/playbooks.py): the steps of a plan, the projection of cash   *)
(* month by month, the summary, the capital plan, the milestones and the   *)
(* policy blockers.                                                        *)
(*                                                                         *)
(* The projection is a loop; a step of it is a step here.  Amounts are     *)
(* whole dollars, rates thousandths, runways tenths of a month; a fraction *)
(* of a dollar is dropped.  The playbooks are those of the code, with the  *)
(* text of a step reduced to whether it ties a hire to revenue, security   *)
(* or automation.  Narratives and wording are left out.                    *)
(*                                                                         *)
(* Definitions marked "Mutation:" are plausible bugs in the definition     *)
(* that follows them.                                                      *)
(***************************************************************************)
EXTENDS Amounts, Sequences, FiniteSetsExt, SequencesExt

CONSTANTS
    Books,     \* financial records a plan may start from
    Overrides, \* dials a caller may set: records over names of dials
    Horizons   \* months a plan may cover

BASE_CONVERSION == 320
RUNWAY_FLOOR == 90
CASH_BUFFER_FLOOR == 1500000
BOARD_NOTIFY_ANNUAL == 150000
CFO_APPROVAL_ANNUAL == 50000

ASSUME PlanAssumption ==
    /\ Horizons \subseteq Nat \ {0}
    /\ Books \subseteq [cash : Int, mrr : Int, opex : Int, headcount : Int,
                       growth : Int, churn : Int, margin : Int]
    /\ \A dials \in Overrides : \A name \in DOMAIN dials : dials[name] \in Int

VARIABLE plan \* the plan that is being made

NoPlan == [phase |-> "none"]

(***************************************************************************)
(* The steps of a plan.                                                    *)
(***************************************************************************)
Step(kind, start, cost) ==
    [kind |-> kind, start |-> start, cost |-> cost, oneTime |-> 0, revenue |-> 0, rise |-> 3,
     ramp |-> IF kind = "hire" THEN 2 ELSE 1, roles |-> 0, finance |-> 0, tied |-> FALSE]

Hire(start, cost, roles, tied) == [Step("hire", start, cost) EXCEPT !.roles = roles, !.tied = tied]
Raise(start, amount) == [Step("financing", start, 0) EXCEPT !.finance = amount]
Earning(step, revenue, rise) == [step EXCEPT !.revenue = revenue, !.rise = rise]

\* default_hire_steps, on the hiring plan that data/seed.py stores.
HiringPlan == <<Hire(2, 95000, 5, TRUE), Hire(1, 42000, 3, FALSE), Hire(3, 38000, 2, FALSE)>>

ExtendRunway ==
    <<Step("vendor_savings", 2, 5500), Step("vendor_savings", 3, 1750), Step("cut", 1, 18000),
      Hire(1, 42000, 3, FALSE), Hire(4, 95000, 5, TRUE)>>

UnblockEnterprise ==
    <<[Step("spend", 1, 12000) EXCEPT !.oneTime = 120000], Hire(2, 95000, 5, TRUE),
      Earning(Step("revenue_unlock", 3, 0), 62000, 4)>>

RenegotiateVendors ==
    <<Step("vendor_savings", 2, 6000), Step("vendor_savings", 3, 1750),
      Step("vendor_savings", 2, 1400), Step("vendor_savings", 4, 2500)>>

HireAgainstRevenue ==
    <<Earning(Hire(1, 42000, 3, FALSE), 25600, 3), Earning(Hire(3, 38000, 2, TRUE), 38400, 4)>>

FinancingBridge == <<Raise(4, 3000000), Hire(1, 42000, 3, FALSE), Hire(2, 95000, 5, TRUE)>>

GrowthToEfficiency ==
    <<Step("cut", 1, 60000), Step("cut", 3, 0), Step("policy", 2, 0), Hire(1, 28000, 2, FALSE)>>

RecoverPipeline ==
    <<Step("policy", 1, 0), Earning(Hire(1, 28000, 2, FALSE), 9000, 3),
      Earning(Step("spend", 2, 6000), 14000, 4)>>

\* What a playbook sets besides its steps: the dials, and the dilution of the
\* raise, in tenths of a percent.
NoDials == [none |-> 0]
Playbook(steps, dials, dilution) == [steps |-> steps, dials |-> dials, dilution |-> dilution]

PLAYBOOKS ==
    [extend_runway        |-> Playbook(ExtendRunway, NoDials, 0),
     unblock_enterprise   |-> Playbook(UnblockEnterprise, NoDials, 0),
     renegotiate_vendors  |-> Playbook(RenegotiateVendors, NoDials, 0),
     hire_against_revenue |-> Playbook(HireAgainstRevenue, [conversion |-> 360], 0),
     financing_bridge     |-> Playbook(FinancingBridge, NoDials, 81),
     growth_to_efficiency |-> Playbook(GrowthToEfficiency, [growth |-> 50, conversion |-> 240, margin |-> 800], 0),
     recover_pipeline     |-> Playbook(RecoverPipeline, [conversion |-> 240, churn |-> 22], 0)]

BasePlan == Playbook(HiringPlan, NoDials, 0)

(***************************************************************************)
(* The dials, and what the steps compile to.                               *)
(***************************************************************************)
\* The new business runs at the growth and the churn that the books show.
BaseDials(book) ==
    [growth |-> book.growth, churn |-> book.churn, margin |-> book.margin,
     conversion |-> BASE_CONVERSION, opexGrowth |-> 0, newBusinessRamp |-> 0,
     baseGrowth |-> book.growth, baseChurn |-> book.churn]

Turned(dials, overrides) ==
    [name \in DOMAIN dials |-> IF name \in DOMAIN overrides THEN overrides[name] ELSE dials[name]]

Share(amount, thousandths) == (amount * thousandths) \div 1000

RampFraction(amount, i, start, ramp) ==
    IF i < start THEN 0
    ELSE IF ramp <= 1 THEN amount ELSE (amount * Least(ramp, i - start + 1)) \div ramp

RampFlow(amount, i, start, ramp) ==
    IF start <= i /\ i < start + Greatest(ramp, 1) THEN amount \div Greatest(ramp, 1) ELSE 0

OpexDelta(s) ==
    CASE s.kind \in {"hire", "spend", "revenue_unlock"} -> s.cost
      [] s.kind \in {"vendor_savings", "cut"} -> -s.cost
      [] OTHER -> 0

OneTimeCost(s) == IF s.kind \in {"spend", "revenue_unlock"} THEN s.oneTime ELSE 0
Unlocked(s) == IF s.kind \in {"hire", "spend", "revenue_unlock"} THEN s.revenue ELSE 0

\* Mutation: what a raise brings arrives every month from the close on.
InflowFromClose(s, i) == IF s.kind = "financing" /\ s.start <= i THEN s.finance ELSE 0

Inflow(s, i) == IF s.kind = "financing" /\ s.start = i THEN s.finance ELSE 0

\* What a step does in month i: revenue it unlocks, cost it adds, cost it causes
\* once, roles it fills.
FlowOf(s, i) == RampFlow(Unlocked(s), i, s.start, s.rise)
CostOf(s, i) == RampFraction(OpexDelta(s), i, s.start, s.ramp)
OnceOf(s, i) == IF s.start = i THEN OneTimeCost(s) ELSE 0
RolesOf(s, i) == IF s.kind = "hire" /\ i >= s.start THEN s.roles ELSE 0

Sum(amounts) == FoldFunction(+, 0, amounts)

Compounded(amount, rate, n) ==
    LET after[k \in 0..n] == IF k = 0 THEN amount ELSE after[k - 1] + Share(after[k - 1], rate)
    IN  after[n]

(***************************************************************************)
(* The projection.                                                         *)
(***************************************************************************)
Runway(cash, net) == IF net > 0 THEN Rounded(10 * cash, net) ELSE None

\* A month that has earned and spent, and the cash it leaves.
Closed(row, cash) == [row EXCEPT !.cash = cash, !.runway = Runway(cash, row.net)]
Banked(row) == Closed(row, row.cash - row.net - row.once + row.inflow)
NetBurn(mrr, opex, margin) == mrr - Share(mrr, margin) + opex - mrr

\* One month: new business and churn, the costs, the cash.
MonthAfter(book, dials, steps, before, i) ==
    LET run  == (Share(book.mrr, dials.baseGrowth + dials.baseChurn) * dials.conversion) \div BASE_CONVERSION
        new  == Compounded(run, dials.newBusinessRamp, i - 1) + Sum([k \in DOMAIN steps |-> FlowOf(steps[k], i)])
        mrr  == Greatest(0, before.mrr - Share(before.mrr, dials.churn) + new)
        opex == Greatest(0, Compounded(book.opex, dials.opexGrowth, i - 1)
                                + Sum([k \in DOMAIN steps |-> CostOf(steps[k], i)]))
    IN  Banked([month |-> i, mrr |-> mrr, opex |-> opex, net |-> NetBurn(mrr, opex, dials.margin),
                once |-> Sum([k \in DOMAIN steps |-> OnceOf(steps[k], i)]),
                inflow |-> Sum([k \in DOMAIN steps |-> Inflow(steps[k], i)]),
                headcount |-> book.headcount + Sum([k \in DOMAIN steps |-> RolesOf(steps[k], i)]),
                cash |-> before.cash, runway |-> None])

Opening(book) == [mrr |-> book.mrr, cash |-> book.cash]

Trajectory(book, dials, steps, horizon) ==
    LET row[i \in 0..horizon] ==
            IF i = 0 THEN Opening(book) ELSE MonthAfter(book, dials, steps, row[i - 1], i)
    IN  [i \in 1..horizon |-> row[i]]

(***************************************************************************)
(* The summary, the capital plan, the milestones and the blockers.         *)
(***************************************************************************)
First(months) == IF months = {} THEN 0 ELSE Min(months)

Burning(rows) == {rows[i].runway : i \in {k \in DOMAIN rows : rows[k].runway # None}}
Lowest(runways) == IF runways = {} THEN None ELSE Min(runways)
BelowFloor(row) == row.runway # None /\ row.runway < RUNWAY_FLOOR

Summary(rows) ==
    [minCash |-> Min({rows[i].cash : i \in DOMAIN rows}),
     lowestRunway |-> Lowest(Burning(rows)),
     endingArr |-> 12 * rows[Len(rows)].mrr,
     floor |-> First({i \in DOMAIN rows : BelowFloor(rows[i])}),
     buffer |-> First({i \in DOMAIN rows : rows[i].cash < CASH_BUFFER_FLOOR}),
     insolvent |-> First({i \in DOMAIN rows : rows[i].cash < 0}),
     positive |-> First({i \in DOMAIN rows : rows[i].net <= 0})]

\* The steps but for those at K; the others keep their numbers.
Without(steps, K) == Restrict(steps, DOMAIN steps \ K)

\* The first raise of the steps; its close is shown within the horizon.  The
\* extension compares with the same plan without any raise.
Extension(runway, without) == IF runway = None \/ without = None THEN None ELSE runway - without

CapitalPlan(p, summary) ==
    LET raises == {k \in DOMAIN p.steps : p.steps[k].kind = "financing"}
        first  == p.steps[Min(raises)]
        bare   == Trajectory(p.book, p.dials, Without(p.steps, raises), p.horizon)
    IN  IF raises = {} \/ first.finance = 0
        THEN [raise |-> 0, close |-> None, shown |-> None, extension |-> None, dilution |-> 0]
        ELSE [raise |-> first.finance, close |-> first.start,
              shown |-> Least(first.start, p.horizon), dilution |-> p.dilution,
              extension |-> Extension(summary.lowestRunway, Summary(bare).lowestRunway)]

\* A checkpoint of the board's, and one for every step, within the horizon.
Milestones(p, summary) ==
    {[id |-> "runway-floor", step |-> 0, status |-> IF summary.floor # 0 THEN "missed" ELSE "on_track",
      month |-> IF summary.floor # 0 THEN summary.floor ELSE p.horizon],
     [id |-> "cash-buffer", step |-> 0, status |-> IF summary.buffer # 0 THEN "missed" ELSE "on_track",
      month |-> IF summary.buffer # 0 THEN summary.buffer ELSE p.horizon]}
    \cup (IF summary.positive = 0 THEN {}
          ELSE {[id |-> "cash-flow-positive", step |-> 0, status |-> "on_track", month |-> summary.positive]})
    \cup {[id |-> "step", step |-> k, status |-> "scheduled",
           month |-> Least(Greatest(1, p.steps[k].start), p.horizon)] : k \in DOMAIN p.steps}

Blocker(policy, severity, step) == [policy |-> policy, severity |-> severity, step |-> step]
BlockerIf(condition, policy, severity, step) ==
    IF condition THEN {Blocker(policy, severity, step)} ELSE {}

SpendBlockers(s, k) ==
    LET commit == Greatest(12 * s.cost, s.oneTime)
        spends == s.kind \in {"spend", "revenue_unlock"}
    IN  BlockerIf(spends /\ commit >= BOARD_NOTIFY_ANNUAL, "board_notification", "info", k)
        \cup BlockerIf(spends /\ commit >= CFO_APPROVAL_ANNUAL /\ commit < BOARD_NOTIFY_ANNUAL,
                       "cfo_approval", "info", k)

PolicyBlockers(p, summary, capital) ==
    LET covered == capital.raise # 0 /\ capital.close <= summary.floor
    IN  BlockerIf(summary.floor # 0, "runway_guardrail", IF covered THEN "warning" ELSE "high", 0)
        \cup BlockerIf(summary.buffer # 0, "cash_buffer", "high", 0)
        \cup BlockerIf(summary.insolvent # 0, "solvency", "critical", 0)
        \cup (UNION {SpendBlockers(p.steps[k], k) : k \in DOMAIN p.steps})
        \cup (UNION {BlockerIf(p.steps[k].kind = "hire" /\ p.steps[k].revenue = 0 /\ ~p.steps[k].tied,
                               "headcount", "warning", k) : k \in DOMAIN p.steps})

(***************************************************************************)
(* Making a plan.                                                          *)
(***************************************************************************)
PlanInit == plan = NoPlan

\* The playbook's dials, with the caller's on the base plan (api.py, build).
Draft(playbook, book, overrides, horizon) ==
    [phase |-> "projecting", book |-> book, steps |-> playbook.steps,
     dials |-> Turned(Turned(BaseDials(book), playbook.dials), overrides),
     dilution |-> playbook.dilution, horizon |-> horizon, rows |-> <<>>]

StartPlan ==
    /\ plan = NoPlan
    /\ \E book \in Books, horizon \in Horizons :
           \/ \E id \in DOMAIN PLAYBOOKS : plan' = Draft(PLAYBOOKS[id], book, NoDials, horizon)
           \/ \E overrides \in Overrides : plan' = Draft(BasePlan, book, overrides, horizon)

Projecting == plan.phase = "projecting" /\ Len(plan.rows) < plan.horizon

ProjectMonth ==
    /\ Projecting
    /\ LET n      == Len(plan.rows)
           before == IF n = 0 THEN Opening(plan.book) ELSE plan.rows[n]
       IN  plan' = [plan EXCEPT !.rows =
                        Append(@, MonthAfter(plan.book, plan.dials, plan.steps, before, n + 1))]

\* The summary of the rows, and what is read off it.
Finished(p, summary, capital) ==
    [phase |-> "built", book |-> p.book, steps |-> p.steps, dials |-> p.dials, horizon |-> p.horizon,
     rows |-> p.rows, summary |-> summary, capital |-> capital,
     milestones |-> Milestones(p, summary), blockers |-> PolicyBlockers(p, summary, capital)]

Completed(p) ==
    LET summary == Summary(p.rows) IN Finished(p, summary, CapitalPlan(p, summary))

CompletePlan ==
    /\ plan.phase = "projecting" /\ Len(plan.rows) = plan.horizon
    /\ plan' = Completed(plan)

PlanNext == StartPlan \/ ProjectMonth \/ CompletePlan

PlanSpec == PlanInit /\ [][PlanNext]_plan

(***************************************************************************)
(* Properties.                                                             *)
(***************************************************************************)
Began(steps, k, i) == steps[k].start <= i

CashIsAccounted ==
    plan # NoPlan /\ plan.rows # <<>> =>
        LET n     == Len(plan.rows)
            begun == {k \in DOMAIN plan.steps : Began(plan.steps, k, n)}
        IN  plan.rows[n].cash = plan.book.cash - Sum([i \in 1..n |-> plan.rows[i].net])
                + Sum([k \in begun |-> plan.steps[k].finance - plan.steps[k].oneTime])

Policies(blockers) == {b.policy : b \in blockers}

\* rows and policies: those of the plan without the step.
PaysItsWay(step, rows, policies) ==
    /\ step.kind \in {"hire", "spend"} /\ step.revenue = 0 =>
           /\ \A i \in DOMAIN rows : rows[i].cash >= plan.rows[i].cash
           /\ policies \subseteq Policies(plan.blockers)
    /\ step.kind \in {"vendor_savings", "cut"} =>
           \A i \in DOMAIN rows : rows[i].cash <= plan.rows[i].cash

CostsCostAndSavingsSave ==
    plan.phase = "built" =>
        /\ \A k \in DOMAIN plan.steps :
               LET steps == Without(plan.steps, {k})
                   rows  == Trajectory(plan.book, plan.dials, steps, plan.horizon)
                   other == [phase |-> "projecting", book |-> plan.book, steps |-> steps, dials |-> plan.dials,
                             dilution |-> 0, horizon |-> plan.horizon, rows |-> rows]
               IN  PaysItsWay(plan.steps[k], rows, Policies(Completed(other).blockers))
        /\ plan.capital.extension # None => plan.capital.extension >= 0

\* A plan adds up.  However far the projection is, its cash is the opening cash
\* less the net burn of its months, less the one-time cost and plus the raise of
\* every step that has begun, each of them counted once.  And a step that only
\* costs makes no month of the plan better: without it every month ends with at
\* least as much cash and no new policy is in the way; a step that only saves
\* makes none worse, and a raise never shortens the runway.
PlansAddUp == CashIsAccounted /\ CostsCostAndSavingsSave

\* The dials that a plan presents as its assumptions; stress_tests.py samples
\* "churn, conversion, growth, and margin", and a playbook lowers the growth.
Presented == {"growth", "churn", "margin", "conversion"}

\* A dial that is off what the books show changes the projection.
EveryDialCounts ==
    plan.phase = "built" =>
        \A name \in Presented :
            plan.dials[name] # BaseDials(plan.book)[name] =>
                LET dials == [plan.dials EXCEPT ![name] = BaseDials(plan.book)[name]]
                IN  Trajectory(plan.book, dials, plan.steps, plan.horizon) # plan.rows
=============================================================================
