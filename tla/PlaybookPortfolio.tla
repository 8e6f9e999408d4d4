------------------------- MODULE PlaybookPortfolio -------------------------
(***************************************************************************)
(* What is made of several plans: compare_playbooks                        *)
(* (agent/src/playbooks.py) scores playbooks for one decision and          *)
(* recommends some of them together, run_sensitivity                       *)
(* (agent/src/stress_tests.py) sweeps one dial of the base plan.           *)
(*                                                                         *)
(* The plans are OperatingPlan's.  Normalised criteria are thousandths,    *)
(* scores tenths of a point, weights of a portfolio hundredths.            *)
(*                                                                         *)
(* Definitions marked "Mutation:" are plausible bugs in the definition     *)
(* that follows them.                                                      *)
(***************************************************************************)
EXTENDS OperatingPlan

CONSTANT Requests \* playbooks a caller may compare: sequences of their names

\* Names that are not playbooks' are dropped, and without any name all are compared.
ASSUME PortfolioAssumption == Requests \subseteq Seq(DOMAIN PLAYBOOKS) \ {<<>>}

VARIABLES
    portfolio, \* the comparison that was made
    sweep      \* the sweep that was made

Nothing == [done |-> FALSE]

(***************************************************************************)
(* The comparison.                                                         *)
(***************************************************************************)
\* build_plan, all at once.
Built(draft) == Completed([draft EXCEPT !.rows = Trajectory(draft.book, draft.dials, draft.steps, draft.horizon)])

PORTFOLIO_WEIGHTS ==
    [runway |-> 28, liquidity |-> 22, growth |-> 20, compliance |-> 15, efficiency |-> 10, dilution |-> 5]
Criteria == DOMAIN PORTFOLIO_WEIGHTS
HigherIsBetter == {"runway", "liquidity", "growth"}

SeverityWeight(severity) ==
    CASE severity = "critical" -> 8 [] severity = "high" -> 4 [] severity = "warning" -> 2 [] OTHER -> 1

\* _candidate_metrics: a plan that burns nothing has three horizons of runway.
Metrics(p) ==
    [runway |-> IF p.summary.lowestRunway = None THEN 30 * p.horizon ELSE p.summary.lowestRunway,
     liquidity |-> p.summary.minCash,
     growth |-> p.summary.endingArr,
     compliance |-> Sum([b \in p.blockers |-> SeverityWeight(b.severity)]),
     efficiency |-> IF p.summary.positive = 0 THEN p.horizon + 1 ELSE p.summary.positive,
     dilution |-> p.capital.dilution]

\* Mutation: more of every criterion is better.
NormalizeOneWay(values, k, higher) ==
    LET all == {values[i] : i \in DOMAIN values}
    IN  IF Max(all) = Min(all) THEN 500 ELSE Thousandths(values[k] - Min(all), Max(all) - Min(all))

Normalize(values, k, higher) ==
    LET all == {values[i] : i \in DOMAIN values}
    IN  IF Max(all) = Min(all) THEN 500
        ELSE IF higher THEN Thousandths(values[k] - Min(all), Max(all) - Min(all))
        ELSE Thousandths(Max(all) - values[k], Max(all) - Min(all))

Score(metrics, k) ==
    LET weighted == [c \in Criteria |->
                        PORTFOLIO_WEIGHTS[c] *
                            Normalize([i \in DOMAIN metrics |-> metrics[i][c]], k, c \in HigherIsBetter)]
    IN  Rounded(Sum(weighted), 100)

\* Best first; of equals the one that was asked for first.
Ranked(scores) ==
    LET before(i) == {j \in DOMAIN scores : \/ scores[j] > scores[i]
                                            \/ scores[j] = scores[i] /\ j < i}
    IN  [rank \in DOMAIN scores |-> CHOOSE i \in DOMAIN scores : Cardinality(before(i)) = rank - 1]

Pick(id, role, weight) == [id |-> id, role |-> role, weight |-> weight]

\* _recommend_portfolio: the best, the vendors' savings if they are among the
\* candidates, and for a best that breaches a guardrail what steadies it.
Recommend(ids, best, plans) ==
    LET offered(id) == id \in Range(ids) /\ id # ids[best]
        breaches == plans[best].summary.floor # 0 \/ plans[best].summary.buffer # 0
        savings  == IF offered("renegotiate_vendors")
                    THEN <<Pick("renegotiate_vendors", "no_regret", 20)>> ELSE <<>>
        steady   == CASE breaches /\ offered("financing_bridge") ->
                            <<Pick("financing_bridge", "stabilizer", 20)>>
                      [] breaches /\ ~offered("financing_bridge") /\ offered("extend_runway") ->
                            <<Pick("extend_runway", "stabilizer", 20)>>
                      [] OTHER -> <<>>
        picks    == <<Pick(ids[best], "primary", 60)>> \o savings \o steady
        total    == 60 + 20 * (Len(picks) - 1)
    IN  [k \in DOMAIN picks |-> [picks[k] EXCEPT !.weight = Rounded(100 * @, total)]]

\* The same sequence, whose elements the model checker computes only once.
Each(seq) == SubSeq(seq, 1, Len(seq))

Comparison(ids, plans, metrics, scores, ranking) ==
    [done |-> TRUE, ids |-> ids, metrics |-> metrics, scores |-> scores, ranking |-> ranking,
     breaches |-> [k \in DOMAIN ids |-> plans[k].summary.floor # 0 \/ plans[k].summary.buffer # 0],
     picks |-> Recommend(ids, ranking[1], plans)]

Scored(ids, plans, metrics) ==
    LET scores == Each([k \in DOMAIN ids |-> Score(metrics, k)])
    IN  Comparison(ids, plans, metrics, scores, Ranked(scores))

Compared(ids, book, horizon) ==
    LET plans == Each([k \in DOMAIN ids |-> Built(Draft(PLAYBOOKS[ids[k]], book, NoDials, horizon))])
    IN  Scored(ids, plans, Each([k \in DOMAIN ids |-> Metrics(plans[k])]))

ComparePlaybooks ==
    /\ portfolio = Nothing
    /\ \E ids \in Requests, book \in Books, horizon \in Horizons : portfolio' = Compared(ids, book, horizon)
    /\ UNCHANGED sweep

(***************************************************************************)
(* The sweep.                                                              *)
(***************************************************************************)
Delayed(steps, offset) == [k \in DOMAIN steps |-> [steps[k] EXCEPT !.start = Greatest(1, @ + offset)]]

SWEEPS ==
    [churn |-> <<10, 18, 25, 35, 50>>, conversion |-> <<200, 260, 320, 400, 500>>,
     margin |-> <<700, 740, 780, 820, 860>>, hiring_start |-> <<0, 1, 2, 3, 4>>,
     vendor_savings |-> <<0, 3000, 6000, 9000, 12000>>, financing_close |-> <<2, 4, 6, 8, 10>>]

\* The base plan with one thing changed.
Swept(variable, v, book) ==
    LET base == BaseDials(book)
    IN  CASE variable = "hiring_start" -> [dials |-> base, steps |-> Delayed(HiringPlan, v)]
          [] variable = "vendor_savings" ->
                 [dials |-> base, steps |-> Append(HiringPlan, Step("vendor_savings", 2, v))]
          [] variable = "financing_close" ->
                 [dials |-> base, steps |-> Append(HiringPlan, Raise(v, 3000000))]
          [] OTHER -> [dials |-> [base EXCEPT ![variable] = v], steps |-> HiringPlan]

\* run_sensitivity, on the lowest cash of the plan.
Swing(outputs) == Max(Range(outputs)) - Min(Range(outputs))
Direction(outputs) ==
    LET pairs == 1..(Len(outputs) - 1)
    IN  IF \A k \in pairs : outputs[k + 1] >= outputs[k] THEN "increases"
        ELSE IF \A k \in pairs : outputs[k + 1] <= outputs[k] THEN "decreases"
        ELSE "non-monotonic"

Sweep(variable, outputs) ==
    [done |-> TRUE, variable |-> variable, outputs |-> outputs,
     swing |-> Swing(outputs), direction |-> Direction(outputs)]

RunSensitivity ==
    /\ sweep = Nothing
    /\ \E variable \in DOMAIN SWEEPS, book \in Books, horizon \in Horizons :
           LET LowestCash(p) == Summary(Trajectory(book, p.dials, p.steps, horizon)).minCash
           IN  sweep' = Sweep(variable, Each([k \in DOMAIN SWEEPS[variable] |->
                                                  LowestCash(Swept(variable, SWEEPS[variable][k], book))]))
    /\ UNCHANGED portfolio

PortfolioInit == portfolio = Nothing /\ sweep = Nothing
PortfolioNext == ComparePlaybooks \/ RunSensitivity

PortfolioSpec == PortfolioInit /\ [][PortfolioNext]_<<portfolio, sweep>>

(***************************************************************************)
(* Properties.                                                             *)
(***************************************************************************)
AsGood(better, worse) ==
    \A c \in Criteria : IF c \in HigherIsBetter THEN better[c] >= worse[c] ELSE better[c] <= worse[c]

TheBestIsNotBeaten ==
    portfolio.done =>
        /\ \A i, j \in DOMAIN portfolio.ids :
               AsGood(portfolio.metrics[i], portfolio.metrics[j]) => portfolio.scores[i] >= portfolio.scores[j]
        /\ \A k \in 1..(Len(portfolio.ranking) - 1) :
               portfolio.scores[portfolio.ranking[k]] >= portfolio.scores[portfolio.ranking[k + 1]]

ThePortfolioIsAChoice ==
    portfolio.done =>
        LET picks == portfolio.picks
            best  == portfolio.ranking[1]
        IN  /\ \A k \in DOMAIN picks : picks[k].id \in Range(portfolio.ids)
            /\ \A k, l \in DOMAIN picks : picks[k].id = picks[l].id => k = l
            /\ Sum([k \in DOMAIN picks |-> picks[k].weight]) = 100
            /\ portfolio.breaches[best] /\ (\A k \in DOMAIN picks : picks[k].role # "stabilizer") =>
                   Range(portfolio.ids) \cap {"financing_bridge", "extend_runway"} \subseteq {portfolio.ids[best]}

Expected(variable) == IF variable \in {"churn", "financing_close"} THEN "decreases" ELSE "increases"

SweepsKnowTheirDirection ==
    sweep.done /\ sweep.swing # 0 => sweep.direction = Expected(sweep.variable)

\* Books in which nothing runs the wrong way: revenue, margin and new business are
\* not negative, and churn is a share.  With a negative margin more revenue costs
\* more, and every lever of revenue turns.
OrdinaryBook(book) ==
    /\ book.mrr >= 0 /\ 0 <= book.churn /\ book.churn <= 1000 /\ book.margin >= 0
    /\ book.growth + book.churn >= 0
OrdinaryBooks == \A book \in Books : OrdinaryBook(book)

\* What the comparisons say is true of the projections they compare.  A playbook
\* that is at least as good as another on every criterion scores at least as much,
\* whatever else is compared and however the scores are rounded; the portfolio is
\* a choice among what was compared, no playbook twice, its weights a whole; a
\* best that breaches a guardrail goes without a stabilizer only when nothing
\* that steadies it was compared; and a sweep that moves the lowest cash at all
\* moves it the way the lever works: churn and a late raise lower it; conversion,
\* margin, savings and late hires raise it (compare_playbooks, run_sensitivity).
\* What is said of sweeps is said of ordinary books.
ComparisonsAreTrue == TheBestIsNotBeaten /\ ThePortfolioIsAChoice /\ SweepsKnowTheirDirection
=============================================================================
