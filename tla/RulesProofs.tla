---------------------------- MODULE RulesProofs ----------------------------
(***************************************************************************)
(* Theorems of the engines that compute what the council is told, with     *)
(* their proofs: GovernanceRules, CouncilRules, CouncilInfluence,          *)
(* ScenarioBranch, OperatingPlan and PlaybookPortfolio.                    *)
(*                                                                         *)
(* Governance.  A request is Governed(q) for some question q that can be   *)
(* asked, and what is claimed of it follows from what the controls, the    *)
(* matrix and the obligations make of any such q.  That a costlier         *)
(* question fares no better is shown control by control: what the cheaper  *)
(* one engages, the costlier one engages for as much.  Only the runway     *)
(* floor is not plain: it is judged by a rounded quotient, which is        *)
(* monotone (RoundedMonotone), or by the runway on record, which is not    *)
(* the decision's at all (HeldByRecord).                                   *)
(*                                                                         *)
(* The council.  Whatever the planner answers, what is enforced of it      *)
(* names every analyst, and every plan it holds of an analyst has the      *)
(* tools of the lane (Planned): whichever of them the search finds, the    *)
(* evidence is whole (BundleIs).  The exchanges are counted: those kept    *)
(* are at most one more than the roles they are from (KeptCounts), those   *)
(* added are of the other roles (LanesCount), so that the five roles make  *)
(* six exchanges at most and the cut takes none of them.                   *)
(*                                                                         *)
(* Influence.  The raw scores of two seats differ by so much and no more   *)
(* (RawIs), and rounding moves a share by a half, or what is left to the   *)
(* last seat by three halves (NormalizedIs).  Whoever leads with no more   *)
(* than the cap of 18 held more than half before it was capped, and all    *)
(* others hold what they had, less than 18 each (LeaderHeldMore); but next *)
(* to so large a share of a seat without citations one that cited twice    *)
(* has at least 18 (ShareIsKept).  Ties at a half are ruled out by the     *)
(* rounding to the even share (TieUp, TieDown).                            *)
(*                                                                         *)
(* Branches.  A branch is Evaluated(company, changes), and the fold of the *)
(* changes is the last of a trace of states (FoldTrace), so that one more  *)
(* change is one more step (FoldStep): what has been spent is compared     *)
(* state by state, metric by metric, constraint by constraint.             *)
(*                                                                         *)
(* Plans.  A plan is a projection of its book, so far or to its horizon    *)
(* (PlanInv).  What its steps come to in a month is a sum, which may be    *)
(* taken apart at any step (PartWithout, PartOfTwo): month by month the    *)
(* cash is the one before it and what starts in the month                  *)
(* (NextAccounts), and of two projections of one book the one that earns   *)
(* as much and costs no more has as much cash in every month (MoreCash)    *)
(* and is below a floor only where the other is (FloorIsShared).  Taking   *)
(* out a step, or the raises, gives two such projections (WithoutACost,    *)
(* WithoutASaving, WithoutRaises).                                         *)
(*                                                                         *)
(* Comparisons.  Each is made at once of what is projected, so that what   *)
(* is said of it needs no more than its operators.  A criterion's points   *)
(* grow with it (NormalizeGrows, by ThousandthsIs), and so does a score    *)
(* (ScoreGrows).  What is before a candidate makes the ranks different     *)
(* (BeforeGrows), so that there is one of each (RankedIs).  A sweep        *)
(* compares two projections month by month: the favoured one stays ahead   *)
(* in revenue and in cash (StaysAhead), because what is left of more       *)
(* after a lower churn is more (KeptGrows); an earlier raise is ahead by   *)
(* itself until the later one closes (EarlierCash).                        *)
(***************************************************************************)
EXTENDS GovernanceRules, CouncilRules, CouncilInfluence, ScenarioBranch, PlaybookPortfolio,
        WellFoundedInduction, SequenceTheorems, FiniteSetTheorems, TLAPS

(***************************************************************************)
(* Least numbers and rounded quotients.                                    *)
(***************************************************************************)
\* Of sets of subsets of a finite set, some are smallest.
LEMMA MinimalSubset ==
    ASSUME NEW S, IsFiniteSet(S), NEW T, T \subseteq SUBSET S, T # {}
    PROVE  \E U \in T : \A V \in T : V \subseteq U => V = U
<1>1. T \subseteq FiniteSubsetsOf(S)
  BY FS_FiniteSubsetsOfFinite
<1>2. IsWellFoundedOn(StrictSubsetOrdering(S), FiniteSubsetsOf(S))
  BY FS_StrictSubsetOrderingWellFounded
<1>3. PICK U \in T : \A V \in T : <<V, U>> \notin StrictSubsetOrdering(S)
  BY <1>1, <1>2, WFMin
<1> QED
  BY <1>3 DEF StrictSubsetOrdering

\* A set of natural numbers has a least one.
LEMMA LeastExists ==
    ASSUME NEW K \in SUBSET Nat, K # {}
    PROVE  \E k \in K : \A j \in K : k <= j
<1>1. PICK n \in K : TRUE
  OBVIOUS
<1> DEFINE S == 0..n
           T == {0..k : k \in {k \in K : k <= n}}
<1>2. n \in Nat
  OBVIOUS
<1>3. IsFiniteSet(S)
  BY <1>2, FS_Interval
<1>4. T \subseteq SUBSET S
  BY <1>2
<1>5. 0..n \in T
  BY <1>1, <1>2
<1>6. PICK U \in T : \A V \in T : V \subseteq U => V = U
  <2> HIDE DEF T, S
  <2> QED
    BY <1>3, <1>4, <1>5, MinimalSubset
<1>7. PICK k \in K : k <= n /\ U = 0..k
  OBVIOUS
<1>8. ASSUME NEW j \in K, j < k
      PROVE  FALSE
  <2>1. 0..j \in T /\ 0..j \subseteq U
    BY <1>2, <1>7, <1>8
  <2>2. 0..j = 0..k
    BY <2>1, <1>6, <1>7
  <2>3. k \in 0..k /\ k \notin 0..j
    BY <1>8
  <2> QED
    BY <2>2, <2>3
<1>9. \A j \in K : k <= j
  BY <1>8
<1> QED
  BY <1>9

LEMMA MinIs ==
    ASSUME NEW S \in SUBSET Nat, S # {}
    PROVE  Min(S) \in S /\ \A j \in S : Min(S) <= j
<1>1. PICK k \in S : \A j \in S : k <= j
  BY LeastExists
<1> QED
  BY <1>1 DEF Min

\* Rounding half to even: the nearest integer, and of two as near the even one.
LEMMA RoundedIs ==
    ASSUME NEW n \in Int, NEW d \in Int, d > 0
    PROVE  LET k == Rounded(n, d)
           IN  /\ k \in Int
               /\ 2 * n - d <= 2 * (d * k) /\ 2 * (d * k) <= 2 * n + d
               /\ 2 * n - d = 2 * (d * k) \/ 2 * (d * k) = 2 * n + d => k % 2 = 0
<1> DEFINE q == n \div d
           m == n % d
<1>1. q \in Int /\ m \in Int /\ n = d * q + m /\ 0 <= m /\ m < d
  OBVIOUS
<1>2. Rounded(n, d) = IF 2 * m > d \/ (2 * m = d /\ q % 2 = 1) THEN q + 1 ELSE q
  BY DEF Rounded
<1> HIDE DEF q, m
<1>3. CASE 2 * m > d \/ (2 * m = d /\ q % 2 = 1)
  <2>1. Rounded(n, d) = q + 1
    BY <1>2, <1>3
  <2>2. d * (q + 1) = d * q + d
    BY <1>1
  <2>3. 2 * n - d <= 2 * (d * (q + 1)) /\ 2 * (d * (q + 1)) <= 2 * n + d
    BY <1>1, <1>3, <2>2
  <2>4. 2 * n - d # 2 * (d * (q + 1))
    BY <1>1, <2>2
  <2>5. 2 * (d * (q + 1)) = 2 * n + d => (q + 1) % 2 = 0
    BY <1>1, <1>3, <2>2
  <2> QED
    BY <1>1, <2>1, <2>3, <2>4, <2>5
<1>4. CASE ~(2 * m > d \/ (2 * m = d /\ q % 2 = 1))
  <2>1. Rounded(n, d) = q
    BY <1>2, <1>4
  <2>2. 2 * n - d <= 2 * (d * q) /\ 2 * (d * q) <= 2 * n + d
    BY <1>1, <1>4
  <2>3. 2 * (d * q) # 2 * n + d
    BY <1>1
  <2>4. 2 * n - d = 2 * (d * q) => q % 2 = 0
    BY <1>1, <1>4
  <2> QED
    BY <1>1, <2>1, <2>2, <2>3, <2>4
<1> QED
  BY <1>3, <1>4

\* Less cash and more burn are no more months.
LEMMA RoundedMonotone ==
    ASSUME NEW n \in Int, NEW d \in Int, NEW m \in Int, NEW e \in Int,
           0 <= n, n <= m, 0 < e, e <= d
    PROVE  Rounded(n, d) <= Rounded(m, e)
<1> DEFINE k == Rounded(n, d)
           j == Rounded(m, e)
<1>1. /\ k \in Int /\ 2 * n - d <= 2 * (d * k) /\ 2 * (d * k) <= 2 * n + d
      /\ 2 * n - d = 2 * (d * k) \/ 2 * (d * k) = 2 * n + d => k % 2 = 0
  BY RoundedIs
<1>2. /\ j \in Int /\ 2 * m - e <= 2 * (e * j) /\ 2 * (e * j) <= 2 * m + e
      /\ 2 * m - e = 2 * (e * j) \/ 2 * (e * j) = 2 * m + e => j % 2 = 0
  BY RoundedIs
<1> HIDE DEF k, j
<1> SUFFICES ASSUME k > j PROVE FALSE
  BY <1>1, <1>2 DEF k, j
<1>3. d * (k - j - 1) >= 0 /\ d * (k - j - 1) = d * k - d * j - d
  <2>1. k - j - 1 \in Nat
    BY <1>1, <1>2
  <2>2. d * (k - j - 1) >= 0
    BY <2>1
  <2> QED
    BY <1>1, <1>2, <2>2
<1>4. 2 * (d * j) + d <= 2 * n
  BY <1>1, <1>2, <1>3
<1>5. 2 * m <= 2 * (e * j) + e
  BY <1>2
<1>6. 2 * (d * j) + d = d * (2 * j + 1) /\ 2 * (e * j) + e = e * (2 * j + 1)
  BY <1>2
<1>7. e * (2 * j + 1) >= d * (2 * j + 1)
  BY <1>2, <1>4, <1>5, <1>6
<1>8. 2 * j + 1 >= 1
  <2>1. SUFFICES ASSUME 2 * j + 1 <= -1 PROVE FALSE
    BY <1>2
  <2>2. e * (2 * j + 1) < 0
    BY <1>2, <2>1
  <2>3. 2 * m <= e * (2 * j + 1) /\ e * (2 * j + 1) \in Int
    BY <1>2, <1>5, <1>6
  <2> QED
    BY <2>2, <2>3
<1>9. d = e
  <2>1. (d - e) * (2 * j + 1) = d * (2 * j + 1) - e * (2 * j + 1)
    BY <1>2
  <2>2. SUFFICES ASSUME d - e >= 1 PROVE FALSE
    OBVIOUS
  <2>3. (d - e) * (2 * j + 1) >= 1
    BY <1>2, <1>8, <2>2
  <2> QED
    BY <1>2, <1>7, <2>1, <2>3
<1>10. n = m /\ 2 * n = 2 * (d * j) + d
  BY <1>2, <1>4, <1>5, <1>9
<1>11. j % 2 = 0
  BY <1>2, <1>9, <1>10
<1>12. d * (k - j - 1) = 0
  BY <1>1, <1>2, <1>3, <1>10
<1>13. k = j + 1
  <2>1. SUFFICES ASSUME k - j - 1 >= 1 PROVE FALSE
    BY <1>1, <1>2
  <2>2. d * (k - j - 1) >= 1
    BY <1>1, <1>2, <2>1
  <2> QED
    BY <1>12, <2>2
<1>14. k % 2 = 0
  BY <1>1, <1>2, <1>10, <1>13
<1> QED
  BY <1>2, <1>11, <1>13, <1>14

\* The questions that can be put to governance.
Questions ==
    [words : Texts, vendors : VendorSets, oneTime : OneTimes, monthly : Monthlies,
     revenue : Revenues, confidence : Confidences, risks : RiskCounts, ruling : Rulings,
     path : Paths, company : Companies]

\* The request was made of a question.
Made == request = NoRequest \/ \E q \in Questions : request = Governed(q)

ControlIds ==
    {"CTRL-RUNWAY-FLOOR", "CTRL-SPEND-CFO", "CTRL-BOARD-NOTIFY", "CTRL-HEADCOUNT",
     "CTRL-GROSS-MARGIN", "CTRL-SECURITY-REVENUE", "CTRL-DATA-SECURITY"}

----------------------------------------------------------------------------
(***************************************************************************)
(* What the operators return.                                              *)
(***************************************************************************)
\* The annualized amount of a question is a number of dollars.
LEMMA AnnualizedType == ASSUME NEW q \in Questions PROVE Annualized(q) \in Int
<1>1. q.oneTime \in Nat /\ q.monthly \in Nat /\ q.vendors \in VendorSets
  BY QuestionsAssumption DEF Questions
<1>2. CASE q.vendors = {}
  BY <1>1, <1>2 DEF Annualized, Greatest
<1>3. CASE q.vendors # {}
  <2>1. PICK v \in q.vendors : \A w \in q.vendors : w.annual <= v.annual
    BY <1>1, <1>3, QuestionsAssumption
  <2>2. \A w \in q.vendors : w.annual \in Nat
    BY <1>1, QuestionsAssumption
  <2> DEFINE amounts == {w.annual : w \in q.vendors}
  <2>3. \E x \in amounts : \A y \in amounts : x >= y
    BY <2>1, <2>2
  <2>4. Max(amounts) \in amounts
    BY <2>3 DEF Max
  <2>5. Max(amounts) \in Nat
    BY <2>2, <2>4
  <2>6. Annualized(q) = Greatest(q.oneTime + 12 * q.monthly, Max(amounts))
    BY <1>3 DEF Annualized
  <2>7. QED BY <1>1, <2>5, <2>6 DEF Greatest
<1>4. QED BY <1>2, <1>3

\* The data of a decision have one of three scopes.
LEMMA SensitivityRange ==
    ASSUME NEW q PROVE Sensitivity(q.words, q.vendors) \in {"internal", "customer_data", "regulated"}
BY DEF Sensitivity

\* A decision has one of four risk tiers.
LEMMA RiskRange ==
    ASSUME NEW q, NEW controls PROVE RiskTier(q, controls) \in {"low", "moderate", "elevated", "high"}
BY DEF RiskTier

\* What a control is called, and which are for the board and for Security
\* Review.
LEMMA ControlShape ==
    ASSUME NEW q, NEW c \in Controls(q)
    PROVE  /\ c.control \in ControlIds
           /\ "board" \in c.flags <=> c.control \in {"CTRL-RUNWAY-FLOOR", "CTRL-BOARD-NOTIFY"}
           /\ "security" \in c.flags <=> c.control \in {"CTRL-SECURITY-REVENUE", "CTRL-DATA-SECURITY"}
<1>1. CASE c \in RunwayFloor(q)
  <2>1. CASE c = Finding("CTRL-RUNWAY-FLOOR", "critical", {"blocking", "exception", "board"},
                         {"financing_plan_or_runway_exception", "runway_forecast"})
    <3>1. c.control = "CTRL-RUNWAY-FLOOR" /\ c.flags = {"blocking", "exception", "board"}
      BY <2>1, Zenon DEF Finding
    <3>2. "board" \in c.flags /\ "security" \notin c.flags
      BY <3>1, SMT
    <3>3. QED BY <3>1, <3>2 DEF ControlIds
  <2>2. CASE c = Finding("CTRL-RUNWAY-FLOOR", "medium", {"board"}, {})
    <3>1. c.control = "CTRL-RUNWAY-FLOOR" /\ c.flags = {"board"}
      BY <2>2 DEF Finding
    <3>2. QED BY <3>1 DEF ControlIds
  <2>3. QED BY <1>1, <2>1, <2>2, Zenon DEF RunwayFloor
<1>2. CASE c \in SpendCFO(q)
  <2>1. c = Finding("CTRL-SPEND-CFO", "medium", {}, {"CFO_memo", "signed_contract"})
    BY <1>2, Zenon DEF SpendCFO
  <2>2. c.control = "CTRL-SPEND-CFO" /\ c.flags = {}
    BY <2>1 DEF Finding
  <2>3. QED BY <2>2 DEF ControlIds
<1>3. CASE c \in BoardNotify(q)
  <2>1. c = Finding("CTRL-BOARD-NOTIFY", "medium", {"board"}, {"board_memo", "runway_summary"})
    BY <1>3, Zenon DEF BoardNotify
  <2>2. c.control = "CTRL-BOARD-NOTIFY" /\ c.flags = {"board"}
    BY <2>1 DEF Finding
  <2>3. QED BY <2>2 DEF ControlIds
<1>4. CASE c \in Headcount(q)
  <2>1. c = Finding("CTRL-HEADCOUNT", "high", {}, {"role_mapping", "headcount_row"})
    BY <1>4, Zenon DEF Headcount
  <2>2. c.control = "CTRL-HEADCOUNT" /\ c.flags = {}
    BY <2>1 DEF Finding
  <2>3. QED BY <2>2 DEF ControlIds
<1>5. CASE c \in GrossMargin(q)
  <2>1. c = Finding("CTRL-GROSS-MARGIN", "high", {}, {"unit_economics"})
    BY <1>5, Zenon DEF GrossMargin
  <2>2. c.control = "CTRL-GROSS-MARGIN" /\ c.flags = {}
    BY <2>1 DEF Finding
  <2>3. QED BY <2>2 DEF ControlIds
<1>6. CASE c \in SecurityRevenue(q)
  <2>1. c = Finding("CTRL-SECURITY-REVENUE", "high", {"security"}, {"gaps_funded_first"})
    BY <1>6, Zenon DEF SecurityRevenue
  <2>2. c.control = "CTRL-SECURITY-REVENUE" /\ c.flags = {"security"}
    BY <2>1 DEF Finding
  <2>3. QED BY <2>2 DEF ControlIds
<1>7. CASE c \in DataSecurity(q)
  <2>1. c = Finding("CTRL-DATA-SECURITY", "medium", {"security"}, {"security_sign-off", "DPA"})
    BY <1>7, Zenon DEF DataSecurity
  <2>2. c.control = "CTRL-DATA-SECURITY" /\ c.flags = {"security"}
    BY <2>1 DEF Finding
  <2>3. QED BY <2>2 DEF ControlIds
<1>8. QED BY <1>1, <1>2, <1>3, <1>4, <1>5, <1>6, <1>7 DEF Controls

\* The controls that sensitive data and large commitments engage.
LEMMA ControlsEngage ==
    ASSUME NEW q
    PROVE  /\ IsSensitive(q) => "CTRL-DATA-SECURITY" \in Engaged(Controls(q))
           /\ Annualized(q) > BOARD_THRESHOLD => "CTRL-BOARD-NOTIFY" \in Engaged(Controls(q))
<1>1. ASSUME IsSensitive(q) PROVE "CTRL-DATA-SECURITY" \in Engaged(Controls(q))
  <2>1. PICK c : c = Finding("CTRL-DATA-SECURITY", "medium", {"security"}, {"security_sign-off", "DPA"})
    OBVIOUS
  <2>2. c \in DataSecurity(q)
    BY <1>1, <2>1 DEF DataSecurity
  <2>3. c \in Controls(q) /\ c.control = "CTRL-DATA-SECURITY"
    BY <2>1, <2>2 DEF Controls, Finding
  <2>4. QED BY <2>3 DEF Engaged
<1>2. ASSUME Annualized(q) > BOARD_THRESHOLD PROVE "CTRL-BOARD-NOTIFY" \in Engaged(Controls(q))
  <2>1. PICK c : c = Finding("CTRL-BOARD-NOTIFY", "medium", {"board"}, {"board_memo", "runway_summary"})
    OBVIOUS
  <2>2. c \in BoardNotify(q)
    BY <1>2, <2>1 DEF BoardNotify
  <2>3. c \in Controls(q) /\ c.control = "CTRL-BOARD-NOTIFY"
    BY <2>1, <2>2 DEF Controls, Finding
  <2>4. QED BY <2>3 DEF Engaged
<1>3. QED BY <1>1, <1>2

\* Above the delegated authority somebody approves.
LEMMA TierStarts ==
    ASSUME NEW amount \in Int, TierApprovers(amount) = {} PROVE amount <= 10000
<1>1. amount > 10000 => "Department_Head" \in TierApprovers(amount)
  BY DEF TierApprovers, When
<1>2. QED BY <1>1

----------------------------------------------------------------------------
(***************************************************************************)
(* A request is made of a question.                                        *)
(***************************************************************************)
\* Govern makes the request of a question, and is the only step.
LEMMA RequestIsMade == GovernSpec => []Made
<1>1. GovernInit => Made
  BY DEF GovernInit, Made
<1>2. Made /\ [Govern]_request => Made'
  <2> SUFFICES ASSUME Made, [Govern]_request PROVE Made' OBVIOUS
  <2>1. CASE Govern
    <3>1. PICK words \in Texts, vendors \in VendorSets, company \in Companies, way \in Paths,
               oneTime \in OneTimes, monthly \in Monthlies, revenue \in Revenues,
               confidence \in Confidences, risks \in RiskCounts, ruling \in Rulings :
             request' = Governed(Question(words, vendors, oneTime, monthly, revenue,
                                          confidence, risks, ruling, way, company))
      BY <2>1 DEF Govern
    <3>2. Question(words, vendors, oneTime, monthly, revenue, confidence, risks, ruling, way, company)
              \in Questions
      BY DEF Question, Questions
    <3>3. QED BY <3>1, <3>2 DEF Made
  <2>2. CASE UNCHANGED request
    BY <2>2 DEF Made
  <2>3. QED BY <2>1, <2>2
<1>3. QED BY <1>1, <1>2, PTL DEF GovernSpec

----------------------------------------------------------------------------
(***************************************************************************)
(* What is cleared without a person.                                       *)
(***************************************************************************)
\* Governance clears by itself only what nobody on the matrix has to see.
LEMMA ClearedIsHarmless ==
    ASSUME NEW q \in Questions, Governed(q).status \in {"approved", "conditional"}
    PROVE  /\ Annualized(q) <= 10000
           /\ Controls(q) = {}
           /\ Sensitivity(q.words, q.vendors) = "internal"
           /\ RiskTier(q, Controls(q)) \in {"low", "moderate"}
           /\ q.ruling \in {"APPROVE", "CONDITIONAL"}
<1> DEFINE controls == Controls(q)
<1>1. Status(q, controls) \in {"approved", "conditional"}
  BY DEF Governed
<1>2. q.ruling \in {"APPROVE", "CONDITIONAL", "REJECT", "DEFER"}
  BY DEF Questions, Rulings
<1>3. q.ruling \in {"APPROVE", "CONDITIONAL"} /\ Route(q, controls) = {}
  BY <1>1, <1>2 DEF Status
<1>4. /\ TierApprovers(Annualized(q)) = {}
      /\ RiskApprovers(RiskTier(q, controls)) = {}
      /\ DataApprovers(Sensitivity(q.words, q.vendors)) = {}
      /\ ControlApprovers(controls) = {}
  BY <1>3 DEF Route
<1>5. Annualized(q) <= 10000
  <2>1. Annualized(q) \in Int /\ TierApprovers(Annualized(q)) = {}
    BY <1>4, AnnualizedType
  <2>2. QED BY <2>1, TierStarts
<1>6. controls = {}
  <2> SUFFICES ASSUME NEW c \in controls PROVE FALSE OBVIOUS
  <2>1. c.control \in Engaged(controls)
    BY DEF Engaged
  <2>2. c.control \in ControlIds
    BY ControlShape
  <2>3. QED BY <1>4, <2>1, <2>2 DEF ControlApprovers, When, ControlIds
<1>7. Sensitivity(q.words, q.vendors) = "internal"
  BY <1>4, SensitivityRange DEF DataApprovers, When
<1>8. RiskTier(q, controls) \in {"low", "moderate"}
  BY <1>4, RiskRange DEF RiskApprovers, When
<1>9. QED BY <1>3, <1>5, <1>6, <1>7, <1>8

\* Governance clears by itself only what is small, engages no control, has
\* internal data and little risk (governance.py:502, policies.py, approvals.py).
THEOREM AutoClearIsAlwaysHarmless == GovernSpec => []AutoClearIsHarmless
<1>1. Made => AutoClearIsHarmless
  <2> SUFFICES ASSUME Made, request.status \in {"approved", "conditional"}
               PROVE  AutoClearIsHarmless!2
    BY DEF AutoClearIsHarmless
  <2>1. request # NoRequest
    BY DEF NoRequest
  <2>2. PICK q \in Questions : request = Governed(q)
    BY <2>1 DEF Made
  <2>3. /\ request.amount = Annualized(q) /\ request.controls = Controls(q)
        /\ request.sensitivity = Sensitivity(q.words, q.vendors)
        /\ request.risk = RiskTier(q, Controls(q)) /\ request.asked = q
    BY <2>2 DEF Governed
  <2>4. QED BY <2>2, <2>3, ClearedIsHarmless
<1>2. QED BY <1>1, RequestIsMade, PTL

----------------------------------------------------------------------------
(***************************************************************************)
(* The route and the obligations.                                          *)
(***************************************************************************)
\* The board approves what it is notified of.
LEMMA BoardAgrees ==
    ASSUME NEW q \in Questions
    PROVE  "Board" \in Route(q, Controls(q)) <=> "board_notification" \in Obligations(q, Controls(q))
<1> DEFINE controls == Controls(q)
           board == Engaged(controls) \cap {"CTRL-RUNWAY-FLOOR", "CTRL-BOARD-NOTIFY"} # {}
<1>1. Flagged(controls, "board") <=> board
  BY ControlShape DEF Flagged, Engaged
<1>2. "Board" \in ControlApprovers(controls) <=> board
  BY <1>1 DEF ControlApprovers, When
<1>3. "Board" \in TierApprovers(Annualized(q)) => board
  <2>1. "Board" \in TierApprovers(Annualized(q)) => Annualized(q) > 150000
    BY DEF TierApprovers, When
  <2>2. QED BY <2>1, ControlsEngage DEF BOARD_THRESHOLD
<1>4. "Board" \notin RiskApprovers(RiskTier(q, controls))
  BY DEF RiskApprovers, When
<1>5. "Board" \notin DataApprovers(Sensitivity(q.words, q.vendors))
  BY DEF DataApprovers, When
<1>6. "Board" \in Route(q, controls) <=> board
  BY <1>2, <1>3, <1>4, <1>5 DEF Route
<1>7. "board_notification" \in Obligations(q, controls) <=> board
  BY <1>1 DEF Obligations, When
<1>8. QED BY <1>6, <1>7

\* Security Review approves what security evidence is collected for.
LEMMA SecurityAgrees ==
    ASSUME NEW q \in Questions
    PROVE  "Security_Review" \in Route(q, Controls(q)) <=> "soc2_evidence" \in Obligations(q, Controls(q))
<1> DEFINE controls == Controls(q)
           security == Engaged(controls) \cap {"CTRL-SECURITY-REVENUE", "CTRL-DATA-SECURITY"} # {}
<1>1. Flagged(controls, "security") <=> security
  BY ControlShape DEF Flagged, Engaged
<1>2. "Security_Review" \in ControlApprovers(controls) <=> security
  BY <1>1 DEF ControlApprovers, When
<1>3. "Security_Review" \in DataApprovers(Sensitivity(q.words, q.vendors)) => security
  <2>1. "Security_Review" \in DataApprovers(Sensitivity(q.words, q.vendors)) => IsSensitive(q)
    BY DEF DataApprovers, When, IsSensitive
  <2>2. QED BY <2>1, ControlsEngage
<1>4. "Security_Review" \notin TierApprovers(Annualized(q))
  BY DEF TierApprovers, When
<1>5. "Security_Review" \notin RiskApprovers(RiskTier(q, controls))
  BY DEF RiskApprovers, When
<1>6. "Security_Review" \in Route(q, controls) <=> security
  BY <1>2, <1>3, <1>4, <1>5 DEF Route
<1>7. "soc2_evidence" \in Obligations(q, controls) <=> security
  BY DEF Obligations, When
<1>8. QED BY <1>6, <1>7

\* The board has to approve exactly what it is notified of, and Security
\* Review exactly what security evidence is collected for (approvals.py:132,
\* governance.py:272).
THEOREM BoardIsAlwaysTold == GovernSpec => []BoardIsTold
<1>1. Made => BoardIsTold
  <2> SUFFICES ASSUME Made, request # NoRequest PROVE BoardIsTold!2
    BY DEF BoardIsTold
  <2>1. PICK q \in Questions : request = Governed(q)
    BY DEF Made
  <2>2. request.route = Route(q, Controls(q)) /\ request.obligations = Obligations(q, Controls(q))
    BY <2>1 DEF Governed
  <2>3. QED BY <2>2, BoardAgrees, SecurityAgrees
<1>2. QED BY <1>1, RequestIsMade, PTL

----------------------------------------------------------------------------
(***************************************************************************)
(* A costlier decision.                                                    *)
(***************************************************************************)
\* p asks for what q asks for, at a higher cost that the cash covers.
Costlier(p, q) ==
    /\ p \in Questions /\ q \in Questions
    /\ p.words = q.words /\ p.vendors = q.vendors /\ p.revenue = q.revenue
    /\ p.confidence = q.confidence /\ p.risks = q.risks /\ p.ruling = q.ruling
    /\ p.path = q.path /\ p.company = q.company
    /\ p.oneTime >= q.oneTime /\ p.monthly >= q.monthly
    /\ CashAfter(p) > 0

\* The numbers of a question.
LEMMA QuestionType ==
    ASSUME NEW q \in Questions
    PROVE  /\ q.oneTime \in Nat /\ q.monthly \in Nat /\ q.revenue \in Nat
           /\ q.confidence \in Int /\ q.risks \in Nat
           /\ q.company.cash \in Int /\ q.company.burn \in Int
           /\ q.company.revenue \in Nat /\ q.company.cogs \in Nat
           /\ q.company.runway \in Nat \cup {None}
           /\ CashAfter(q) \in Int /\ BurnAfter(q) \in Int
<1>1. /\ q.oneTime \in OneTimes /\ q.monthly \in Monthlies /\ q.revenue \in Revenues
      /\ q.confidence \in Confidences /\ q.risks \in RiskCounts /\ q.company \in Companies
  BY DEF Questions
<1>2. /\ q.oneTime \in Nat /\ q.monthly \in Nat /\ q.revenue \in Nat
      /\ q.confidence \in Int /\ q.risks \in Nat
  <2>1. /\ OneTimes \subseteq Nat /\ Monthlies \subseteq Nat /\ Revenues \subseteq Nat
        /\ Confidences \subseteq 0..100 /\ RiskCounts \subseteq Nat
    BY QuestionsAssumption, Zenon
  <2>2. \A x \in 0..100 : x \in Int
    OBVIOUS
  <2> QED
    BY <1>1, <2>1, <2>2
<1>3. /\ q.company.cash \in Int /\ q.company.burn \in Int
      /\ q.company.revenue \in Nat /\ q.company.cogs \in Nat
      /\ q.company.runway \in Nat \cup {None}
  BY <1>1, QuestionsAssumption
<1> QED
  BY <1>2, <1>3 DEF CashAfter, BurnAfter

\* Its cash, its burn and its amount.
LEMMA CostlierIs ==
    ASSUME NEW p, NEW q, Costlier(p, q)
    PROVE  /\ 0 <= CashAfter(p) /\ CashAfter(p) <= CashAfter(q) /\ BurnAfter(q) <= BurnAfter(p)
           /\ Annualized(p) \in Int /\ Annualized(q) \in Int /\ Annualized(q) <= Annualized(p)
<1>1. p \in Questions /\ q \in Questions /\ p.company = q.company
  BY DEF Costlier
<1>2. 0 <= CashAfter(p) /\ CashAfter(p) <= CashAfter(q) /\ BurnAfter(q) <= BurnAfter(p)
  BY <1>1, QuestionType DEF Costlier, CashAfter, BurnAfter
<1>3. Annualized(p) \in Int /\ Annualized(q) \in Int
  BY <1>1, AnnualizedType
<1>4. Annualized(q) <= Annualized(p)
  <2> DEFINE highest == IF q.vendors = {} THEN 0 ELSE Max({v.annual : v \in q.vendors})
  <2>1. /\ Annualized(q) = Greatest(q.oneTime + 12 * q.monthly, highest)
        /\ Annualized(p) = Greatest(p.oneTime + 12 * p.monthly, highest)
    BY DEF Costlier, Annualized
  <2>2. q.oneTime + 12 * q.monthly <= p.oneTime + 12 * p.monthly
    BY <1>1, QuestionType DEF Costlier
  <2>3. highest \in Int
    <3>1. CASE q.vendors = {}
      BY <3>1
    <3>2. CASE q.vendors # {}
      <4>1. q.vendors \in VendorSets
        BY <1>1 DEF Questions
      <4>2. PICK v \in q.vendors : \A w \in q.vendors : w.annual <= v.annual
        BY <3>2, <4>1, QuestionsAssumption
      <4>3. \A w \in q.vendors : w.annual \in Nat
        BY <4>1, QuestionsAssumption
      <4> DEFINE amounts == {w.annual : w \in q.vendors}
      <4>4. \E x \in amounts : \A y \in amounts : x >= y
        BY <4>2, <4>3
      <4>5. Max(amounts) \in amounts
        BY <4>4 DEF Max
      <4> QED
        BY <3>2, <4>3, <4>5
    <3> QED
      BY <3>1, <3>2
  <2> HIDE DEF highest
  <2> QED
    BY <1>1, <2>1, <2>2, <2>3, QuestionType DEF Greatest
<1> QED
  BY <1>2, <1>3, <1>4

\* Where a floor was judged by a runway computed for the decision, that of the
\* costlier one is computed too, and no longer.
LEMMA RunwayShrinks ==
    ASSUME NEW p, NEW q, Costlier(p, q), ~HeldByRecord(q), RunwayFloor(q) # {}
    PROVE  /\ RunwayAfter(q) \in Int /\ RunwayAfter(p) \in Int
           /\ RunwayAfter(p) <= RunwayAfter(q)
<1>1. p \in Questions /\ q \in Questions /\ p.company = q.company /\ p.path = q.path
  BY DEF Costlier
<1>2. /\ CashAfter(p) \in Int /\ CashAfter(q) \in Int /\ BurnAfter(p) \in Int /\ BurnAfter(q) \in Int
      /\ 0 < CashAfter(p) /\ CashAfter(p) <= CashAfter(q) /\ BurnAfter(q) <= BurnAfter(p)
      /\ p.oneTime \in Nat /\ p.monthly \in Nat /\ p.revenue \in Nat
      /\ q.oneTime \in Nat /\ q.monthly \in Nat /\ q.revenue \in Nat
  BY <1>1, QuestionType, CostlierIs DEF Costlier
<1> DEFINE a == Rounded(10 * CashAfter(q), BurnAfter(q))
           b == Rounded(10 * CashAfter(p), BurnAfter(p))
<1>3. BurnAfter(q) > 0 => a \in Int /\ b \in Int /\ b <= a /\ BurnAfter(p) > 0
  <2> SUFFICES ASSUME BurnAfter(q) > 0 PROVE a \in Int /\ b \in Int /\ b <= a /\ BurnAfter(p) > 0
    OBVIOUS
  <2>1. /\ 10 * CashAfter(q) \in Int /\ 10 * CashAfter(p) \in Int /\ BurnAfter(p) > 0
        /\ 0 <= 10 * CashAfter(p) /\ 10 * CashAfter(p) <= 10 * CashAfter(q)
    BY <1>2
  <2>2. a \in Int /\ b \in Int
    BY <1>2, <2>1, RoundedIs
  <2>3. b <= a
    BY <1>2, <2>1, RoundedMonotone
  <2> QED
    BY <2>1, <2>2, <2>3
<1> HIDE DEF a, b
<1>4. CASE q.path = "debate" /\ BurnAfter(q) > 0
  <2>1. Impact(q) = a /\ Impact(p) = b
    BY <1>1, <1>3, <1>4 DEF Impact, a, b
  <2>2. Impact(q) # None /\ Impact(p) # None
    BY <1>3, <1>4, <2>1, NoneAssumption
  <2>3. RunwayAfter(q) = a /\ RunwayAfter(p) = b
    BY <2>1, <2>2 DEF RunwayAfter
  <2> QED
    BY <1>3, <1>4, <2>3
<1>5. CASE q.path # "debate" /\ q.oneTime + q.monthly + q.revenue > 0 /\ Solvent(q)
  <2>1. Impact(q) = None /\ Impact(p) = None
    BY <1>1, <1>5 DEF Impact
  <2>2. BurnAfter(q) > 0 /\ Solvent(p)
    BY <1>2, <1>3, <1>5 DEF Solvent
  <2>3. p.oneTime + p.monthly + p.revenue > 0
    BY <1>2, <1>5 DEF Costlier
  <2>4. RunwayAfter(q) = a /\ RunwayAfter(p) = b
    BY <1>5, <2>1, <2>2, <2>3 DEF RunwayAfter, a, b
  <2> QED
    BY <1>3, <2>2, <2>4
<1>6. CASE /\ ~(q.path = "debate" /\ BurnAfter(q) > 0)
           /\ ~(q.path # "debate" /\ q.oneTime + q.monthly + q.revenue > 0 /\ Solvent(q))
  <2>1. Impact(q) = None
    BY <1>6 DEF Impact
  <2>2. ~(q.oneTime + q.monthly + q.revenue > 0 /\ Solvent(q))
    BY <1>6 DEF Solvent
  <2>3. RunwayAfter(q) = RunwayBefore(q)
    BY <2>1, <2>2 DEF RunwayAfter
  <2>4. RunwayBefore(q) \in Nat \cup {None}
    BY <1>1, QuestionType DEF RunwayBefore
  <2>5. RunwayBefore(q) = None \/ ~(RunwayBefore(q) < FLOOR)
    BY <2>1, <2>2 DEF HeldByRecord
  <2>6. RunwayFloor(q) = {}
    <3>1. CASE RunwayBefore(q) = None
      BY <2>3, <3>1 DEF RunwayFloor
    <3>2. CASE RunwayBefore(q) \in Nat
      <4>1. ~(RunwayAfter(q) < FLOOR) /\ ~(RunwayBefore(q) - RunwayAfter(q) >= 10)
        BY <2>3, <2>5, <3>2, NoneAssumption
      <4> QED
        BY <4>1 DEF RunwayFloor
    <3> QED
      BY <2>4, <3>1, <3>2
  <2> QED
    BY <2>6
<1> QED
  BY <1>4, <1>5, <1>6

\* Every control that q engages, p engages too, for as much.
LEMMA ControlsPersist ==
    ASSUME NEW p, NEW q, Costlier(p, q), ~HeldByRecord(q), NEW c \in Controls(q)
    PROVE  \E e \in Controls(p) :
              /\ e.control = c.control /\ c.flags \subseteq e.flags /\ c.evidence \subseteq e.evidence
              /\ c.severity \in {"high", "critical"} => e = c
<1>1. /\ p \in Questions /\ q \in Questions /\ p.company = q.company /\ p.words = q.words
      /\ p.vendors = q.vendors /\ p.revenue = q.revenue
      /\ p.monthly \in Nat /\ q.monthly \in Nat /\ q.revenue \in Nat /\ q.monthly <= p.monthly
      /\ q.company.burn \in Int /\ q.company.revenue \in Nat /\ q.company.cogs \in Nat
      /\ Annualized(p) \in Int /\ Annualized(q) \in Int /\ Annualized(q) <= Annualized(p)
  <2>1. p \in Questions /\ q \in Questions /\ q.monthly <= p.monthly
    BY QuestionType DEF Costlier
  <2>2. p.monthly \in Nat
    BY <2>1, QuestionType
  <2>3. /\ q.monthly \in Nat /\ q.revenue \in Nat /\ q.company.burn \in Int
        /\ q.company.revenue \in Nat /\ q.company.cogs \in Nat
    BY <2>1, QuestionType
  <2> QED
    BY <2>1, <2>2, <2>3, CostlierIs DEF Costlier
<1>2. SUFFICES ASSUME c \notin Controls(p)
               PROVE  \E e \in Controls(p) :
                         /\ e.control = c.control /\ c.flags \subseteq e.flags
                         /\ c.evidence \subseteq e.evidence
                         /\ c.severity \in {"high", "critical"} => e = c
  OBVIOUS
<1>3. CASE c \in RunwayFloor(q)
  <2> DEFINE breach == Finding("CTRL-RUNWAY-FLOOR", "critical", {"blocking", "exception", "board"},
                               {"financing_plan_or_runway_exception", "runway_forecast"})
             pressure == Finding("CTRL-RUNWAY-FLOOR", "medium", {"board"}, {})
  <2>1. /\ RunwayAfter(q) \in Int /\ RunwayAfter(p) \in Int /\ RunwayAfter(p) <= RunwayAfter(q)
    BY <1>3, RunwayShrinks
  <2>2. RunwayAfter(p) # None /\ RunwayAfter(q) # None
    BY <2>1, NoneAssumption
  <2>3. RunwayBefore(p) = RunwayBefore(q) /\ RunwayBefore(q) \in Nat \cup {None}
    BY <1>1, QuestionType DEF RunwayBefore
  <2>4. CASE RunwayAfter(p) < FLOOR
    <3>1. breach \in RunwayFloor(p)
      BY <2>2, <2>4 DEF RunwayFloor
    <3>2. c \in {breach, pressure}
      BY <1>3, Zenon DEF RunwayFloor
    <3>3. c = pressure /\ breach \in Controls(p)
      BY <1>2, <3>1, <3>2 DEF Controls
    <3>4. /\ breach.control = "CTRL-RUNWAY-FLOOR" /\ breach.flags = {"blocking", "exception", "board"}
          /\ pressure.control = "CTRL-RUNWAY-FLOOR" /\ pressure.flags = {"board"}
          /\ pressure.evidence = {} /\ pressure.severity = "medium"
      BY DEF Finding
    <3> HIDE DEF breach, pressure
    <3> QED
      BY <3>3, <3>4
  <2>5. CASE ~(RunwayAfter(p) < FLOOR)
    <3>1. ~(RunwayAfter(q) < FLOOR)
      BY <2>1, <2>5 DEF FLOOR
    <3>2. /\ c = pressure /\ RunwayBefore(q) # None /\ RunwayBefore(q) - RunwayAfter(q) >= 10
          /\ RunwayAfter(q) < FLOOR + 20
      BY <1>3, <2>2, <3>1, Zenon DEF RunwayFloor
    <3>3. RunwayBefore(p) - RunwayAfter(p) >= 10 /\ RunwayAfter(p) < FLOOR + 20 /\ RunwayBefore(p) # None
      BY <2>1, <2>3, <3>2, NoneAssumption DEF FLOOR
    <3>4. pressure \in RunwayFloor(p)
      BY <2>2, <2>5, <3>3 DEF RunwayFloor
    <3> QED
      BY <1>2, <3>2, <3>4 DEF Controls
  <2> QED
    BY <2>4, <2>5
<1>4. c \notin SpendCFO(q)
  <2>1. Annualized(q) > CFO_THRESHOLD => Annualized(p) > CFO_THRESHOLD
    BY <1>1 DEF CFO_THRESHOLD
  <2>2. SpendCFO(q) \subseteq SpendCFO(p)
    BY <2>1, Zenon DEF SpendCFO
  <2> QED
    BY <1>2, <2>2 DEF Controls
<1>5. c \notin BoardNotify(q)
  <2>1. Annualized(q) > BOARD_THRESHOLD => Annualized(p) > BOARD_THRESHOLD
    BY <1>1 DEF BOARD_THRESHOLD
  <2>2. BoardNotify(q) \subseteq BoardNotify(p)
    BY <1>1, <2>1, Zenon DEF BoardNotify, IsSensitive
  <2> QED
    BY <1>2, <2>2 DEF Controls
<1>6. c \notin Headcount(q)
  <2>1. /\ q.monthly > 0 => p.monthly > 0
        /\ 100 * q.monthly > 8 * q.company.burn => 100 * p.monthly > 8 * p.company.burn
        /\ 2 * q.revenue < Greatest(q.monthly, 2) => 2 * p.revenue < Greatest(p.monthly, 2)
    BY <1>1 DEF Greatest
  <2>2. Headcount(q) \subseteq Headcount(p)
    BY <1>1, <2>1, Zenon DEF Headcount
  <2> QED
    BY <1>2, <2>2 DEF Controls
<1>7. c \notin GrossMargin(q)
  <2> DEFINE r == q.company.revenue + q.revenue
  <2>1. /\ q.monthly > 0 => p.monthly > 0
        /\ 10 * (r - q.company.cogs - q.monthly) < 7 * r => 10 * (r - q.company.cogs - p.monthly) < 7 * r
    BY <1>1
  <2>2. GrossMargin(q) \subseteq GrossMargin(p)
    BY <1>1, <2>1, Zenon DEF GrossMargin
  <2> QED
    BY <1>2, <2>2 DEF Controls
<1>8. c \notin SecurityRevenue(q)
  <2>1. Annualized(q) > 0 => Annualized(p) > 0
    BY <1>1
  <2>2. RunwayBefore(p) = RunwayBefore(q)
    BY <1>1 DEF RunwayBefore
  <2>3. SecurityRevenue(q) \subseteq SecurityRevenue(p)
    BY <1>1, <2>1, <2>2, Zenon DEF SecurityRevenue
  <2> QED
    BY <1>2, <2>3 DEF Controls
<1>9. c \notin DataSecurity(q)
  <2>1. DataSecurity(q) \subseteq DataSecurity(p)
    BY <1>1, Zenon DEF DataSecurity, IsSensitive
  <2> QED
    BY <1>2, <2>1 DEF Controls
<1> QED
  BY <1>3, <1>4, <1>5, <1>6, <1>7, <1>8, <1>9 DEF Controls

\* A question engages finitely many controls.
LEMMA ControlsFinite == ASSUME NEW q PROVE IsFiniteSet(Controls(q))
<1>1. ASSUME NEW S, NEW x, S \subseteq {x} PROVE IsFiniteSet(S)
  <2>1. IsFiniteSet({x})
    BY FS_Singleton
  <2> QED
    BY <1>1, <2>1, FS_Subset
<1>2. IsFiniteSet(RunwayFloor(q))
  <2>1. RunwayFloor(q) \subseteq {Finding("CTRL-RUNWAY-FLOOR", "critical", {"blocking", "exception", "board"},
                                         {"financing_plan_or_runway_exception", "runway_forecast"})}
        \/ RunwayFloor(q) \subseteq {Finding("CTRL-RUNWAY-FLOOR", "medium", {"board"}, {})}
    BY Zenon DEF RunwayFloor
  <2> QED
    BY <1>1, <2>1
<1>3. /\ IsFiniteSet(SpendCFO(q)) /\ IsFiniteSet(BoardNotify(q)) /\ IsFiniteSet(Headcount(q))
      /\ IsFiniteSet(GrossMargin(q)) /\ IsFiniteSet(SecurityRevenue(q)) /\ IsFiniteSet(DataSecurity(q))
  <2>1. IsFiniteSet(SpendCFO(q))
    BY <1>1 DEF SpendCFO
  <2>2. IsFiniteSet(BoardNotify(q))
    BY <1>1 DEF BoardNotify
  <2>3. IsFiniteSet(Headcount(q))
    BY <1>1 DEF Headcount
  <2>4. IsFiniteSet(GrossMargin(q))
    BY <1>1 DEF GrossMargin
  <2>5. IsFiniteSet(SecurityRevenue(q))
    BY <1>1 DEF SecurityRevenue
  <2>6. IsFiniteSet(DataSecurity(q))
    BY <1>1 DEF DataSecurity
  <2> QED
    BY <2>1, <2>2, <2>3, <2>4, <2>5, <2>6
<1>4. \A S, T : IsFiniteSet(S) /\ IsFiniteSet(T) => IsFiniteSet(S \cup T)
  BY FS_Union
<1> QED
  BY <1>2, <1>3, <1>4 DEF Controls

\* So its risk is no lower.
LEMMA RiskPersists ==
    ASSUME NEW p, NEW q, Costlier(p, q), ~HeldByRecord(q)
    PROVE  /\ RiskTier(q, Controls(q)) = "high" => RiskTier(p, Controls(p)) = "high"
           /\ RiskTier(q, Controls(q)) = "elevated" =>
                  RiskTier(p, Controls(p)) \in {"elevated", "high"}
<1> DEFINE severeIn(controls) == {c \in controls : c.severity \in {"high", "critical"}}
           s == Cardinality(severeIn(Controls(q)))
           r == Cardinality(severeIn(Controls(p)))
<1>1. severeIn(Controls(q)) \subseteq severeIn(Controls(p))
  BY ControlsPersist
<1>2. IsFiniteSet(severeIn(Controls(p)))
  BY ControlsFinite, FS_Subset
<1>3. s \in Nat /\ r \in Nat /\ s <= r
  <2> HIDE DEF severeIn
  <2>1. IsFiniteSet(severeIn(Controls(q))) /\ s <= r
    BY <1>1, <1>2, FS_Subset
  <2> QED
    BY <1>2, <2>1, FS_CardinalityType
<1>4. Flagged(Controls(q), "blocking") => Flagged(Controls(p), "blocking")
  BY ControlsPersist DEF Flagged
<1>5. (\E c \in Controls(q) : c.severity = "critical") => \E c \in Controls(p) : c.severity = "critical"
  BY ControlsPersist
<1>6. p.confidence = q.confidence /\ p.risks = q.risks
  BY DEF Costlier
<1> HIDE DEF s, r
<1>7. (s >= 3 => r >= 3) /\ (s >= 1 => r >= 1)
  BY <1>3
<1>8. /\ RiskTier(q, Controls(q)) =
            IF \/ Flagged(Controls(q), "blocking") \/ \E c \in Controls(q) : c.severity = "critical"
               \/ q.confidence < 50 \/ q.risks >= 4 \/ s >= 3 THEN "high"
            ELSE IF q.confidence < 65 \/ q.risks >= 3 \/ s >= 1 THEN "elevated"
            ELSE IF q.confidence < 80 \/ q.risks >= 1 THEN "moderate" ELSE "low"
      /\ RiskTier(p, Controls(p)) =
            IF \/ Flagged(Controls(p), "blocking") \/ \E c \in Controls(p) : c.severity = "critical"
               \/ p.confidence < 50 \/ p.risks >= 4 \/ r >= 3 THEN "high"
            ELSE IF p.confidence < 65 \/ p.risks >= 3 \/ r >= 1 THEN "elevated"
            ELSE IF p.confidence < 80 \/ p.risks >= 1 THEN "moderate" ELSE "low"
  BY DEF RiskTier, s, r
<1> QED
  BY <1>4, <1>5, <1>6, <1>7, <1>8, Zenon

\* Who approves q approves p.
LEMMA RoutePersists ==
    ASSUME NEW p, NEW q, Costlier(p, q), ~HeldByRecord(q)
    PROVE  Route(q, Controls(q)) \subseteq Route(p, Controls(p))
<1>1. Engaged(Controls(q)) \subseteq Engaged(Controls(p))
  <2> SUFFICES ASSUME NEW c \in Controls(q) PROVE c.control \in Engaged(Controls(p))
    BY DEF Engaged
  <2>1. PICK e \in Controls(p) : e.control = c.control
    BY ControlsPersist
  <2> QED
    BY <2>1 DEF Engaged
<1>2. \A flag : Flagged(Controls(q), flag) => Flagged(Controls(p), flag)
  BY ControlsPersist DEF Flagged
<1>3. TierApprovers(Annualized(q)) \subseteq TierApprovers(Annualized(p))
  <2>1. \A limit \in Int : \A name :
          When(Annualized(q) > limit, name) \subseteq When(Annualized(p) > limit, name)
    BY CostlierIs DEF When
  <2> QED
    BY <2>1 DEF TierApprovers
<1>4. RiskApprovers(RiskTier(q, Controls(q))) \subseteq RiskApprovers(RiskTier(p, Controls(p)))
  BY RiskPersists DEF RiskApprovers, When
<1>5. DataApprovers(Sensitivity(q.words, q.vendors)) = DataApprovers(Sensitivity(p.words, p.vendors))
  BY DEF Costlier
<1>6. ControlApprovers(Controls(q)) \subseteq ControlApprovers(Controls(p))
  <2>1. \A ids : Engaged(Controls(q)) \cap ids # {} => Engaged(Controls(p)) \cap ids # {}
    BY <1>1
  <2>2. \A b, c, name : (b => c) => When(b, name) \subseteq When(c, name)
    BY Zenon DEF When
  <2> QED
    BY <1>2, <2>1, Zenon DEF ControlApprovers, When
<1> QED
  BY <1>3, <1>4, <1>5, <1>6 DEF Route

LEMMA CostlierStays ==
    ASSUME NEW p, NEW q, Costlier(p, q), ~HeldByRecord(q)
    PROVE  /\ Governed(q).route \subseteq Governed(p).route
           /\ Governed(q).blocked => Governed(p).blocked
           /\ Governed(q).required \subseteq Governed(p).required
<1>1. \A c \in Controls(q) : \E e \in Controls(p) : c.evidence \subseteq e.evidence
  BY ControlsPersist
<1>2. Demanded(Controls(q)) \subseteq Demanded(Controls(p))
  BY <1>1 DEF Demanded
<1>3. Flagged(Controls(q), "blocking") => Flagged(Controls(p), "blocking")
  BY ControlsPersist DEF Flagged
<1>4. /\ Governed(q).route = Route(q, Controls(q)) /\ Governed(p).route = Route(p, Controls(p))
      /\ Governed(q).required = Demanded(Controls(q)) /\ Governed(p).required = Demanded(Controls(p))
      /\ Governed(q).blocked = Flagged(Controls(q), "blocking")
      /\ Governed(p).blocked = Flagged(Controls(p), "blocking")
  BY DEF Governed
<1> QED
  BY <1>2, <1>3, <1>4, RoutePersists

\* Whatever the decision, the company and the vendors: at a higher cost that the
\* cash covers, all else equal, it keeps its approvers, its block and the evidence
\* asked for, unless what held it was the runway on record (evaluate_controls,
\* score_risk, route, derive_inputs).
THEOREM CostlierIsNeverLighter == GovernSpec => []CostlierIsNoLighter
<1>1. Made => CostlierIsNoLighter
  <2> SUFFICES ASSUME Made, request # NoRequest, ~HeldByRecord(request.asked),
                      NEW oneTime \in OneTimes, NEW monthly \in Monthlies,
                      oneTime >= request.asked.oneTime, monthly >= request.asked.monthly,
                      CashAfter([request.asked EXCEPT !.oneTime = oneTime, !.monthly = monthly]) > 0
               PROVE  NoLighter(Governed([request.asked EXCEPT !.oneTime = oneTime, !.monthly = monthly]))
    BY DEF CostlierIsNoLighter
  <2>1. PICK q \in Questions : request = Governed(q)
    BY DEF Made
  <2> DEFINE p == [q EXCEPT !.oneTime = oneTime, !.monthly = monthly]
  <2>2. request.asked = q
    BY <2>1 DEF Governed
  <2>3. /\ p \in Questions /\ p.words = q.words /\ p.vendors = q.vendors /\ p.revenue = q.revenue
        /\ p.confidence = q.confidence /\ p.risks = q.risks /\ p.ruling = q.ruling
        /\ p.path = q.path /\ p.company = q.company /\ p.oneTime = oneTime /\ p.monthly = monthly
    BY DEF Questions
  <2>4. CashAfter(p) > 0 /\ oneTime >= q.oneTime /\ monthly >= q.monthly
    BY <2>2
  <2> HIDE DEF p
  <2>5. Costlier(p, q)
    BY <2>3, <2>4 DEF Costlier
  <2>6. NoLighter(Governed(p))
    BY <2>1, <2>2, <2>5, CostlierStays DEF NoLighter
  <2> QED
    BY <2>2, <2>6 DEF p
<1> QED
  BY <1>1, RequestIsMade, PTL

(***************************************************************************)
(* The evidence of the council.                                            *)
(***************************************************************************)
Documents ==
    {"vendor_contract", "invoice", "procurement_note", "headcount_sheet", "board_approval",
     "security_evidence", "policy_doc", "financing_memo"}

\* The strings, among them those that the code spells out: the provers do not
\* know that a literal is one.
Words ==
    STRING \cup Analysts \cup TreasuryTools \cup FpnaTools \cup RiskTools \cup ProcurementTools
        \cup Documents \cup {"lane", "document", "search_uploaded_documents"}

Routes ==
    [role : Words, tools : SUBSET Words, queries : Seq(Words), categories : SUBSET Words,
     documents : Seq(Words)]

\* The plan p of the analyst r is fed all that its lane is made of.
Routed(p, r, type) ==
    /\ PreferredTools[r] \subseteq p.tools
    /\ DocumentCategories(type) # {} => p.documents # <<>>

\* Whichever plan of an analyst is taken routes it, and every analyst has one.
Sound(seq, type) ==
    /\ seq \in Seq(Routes)
    /\ \A i \in 1..Len(seq) : seq[i].role \in Analysts => Routed(seq[i], seq[i].role, type)

Planned(seq, type) == Sound(seq, type) /\ \A r \in Analysts : Names(seq, r)

\* The entries of a lane come from the tools that its role prefers.
LEMMA LaneIs ==
    ASSUME NEW own, NEW tools, Shared \subseteq tools, \A x \in DOMAIN own : own[x] \in tools
    PROVE  \A x \in DOMAIN LaneOf(own) : LaneOf(own)[x] \in tools
<1>1. \A x \in DOMAIN Operations : Operations[x] \in Shared
  BY DEF Operations, Shared
<1> QED
  BY <1>1 DEF LaneOf

LEMMA EvidenceIsPreferred ==
    ASSUME NEW r \in Analysts
    PROVE  \A x \in DOMAIN LaneEvidence[r] : LaneEvidence[r][x] \in PreferredTools[r]
<1>1. \A x \in DOMAIN TreasuryEvidence : TreasuryEvidence[x] \in TreasuryTools
  <2> DEFINE own ==
            [outstanding_invoices |-> "list_invoices", overdue_invoices |-> "list_invoices",
             financing_close_sensitivity |-> "run_plan_sensitivity",
             runway_stress_test |-> "run_plan_stress_test"]
  <2>1. \A x \in DOMAIN own : own[x] \in TreasuryTools
    BY DEF TreasuryTools, Shared
  <2>2. Shared \subseteq TreasuryTools
    BY DEF TreasuryTools
  <2>3. TreasuryEvidence = LaneOf(own)
    BY DEF TreasuryEvidence
  <2> HIDE DEF own
  <2> QED
    BY <2>1, <2>2, <2>3, LaneIs
<1>2. \A x \in DOMAIN FpnaEvidence : FpnaEvidence[x] \in FpnaTools
  <2> DEFINE own ==
            [arr_movements |-> "list_arr_movements", customer_contracts |-> "list_customer_contracts",
             base_operating_plan |-> "build_strategic_plan",
             playbook_comparison |-> "compare_finance_playbooks",
             forecast_sensitivity |-> "run_plan_sensitivity",
             forecast_stress_test |-> "run_plan_stress_test"]
  <2>1. \A x \in DOMAIN own : own[x] \in FpnaTools
    BY DEF FpnaTools, Shared
  <2>2. Shared \subseteq FpnaTools
    BY DEF FpnaTools
  <2>3. FpnaEvidence = LaneOf(own)
    BY DEF FpnaEvidence
  <2> HIDE DEF own
  <2> QED
    BY <2>1, <2>2, <2>3, LaneIs
<1>3. \A x \in DOMAIN RiskEvidence : RiskEvidence[x] \in RiskTools
  <2> DEFINE own ==
            [governance_controls |-> "check_controls", approval_route |-> "required_approvals",
             missing_evidence |-> "missing_evidence", hidden_obligations |-> "obligations_if_approved",
             high_discrepancies |-> "list_open_discrepancies",
             audit_knowledge |-> "search_finance_knowledge",
             downside_stress_test |-> "run_plan_stress_test"]
  <2>1. \A x \in DOMAIN own : own[x] \in RiskTools
    BY DEF RiskTools, Shared
  <2>2. Shared \subseteq RiskTools
    BY DEF RiskTools
  <2>3. RiskEvidence = LaneOf(own)
    BY DEF RiskEvidence
  <2> HIDE DEF own
  <2> QED
    BY <2>1, <2>2, <2>3, LaneIs
<1>4. \A x \in DOMAIN ProcurementEvidence : ProcurementEvidence[x] \in ProcurementTools
  <2> DEFINE own ==
            [vendor_exports |-> "list_vendors", outstanding_invoices |-> "list_invoices",
             overdue_invoices |-> "list_invoices", purchase_orders |-> "list_purchase_orders",
             vendor_clauses |-> "search_finance_knowledge",
             commercial_obligations |-> "obligations_if_approved"]
  <2>1. \A x \in DOMAIN own : own[x] \in ProcurementTools
    BY DEF ProcurementTools, Shared
  <2>2. Shared \subseteq ProcurementTools
    BY DEF ProcurementTools
  <2>3. ProcurementEvidence = LaneOf(own)
    BY DEF ProcurementEvidence
  <2> HIDE DEF own
  <2> QED
    BY <2>1, <2>2, <2>3, LaneIs
<1> QED
  BY <1>1, <1>2, <1>3, <1>4 DEF LaneEvidence, PreferredTools, Analysts

\* So that a routed plan gathers all of them, whatever is out.
LEMMA GatheredIs ==
    ASSUME NEW r \in Analysts, NEW tools, NEW outage, PreferredTools[r] \subseteq tools
    PROVE  DOMAIN Gathered(r, tools, outage) = DOMAIN LaneEvidence[r]
  BY EvidenceIsPreferred DEF Gathered, Runs

\* The tools and the names are words.
LEMMA ToolTypes == ASSUME NEW r \in Analysts PROVE PreferredTools[r] \subseteq Words /\ r \in Words
  BY DEF Analysts, PreferredTools, Words

LEMMA CategoryTypes == ASSUME NEW type PROVE DocumentCategories(type) \subseteq Words
<1>1. DocumentCategories(type) \subseteq Documents
  BY DEF DocumentCategories, Documents
<1> QED
  BY <1>1 DEF Words

LEMMA TwoLanes == SubSeq(<<"lane", "lane">>, 1, 2) = <<"lane", "lane">>
<1> DEFINE s == <<"lane", "lane">>
<1>1. s \in Seq({"lane"}) /\ Len(s) = 2
  OBVIOUS
<1> HIDE DEF s
<1>2. SubSeq(s, 1, Len(s)) = s
  BY <1>1, SubSeqFull
<1> QED
  BY <1>1, <1>2 DEF s

\* What comes after them leaves them first.
LEMMA LanesFirst ==
    ASSUME NEW S, NEW q \in Seq(S)
    PROVE  IsPrefix(<<"lane", "lane">>, <<"lane", "lane">> \o q)
<1> DEFINE a == <<"lane", "lane">>
           s == a \o q
           W == S \cup {"lane"}
<1>1. a \in Seq(W) /\ Len(a) = 2 /\ a[1] = "lane" /\ a[2] = "lane"
  OBVIOUS
<1>2. q \in Seq(W) /\ Len(q) \in Nat
  BY SeqMonotonic
<1> HIDE DEF a, W
<1>3. /\ s \in Seq(W) /\ Len(s) = Len(a) + Len(q)
      /\ \A i \in 1..(Len(a) + Len(q)) : s[i] = IF i <= Len(a) THEN a[i] ELSE q[i - Len(a)]
  BY <1>1, <1>2, ConcatProperties
<1>4. Len(s) >= 2 /\ s[1] = a[1] /\ s[2] = a[2]
  BY <1>1, <1>2, <1>3
<1> HIDE DEF s
<1>5. /\ SubSeq(s, 1, 2) \in Seq(W) /\ Len(SubSeq(s, 1, 2)) = 2
      /\ SubSeq(s, 1, 2)[1] = a[1] /\ SubSeq(s, 1, 2)[2] = a[2]
  BY <1>3, <1>4
<1>6. SubSeq(s, 1, 2) = a
  <2>1. \A i \in 1..Len(SubSeq(s, 1, 2)) : SubSeq(s, 1, 2)[i] = a[i]
    BY <1>5
  <2> QED
    BY <1>1, <1>5, <2>1, SeqEqual
<1>7. SubSeq(a, 1, 2) = a
  BY TwoLanes DEF a
<1>8. IsPrefix(a, s)
  BY <1>1, <1>3, <1>4, <1>6, <1>7 DEF IsPrefix
<1> QED
  BY <1>8 DEF a, s

LEMMA QueriesAre ==
    ASSUME NEW q \in Seq(Words)
    PROVE  MergedQueries(q) \in Seq(Words) /\ MergedQueries(q) = <<"lane", "lane">>
<1> DEFINE a == <<"lane", "lane">>
           s == a \o q
<1>1. a \in Seq(Words) /\ Len(a) = 2 /\ a[1] = "lane" /\ a[2] = "lane" /\ Len(q) \in Nat
  BY DEF Words
<1>2. s \in Seq(Words) /\ Len(s) = 2 + Len(q) /\ s[1] = "lane" /\ s[2] = "lane"
  <2> HIDE DEF a
  <2>1. /\ s \in Seq(Words) /\ Len(s) = Len(a) + Len(q)
        /\ \A i \in 1..(Len(a) + Len(q)) : s[i] = IF i <= Len(a) THEN a[i] ELSE q[i - Len(a)]
    BY <1>1, ConcatProperties
  <2> QED
    BY <1>1, <2>1
<1> HIDE DEF s, a
<1>3. SubSeq(s, 1, 2) \in Seq(Words) /\ Len(SubSeq(s, 1, 2)) = 2
  BY <1>1, <1>2
<1>4. SubSeq(s, 1, 2)[1] = "lane" /\ SubSeq(s, 1, 2)[2] = "lane"
  BY <1>1, <1>2
<1>5. SubSeq(s, 1, 2) = a
  <2>1. \A i \in 1..Len(SubSeq(s, 1, 2)) : SubSeq(s, 1, 2)[i] = a[i]
    BY <1>1, <1>3, <1>4
  <2> QED
    BY <1>1, <1>3, <2>1, SeqEqual
<1> QED
  BY <1>1, <1>5 DEF MergedQueries, s, a

\* A plan that is given a route.
LEMMA LanePlanIs ==
    ASSUME NEW p \in Routes
    PROVE  /\ LanePlan(p) \in Routes
           /\ LanePlan(p).role = p.role /\ LanePlan(p).categories = p.categories
           /\ LanePlan(p).documents = p.documents
           /\ p.tools \subseteq LanePlan(p).tools
           /\ p.role \in Analysts => /\ PreferredTools[p.role] \subseteq LanePlan(p).tools
                                     /\ LanePlan(p).queries = <<"lane", "lane">>
<1>1. CASE p.role \in Analysts
  <2> DEFINE tools == PreferredTools[p.role] \cup p.tools
             queries == MergedQueries(p.queries)
  <2>1. p.queries \in Seq(Words) /\ p.tools \subseteq Words
    BY DEF Routes
  <2>2. tools \subseteq Words
    BY <1>1, <2>1, ToolTypes
  <2>3. queries \in Seq(Words) /\ queries = <<"lane", "lane">>
    BY <2>1, QueriesAre
  <2>4. LanePlan(p) = [p EXCEPT !.tools = tools, !.queries = queries]
    BY <1>1 DEF LanePlan
  <2>5. PreferredTools[p.role] \subseteq tools /\ p.tools \subseteq tools
    OBVIOUS
  <2> HIDE DEF tools, queries
  <2> QED
    BY <2>2, <2>3, <2>4, <2>5 DEF Routes
<1>2. CASE p.role \notin Analysts
  BY <1>2 DEF LanePlan
<1> QED
  BY <1>1, <1>2

LEMMA WithDocumentsIs ==
    ASSUME NEW p \in Routes, NEW type
    PROVE  /\ WithDocuments(p, type) \in Routes
           /\ WithDocuments(p, type).role = p.role
           /\ p.tools \subseteq WithDocuments(p, type).tools
           /\ DocumentCategories(type) # {} => WithDocuments(p, type).documents # <<>>
<1> DEFINE categories == IF p.categories # {} THEN p.categories ELSE DocumentCategories(type)
           tools == p.tools \cup {"search_uploaded_documents"}
           documents == IF p.documents # <<>> THEN p.documents ELSE <<"document", "document">>
<1>1. categories \subseteq Words /\ tools \subseteq Words
  BY CategoryTypes DEF Routes, Words
<1>2. CASE DocumentCategories(type) # {}
  <2>1. WithDocuments(p, type) =
            [p EXCEPT !.tools = tools, !.documents = documents, !.categories = categories]
    BY <1>2 DEF WithDocuments
  <2>3. documents \in Seq(Words) /\ documents # <<>>
    <3>1. p.documents \in Seq(Words) /\ "document" \in Words
      BY DEF Routes, Words
    <3>2. <<"document", "document">> \in Seq(Words) /\ <<"document", "document">> # <<>>
      BY <3>1
    <3> QED
      BY <3>1, <3>2
  <2>2. p.tools \subseteq tools
    OBVIOUS
  <2> HIDE DEF categories, tools, documents
  <2> QED
    BY <1>1, <2>1, <2>2, <2>3 DEF Routes
<1>3. CASE DocumentCategories(type) = {}
  BY <1>3 DEF WithDocuments
<1> QED
  BY <1>2, <1>3

LEMMA LaneRouteIs ==
    ASSUME NEW p \in Routes, NEW type
    PROVE  /\ LaneRoute(p, type) \in Routes
           /\ LaneRoute(p, type).role = p.role
           /\ p.role \in Analysts => Routed(LaneRoute(p, type), p.role, type)
<1>1. LanePlan(p) \in Routes /\ LanePlan(p).role = p.role
  BY LanePlanIs
<1>2. p.role \in Analysts => PreferredTools[p.role] \subseteq LanePlan(p).tools
  BY LanePlanIs
<1> DEFINE l == LanePlan(p)
<1>3. /\ WithDocuments(l, type) \in Routes /\ WithDocuments(l, type).role = l.role
      /\ l.tools \subseteq WithDocuments(l, type).tools
      /\ DocumentCategories(type) # {} => WithDocuments(l, type).documents # <<>>
  BY <1>1, WithDocumentsIs
<1> QED
  BY <1>1, <1>2, <1>3 DEF LaneRoute, Routed

(***************************************************************************)
(* The plans that are enforced.                                            *)
(***************************************************************************)
LEMMA SoundConcat ==
    ASSUME NEW type, NEW a, NEW b, Sound(a, type), Sound(b, type)
    PROVE  Sound(a \o b, type) /\ \A r : Names(a, r) \/ Names(b, r) => Names(a \o b, r)
<1>1. a \in Seq(Routes) /\ b \in Seq(Routes) /\ Len(a) \in Nat /\ Len(b) \in Nat
      /\ DOMAIN a = 1..Len(a) /\ DOMAIN b = 1..Len(b)
  BY DEF Sound
<1> DEFINE c == a \o b
<1>2. /\ c \in Seq(Routes) /\ Len(c) = Len(a) + Len(b)
      /\ \A i \in 1..(Len(a) + Len(b)) : c[i] = IF i <= Len(a) THEN a[i] ELSE b[i - Len(a)]
  BY <1>1, ConcatProperties
<1> HIDE DEF c
<1>3. Sound(c, type)
  <2> SUFFICES ASSUME NEW i \in 1..Len(c), c[i].role \in Analysts PROVE Routed(c[i], c[i].role, type)
    BY <1>2 DEF Sound
  <2>1. CASE i <= Len(a)
    <3>1. i \in 1..Len(a) /\ c[i] = a[i]
      BY <1>1, <1>2, <2>1
    <3> QED
      BY <3>1 DEF Sound
  <2>2. CASE ~(i <= Len(a))
    <3>1. i - Len(a) \in 1..Len(b) /\ c[i] = b[i - Len(a)]
      BY <1>1, <1>2, <2>2
    <3> QED
      BY <3>1 DEF Sound
  <2> QED
    BY <2>1, <2>2
<1>4. ASSUME NEW r, NEW i \in 1..Len(a), a[i].role = r PROVE Names(c, r)
  <2>1. i \in DOMAIN c /\ c[i].role = r
    BY <1>1, <1>2, <1>4
  <2> QED
    BY <2>1 DEF Names
<1>5. ASSUME NEW r, NEW i \in 1..Len(b), b[i].role = r PROVE Names(c, r)
  <2> DEFINE k == Len(a) + i
  <2>1. k \in 1..(Len(a) + Len(b)) /\ ~(k <= Len(a)) /\ k - Len(a) = i
    BY <1>1
  <2> HIDE DEF k
  <2>2. k \in DOMAIN c /\ c[k] = b[i]
    BY <1>2, <2>1
  <2> QED
    BY <2>2, <1>5 DEF Names
<1> QED
  BY <1>1, <1>3, <1>4, <1>5 DEF Names, c

LEMMA SoundCut ==
    ASSUME NEW type, NEW a, Sound(a, type), NEW m \in 1..(Len(a) + 1), NEW n \in 0..Len(a)
    PROVE  /\ Sound(SubSeq(a, m, n), type)
           /\ \A i \in m..n : Names(SubSeq(a, m, n), a[i].role)
<1>1. a \in Seq(Routes) /\ Len(a) \in Nat
  BY DEF Sound
<1> DEFINE c == SubSeq(a, m, n)
<1>2. /\ c \in Seq(Routes) /\ Len(c) = IF m <= n THEN n - m + 1 ELSE 0
      /\ \A i \in 1..(n - m + 1) : c[i] = a[m + i - 1]
  BY <1>1, SubSeqProperties
<1> HIDE DEF c
<1>3. Sound(c, type)
  BY <1>1, <1>2 DEF Sound
<1>4. ASSUME NEW i \in m..n PROVE Names(c, a[i].role)
  <2>1. i - m + 1 \in DOMAIN c /\ c[i - m + 1] = a[i]
    BY <1>1, <1>2
  <2> QED
    BY <2>1 DEF Names
<1> QED
  BY <1>3, <1>4 DEF c

LEMMA SoundOne ==
    ASSUME NEW type, NEW e \in Routes, e.role \in Analysts, Routed(e, e.role, type)
    PROVE  Sound(<<e>>, type) /\ Names(<<e>>, e.role)
<1> DEFINE s == <<e>>
<1>1. s \in Seq(Routes) /\ Len(s) = 1 /\ s[1] = e /\ 1 \in DOMAIN s
  OBVIOUS
<1> HIDE DEF s
<1>2. Sound(s, type) /\ Names(s, e.role)
  BY <1>1 DEF Sound, Names
<1> QED
  BY <1>2 DEF s

LEMMA SoundInsert ==
    ASSUME NEW type, NEW a, Sound(a, type), NEW e \in Routes, e.role \in Analysts, Routed(e, e.role, type),
           NEW k \in 1..(Len(a) + 1)
    PROVE  /\ Sound(InsertAt(a, k, e), type)
           /\ Names(InsertAt(a, k, e), e.role)
           /\ \A r : Names(a, r) => Names(InsertAt(a, k, e), r)
<1> DEFINE x == SubSeq(a, 1, k - 1)
           y == SubSeq(a, k, Len(a))
<1>1. Len(a) \in Nat /\ DOMAIN a = 1..Len(a)
  BY DEF Sound
<1>2. Sound(x, type) /\ \A i \in 1..(k - 1) : Names(x, a[i].role)
  BY <1>1, SoundCut
<1>3. Sound(y, type) /\ \A i \in k..Len(a) : Names(y, a[i].role)
  BY <1>1, SoundCut
<1> HIDE DEF x, y
<1>4. Sound(<<e>>, type) /\ Names(<<e>>, e.role)
  BY SoundOne
<1>5. Sound(x \o <<e>>, type) /\ \A r : Names(x, r) \/ Names(<<e>>, r) => Names(x \o <<e>>, r)
  BY <1>2, <1>4, SoundConcat
<1>6. /\ Sound((x \o <<e>>) \o y, type)
      /\ \A r : Names(x \o <<e>>, r) \/ Names(y, r) => Names((x \o <<e>>) \o y, r)
  BY <1>3, <1>5, SoundConcat
<1>7. InsertAt(a, k, e) = (x \o <<e>>) \o y
  BY DEF InsertAt, x, y
<1>8. ASSUME NEW r, Names(a, r) PROVE Names(x, r) \/ Names(y, r)
  <2>1. PICK i \in 1..Len(a) : a[i].role = r
    BY <1>1, <1>8 DEF Names
  <2>2. i \in 1..(k - 1) \/ i \in k..Len(a)
    BY <1>1
  <2> QED
    BY <1>2, <1>3, <2>1, <2>2
<1> QED
  BY <1>4, <1>5, <1>6, <1>7, <1>8

\* The plan of a role that the planner left out.
Lane(r, type) == LaneRoute(EmptyPlan(r), type)

LEMMA LaneIsRouted ==
    ASSUME NEW r \in Analysts, NEW type
    PROVE  Lane(r, type) \in Routes /\ Lane(r, type).role = r /\ Routed(Lane(r, type), r, type)
<1>1. EmptyPlan(r) = [role |-> r, tools |-> {}, queries |-> <<>>, categories |-> {}, documents |-> <<>>]
  BY DEF EmptyPlan, RolePlan
<1>2. r \in Words /\ <<>> \in Seq(Words)
  BY ToolTypes
<1>3. EmptyPlan(r) \in Routes /\ EmptyPlan(r).role = r
  BY <1>1, <1>2 DEF Routes
<1> QED
  BY <1>3, LaneRouteIs DEF Lane

\* Those of the roles that it named.
LEMMA GivenIsSound ==
    ASSUME NEW seq \in Seq(Routes), NEW type
    PROVE  /\ Sound([i \in DOMAIN seq |-> LaneRoute(seq[i], type)], type)
           /\ \A r : Names(seq, r) => Names([i \in DOMAIN seq |-> LaneRoute(seq[i], type)], r)
<1> DEFINE g == [i \in DOMAIN seq |-> LaneRoute(seq[i], type)]
<1>1. Len(seq) \in Nat /\ DOMAIN seq = 1..Len(seq) /\ \A i \in 1..Len(seq) : seq[i] \in Routes
  OBVIOUS
<1>2. \A i \in 1..Len(seq) : /\ g[i] \in Routes /\ g[i].role = seq[i].role
                             /\ g[i].role \in Analysts => Routed(g[i], g[i].role, type)
  BY <1>1, LaneRouteIs
<1>3. g \in Seq(Routes) /\ Len(g) = Len(seq) /\ DOMAIN g = 1..Len(seq)
  <2>1. g = [i \in 1..Len(seq) |-> LaneRoute(seq[i], type)]
    BY <1>1
  <2>2. \A i \in 1..Len(seq) : LaneRoute(seq[i], type) \in Routes
    BY <1>1, LaneRouteIs
  <2> QED
    BY <1>1, <2>1, <2>2
<1> HIDE DEF g
<1>4. Sound(g, type)
  BY <1>2, <1>3 DEF Sound
<1>5. \A r : Names(seq, r) => Names(g, r)
  BY <1>1, <1>2, <1>3 DEF Names
<1> QED
  BY <1>4, <1>5 DEF g

LEMMA EnforcedIsPlanned ==
    ASSUME NEW seq \in Seq(Routes), NEW type
    PROVE  Planned(Enforced(seq, type), type)
<1> DEFINE given == [i \in DOMAIN seq |-> LaneRoute(seq[i], type)]
           first == IF Names(seq, "treasury") THEN given ELSE <<Lane("treasury", type)>> \o given
           at(s) == IF s[1].role = "treasury" THEN 2 ELSE 1
           second == IF Names(seq, "fpna") THEN first ELSE InsertAt(first, at(first), Lane("fpna", type))
           third == IF Names(seq, "risk") THEN second
                    ELSE InsertAt(second, Least(3, Len(second) + 1), Lane("risk", type))
           fourth == IF Names(seq, "procurement") THEN third ELSE Append(third, Lane("procurement", type))
<1>1. Enforced(seq, type) = fourth
  BY DEF Enforced, Lane
<1>2. \A r \in Analysts : /\ Lane(r, type) \in Routes /\ Lane(r, type).role = r
                          /\ Lane(r, type).role \in Analysts
                          /\ Routed(Lane(r, type), Lane(r, type).role, type)
  BY LaneIsRouted
<1>3. "treasury" \in Analysts /\ "fpna" \in Analysts /\ "risk" \in Analysts /\ "procurement" \in Analysts
      /\ \A r \in Analysts : r \in {"treasury", "fpna", "risk", "procurement"}
  BY DEF Analysts
<1>4. Sound(given, type) /\ \A r : Names(seq, r) => Names(given, r)
  BY GivenIsSound
<1> HIDE DEF given
<1>5. Sound(first, type) /\ Names(first, "treasury") /\ \A r : Names(seq, r) => Names(first, r)
  <2>1. CASE Names(seq, "treasury")
    BY <1>4, <2>1
  <2>2. CASE ~Names(seq, "treasury")
    <3> DEFINE s == <<Lane("treasury", type)>>
    <3>1. Sound(s, type) /\ Names(s, "treasury")
      BY <1>2, <1>3, SoundOne
    <3> HIDE DEF s
    <3>2. Sound(s \o given, type) /\ \A r : Names(s, r) \/ Names(given, r) => Names(s \o given, r)
      BY <1>4, <3>1, SoundConcat
    <3>3. first = s \o given
      BY <2>2 DEF s
    <3> QED
      BY <1>4, <3>1, <3>2, <3>3
  <2> QED
    BY <2>1, <2>2
<1> HIDE DEF first
<1>6. Len(first) \in Nat /\ Len(first) >= 1
  <2>1. first \in Seq(Routes) /\ \E i \in DOMAIN first : TRUE
    BY <1>5 DEF Sound, Names
  <2> QED
    BY <2>1
<1>7. /\ Sound(second, type) /\ Names(second, "treasury") /\ Names(second, "fpna")
      /\ \A r : Names(seq, r) => Names(second, r)
  <2>1. CASE Names(seq, "fpna")
    BY <1>5, <2>1
  <2>2. CASE ~Names(seq, "fpna")
    <3>1. at(first) \in 1..(Len(first) + 1)
      BY <1>6
    <3>2. second = InsertAt(first, at(first), Lane("fpna", type))
      BY <2>2
    <3> HIDE DEF at
    <3>3. /\ Sound(second, type) /\ Names(second, "fpna") /\ \A r : Names(first, r) => Names(second, r)
      BY <1>2, <1>3, <1>5, <3>1, <3>2, SoundInsert
    <3> QED
      BY <1>5, <3>3
  <2> QED
    BY <2>1, <2>2
<1> HIDE DEF second, at
<1>8. /\ Sound(third, type) /\ \A r \in {"treasury", "fpna", "risk"} : Names(third, r)
      /\ \A r : Names(seq, r) => Names(third, r)
  <2>1. CASE Names(seq, "risk")
    BY <1>7, <2>1
  <2>2. CASE ~Names(seq, "risk")
    <3> DEFINE k == Least(3, Len(second) + 1)
    <3>1. Len(second) \in Nat
      BY <1>7 DEF Sound
    <3>2. k \in 1..(Len(second) + 1)
      BY <3>1 DEF Least
    <3>3. third = InsertAt(second, k, Lane("risk", type))
      BY <2>2
    <3> HIDE DEF k, third
    <3>4. /\ Sound(third, type) /\ Names(third, "risk") /\ \A r : Names(second, r) => Names(third, r)
      BY <1>2, <1>3, <1>7, <3>2, <3>3, SoundInsert
    <3> QED
      BY <1>7, <3>4
  <2> QED
    BY <2>1, <2>2
<1> HIDE DEF third
<1>9. Sound(fourth, type) /\ \A r \in Analysts : Names(fourth, r)
  <2>1. CASE Names(seq, "procurement")
    BY <1>3, <1>8, <2>1
  <2>2. CASE ~Names(seq, "procurement")
    <3> DEFINE l == Lane("procurement", type)
               s == <<l>>
    <3>1. Sound(s, type) /\ Names(s, "procurement") /\ l \in Routes /\ third \in Seq(Routes)
      BY <1>2, <1>3, <1>8, SoundOne DEF Sound
    <3>2. fourth = third \o s
      BY <2>2, <3>1, AppendIsConcat
    <3> HIDE DEF s, fourth
    <3>3. /\ Sound(third \o s, type)
          /\ \A r : Names(third, r) \/ Names(s, r) => Names(third \o s, r)
      BY <1>8, <3>1, SoundConcat
    <3> QED
      BY <1>3, <1>8, <3>1, <3>2, <3>3
  <2> QED
    BY <2>1, <2>2
<1> QED
  BY <1>1, <1>9 DEF Planned

\* The plans of a planner that did not answer.
LEMMA FallbackIsPlanned == Planned(FallbackPlan, "general")
<1> DEFINE p(r) == RolePlan(r, PreferredTools[r], <<"lane", "lane">>, {})
<1>1. \A r \in Analysts : p(r) \in Routes /\ p(r).role = r /\ p(r).tools = PreferredTools[r]
  <2>1. <<"lane", "lane">> \in Seq(Words)
    BY DEF Words
  <2>2. \A r \in Analysts : r \in Words /\ PreferredTools[r] \in SUBSET Words
    BY ToolTypes
  <2> QED
    BY <2>1, <2>2 DEF RolePlan, Routes
<1>2. DocumentCategories("general") = {}
  BY DEF DocumentCategories
<1>3. \A i \in 1..4 : Lanes[i] \in Analysts
  BY DEF Lanes, Analysts
<1>4. FallbackPlan = [i \in 1..4 |-> p(Lanes[i])]
  BY DEF FallbackPlan
<1> HIDE DEF p
<1>5. FallbackPlan \in Seq(Routes) /\ Len(FallbackPlan) = 4 /\ DOMAIN FallbackPlan = 1..4
  BY <1>1, <1>3, <1>4
<1>6. Sound(FallbackPlan, "general")
  BY <1>1, <1>2, <1>3, <1>4, <1>5 DEF Sound, Routed
<1>7. \A r \in Analysts : \E i \in 1..4 : Lanes[i] = r
  <2>1. Lanes[1] = "treasury" /\ Lanes[2] = "fpna" /\ Lanes[3] = "risk" /\ Lanes[4] = "procurement"
    BY DEF Lanes
  <2> QED
    BY <2>1 DEF Analysts
<1>8. \A r \in Analysts : Names(FallbackPlan, r)
  BY <1>1, <1>4, <1>5, <1>7 DEF Names
<1> QED
  BY <1>6, <1>8 DEF Planned

\* The plan of a role that is named is one that names it.
LEMMA RolePlanFound ==
    ASSUME NEW seq \in Seq(Routes), NEW r, Names(seq, r)
    PROVE  LET i == CHOOSE j \in DOMAIN seq : seq[j].role = r /\ ~Names(SubSeq(seq, 1, j - 1), r)
           IN  i \in 1..Len(seq) /\ seq[i].role = r
<1> DEFINE K == {j \in 1..Len(seq) : seq[j].role = r}
<1>1. Len(seq) \in Nat /\ DOMAIN seq = 1..Len(seq)
  OBVIOUS
<1>2. K \in SUBSET Nat /\ K # {}
  BY <1>1 DEF Names
<1>3. PICK k \in K : \A j \in K : k <= j
  <2> HIDE DEF K
  <2> QED
    BY <1>2, LeastExists
<1>4. ~Names(SubSeq(seq, 1, k - 1), r)
  <2> DEFINE s == SubSeq(seq, 1, k - 1)
  <2>1. /\ s \in Seq(Routes) /\ Len(s) = IF 1 <= k - 1 THEN (k - 1) - 1 + 1 ELSE 0
        /\ \A j \in 1..((k - 1) - 1 + 1) : s[j] = seq[1 + j - 1]
    <3>1. k - 1 \in Int /\ \A j \in 1..(k - 1) : seq[j] \in Routes
      BY <1>1
    <3> QED
      BY <3>1, SubSeqProperties
  <2> HIDE DEF s
  <2>2. ASSUME NEW j \in DOMAIN s, s[j].role = r PROVE FALSE
    <3>1. j \in 1..(k - 1) /\ s[j] = seq[j]
      BY <1>1, <2>1
    <3>2. j \in K /\ j < k
      BY <1>1, <2>2, <3>1
    <3> QED
      BY <1>2, <1>3, <3>2
  <2> QED
    BY <2>2 DEF Names, s
<1>5. \E j \in DOMAIN seq : seq[j].role = r /\ ~Names(SubSeq(seq, 1, j - 1), r)
  BY <1>1, <1>3, <1>4
<1> QED
  BY <1>1, <1>5

\* So that every analyst is given everything that its lane is made of.
LEMMA BundleIs ==
    ASSUME NEW seq, NEW type, NEW r \in Analysts, NEW outage, NEW found, Planned(seq, type)
    PROVE  /\ DOMAIN BundleOf(r, seq, type, outage, found).gathered = DOMAIN LaneEvidence[r]
           /\ \/ IsPrefix(<<"lane", "lane">>, BundleOf(r, seq, type, outage, found).queries)
              \/ "search_finance_policies" \in BundleOf(r, seq, type, outage, found).warned
           /\ DocumentCategories(type) # {} =>
                  /\ BundleOf(r, seq, type, outage, found).documents # "none"
                  /\ BundleOf(r, seq, type, outage, found).within # {}
<1> DEFINE i == CHOOSE j \in DOMAIN seq : seq[j].role = r /\ ~Names(SubSeq(seq, 1, j - 1), r)
           p == LanePlan(seq[i])
           searched == p.documents # <<>> \/ p.categories # {}
           sought == IF ~searched THEN <<>>
                     ELSE IF p.documents # <<>> THEN FirstTwo(p.documents) ELSE <<"decision">>
           policies == Answered("search_finance_policies", FirstTwo(p.queries), outage)
           read == Answered("search_document_chunks", sought, outage)
           warned == outage \cap ({"search_finance_policies"}
                                     \cup IF searched THEN {"search_document_chunks"} ELSE {})
           b == BundleOf(r, seq, type, outage, found)
<1>1. seq \in Seq(Routes) /\ Names(seq, r)
  BY DEF Planned, Sound
<1>2. i \in 1..Len(seq) /\ seq[i].role = r
  BY <1>1, RolePlanFound
<1>3. b = [gathered  |-> Gathered(r, p.tools, outage),
           queries   |-> policies \o read,
           warned    |-> warned,
           documents |-> IF ~searched THEN "none"
                         ELSE IF found /\ read # <<>> THEN "cited" ELSE "insufficient",
           within    |-> IF ~searched THEN {}
                         ELSE IF p.categories # {} THEN p.categories ELSE DocumentCategories(type)]
  BY <1>1 DEF BundleOf
<1> HIDE DEF i
<1>4. seq[i] \in Routes /\ Routed(seq[i], r, type)
  BY <1>1, <1>2 DEF Planned, Sound
<1>5. /\ PreferredTools[r] \subseteq p.tools /\ p.queries = <<"lane", "lane">>
      /\ p.documents = seq[i].documents
  BY <1>2, <1>4, LanePlanIs
<1>6. DocumentCategories(type) # {} => searched
  BY <1>4, <1>5 DEF Routed
<1>11. p \in Routes
  BY <1>4, LanePlanIs
<1> HIDE DEF p
<1>7. DOMAIN Gathered(r, p.tools, outage) = DOMAIN LaneEvidence[r]
  BY <1>5, GatheredIs
<1>8. FirstTwo(p.queries) = <<"lane", "lane">>
  <2> DEFINE s == <<"lane", "lane">>
  <2>1. Len(s) = 2 /\ Least(2, 2) = 2
    BY DEF Least
  <2>2. FirstTwo(s) = SubSeq(s, 1, 2)
    BY <2>1 DEF FirstTwo
  <2> QED
    BY <1>5, <2>2, TwoLanes
<1>9. read \in Seq(Words \cup {"decision"})
  <2>1. FirstTwo(p.documents) \in Seq(Words)
    <3>1. p.documents \in Seq(Words)
      BY <1>11 DEF Routes
    <3> QED
      BY <3>1 DEF FirstTwo, Least
  <2>2. Seq(Words) \subseteq Seq(Words \cup {"decision"})
    BY SeqMonotonic
  <2>3. sought \in Seq(Words \cup {"decision"})
    <3>1. <<"decision">> \in Seq(Words \cup {"decision"}) /\ <<>> \in Seq(Words \cup {"decision"})
      OBVIOUS
    <3> HIDE DEF searched
    <3> QED
      BY <2>1, <2>2, <3>1
  <2> HIDE DEF sought
  <2> QED
    BY <2>3 DEF Answered
<1>10. \/ IsPrefix(<<"lane", "lane">>, policies \o read)
       \/ "search_finance_policies" \in warned
  <2>1. CASE "search_finance_policies" \in outage
    BY <2>1
  <2>2. CASE "search_finance_policies" \notin outage
    <3>1. policies = <<"lane", "lane">>
      BY <1>8, <2>2 DEF Answered
    <3> HIDE DEF policies, read
    <3> QED
      BY <1>9, <3>1, LanesFirst
  <2> QED
    BY <2>1, <2>2
<1> HIDE DEF searched, policies, read, warned, b
<1> QED
  BY <1>3, <1>6, <1>7, <1>10 DEF b

(***************************************************************************)
(* The theorem.                                                            *)
(***************************************************************************)
\* From the planner's answer to the evidence the plans are enforced; what was
\* gathered then stays.
LanesInv ==
    /\ turn \in {"planner", "evidence", "debate", "done"}
    /\ turn = "evidence" => Planned(plans, kind)
    /\ LanesAreFed

LEMMA AnswersAreRoutes == ASSUME NEW seq \in PlannedRoles PROVE seq \in Seq(Routes)
<1>1. seq \in Seq(RolePlans)
  BY PlansAssumption
<1>2. RolePlans \subseteq Routes
  <2>1. STRING \subseteq Words
    BY DEF Words
  <2>2. Seq(STRING) \subseteq Seq(Words)
    BY <2>1, SeqMonotonic
  <2> QED
    BY <2>1, <2>2 DEF RolePlans, Routes
<1> QED
  BY <1>1, <1>2, SeqMonotonic

LEMMA LanesInitially == CouncilInit => LanesInv
  BY DEF CouncilInit, LanesInv, LanesAreFed

LEMMA LanesStay == LanesInv /\ [CouncilNext]_council => LanesInv'
<1> SUFFICES ASSUME LanesInv, [CouncilNext]_council PROVE LanesInv'
  OBVIOUS
<1>1. CASE AttemptCall
  BY <1>1 DEF AttemptCall, LanesInv, LanesAreFed
<1>2. CASE PlanEvidence
  <2>1. CASE call.ok
    <3>1. PICK type \in DecisionKinds, seq \in PlannedRoles : kind' = type /\ plans' = Enforced(seq, type)
      BY <1>2, <2>1 DEF PlanEvidence
    <3>2. Planned(plans', kind')
      BY <3>1, AnswersAreRoutes, EnforcedIsPlanned
    <3> QED
      BY <1>2, <3>2 DEF PlanEvidence, LanesInv, LanesAreFed
  <2>2. CASE ~call.ok
    <3>1. Planned(plans', kind')
      BY <1>2, <2>2, FallbackIsPlanned DEF PlanEvidence
    <3> QED
      BY <1>2, <3>1 DEF PlanEvidence, LanesInv, LanesAreFed
  <2> QED
    BY <2>1, <2>2
<1>3. CASE GatherEvidence
  <2>1. PICK outage \in Outages, found \in BOOLEAN :
            bundles' = [r \in Analysts |-> BundleOf(r, plans, kind, outage, found)]
    BY <1>3 DEF GatherEvidence
  <2>2. turn = "evidence" /\ turn' = "debate" /\ kind' = kind /\ plans' = plans
    BY <1>3 DEF GatherEvidence
  <2>3. Planned(plans, kind)
    BY <2>2 DEF LanesInv
  <2>4. LanesAreFed'
    <3> SUFFICES ASSUME NEW r \in Analysts
                 PROVE  /\ DOMAIN bundles'[r].gathered = DOMAIN LaneEvidence[r]
                        /\ \/ IsPrefix(<<"lane", "lane">>, bundles'[r].queries)
                           \/ "search_finance_policies" \in bundles'[r].warned
                        /\ DocumentCategories(kind) # {} =>
                               bundles'[r].documents # "none" /\ bundles'[r].within # {}
      BY <2>2 DEF LanesAreFed
    <3>1. bundles'[r] = BundleOf(r, plans, kind, outage, found)
      BY <2>1
    <3> QED
      BY <2>3, <3>1, BundleIs
  <2> QED
    BY <2>2, <2>4 DEF LanesInv
<1>4. CASE CrossExamine
  BY <1>4 DEF CrossExamine, LanesInv, LanesAreFed
<1>5. CASE UNCHANGED council
  BY <1>5 DEF council, LanesInv, LanesAreFed
<1> QED
  BY <1>1, <1>2, <1>3, <1>4, <1>5 DEF CouncilNext

\* Whatever the planner answers, to any number of roles, in any order, misspelt,
\* twice or not at all, and whatever is out, every analyst speaks with the whole
\* evidence of its lane, with the answers to its own two queries of the policies or
\* a warning that they could not be searched, and, where documents bear on the
\* decision, after a search of them (enforce_role_specific_evidence_plan,
\* gather_role_evidence).
THEOREM LanesAreAlwaysFed == CouncilSpec => []LanesAreFed
<1>1. CouncilInit => LanesInv
  BY LanesInitially
<1>2. LanesInv /\ [CouncilNext]_council => LanesInv'
  BY LanesStay
<1>3. LanesInv => LanesAreFed
  BY DEF LanesInv
<1> QED
  BY <1>1, <1>2, <1>3, PTL DEF CouncilSpec

(***************************************************************************)
(* What is picked from a sequence.                                         *)
(***************************************************************************)
\* How many of the indices S are not after i.
Rank(S, i) == Cardinality({j \in S : j <= i})

LEMMA RankIs ==
    ASSUME NEW n \in Nat, NEW S \in SUBSET (1..n)
    PROVE  /\ IsFiniteSet(S) /\ Cardinality(S) \in 0..n
           /\ \A i \in Nat : Rank(S, i) \in 0..Cardinality(S)
           /\ Rank(S, 0) = 0 /\ Rank(S, n) = Cardinality(S)
           /\ \A i \in Nat : Rank(S, i + 1) = Rank(S, i) + IF i + 1 \in S THEN 1 ELSE 0
<1>1. IsFiniteSet(1..n) /\ Cardinality(1..n) = n
  BY FS_Interval
<1>2. IsFiniteSet(S) /\ Cardinality(S) <= n /\ Cardinality(S) \in Nat
  BY <1>1, FS_Subset, FS_CardinalityType
<1>3. \A j \in S : j \in Nat /\ 1 <= j /\ j <= n
  OBVIOUS
<1>4. ASSUME NEW i \in Nat
      PROVE  IsFiniteSet({j \in S : j <= i}) /\ Rank(S, i) \in 0..Cardinality(S)
  <2>1. {j \in S : j <= i} \in SUBSET S
    OBVIOUS
  <2> QED
    BY <1>2, <2>1, FS_Subset, FS_CardinalityType DEF Rank
<1>5. Rank(S, 0) = 0
  <2>1. {j \in S : j <= 0} = {}
    <3> SUFFICES ASSUME NEW j \in S PROVE ~(j <= 0)
      OBVIOUS
    <3>1. j \in Nat /\ 1 <= j
      BY <1>3
    <3> QED
      BY <3>1
  <2> QED
    BY <2>1, FS_EmptySet DEF Rank
<1>6. Rank(S, n) = Cardinality(S)
  <2>1. {j \in S : j <= n} = S
    BY <1>3
  <2> QED
    BY <2>1 DEF Rank
<1>7. ASSUME NEW i \in Nat
      PROVE  Rank(S, i + 1) = Rank(S, i) + IF i + 1 \in S THEN 1 ELSE 0
  <2> DEFINE A == {j \in S : j <= i}
             B == {j \in S : j <= i + 1}
  <2>1. \A j \in S : (j <= i + 1) <=> (j <= i \/ j = i + 1)
    BY <1>3
  <2>2. i + 1 \notin A
    BY <1>7
  <2>3. i + 1 \notin A /\ B = IF i + 1 \in S THEN A \cup {i + 1} ELSE A
    <3>1. CASE i + 1 \in S
      <4>1. B = A \cup {i + 1}
        BY <2>1, <3>1
      <4> QED
        BY <2>2, <3>1, <4>1
    <3>2. CASE i + 1 \notin S
      <4>1. B = A
        BY <2>1, <3>2
      <4> QED
        BY <2>2, <3>2, <4>1
    <3> QED
      BY <3>1, <3>2
  <2>4. IsFiniteSet(A) /\ Cardinality(A) \in Nat
    BY <1>4, FS_CardinalityType
  <2> HIDE DEF A, B
  <2>5. Cardinality(B) = Cardinality(A) + IF i + 1 \in S THEN 1 ELSE 0
    BY <2>3, <2>4, FS_AddElement
  <2> QED
    BY <2>5 DEF Rank, A, B
<1>8. Cardinality(S) \in 0..n
  BY <1>2
<1>9. \A i \in Nat : Rank(S, i) \in 0..Cardinality(S)
  BY <1>4
<1>10. \A i \in Nat : Rank(S, i + 1) = Rank(S, i) + IF i + 1 \in S THEN 1 ELSE 0
  BY <1>7
<1> QED
  BY <1>2, <1>5, <1>6, <1>8, <1>9, <1>10

\* Every rank is that of one index.
LEMMA RankReached ==
    ASSUME NEW n \in Nat, NEW S \in SUBSET (1..n), NEW k \in 1..Cardinality(S)
    PROVE  \E i \in S : Rank(S, i) = k
<1>1. /\ Cardinality(S) \in Nat /\ \A i \in Nat : Rank(S, i) \in Nat
      /\ Rank(S, 0) = 0 /\ Rank(S, n) = Cardinality(S)
      /\ \A i \in Nat : Rank(S, i + 1) = Rank(S, i) + IF i + 1 \in S THEN 1 ELSE 0
  BY RankIs
<1> DEFINE K == {i \in Nat : Rank(S, i) >= k}
<1>2. PICK i \in K : \A j \in K : i <= j
  <2>1. n \in K /\ K \in SUBSET Nat
    BY <1>1
  <2> HIDE DEF K
  <2> QED
    BY <2>1, LeastExists
<1>3. i \in Nat /\ Rank(S, i) >= k /\ i # 0
  BY <1>1, <1>2
<1>4. i - 1 \in Nat /\ i - 1 \notin K /\ (i - 1) + 1 = i
  BY <1>2, <1>3
<1>5. Rank(S, i) = Rank(S, i - 1) + IF i \in S THEN 1 ELSE 0
  BY <1>1, <1>4
<1>6. Rank(S, i - 1) < k /\ Rank(S, i - 1) \in Nat /\ Rank(S, i) \in Nat
  BY <1>1, <1>3, <1>4
<1> QED
  BY <1>3, <1>5, <1>6

\* No two indices have the same rank.
LEMMA RankDiffers ==
    ASSUME NEW n \in Nat, NEW S \in SUBSET (1..n), NEW i \in S, NEW j \in S,
           Rank(S, i) = Rank(S, j)
    PROVE  i = j
<1>1. IsFiniteSet(S)
  BY RankIs
<1>2. ASSUME NEW a \in S, NEW b \in S, a < b, Rank(S, a) = Rank(S, b)
      PROVE  FALSE
  <2> DEFINE A == {x \in S : x <= a}
             B == {x \in S : x <= b}
  <2>1. \A s \in S : s \in Nat
    OBVIOUS
  <2>2. A \in SUBSET B
    <3> SUFFICES ASSUME NEW x \in S, x <= a PROVE x <= b
      OBVIOUS
    <3>1. x \in Nat /\ a \in Nat /\ b \in Nat
      BY <2>1
    <3> QED
      BY <3>1, <1>2
  <2>3. b \in B /\ b \notin A
    BY <2>1, <1>2
  <2>4. A \in SUBSET B /\ B \in SUBSET S /\ b \in B /\ b \notin A
    BY <2>2, <2>3
  <2>5. Cardinality(B) = Cardinality(A)
    BY <1>2 DEF Rank
  <2> HIDE DEF A, B
  <2>6. IsFiniteSet(B)
    BY <1>1, <2>4, FS_Subset
  <2>7. B = A
    BY <2>4, <2>5, <2>6, FS_Subset
  <2> QED
    BY <2>4, <2>7
<1>3. i \in Nat /\ j \in Nat
  OBVIOUS
<1> QED
  BY <1>2, <1>3

\* What is picked of a sequence at the indices of S, of 1..n: as many.
PickedAt(seq, S, n) ==
    /\ Cardinality(S) \in 0..n
    /\ DOMAIN Picked(seq, S) = 1..Cardinality(S)
    /\ \A k \in 1..Cardinality(S) : \E i \in S : Picked(seq, S)[k] = seq[i]
    /\ \A i \in S : \E k \in 1..Cardinality(S) : Picked(seq, S)[k] = seq[i]

LEMMA PickedIs == ASSUME NEW n \in Nat, NEW S \in SUBSET (1..n), NEW seq PROVE PickedAt(seq, S, n)
<1>1. Cardinality(S) \in 0..n
  BY RankIs
<1>2. Picked(seq, S) =
         [k \in 1..Cardinality(S) |-> seq[CHOOSE i \in S : Rank(S, i) = k]]
  BY DEF Picked, Rank
<1>3. ASSUME NEW k \in 1..Cardinality(S)
      PROVE  \E i \in S : Picked(seq, S)[k] = seq[i]
  BY <1>2, RankReached
<1>4. ASSUME NEW i \in S PROVE \E k \in 1..Cardinality(S) : Picked(seq, S)[k] = seq[i]
  <2> DEFINE k == Rank(S, i)
  <2>1. k \in 1..Cardinality(S)
    <3>1. i \in Nat /\ i - 1 \in Nat /\ (i - 1) + 1 = i
      OBVIOUS
    <3>2. Rank(S, i) = Rank(S, i - 1) + 1 /\ Rank(S, i - 1) \in Nat
      BY <3>1, RankIs
    <3>3. Rank(S, i) \in 0..Cardinality(S)
      BY <3>1, RankIs
    <3> QED
      BY <3>2, <3>3
  <2>2. (CHOOSE j \in S : Rank(S, j) = k) = i
    BY RankDiffers
  <2> HIDE DEF k
  <2> QED
    BY <1>2, <2>1, <2>2
<1> QED
  BY <1>1, <1>2, <1>3, <1>4 DEF PickedAt

LEMMA LanesPicked ==
    ASSUME NEW L \in SUBSET (1..5)
    PROVE  /\ Cardinality(L) \in 0..5
           /\ DOMAIN Picked(Lanes, L) = 1..Cardinality(L)
           /\ \A k \in 1..Cardinality(L) : \E i \in L : Picked(Lanes, L)[k] = Lanes[i]
           /\ \A i \in L : \E k \in 1..Cardinality(L) : Picked(Lanes, L)[k] = Lanes[i]
<1>1. 5 \in Nat /\ L \in SUBSET (1..5)
  OBVIOUS
<1>2. PickedAt(Lanes, L, 5)
  BY <1>1, PickedIs
<1> QED
  BY <1>2 DEF PickedAt

(***************************************************************************)
(* Whom an exchange is aimed at.                                           *)
(***************************************************************************)
Everyone == DOMAIN Targets

LEMMA EveryoneIs ==
    /\ Everyone = Analysts \cup {"cfo"}
    /\ DOMAIN Lanes = 1..5
    /\ \A r \in Everyone : \E i \in 1..5 : Lanes[i] = r
    /\ \A i \in 1..5 : Lanes[i] \in Everyone
<1>1. Everyone = {"treasury", "fpna", "risk", "procurement", "cfo"}
  BY DEF Everyone, Targets
<1>2. /\ DOMAIN Lanes = 1..5 /\ Lanes[1] = "treasury" /\ Lanes[2] = "fpna" /\ Lanes[3] = "risk"
      /\ Lanes[4] = "procurement" /\ Lanes[5] = "cfo"
  BY DEF Lanes
<1>3. \A i \in 1..5 : i = 1 \/ i = 2 \/ i = 3 \/ i = 4 \/ i = 5
  OBVIOUS
<1>4. \A r \in Everyone : \E i \in 1..5 : Lanes[i] = r
  BY <1>1, <1>2
<1>5. \A i \in 1..5 : Lanes[i] \in Everyone
  BY <1>1, <1>2, <1>3
<1> QED
  BY <1>1, <1>2, <1>4, <1>5 DEF Analysts

\* Everyone may challenge all the others.
LEMMA TargetsAre ==
    ASSUME NEW r \in Everyone
    PROVE  /\ DOMAIN Targets[r] = 1..4
           /\ \A i \in 1..4 : Targets[r][i] # r
           /\ \A x \in Everyone \ {r} : \E i \in 1..4 : Targets[r][i] = x
<1>1. r \in {"treasury", "fpna", "risk", "procurement", "cfo"}
  BY DEF Everyone, Targets
<1>2. Everyone = {"treasury", "fpna", "risk", "procurement", "cfo"}
  BY DEF Everyone, Targets
<1> DEFINE t == Targets[r]
           Lists(a, b, c, d) == DOMAIN t = 1..4 /\ t[1] = a /\ t[2] = b /\ t[3] = c /\ t[4] = d
<1>3. /\ r = "treasury" => Lists("fpna", "procurement", "cfo", "risk")
      /\ r = "fpna" => Lists("treasury", "procurement", "cfo", "risk")
      /\ r = "risk" => Lists("fpna", "procurement", "treasury", "cfo")
      /\ r = "procurement" => Lists("treasury", "risk", "fpna", "cfo")
      /\ r = "cfo" => Lists("risk", "treasury", "fpna", "procurement")
  BY DEF Targets
<1>4. \A i \in 1..4 : i = 1 \/ i = 2 \/ i = 3 \/ i = 4
  OBVIOUS
<1> HIDE DEF t
<1>5. DOMAIN t = 1..4
  BY <1>1, <1>3
<1>6. \A i \in 1..4 : t[i] # r
  BY <1>1, <1>3, <1>4
<1>7. \A x \in Everyone \ {r} : t[1] = x \/ t[2] = x \/ t[3] = x \/ t[4] = x
  BY <1>1, <1>2, <1>3
<1>8. \A x \in Everyone \ {r} : \E i \in 1..4 : t[i] = x
  BY <1>7
<1> QED
  BY <1>5, <1>6, <1>8 DEF t

\* Of those at the table one other is found, when an analyst is.
LEMMA TargetIsAnother ==
    ASSUME NEW r \in Everyone, NEW seats \in SUBSET Analysts, seats # {}
    PROVE  TargetOf(r, seats \cup {"cfo"}) \in (seats \cup {"cfo"}) \ {r}
<1> DEFINE order == Targets[r]
           available == seats \cup {"cfo"}
           present == {i \in DOMAIN order : order[i] \in available}
<1>1. TargetOf(r, available) = IF present # {} THEN order[Min(present)] ELSE "cfo"
  BY DEF TargetOf
<1>2. DOMAIN order = 1..4 /\ \A i \in 1..4 : order[i] # r
  BY TargetsAre
<1>3. \E i \in 1..4 : order[i] \in available
  <2>1. PICK s \in seats : TRUE
    OBVIOUS
  <2>2. s # "cfo" /\ s \in Everyone /\ "cfo" \in Everyone
    BY <2>1, EveryoneIs DEF Analysts
  <2>3. PICK x \in {s, "cfo"} : x # r
    BY <2>2
  <2>4. x \in Everyone \ {r} /\ x \in available
    BY <2>1, <2>2, <2>3
  <2> QED
    BY <2>4, TargetsAre
<1>4. present \in SUBSET (1..4) /\ present # {}
  BY <1>2, <1>3
<1>5. Min(present) \in present
  <2>1. present \in SUBSET Nat
    BY <1>4
  <2> HIDE DEF present
  <2> QED
    BY <1>4, <2>1, MinIs
<1>6. order[Min(present)] \in available /\ order[Min(present)] # r
  BY <1>2, <1>4, <1>5
<1> HIDE DEF present, order
<1> QED
  BY <1>1, <1>4, <1>6

LEMMA AimedIs ==
    ASSUME NEW e, NormalizedRole(e.from) \in Everyone, NEW seats \in SUBSET Analysts, seats # {}
    PROVE  LET a == Aimed(e, seats \cup {"cfo"})
           IN  a.from = NormalizedRole(e.from) /\ a.to \in (seats \cup {"cfo"}) \ {a.from}
<1> DEFINE from == NormalizedRole(e.from)
           to == NormalizedRole(e.to)
           available == seats \cup {"cfo"}
<1>1. TargetOf(from, available) \in available \ {from}
  BY TargetIsAnother
<1>2. Aimed(e, available) =
        [from |-> from, to |-> IF to \in available /\ to # from THEN to ELSE TargetOf(from, available)]
  BY DEF Aimed
<1> HIDE DEF from, to, available
<1>3. Aimed(e, available).from = from /\ Aimed(e, available).to \in available \ {from}
  BY <1>1, <1>2
<1> QED
  BY <1>3 DEF from, available

(***************************************************************************)
(* How many exchanges there are.                                           *)
(***************************************************************************)
KeptAt(model) == {i \in DOMAIN model : NormalizedRole(model[i].from) \in Everyone}
HeardOf(model) == {NormalizedRole(model[i].from) : i \in KeptAt(model)}
NamedIn(model) == {NormalizedRole(model[i].from) : i \in DOMAIN model}

\* A set that a function onto it leads to is no larger.
LEMMA NoMore ==
    ASSUME NEW S, NEW T, NEW f \in [S -> T], IsFiniteSet(S), \A t \in T : \E s \in S : f[s] = t
    PROVE  IsFiniteSet(T) /\ Cardinality(T) \in Nat /\ Cardinality(T) <= Cardinality(S)
<1>1. f \in Surjection(S, T)
  BY DEF Surjection, Range
<1> QED
  BY <1>1, FS_Surjection, FS_CardinalityType

\* One role that is named once too often is the most that is kept too many.
LEMMA KeptCounts ==
    ASSUME NEW n \in Nat, NEW model, DOMAIN model = 1..n,
           n <= Cardinality(NamedIn(model)) + 1
    PROVE  Cardinality(KeptAt(model)) <= Cardinality(HeardOf(model)) + 1
<1> DEFINE K == KeptAt(model)
           R == (1..n) \ K
           H == HeardOf(model)
           name == [i \in 1..n |-> NormalizedRole(model[i].from)]
           O == {name[i] : i \in R}
<1>1. IsFiniteSet(1..n) /\ Cardinality(1..n) = n
  BY FS_Interval
<1>2. K \in SUBSET (1..n)
  BY DEF KeptAt
<1>3. /\ IsFiniteSet(K) /\ Cardinality(K) \in Nat /\ IsFiniteSet(R) /\ Cardinality(R) \in Nat
      /\ Cardinality(R) = n - Cardinality(K)
  <2>1. (1..n) \cap K = K
    BY <1>2
  <2> HIDE DEF K
  <2>2. IsFiniteSet(K) /\ Cardinality(K) \in Nat
    BY <1>1, <1>2, FS_Subset, FS_CardinalityType
  <2>3. IsFiniteSet(R) /\ Cardinality(R) = Cardinality(1..n) - Cardinality((1..n) \cap K)
    BY <1>1, FS_Difference
  <2>4. Cardinality(R) \in Nat
    BY <2>3, FS_CardinalityType
  <2> HIDE DEF R
  <2> QED
    BY <1>1, <2>1, <2>2, <2>3, <2>4
<1>4. H = {name[i] : i \in K}
  BY <1>2 DEF HeardOf
<1>5. IsFiniteSet(H) /\ Cardinality(H) \in Nat
  <2> DEFINE f == [i \in K |-> name[i]]
  <2>1. f \in [K -> H] /\ \A t \in H : \E s \in K : f[s] = t
    BY <1>4
  <2> HIDE DEF f, K, H
  <2> QED
    BY <1>3, <2>1, NoMore
<1>6. IsFiniteSet(O) /\ Cardinality(O) \in Nat /\ Cardinality(O) <= Cardinality(R)
  <2> DEFINE f == [i \in R |-> name[i]]
  <2>1. f \in [R -> O] /\ \A t \in O : \E s \in R : f[s] = t
    OBVIOUS
  <2> HIDE DEF f, R, O
  <2> QED
    BY <1>3, <2>1, NoMore
<1>7. NamedIn(model) = H \cup O
  <2>1. NamedIn(model) = {name[i] : i \in 1..n}
    BY DEF NamedIn
  <2> HIDE DEF name, H
  <2> QED
    BY <1>2, <1>4, <2>1
<1> HIDE DEF K, R, H, O
<1>8. Cardinality(NamedIn(model)) <= Cardinality(H) + Cardinality(O)
  <2>1. IsFiniteSet(H \cap O) /\ Cardinality(H \cap O) \in Nat
    BY <1>5, FS_Subset, FS_CardinalityType
  <2>2. Cardinality(H \cup O) = Cardinality(H) + Cardinality(O) - Cardinality(H \cap O)
    BY <1>5, <1>6, FS_Union
  <2> QED
    BY <1>5, <1>6, <1>7, <2>1, <2>2
<1>9. Cardinality(NamedIn(model)) \in Nat
  BY <1>5, <1>6, <1>7, FS_Union, FS_CardinalityType
<1>10. Cardinality(K) <= Cardinality(H) + 1
  BY <1>3, <1>5, <1>6, <1>8, <1>9
<1> QED
  BY <1>10 DEF K, H

\* There are five lanes, heard or silent.
LEMMA LanesCount ==
    ASSUME NEW H \in SUBSET Everyone, NEW L \in SUBSET (1..5), \A i \in L : Lanes[i] \notin H
    PROVE  IsFiniteSet(H) /\ Cardinality(H) \in Nat /\ Cardinality(L) \in Nat
           /\ Cardinality(H) + Cardinality(L) <= 5
<1> DEFINE M == {i \in 1..5 : Lanes[i] \in H}
           f == [i \in M |-> Lanes[i]]
<1>1. IsFiniteSet(1..5) /\ Cardinality(1..5) = 5
  <2>1. \A n \in Nat : IsFiniteSet(1..n) /\ Cardinality(1..n) = n
    BY FS_Interval
  <2> QED
    BY <2>1
<1>2. M \in SUBSET (1..5) /\ M \cap L = {}
  OBVIOUS
<1>3. f \in [M -> H] /\ \A h \in H : \E i \in M : f[i] = h
  BY EveryoneIs
<1> HIDE DEF M, f
<1>4. /\ IsFiniteSet(M) /\ Cardinality(M) \in Nat
      /\ IsFiniteSet(L) /\ Cardinality(L) \in Nat
  BY <1>1, <1>2, FS_Subset, FS_CardinalityType
<1>5. IsFiniteSet(H) /\ Cardinality(H) \in Nat /\ Cardinality(H) <= Cardinality(M)
  BY <1>3, <1>4, NoMore
<1>6. Cardinality(M \cup L) = Cardinality(M) + Cardinality(L)
  <2>1. Cardinality(M \cup L) = Cardinality(M) + Cardinality(L) - Cardinality(M \cap L)
    BY <1>4, FS_Union
  <2>2. Cardinality(M \cap L) = 0
    BY <1>2, FS_EmptySet
  <2> QED
    BY <1>4, <2>1, <2>2
<1>7. M \cup L \in SUBSET (1..5)
  BY <1>2
<1>8. Cardinality(M \cup L) <= 5
  BY <1>1, <1>7, FS_Subset
<1> QED
  BY <1>4, <1>5, <1>6, <1>8

(***************************************************************************)
(* The exchanges of the transcript.                                        *)
(***************************************************************************)
Ends == [from : Everyone, to : Everyone]

Answers(e, seats) == e \in Ends /\ e.to \in (seats \cup {"cfo"}) \ {e.from}

LEMMA ExchangesAnswer ==
    ASSUME NEW n \in Nat, NEW model, DOMAIN model = 1..n,
           NEW seats \in SUBSET Analysts, seats # {}
    PROVE  LET t == Exchanges(model, seats)
           IN  /\ \A i \in DOMAIN t : t[i].to \in (seats \cup {"cfo"}) \ {t[i].from}
               /\ MaxTurns >= 6 /\ n <= Cardinality(NamedIn(model)) + 1 =>
                      seats \cup {"cfo"} \subseteq {t[i].from : i \in DOMAIN t}
<1> DEFINE available == seats \cup {"cfo"}
           K == KeptAt(model)
           H == HeardOf(model)
           p == Cardinality(K)
           kept == Picked(model, K)
           given == [i \in 1..p |-> Aimed(kept[i], available)]
           heard == {given[i].from : i \in DOMAIN given}
           L == {i \in DOMAIN Lanes : Lanes[i] \in available \ H}
           q == Cardinality(L)
           silent == Picked(Lanes, L)
           added == [i \in 1..q |-> [from |-> silent[i], to |-> TargetOf(silent[i], available)]]
           all == given \o added
           t == SubSeq(all, 1, Least(MaxTurns, Len(given) + Len(added)))
<1>1. K \in SUBSET (1..n) /\ available \subseteq Everyone
  BY EveryoneIs DEF KeptAt
<1>2. /\ p \in Nat /\ DOMAIN kept = 1..p
      /\ \A k \in 1..p : \E i \in K : kept[k] = model[i]
      /\ \A i \in K : \E k \in 1..p : kept[k] = model[i]
  <2> HIDE DEF K
  <2>1. PickedAt(model, K, n)
    BY <1>1, PickedIs
  <2>2. p \in Nat
    BY <2>1 DEF PickedAt
  <2> QED
    BY <2>1, <2>2 DEF PickedAt
<1>3. /\ \A k \in 1..p : NormalizedRole(kept[k].from) \in H /\ NormalizedRole(kept[k].from) \in Everyone
      /\ \A h \in H : \E k \in 1..p : NormalizedRole(kept[k].from) = h
  <2>1. H = {NormalizedRole(model[i].from) : i \in K}
    BY DEF HeardOf
  <2>2. \A i \in K : NormalizedRole(model[i].from) \in Everyone
    BY DEF KeptAt
  <2> HIDE DEF H, K, p, kept
  <2> QED
    BY <1>2, <2>1, <2>2
<1>4. \A k \in 1..p : Answers(given[k], seats) /\ given[k].from = NormalizedRole(kept[k].from)
  <2> SUFFICES ASSUME NEW k \in 1..p
               PROVE  Answers(given[k], seats) /\ given[k].from = NormalizedRole(kept[k].from)
    OBVIOUS
  <2>1. NormalizedRole(kept[k].from) \in Everyone
    BY <1>3
  <2> DEFINE a == Aimed(kept[k], available)
  <2>2. a.from = NormalizedRole(kept[k].from) /\ a.to \in available \ {a.from}
    <3> HIDE DEF kept
    <3> QED
      BY <2>1, AimedIs
  <2>3. given[k] = a
    OBVIOUS
  <2>4. a = [from |-> a.from, to |-> a.to]
    BY DEF Aimed
  <2> HIDE DEF a, given, kept
  <2> QED
    BY <1>1, <2>1, <2>2, <2>3, <2>4 DEF Answers, Ends
<1>5. heard = H
  <2>1. DOMAIN given = 1..p
    OBVIOUS
  <2> HIDE DEF given, H, kept, p
  <2> QED
    BY <1>3, <1>4, <2>1
<1>6. /\ L \in SUBSET (1..5) /\ q \in Nat
      /\ \A k \in 1..q : \E i \in L : silent[k] = Lanes[i]
      /\ \A i \in L : \E k \in 1..q : silent[k] = Lanes[i]
      /\ DOMAIN silent = 1..q
  <2>1. L \in SUBSET (1..5)
    BY EveryoneIs
  <2> HIDE DEF L
  <2>3. /\ q \in 0..5 /\ DOMAIN silent = 1..q
        /\ \A k \in 1..q : \E i \in L : silent[k] = Lanes[i]
        /\ \A i \in L : \E k \in 1..q : silent[k] = Lanes[i]
    BY <2>1, LanesPicked
  <2> HIDE DEF q, silent
  <2> QED
    BY <2>1, <2>3
<1>7. \A k \in 1..q : Answers(added[k], seats) /\ added[k].from = silent[k]
  <2> SUFFICES ASSUME NEW k \in 1..q
               PROVE  Answers(added[k], seats) /\ added[k].from = silent[k]
    OBVIOUS
  <2>1. silent[k] \in Everyone
    BY <1>1, <1>6
  <2>2. TargetOf(silent[k], available) \in available \ {silent[k]}
    BY <2>1, TargetIsAnother
  <2>3. added[k] = [from |-> silent[k], to |-> TargetOf(silent[k], available)]
    OBVIOUS
  <2> HIDE DEF added, silent
  <2> QED
    BY <1>1, <2>1, <2>2, <2>3 DEF Answers, Ends
<1>8. Exchanges(model, seats) = t
  <2>1. DOMAIN kept = 1..p
    BY <1>2
  <2>2. {i \in DOMAIN model : NormalizedRole(model[i].from) \in DOMAIN Targets} = K
    BY DEF KeptAt, Everyone
  <2>3. DOMAIN silent = 1..q /\ [i \in DOMAIN kept |-> Aimed(kept[i], available)] = given
    BY <1>6, <2>1
  <2>4. L = {i \in DOMAIN Lanes : Lanes[i] \in available \ heard}
    BY <1>5
  <2>5. Exchanges(model, seats) =
          LET a == [i \in DOMAIN kept |-> Aimed(kept[i], available)]
              h == {a[i].from : i \in DOMAIN a}
              s == Picked(Lanes, {i \in DOMAIN Lanes : Lanes[i] \in available \ h})
              b == [i \in DOMAIN s |-> [from |-> s[i], to |-> TargetOf(s[i], available)]]
          IN  SubSeq(a \o b, 1, Least(MaxTurns, Len(a) + Len(b)))
    BY <2>2 DEF Exchanges
  <2> HIDE DEF K, H, p, q, L, kept, given, heard, available
  <2> DEFINE s == Picked(Lanes, {i \in DOMAIN Lanes : Lanes[i] \in available \ heard})
             b == [i \in DOMAIN s |-> [from |-> s[i], to |-> TargetOf(s[i], available)]]
  <2>6. Exchanges(model, seats) = SubSeq(given \o b, 1, Least(MaxTurns, Len(given) + Len(b)))
    BY <2>3, <2>5 DEF heard
  <2>7. s = silent
    BY <2>4
  <2>8. b = added
    BY <2>3, <2>7
  <2> HIDE DEF b, added, silent
  <2> QED
    BY <2>6, <2>8
<1>9. /\ given \in Seq(Ends) /\ Len(given) = p
      /\ added \in Seq(Ends) /\ Len(added) = q
  <2>1. \A k \in 1..p : given[k] \in Ends
    BY <1>4 DEF Answers
  <2>2. \A k \in 1..q : added[k] \in Ends
    BY <1>7 DEF Answers
  <2>3. given \in [1..p -> Ends]
    BY <2>1
  <2>4. added \in [1..q -> Ends]
    BY <2>2
  <2> HIDE DEF given, added, p, q
  <2> QED
    BY <1>2, <1>6, <2>3, <2>4
<1> HIDE DEF K, H, L, p, q, given, added, kept, silent
<1>10. /\ all \in Seq(Ends) /\ Len(all) = p + q
       /\ \A i \in 1..(p + q) : all[i] = IF i <= p THEN given[i] ELSE added[i - p]
  BY <1>9, ConcatProperties
<1>11. \A i \in 1..(p + q) : Answers(all[i], seats)
  <2> SUFFICES ASSUME NEW i \in 1..(p + q) PROVE Answers(all[i], seats)
    OBVIOUS
  <2>1. CASE i <= p
    BY <1>2, <1>4, <1>10, <2>1
  <2>2. CASE ~(i <= p)
    <3>1. i - p \in 1..q
      BY <1>2, <1>6, <2>2
    <3> QED
      BY <1>7, <1>10, <2>2, <3>1
  <2> QED
    BY <2>1, <2>2
<1> HIDE DEF all
<1> DEFINE m == Least(MaxTurns, p + q)
<1>12. m \in 0..(p + q) /\ (p + q <= MaxTurns => m = p + q)
  BY <1>2, <1>6, CouncilAssumption DEF Least
<1> HIDE DEF m
<1>13. t = SubSeq(all, 1, m)
  BY <1>9 DEF m
<1> HIDE DEF t
<1>14. Len(t) = m /\ DOMAIN t = 1..m /\ \A i \in 1..m : t[i] = all[i]
  <2>1. \A i \in 1..m : all[i] \in Ends
    BY <1>2, <1>6, <1>11, <1>12 DEF Answers
  <2>2. /\ SubSeq(all, 1, m) \in Seq(Ends)
        /\ Len(SubSeq(all, 1, m)) = IF 1 <= m THEN m - 1 + 1 ELSE 0
        /\ \A i \in 1..(m - 1 + 1) : SubSeq(all, 1, m)[i] = all[1 + i - 1]
    BY <1>2, <1>6, <1>12, <2>1, SubSeqProperties
  <2>3. Len(t) = m /\ DOMAIN t = 1..m
    BY <1>2, <1>6, <1>12, <1>13, <2>2
  <2>4. \A i \in 1..m : t[i] = all[i]
    BY <1>2, <1>6, <1>12, <1>13, <2>2
  <2> QED
    BY <2>3, <2>4
<1>15. \A i \in DOMAIN t : t[i].to \in available \ {t[i].from}
  <2> SUFFICES ASSUME NEW i \in 1..m PROVE t[i].to \in available \ {t[i].from}
    BY <1>14
  <2>1. i \in 1..(p + q)
    BY <1>2, <1>6, <1>12
  <2>2. t[i] = all[i] /\ Answers(all[i], seats)
    BY <1>11, <1>14, <2>1
  <2> QED
    BY <2>2 DEF Answers
<1>16. ASSUME MaxTurns >= 6, n <= Cardinality(NamedIn(model)) + 1
       PROVE  available \subseteq {t[i].from : i \in DOMAIN t}
  <2>1. p <= Cardinality(H) + 1
    BY <1>16, KeptCounts DEF p, K, H
  <2>2. Cardinality(H) \in Nat /\ Cardinality(H) + q <= 5
    <3>1. H \in SUBSET Everyone
      BY DEF H, HeardOf, KeptAt
    <3>2. \A i \in L : Lanes[i] \notin H
      BY DEF L
    <3> QED
      BY <1>6, <3>1, <3>2, LanesCount DEF q
  <2>3. m = p + q
    BY <1>2, <1>6, <1>12, <1>16, <2>1, <2>2, CouncilAssumption
  <2> SUFFICES ASSUME NEW r \in available PROVE \E i \in 1..m : t[i].from = r
    BY <1>14
  <2>4. CASE r \in H
    <3>1. PICK k \in 1..p : given[k].from = r
      BY <1>3, <1>4, <2>4
    <3>2. k \in 1..m /\ all[k] = given[k]
      BY <1>2, <1>6, <1>10, <2>3
    <3> QED
      BY <1>14, <3>1, <3>2
  <2>5. CASE r \notin H
    <3>1. PICK i \in L : Lanes[i] = r
      <4>1. PICK i \in 1..5 : Lanes[i] = r
        BY <1>1, EveryoneIs
      <4> QED
        BY <2>5, <4>1, EveryoneIs DEF L
    <3>2. PICK k \in 1..q : added[k].from = r
      BY <1>6, <1>7, <3>1
    <3>3. p + k \in 1..m /\ ~(p + k <= p) /\ (p + k) - p = k
      BY <1>2, <1>6, <2>3
    <3>4. all[p + k] = added[k]
      BY <1>10, <2>3, <3>3
    <3> QED
      BY <1>14, <3>2, <3>3, <3>4
  <2> QED
    BY <2>4, <2>5
<1> QED
  BY <1>8, <1>15, <1>16

(***************************************************************************)
(* Who is heard at the table.                                              *)
(***************************************************************************)
\* What the transcript holds is made of the answer and the positions.
TableMade ==
    turn = "done" /\ call.ok =>
        asked \in ModelExchanges /\ seated \in SUBSET Analysts /\ table = Exchanges(asked, seated)

LEMMA TableIsMade == CouncilSpec => []TableMade
<1>1. CouncilInit => TableMade
  BY DEF CouncilInit, TableMade
<1>2. TableMade /\ [CouncilNext]_council => TableMade'
  <2> SUFFICES ASSUME TableMade, [CouncilNext]_council PROVE TableMade'
    OBVIOUS
  <2>1. CASE AttemptCall
    BY <2>1 DEF AttemptCall, TableMade
  <2>2. CASE PlanEvidence
    BY <2>2 DEF PlanEvidence, TableMade
  <2>3. CASE GatherEvidence
    BY <2>3 DEF GatherEvidence, TableMade
  <2>4. CASE CrossExamine
    BY <2>4 DEF CrossExamine, TableMade
  <2>5. CASE UNCHANGED council
    BY <2>5 DEF council, TableMade
  <2> QED
    BY <2>1, <2>2, <2>3, <2>4, <2>5 DEF CouncilNext
<1> QED
  BY <1>1, <1>2, PTL DEF CouncilSpec

\* Whatever the model answers, whoever holds a position: with the six exchanges
\* that the code keeps, nobody is challenged by itself or challenges an empty
\* seat, and with no more than one name used once too often everyone who sits
\* there is heard (ensure_role_specific_exchanges, _select_challenge_target).
THEOREM TableIsAlwaysAnswerable == ASSUME MaxTurns >= 6 PROVE CouncilSpec => []TableIsAnswerable
<1>1. TableMade => TableIsAnswerable
  <2> SUFFICES ASSUME TableMade, turn = "done", call.ok, seated # {} PROVE TableIsAnswerable
    BY DEF TableIsAnswerable
  <2>1. asked \in ModelExchanges /\ seated \in SUBSET Analysts /\ table = Exchanges(asked, seated)
    BY DEF TableMade
  <2> DEFINE n == Len(asked)
  <2>2. n \in Nat /\ DOMAIN asked = 1..n
    BY <2>1, ExchangesAssumption
  <2> HIDE DEF n
  <2>3. /\ \A i \in DOMAIN table : table[i].to \in (seated \cup {"cfo"}) \ {table[i].from}
        /\ n <= Cardinality(NamedIn(asked)) + 1 =>
               seated \cup {"cfo"} \subseteq {table[i].from : i \in DOMAIN table}
    <3> DEFINE t == Exchanges(asked, seated)
    <3>1. /\ \A i \in DOMAIN t : t[i].to \in (seated \cup {"cfo"}) \ {t[i].from}
          /\ n <= Cardinality(NamedIn(asked)) + 1 =>
                 seated \cup {"cfo"} \subseteq {t[i].from : i \in DOMAIN t}
      BY <2>1, <2>2, ExchangesAnswer
    <3>2. table = t
      BY <2>1
    <3> HIDE DEF t
    <3> QED
      BY <3>1, <3>2
  <2> QED
    BY <2>3 DEF n, TableIsAnswerable, NamedIn
<1> QED
  BY <1>1, TableIsMade, PTL

(***************************************************************************)
(* The fold of the changes.                                                *)
(***************************************************************************)
\* g is the function that FoldLeft chooses.
Folded(g, s, cs, S) ==
    g = [u \in SUBSET S |-> IF u = {} THEN s ELSE Apply(g[u \ {Max(u)}], cs[Max(u)])]

LEMMA FoldIs ==
    ASSUME NEW s, NEW cs
    PROVE  FoldLeft(Apply, s, cs) = (CHOOSE g : Folded(g, s, cs, DOMAIN cs))[DOMAIN cs]
  BY DEF FoldLeft, MapThenFoldSet, Folded

LEMMA MaxIs == ASSUME NEW n \in Nat, NEW u \in SUBSET (1..n), n \in u PROVE Max(u) = n
<1>1. n \in u /\ \A y \in u : n >= y
  OBVIOUS
<1>2. \A x \in u : (\A y \in u : x >= y) => x = n
  BY <1>1
<1> QED
  BY <1>1, <1>2 DEF Max

LEMMA FoldExists ==
    ASSUME NEW s, NEW cs, NEW n \in Nat
    PROVE  \E g : Folded(g, s, cs, 1..n)
<1> DEFINE K == {k \in Nat : ~\E g : Folded(g, s, cs, 1..k)}
<1>1. SUFFICES ASSUME K # {} PROVE FALSE
  OBVIOUS
<1>2. PICK k \in K : \A j \in K : k <= j
  <2>1. K \in SUBSET Nat
    OBVIOUS
  <2> HIDE DEF K
  <2> QED
    BY <1>1, <2>1, LeastExists
<1>3. k # 0
  <2> DEFINE g == [u \in SUBSET (1..0) |-> s]
  <2>1. \A u \in SUBSET (1..0) : u = {}
    OBVIOUS
  <2>2. g = [u \in SUBSET (1..0) |-> IF u = {} THEN s ELSE Apply(g[u \ {Max(u)}], cs[Max(u)])]
    BY <2>1
  <2> HIDE DEF g
  <2>3. Folded(g, s, cs, 1..0)
    BY <2>2 DEF Folded
  <2> QED
    BY <1>2, <2>3
<1>4. k \in Nat /\ k - 1 \in Nat /\ k - 1 \notin K
  BY <1>2, <1>3
<1>5. PICK f : Folded(f, s, cs, 1..(k - 1))
  BY <1>4
<1>6. \A u \in SUBSET (1..(k - 1)) : f[u] = IF u = {} THEN s ELSE Apply(f[u \ {Max(u)}], cs[Max(u)])
  BY <1>5 DEF Folded
<1> DEFINE g == [u \in SUBSET (1..k) |-> IF k \in u THEN Apply(f[u \ {k}], cs[k]) ELSE f[u]]
<1>7. ASSUME NEW u \in SUBSET (1..k)
      PROVE  g[u] = IF u = {} THEN s ELSE Apply(g[u \ {Max(u)}], cs[Max(u)])
  <2>1. CASE k \in u
    <3>1. Max(u) = k /\ u # {}
      BY <1>4, <2>1, MaxIs
    <3>2. u \ {k} \in SUBSET (1..k) /\ k \notin u \ {k}
      OBVIOUS
    <3>3. g[u \ {k}] = f[u \ {k}]
      BY <3>2
    <3>4. g[u] = Apply(f[u \ {k}], cs[k])
      BY <2>1
    <3> HIDE DEF g
    <3> QED
      BY <3>1, <3>3, <3>4
  <2>2. CASE k \notin u
    <3> DEFINE v == u \ {Max(u)}
    <3>1. u \in SUBSET (1..(k - 1)) /\ v \in SUBSET (1..k) /\ k \notin v
      <4>1. \A x \in 1..k : x # k => x \in 1..(k - 1)
        BY <1>4
      <4> QED
        BY <2>2, <4>1
    <3> HIDE DEF v
    <3>2. g[u] = f[u] /\ g[v] = f[v]
      BY <2>2, <3>1
    <3> HIDE DEF g
    <3> QED
      BY <1>6, <3>1, <3>2 DEF v
  <2> QED
    BY <2>1, <2>2
<1>8. g = [u \in SUBSET (1..k) |-> g[u]]
  OBVIOUS
<1> HIDE DEF g
<1>9. Folded(g, s, cs, 1..k)
  BY <1>7, <1>8 DEF Folded
<1> QED
  BY <1>2, <1>9

\* The states that the changes go through, one after the other.
Trace(h, s, cs) == \A k \in 0..Len(cs) : h[k] = IF k = 0 THEN s ELSE Apply(h[k - 1], cs[k])

LEMMA FoldTrace ==
    ASSUME NEW s, NEW cs \in Seq(Changes)
    PROVE  \E h : Trace(h, s, cs) /\ FoldLeft(Apply, s, cs) = h[Len(cs)]
<1> DEFINE n == Len(cs)
<1>1. n \in Nat /\ DOMAIN cs = 1..n
  OBVIOUS
<1> HIDE DEF n
<1>2. PICK g : Folded(g, s, cs, 1..n) /\ FoldLeft(Apply, s, cs) = g[1..n]
  BY <1>1, FoldIs, FoldExists
<1>3. \A u \in SUBSET (1..n) : g[u] = IF u = {} THEN s ELSE Apply(g[u \ {Max(u)}], cs[Max(u)])
  BY <1>2 DEF Folded
<1> DEFINE h == [k \in 0..n |-> g[1..k]]
<1>4. ASSUME NEW k \in 0..n PROVE h[k] = IF k = 0 THEN s ELSE Apply(h[k - 1], cs[k])
  <2>1. CASE k = 0
    <3>1. (1..k) = {} /\ (1..k) \in SUBSET (1..n) /\ h[k] = g[1..k]
      BY <1>1, <2>1
    <3> QED
      BY <1>3, <2>1, <3>1
  <2>2. CASE k # 0
    <3>1. (1..k) \in SUBSET (1..n) /\ k \in 1..k /\ k \in Nat /\ (1..k) # {}
      <4>1. k \in Nat /\ 1 <= k /\ k <= n /\ n \in Nat
        BY <1>1, <2>2
      <4>2. \A x \in 1..k : x \in 1..n
        BY <4>1
      <4>3. k \in 1..k
        BY <4>1
      <4> QED
        BY <4>1, <4>2, <4>3
    <3>2. Max(1..k) = k
      BY <3>1, MaxIs
    <3>3. (1..k) \ {k} = 1..(k - 1)
      BY <3>1
    <3>4. h[k] = g[1..k] /\ h[k - 1] = g[1..(k - 1)]
      BY <1>1, <2>2
    <3>5. g[1..k] = Apply(g[(1..k) \ {Max(1..k)}], cs[Max(1..k)])
      BY <1>3, <3>1
    <3> HIDE DEF h
    <3> QED
      BY <2>2, <3>2, <3>3, <3>4, <3>5
  <2> QED
    BY <2>1, <2>2
<1>5. h[n] = g[1..n]
  BY <1>1
<1> HIDE DEF h
<1>6. Trace(h, s, cs)
  BY <1>4 DEF Trace, n
<1> QED
  BY <1>2, <1>5, <1>6 DEF n

LEMMA TracesAgree ==
    ASSUME NEW s, NEW cs, NEW ds, NEW h, NEW e, Trace(h, s, cs), Trace(e, s, ds),
           NEW n \in Nat, n <= Len(cs), n <= Len(ds), Len(cs) \in Nat, Len(ds) \in Nat,
           \A k \in 1..n : cs[k] = ds[k]
    PROVE  h[n] = e[n]
<1> DEFINE K == {k \in 0..n : h[k] # e[k]}
<1>1. SUFFICES ASSUME K # {} PROVE FALSE
  OBVIOUS
<1>2. PICK k \in K : \A j \in K : k <= j
  <2>1. K \in SUBSET Nat
    OBVIOUS
  <2> HIDE DEF K
  <2> QED
    BY <1>1, <2>1, LeastExists
<1>3. k \in 0..n /\ h[k] # e[k]
  BY <1>2
<1>4. k \in 0..Len(cs) /\ k \in 0..Len(ds)
  BY <1>3
<1>5. /\ h[k] = IF k = 0 THEN s ELSE Apply(h[k - 1], cs[k])
      /\ e[k] = IF k = 0 THEN s ELSE Apply(e[k - 1], ds[k])
  BY <1>4 DEF Trace
<1>6. CASE k = 0
  BY <1>3, <1>5, <1>6
<1>7. CASE k # 0
  <2>1. k - 1 \in 0..n /\ k \in 1..n /\ ~(k <= k - 1)
    BY <1>3, <1>7
  <2>2. h[k - 1] = e[k - 1] /\ cs[k] = ds[k]
    BY <1>2, <2>1
  <2> QED
    BY <1>3, <1>5, <1>7, <2>2
<1> QED
  BY <1>6, <1>7

LEMMA FoldStep ==
    ASSUME NEW s, NEW cs \in Seq(Changes), NEW c \in Changes
    PROVE  FoldLeft(Apply, s, Append(cs, c)) = Apply(FoldLeft(Apply, s, cs), c)
<1> DEFINE n == Len(cs)
           ds == Append(cs, c)
<1>1. /\ n \in Nat /\ ds \in Seq(Changes) /\ Len(ds) = n + 1 /\ ds[n + 1] = c
      /\ \A k \in 1..n : cs[k] = ds[k]
  OBVIOUS
<1>2. PICK h : Trace(h, s, cs) /\ FoldLeft(Apply, s, cs) = h[n]
  BY FoldTrace
<1> HIDE DEF ds
<1>3. PICK e : Trace(e, s, ds) /\ FoldLeft(Apply, s, ds) = e[n + 1]
  BY <1>1, FoldTrace
<1>4. h[n] = e[n]
  <2>1. n <= Len(cs) /\ n <= Len(ds) /\ Len(cs) \in Nat /\ Len(ds) \in Nat
    BY <1>1
  <2> HIDE DEF n
  <2> QED
    BY <1>1, <1>2, <1>3, <2>1, TracesAgree
<1>5. e[n + 1] = Apply(e[n], c)
  <2>1. n + 1 \in 0..Len(ds) /\ n + 1 # 0 /\ (n + 1) - 1 = n
    BY <1>1
  <2> HIDE DEF n
  <2>2. e[n + 1] = Apply(e[(n + 1) - 1], ds[n + 1])
    BY <1>3, <2>1 DEF Trace
  <2> QED
    BY <1>1, <2>1, <2>2
<1> QED
  BY <1>2, <1>3, <1>4, <1>5 DEF ds

(***************************************************************************)
(* What a change that only costs does to the state and to the metrics.     *)
(***************************************************************************)
LEMMA ChangeFields ==
    ASSUME NEW c \in Changes
    PROVE  /\ c.adds \in Int
           /\ c.type \in {"hire", "opex_change", "vendor_renegotiation", "revenue_slip", "churn_shock",
                         "compliance_blocker", "financing", "capex"}
           /\ c.type = "hire" => c.roles \in Int /\ c.monthly \in Int \cup {None}
           /\ c.type = "opex_change" => c.monthly \in Int
           /\ c.type = "vendor_renegotiation" => c.old \in Int /\ c.new \in Int
           /\ c.type \in {"revenue_slip", "churn_shock"} => c.amount \in Int \cup {None} /\ c.pct \in Int
           /\ c.type = "churn_shock" => c.segment \in Int
           /\ c.type \in {"compliance_blocker", "financing", "capex"} => c.amount \in Int
  BY DEF Changes

LEMMA MonthlyCostType == ASSUME NEW c \in Changes PROVE MonthlyCost(c) \in Int
<1>1. CASE c.type = "hire"
  <2>1. MonthlyCost(c) = IF c.monthly = None THEN c.roles * 160 ELSE c.monthly
    BY <1>1 DEF MonthlyCost, DEFAULT_ROLE_COST
  <2> QED
    BY <1>1, <2>1, ChangeFields
<1>2. CASE c.type = "opex_change"
  <2>1. MonthlyCost(c) = c.monthly
    BY <1>2 DEF MonthlyCost
  <2> QED
    BY <1>2, <2>1, ChangeFields
<1>3. CASE c.type = "vendor_renegotiation"
  <2>1. MonthlyCost(c) = (c.new - c.old) \div 12
    BY <1>3 DEF MonthlyCost
  <2> QED
    BY <1>3, <2>1, ChangeFields
<1>4. CASE c.type \notin {"hire", "opex_change", "vendor_renegotiation"}
  BY <1>4 DEF MonthlyCost
<1> QED
  BY <1>1, <1>2, <1>3, <1>4

LEMMA LostType == ASSUME NEW s \in States, NEW c \in Changes PROVE Lost(s, c) \in Int
<1>1. CASE c.type \notin {"revenue_slip", "churn_shock"}
  BY <1>1 DEF Lost
<1>2. CASE c.type \in {"revenue_slip", "churn_shock"}
  <2> DEFINE book == CASE c.type = "revenue_slip" -> s.revenue
                       [] c.type = "churn_shock" /\ c.segment > 0 -> c.segment
                       [] OTHER -> s.mrr
  <2>1. book \in Int
    <3>1. CASE c.type = "revenue_slip"
      BY <3>1 DEF States
    <3>2. CASE c.type = "churn_shock"
      BY <3>2, ChangeFields DEF States
    <3> QED
      BY <1>2, <3>1, <3>2
  <2>2. Lost(s, c) = IF c.amount # None THEN c.amount ELSE Percent(book, c.pct)
    BY <1>2 DEF Lost
  <2> HIDE DEF book
  <2>3. c.amount \in Int \cup {None} /\ c.pct \in Int
    BY <1>2, ChangeFields
  <2> QED
    BY <2>1, <2>2, <2>3 DEF Percent
<1> QED
  BY <1>1, <1>2

\* Apply, field by field.
LEMMA ApplyIs ==
    ASSUME NEW s \in States, NEW c \in Changes
    PROVE  /\ Apply(s, c) \in States
           /\ Apply(s, c).opex = s.opex + MonthlyCost(c)
           /\ Apply(s, c).cogs = s.cogs
           /\ c.type \notin {"financing", "capex"} => Apply(s, c).cash = s.cash
           /\ c.type = "capex" => Apply(s, c).cash = s.cash - c.amount
           /\ c.type \notin {"revenue_slip", "churn_shock", "compliance_blocker"} =>
                  /\ Apply(s, c).revenue = s.revenue + c.adds
                  /\ Apply(s, c).netNew = s.netNew + 12 * c.adds
<1> DEFINE lost == Lost(s, c)
           Kept(amount, loss) ==
               IF c.type \in {"revenue_slip", "churn_shock"} THEN Greatest(0, amount - loss) ELSE amount
           opex == s.opex + MonthlyCost(c)
           headcount == s.headcount + (IF c.type = "hire" THEN c.roles ELSE 0)
           cash == s.cash + (IF c.type = "financing" THEN c.amount
                             ELSE IF c.type = "capex" THEN -c.amount ELSE 0)
           revenue == Kept(s.revenue, lost) + c.adds
           mrr == Kept(s.mrr, lost) + c.adds
           arr == Kept(s.arr, 12 * lost) + 12 * c.adds
           left == IF c.type = "compliance_blocker" THEN Greatest(0, s.netNew - c.amount)
                   ELSE s.netNew - 12 * lost
           netNew == left + 12 * c.adds
<1>1. Apply(s, c) = [s EXCEPT !.opex = opex, !.headcount = headcount, !.cash = cash, !.revenue = revenue,
                              !.mrr = mrr, !.arr = arr, !.netNew = netNew]
  BY DEF Apply
<1>2. lost \in Int /\ c.adds \in Int /\ MonthlyCost(c) \in Int
  BY LostType, MonthlyCostType, ChangeFields
<1>3. c.type \notin {"revenue_slip", "churn_shock"} => lost = 0
  BY DEF Lost
<1> HIDE DEF lost
<1>4. s.cash \in Int /\ s.revenue \in Int /\ s.opex \in Int /\ s.mrr \in Int /\ s.arr \in Int
      /\ s.headcount \in Int /\ s.netNew \in Int
  BY DEF States
<1>5. opex \in Int /\ headcount \in Int /\ cash \in Int
  BY <1>2, <1>4, ChangeFields
<1>6. revenue \in Int /\ mrr \in Int /\ arr \in Int
  BY <1>2, <1>4 DEF Greatest
<1>7. netNew \in Int
  BY <1>2, <1>4, ChangeFields DEF Greatest
<1>8. c.type \notin {"financing", "capex"} => cash = s.cash
  BY <1>4
<1>9. c.type = "capex" => cash = s.cash - c.amount
  BY <1>4, ChangeFields
<1>10. c.type \notin {"revenue_slip", "churn_shock", "compliance_blocker"} =>
           revenue = s.revenue + c.adds /\ netNew = s.netNew + 12 * c.adds
  BY <1>2, <1>3, <1>4
<1>11. opex = s.opex + MonthlyCost(c)
  OBVIOUS
<1> HIDE DEF opex, headcount, cash, revenue, mrr, arr, netNew
<1>12. Apply(s, c) =
           [cash |-> cash, revenue |-> revenue, cogs |-> s.cogs, opex |-> opex, mrr |-> mrr, arr |-> arr,
            headcount |-> headcount, netNew |-> netNew, cac |-> s.cac, customers |-> s.customers]
  BY <1>1 DEF States
<1>13. Apply(s, c) \in States
  BY <1>5, <1>6, <1>7, <1>12 DEF States
<1>14. /\ Apply(s, c).opex = opex /\ Apply(s, c).cogs = s.cogs
       /\ Apply(s, c).cash = cash /\ Apply(s, c).revenue = revenue /\ Apply(s, c).netNew = netNew
  BY <1>12
<1> QED
  BY <1>8, <1>9, <1>10, <1>11, <1>13, <1>14

LEMMA FoldType ==
    ASSUME NEW s \in States, NEW cs \in Seq(Changes)
    PROVE  FoldLeft(Apply, s, cs) \in States
<1>1. PICK h : Trace(h, s, cs) /\ FoldLeft(Apply, s, cs) = h[Len(cs)]
  BY FoldTrace
<1> DEFINE K == {k \in 0..Len(cs) : h[k] \notin States}
<1>2. Len(cs) \in Nat /\ \A k \in 1..Len(cs) : cs[k] \in Changes
  OBVIOUS
<1>3. K = {}
  <2>1. SUFFICES ASSUME K # {} PROVE FALSE
    OBVIOUS
  <2>2. PICK k \in K : \A j \in K : k <= j
    <3>1. K \in SUBSET Nat
      BY <1>2
    <3> HIDE DEF K
    <3> QED
      BY <2>1, <3>1, LeastExists
  <2>3. k \in 0..Len(cs) /\ h[k] \notin States
    BY <2>2
  <2>4. h[k] = IF k = 0 THEN s ELSE Apply(h[k - 1], cs[k])
    BY <1>1, <2>3 DEF Trace
  <2>5. k # 0
    BY <2>3, <2>4
  <2>6. k \in 1..Len(cs) /\ k - 1 \in 0..Len(cs) /\ ~(k <= k - 1)
    BY <1>2, <2>3, <2>5
  <2>7. h[k - 1] \in States
    BY <2>2, <2>6
  <2> QED
    BY <1>2, <2>3, <2>4, <2>5, <2>6, <2>7, ApplyIs
<1>4. Len(cs) \in 0..Len(cs)
  BY <1>2
<1> QED
  BY <1>1, <1>3, <1>4

LEMMA CostIs ==
    ASSUME NEW s \in States, NEW c \in Costs
    PROVE  /\ c \in Changes /\ Apply(s, c) \in States
           /\ Apply(s, c).revenue = s.revenue /\ Apply(s, c).cogs = s.cogs /\ Apply(s, c).netNew = s.netNew
           /\ Apply(s, c).opex >= s.opex /\ Apply(s, c).cash <= s.cash
<1>1. /\ c \in Changes /\ c.type \in {"hire", "opex_change", "capex"} /\ c.adds = 0
      /\ c.type = "hire" => c.monthly = None /\ c.roles = 1
      /\ c.type = "opex_change" => c.monthly = 60
      /\ c.type = "capex" => c.amount = 700
  BY DEF Costs, Changes
<1>2. MonthlyCost(c) \in Int /\ MonthlyCost(c) >= 0
  BY <1>1 DEF MonthlyCost, DEFAULT_ROLE_COST
<1>3. s.opex \in Int /\ s.cash \in Int /\ s.revenue \in Int /\ s.netNew \in Int
  BY DEF States
<1>4. Apply(s, c).revenue = s.revenue + c.adds /\ Apply(s, c).netNew = s.netNew + 12 * c.adds
  BY <1>1, ApplyIs
<1>5. Apply(s, c).opex = s.opex + MonthlyCost(c) /\ Apply(s, c).cogs = s.cogs /\ Apply(s, c) \in States
  BY <1>1, ApplyIs
<1>6. Apply(s, c).cash <= s.cash
  <2>1. CASE c.type = "capex"
    <3>1. Apply(s, c).cash = s.cash - c.amount
      BY <1>1, <2>1, ApplyIs
    <3> QED
      BY <1>1, <1>3, <2>1, <3>1
  <2>2. CASE c.type # "capex"
    <3>1. Apply(s, c).cash = s.cash
      BY <1>1, <2>2, ApplyIs
    <3> QED
      BY <1>3, <3>1
  <2> QED
    BY <2>1, <2>2
<1> QED
  BY <1>1, <1>2, <1>3, <1>4, <1>5, <1>6

\* The metrics that the board looks at.
LEMMA MetricsAre ==
    ASSUME NEW s \in States
    PROVE  LET burn == s.cogs + s.opex - s.revenue
               m == MetricsOf(s)
           IN  /\ burn \in Int /\ m.burn = burn /\ m.cash = s.cash
               /\ m.runway = IF burn > 0 THEN Rounded(10 * s.cash, burn) ELSE None
               /\ m.multiple = IF burn > 0 /\ s.netNew > 0 THEN Rounded(1200 * burn, s.netNew) ELSE None
               /\ m.margin = IF s.revenue > 0 THEN Rounded(10000 * (s.revenue - s.cogs), s.revenue) ELSE 0
<1> DEFINE burn == s.cogs + s.opex - s.revenue
           margin == IF s.revenue > 0 THEN Rounded(10000 * (s.revenue - s.cogs), s.revenue) ELSE 0
           runway == IF burn > 0 THEN Rounded(10 * s.cash, burn) ELSE None
           multiple == IF burn > 0 /\ s.netNew > 0 THEN Rounded(1200 * burn, s.netNew) ELSE None
           payback == IF s.mrr * margin > 0 /\ s.cac > 0
                      THEN Rounded(100000 * s.cac * s.customers, s.mrr * margin) ELSE None
<1>1. burn \in Int
  BY DEF States
<1>2. MetricsOf(s) =
          [cash |-> s.cash, revenue |-> s.revenue, opex |-> s.opex, arr |-> s.arr,
           netNew |-> s.netNew, headcount |-> s.headcount, burn |-> burn, margin |-> margin,
           runway |-> runway, multiple |-> multiple, payback |-> payback]
  BY DEF MetricsOf
<1> HIDE DEF burn, margin, runway, multiple, payback
<1>3. MetricsOf(s).burn = burn /\ MetricsOf(s).cash = s.cash /\ MetricsOf(s).runway = runway
      /\ MetricsOf(s).multiple = multiple /\ MetricsOf(s).margin = margin
  BY <1>2
<1> QED
  BY <1>1, <1>3 DEF burn, margin, runway, multiple

LEMMA RoundedType == ASSUME NEW n \in Int, NEW d \in Int, d > 0 PROVE Rounded(n, d) \in Int
  BY RoundedIs

\* A quotient of a negative amount is not positive.
LEMMA RoundedNegative ==
    ASSUME NEW n \in Int, NEW d \in Int, d > 0, n <= 0
    PROVE  Rounded(n, d) \in Int /\ Rounded(n, d) <= 0
<1> DEFINE k == Rounded(n, d)
<1>1. k \in Int /\ 2 * (d * k) <= 2 * n + d
  BY RoundedIs
<1> HIDE DEF k
<1> SUFFICES ASSUME k >= 1 PROVE FALSE
  BY <1>1 DEF k
<1>2. d * k >= d
  <2>1. d * (k - 1) >= 0 /\ d * (k - 1) = d * k - d
    BY <1>1
  <2> QED
    BY <1>1, <2>1
<1> QED
  BY <1>1, <1>2

\* Of two states that differ in what one has spent more.
Spent(t, s) ==
    /\ s \in States /\ t \in States
    /\ t.revenue = s.revenue /\ t.cogs = s.cogs /\ t.netNew = s.netNew
    /\ t.opex >= s.opex /\ t.cash <= s.cash

LEMMA SpendingIs ==
    ASSUME NEW s, NEW t, Spent(t, s)
    PROVE  LET a == MetricsOf(s)
               b == MetricsOf(t)
           IN  /\ a.cash \in Int /\ b.cash \in Int /\ b.cash <= a.cash
               /\ a.burn \in Int /\ b.burn \in Int /\ b.burn >= a.burn
               /\ b.margin = a.margin
               /\ a.runway # None /\ a.runway < 90 => b.runway # None /\ b.runway < 90
               /\ a.multiple # None /\ a.multiple > 200 => b.multiple # None /\ b.multiple > 200
<1> DEFINE a == MetricsOf(s)
           b == MetricsOf(t)
           x == s.cogs + s.opex - s.revenue
           y == t.cogs + t.opex - t.revenue
<1>1. /\ s.cash \in Int /\ t.cash \in Int /\ s.netNew \in Int /\ t.cash <= s.cash /\ t.netNew = s.netNew
      /\ t.revenue = s.revenue /\ t.cogs = s.cogs
  BY DEF Spent, States
<1>2. x \in Int /\ y \in Int /\ x <= y
  BY DEF Spent, States
<1>3. /\ a.burn = x /\ a.cash = s.cash
      /\ a.runway = IF x > 0 THEN Rounded(10 * s.cash, x) ELSE None
      /\ a.multiple = IF x > 0 /\ s.netNew > 0 THEN Rounded(1200 * x, s.netNew) ELSE None
      /\ a.margin = IF s.revenue > 0 THEN Rounded(10000 * (s.revenue - s.cogs), s.revenue) ELSE 0
  BY MetricsAre DEF Spent
<1>4. /\ b.burn = y /\ b.cash = t.cash
      /\ b.runway = IF y > 0 THEN Rounded(10 * t.cash, y) ELSE None
      /\ b.multiple = IF y > 0 /\ t.netNew > 0 THEN Rounded(1200 * y, t.netNew) ELSE None
      /\ b.margin = IF t.revenue > 0 THEN Rounded(10000 * (t.revenue - t.cogs), t.revenue) ELSE 0
  BY MetricsAre DEF Spent
<1> HIDE DEF a, b, x, y
<1>5. ASSUME a.runway # None, a.runway < 90 PROVE b.runway # None /\ b.runway < 90
  <2>1. x > 0 /\ y > 0 /\ a.runway = Rounded(10 * s.cash, x) /\ b.runway = Rounded(10 * t.cash, y)
    BY <1>2, <1>3, <1>4, <1>5
  <2>2. a.runway \in Int /\ b.runway \in Int
    <3>1. 10 * s.cash \in Int /\ 10 * t.cash \in Int
      BY <1>1
    <3> QED
      BY <1>2, <2>1, <3>1, RoundedType
  <2>3. CASE t.cash >= 0
    <3>1. 0 <= 10 * t.cash /\ 10 * t.cash <= 10 * s.cash /\ 10 * t.cash \in Int /\ 10 * s.cash \in Int
      BY <1>1, <2>3
    <3>2. b.runway <= a.runway
      BY <1>2, <2>1, <3>1, RoundedMonotone
    <3> QED
      BY <1>5, <2>2, <3>2, NoneAssumption
  <2>4. CASE t.cash < 0
    <3>1. 10 * t.cash \in Int /\ 10 * t.cash <= 0
      BY <1>1, <2>4
    <3>2. b.runway <= 0
      BY <1>2, <2>1, <3>1, RoundedNegative
    <3> QED
      BY <2>2, <3>2, NoneAssumption
  <2> QED
    BY <1>1, <2>3, <2>4
<1>6. ASSUME a.multiple # None, a.multiple > 200 PROVE b.multiple # None /\ b.multiple > 200
  <2>1. /\ x > 0 /\ y > 0 /\ s.netNew > 0
        /\ a.multiple = Rounded(1200 * x, s.netNew) /\ b.multiple = Rounded(1200 * y, s.netNew)
    BY <1>1, <1>2, <1>3, <1>4, <1>6
  <2>2. a.multiple \in Int /\ b.multiple \in Int
    <3>1. 1200 * x \in Int /\ 1200 * y \in Int
      BY <1>2
    <3> QED
      BY <1>1, <2>1, <3>1, RoundedType
  <2>3. 0 <= 1200 * x /\ 1200 * x <= 1200 * y /\ 1200 * x \in Int /\ 1200 * y \in Int
    BY <1>2, <2>1
  <2>4. a.multiple <= b.multiple
    BY <1>1, <2>1, <2>3, RoundedMonotone
  <2> QED
    BY <1>6, <2>2, <2>4, NoneAssumption
<1> QED
  BY <1>1, <1>2, <1>3, <1>4, <1>5, <1>6 DEF a, b

(***************************************************************************)
(* The largest commitment, and the codes of the violations.                *)
(***************************************************************************)
LEMMA GreatestExists ==
    ASSUME NEW n \in Nat \ {0}, NEW f \in [1..n -> Int]
    PROVE  \E i \in 1..n : \A j \in 1..n : f[i] >= f[j]
<1> DEFINE K == {k \in 1..n : ~\E i \in 1..k : \A j \in 1..k : f[i] >= f[j]}
<1>1. K = {}
  <2>1. SUFFICES ASSUME K # {} PROVE FALSE
    OBVIOUS
  <2>2. PICK k \in K : \A j \in K : k <= j
    <3>1. K \in SUBSET Nat
      OBVIOUS
    <3> HIDE DEF K
    <3> QED
      BY <2>1, <3>1, LeastExists
  <2>3. k \in 1..n /\ ~\E i \in 1..k : \A j \in 1..k : f[i] >= f[j]
    BY <2>2
  <2>4. k # 1
    <3>1. SUFFICES ASSUME k = 1 PROVE FALSE
      OBVIOUS
    <3>2. f[1] \in Int /\ 1 \in 1..k /\ \A j \in 1..k : j = 1
      BY <2>3, <3>1
    <3>3. ASSUME NEW j \in 1..k PROVE f[1] >= f[j]
      <4>1. j = 1
        BY <3>2
      <4>2. f[1] >= f[1]
        BY <3>2
      <4> QED
        BY <4>1, <4>2
    <3> QED
      BY <2>3, <3>2, <3>3
  <2>5. k - 1 \in 1..n /\ ~(k <= k - 1)
    BY <2>3, <2>4
  <2>6. PICK i \in 1..(k - 1) : \A j \in 1..(k - 1) : f[i] >= f[j]
    BY <2>2, <2>5
  <2>7. /\ i \in 1..k /\ k \in 1..k /\ f[i] \in Int /\ f[k] \in Int
        /\ \A j \in 1..k : f[j] \in Int /\ (j = k \/ j \in 1..(k - 1))
    BY <2>3, <2>5
  <2>8. CASE f[i] >= f[k]
    <3>1. \A j \in 1..k : f[i] >= f[j]
      BY <2>6, <2>7, <2>8
    <3> QED
      BY <2>3, <2>7, <3>1
  <2>9. CASE ~(f[i] >= f[k])
    <3>1. \A j \in 1..k : f[k] >= f[j]
      BY <2>6, <2>7, <2>9
    <3> QED
      BY <2>3, <2>7, <3>1
  <2> QED
    BY <2>8, <2>9
<1>2. n \in 1..n
  OBVIOUS
<1> QED
  BY <1>1, <1>2

LEMMA LargestIs ==
    ASSUME NEW n \in Nat \ {0}, NEW f \in [1..n -> Int], f # <<>>
    PROVE  \E i \in 1..n : Largest(f) = f[i] /\ \A j \in 1..n : f[i] >= f[j]
<1>1. PICK i \in 1..n : \A j \in 1..n : f[i] >= f[j]
  BY GreatestExists
<1>2. Range(f) = {f[j] : j \in 1..n}
  BY DEF Range
<1>3. f[i] \in Range(f) /\ \A y \in Range(f) : f[i] >= y
  BY <1>1, <1>2
<1>4. Max(Range(f)) \in Range(f) /\ \A y \in Range(f) : Max(Range(f)) >= y
  BY <1>3 DEF Max
<1>5. Largest(f) = Max(Range(f))
  BY DEF Largest
<1> HIDE DEF Largest
<1>6. PICK k \in 1..n : Max(Range(f)) = f[k]
  BY <1>2, <1>4
<1>7. \A j \in 1..n : f[k] >= f[j]
  BY <1>2, <1>4, <1>6
<1> QED
  BY <1>5, <1>6, <1>7

LEMMA CommitmentType == ASSUME NEW c \in Changes PROVE Commitment(c) \in Int
<1>1. CASE c.type = "hire"
  <2>1. Commitment(c) = 12 * MonthlyCost(c)
    BY <1>1 DEF Commitment
  <2> QED
    BY <2>1, MonthlyCostType
<1>2. CASE c.type = "opex_change"
  <2>1. Commitment(c) = 12 * Greatest(c.monthly, -c.monthly) /\ c.monthly \in Int
    BY <1>2, ChangeFields DEF Commitment
  <2> QED
    BY <2>1 DEF Greatest
<1>3. CASE c.type = "vendor_renegotiation"
  BY <1>3, ChangeFields DEF Commitment
<1>4. CASE c.type = "capex"
  BY <1>4, ChangeFields DEF Commitment
<1>5. CASE c.type \notin {"hire", "opex_change", "vendor_renegotiation", "capex"}
  BY <1>5 DEF Commitment
<1> QED
  BY <1>1, <1>2, <1>3, <1>4, <1>5

CommitmentsOf(cs) == [k \in DOMAIN cs |-> Commitment(cs[k])]

\* What costs is a commitment, so that the largest does not become smaller.
LEMMA LargestGrows ==
    ASSUME NEW cs \in Seq(Changes), NEW c \in Costs
    PROVE  /\ Largest(CommitmentsOf(cs)) \in Int
           /\ Largest(CommitmentsOf(Append(cs, c))) \in Int
           /\ Largest(CommitmentsOf(cs)) <= Largest(CommitmentsOf(Append(cs, c)))
<1> DEFINE n == Len(cs)
           ds == Append(cs, c)
           f == CommitmentsOf(cs)
           g == CommitmentsOf(ds)
<1>1. c \in Changes /\ Commitment(c) >= 0
  BY DEF Costs, Changes, Commitment, MonthlyCost, DEFAULT_ROLE_COST, Greatest
<1>2. n \in Nat /\ DOMAIN cs = 1..n /\ DOMAIN ds = 1..(n + 1)
  BY <1>1
<1>3. \A k \in 1..n : cs[k] \in Changes /\ ds[k] = cs[k]
  OBVIOUS
<1>4. ds[n + 1] = c
  OBVIOUS
<1>5. \A k \in 1..(n + 1) : ds[k] \in Changes
  BY <1>1, <1>2
<1> HIDE DEF n, ds
<1>6. f \in [1..n -> Int] /\ \A k \in 1..n : f[k] = Commitment(cs[k])
  BY <1>2, <1>3, CommitmentType DEF CommitmentsOf
<1>7. g \in [1..(n + 1) -> Int] /\ \A k \in 1..(n + 1) : g[k] = Commitment(ds[k])
  BY <1>2, <1>5, CommitmentType DEF CommitmentsOf
<1> HIDE DEF f, g
<1>8. g # <<>> /\ n + 1 \in Nat \ {0} /\ n + 1 \in 1..(n + 1)
  BY <1>2, <1>7
<1>9. PICK m \in 1..(n + 1) : Largest(g) = g[m] /\ \A j \in 1..(n + 1) : g[m] >= g[j]
  BY <1>7, <1>8, LargestIs
<1>10. g[m] \in Int /\ g[n + 1] = Commitment(c) /\ g[m] >= g[n + 1]
  BY <1>4, <1>7, <1>8, <1>9
<1>11. CASE n = 0
  <2>1. f = <<>>
    BY <1>6, <1>11
  <2>2. Largest(f) = 0
    BY <2>1 DEF Largest
  <2>3. Commitment(c) \in Int
    BY <1>1, CommitmentType
  <2> QED
    BY <1>1, <1>9, <1>10, <2>2, <2>3 DEF f, g, ds
<1>12. CASE n # 0
  <2>1. f # <<>> /\ n \in Nat \ {0}
    BY <1>2, <1>6, <1>12
  <2>2. PICK l \in 1..n : Largest(f) = f[l] /\ \A j \in 1..n : f[l] >= f[j]
    BY <1>6, <2>1, LargestIs
  <2>3. l \in 1..(n + 1) /\ f[l] = g[l] /\ f[l] \in Int
    BY <1>2, <1>3, <1>6, <1>7, <2>2
  <2>4. g[m] >= g[l]
    BY <1>9, <2>3
  <2> QED
    BY <1>9, <1>10, <2>2, <2>3, <2>4 DEF f, g, ds
<1> QED
  BY <1>11, <1>12

Flag(condition, code) == IF condition THEN {code} ELSE {}

LEMMA CodesAre ==
    ASSUME NEW after, NEW before, NEW cm
    PROVE  Codes(Violations(after, before, cm)) =
               Flag(after.runway # None /\ after.runway < 90, "min_runway_months")
               \cup Flag(after.cash < 15000, "min_cash_buffer")
               \cup Flag(after.multiple # None /\ after.multiple > 200, "max_burn_multiple")
               \cup Flag(after.margin < 7000, "min_gross_margin")
               \cup Flag(before.burn > 0 /\ 100 * (after.burn - before.burn) > 8 * before.burn, "max_netburn_growth")
               \cup Flag(Largest(cm) > 1500, "board_notify")
               \cup Flag(Largest(cm) > 500 /\ Largest(cm) <= 1500, "cfo_approval")
<1>1. ASSUME NEW condition, NEW code, NEW severity
      PROVE  Codes(ViolationIf(condition, code, severity)) = Flag(condition, code)
  <2>1. CASE condition
    <3>1. ViolationIf(condition, code, severity) = {[code |-> code, severity |-> severity]}
      BY <2>1 DEF ViolationIf
    <3>2. Codes({[code |-> code, severity |-> severity]}) = {code}
      BY DEF Codes
    <3> QED
      BY <2>1, <3>1, <3>2 DEF Flag
  <2>2. CASE ~condition
    <3>1. ViolationIf(condition, code, severity) = {}
      BY <2>2 DEF ViolationIf
    <3>2. Codes({}) = {}
      BY DEF Codes
    <3> QED
      BY <2>2, <3>1, <3>2 DEF Flag
  <2> QED
    BY <2>1, <2>2
<1>2. ASSUME NEW A, NEW B PROVE Codes(A \cup B) = Codes(A) \cup Codes(B)
  BY DEF Codes
<1> DEFINE p == BoardPolicy
<1>3. p.runway = 90 /\ p.buffer = 15000 /\ p.multiple = 200 /\ p.margin = 7000 /\ p.growth = 8
      /\ p.board = 1500 /\ p.cfo = 500
  BY DEF BoardPolicy
<1> DEFINE l == Largest(cm)
           V1 == ViolationIf(after.runway # None /\ after.runway < p.runway, "min_runway_months",
                             IF after.runway < p.runway - 30 THEN "high" ELSE "medium")
           V2 == ViolationIf(after.cash < p.buffer, "min_cash_buffer", "high")
           V3 == ViolationIf(after.multiple # None /\ after.multiple > p.multiple, "max_burn_multiple", "medium")
           V4 == ViolationIf(after.margin < p.margin, "min_gross_margin", "medium")
           V5 == ViolationIf(before.burn > 0 /\ 100 * (after.burn - before.burn) > p.growth * before.burn,
                             "max_netburn_growth", "medium")
           V6 == ViolationIf(l > p.board, "board_notify", "medium")
           V7 == ViolationIf(l > p.cfo /\ l <= p.board, "cfo_approval", "low")
<1>4. Violations(after, before, cm) = V1 \cup V2 \cup V3 \cup V4 \cup V5 \cup V6 \cup V7
  BY DEF Violations
<1>5. /\ Codes(V1) = Flag(after.runway # None /\ after.runway < p.runway, "min_runway_months")
      /\ Codes(V2) = Flag(after.cash < p.buffer, "min_cash_buffer")
      /\ Codes(V3) = Flag(after.multiple # None /\ after.multiple > p.multiple, "max_burn_multiple")
      /\ Codes(V4) = Flag(after.margin < p.margin, "min_gross_margin")
      /\ Codes(V5) = Flag(before.burn > 0 /\ 100 * (after.burn - before.burn) > p.growth * before.burn, "max_netburn_growth")
      /\ Codes(V6) = Flag(l > p.board, "board_notify")
      /\ Codes(V7) = Flag(l > p.cfo /\ l <= p.board, "cfo_approval")
  BY <1>1
<1> HIDE DEF V1, V2, V3, V4, V5, V6, V7, l, p
<1>6. Codes(V1 \cup V2 \cup V3 \cup V4 \cup V5 \cup V6 \cup V7) =
          Codes(V1) \cup Codes(V2) \cup Codes(V3) \cup Codes(V4) \cup Codes(V5) \cup Codes(V6) \cup Codes(V7)
  <2>1. Codes(V1 \cup V2) = Codes(V1) \cup Codes(V2)
    BY <1>2
  <2>2. Codes(V1 \cup V2 \cup V3) = Codes(V1 \cup V2) \cup Codes(V3)
    BY <1>2
  <2>3. Codes(V1 \cup V2 \cup V3 \cup V4) = Codes(V1 \cup V2 \cup V3) \cup Codes(V4)
    BY <1>2
  <2>4. Codes(V1 \cup V2 \cup V3 \cup V4 \cup V5) = Codes(V1 \cup V2 \cup V3 \cup V4) \cup Codes(V5)
    BY <1>2
  <2>5. Codes(V1 \cup V2 \cup V3 \cup V4 \cup V5 \cup V6) =
            Codes(V1 \cup V2 \cup V3 \cup V4 \cup V5) \cup Codes(V6)
    BY <1>2
  <2>6. Codes(V1 \cup V2 \cup V3 \cup V4 \cup V5 \cup V6 \cup V7) =
            Codes(V1 \cup V2 \cup V3 \cup V4 \cup V5 \cup V6) \cup Codes(V7)
    BY <1>2
  <2> QED
    BY <2>1, <2>2, <2>3, <2>4, <2>5, <2>6
<1> QED
  BY <1>3, <1>4, <1>5, <1>6, SMTT(30) DEF l

LEMMA SpendingKeepsCodes ==
    ASSUME NEW s, NEW t, Spent(t, s), NEW before, before.burn \in Int,
           NEW cm, NEW dm, Largest(cm) \in Int, Largest(dm) \in Int, Largest(cm) <= Largest(dm)
    PROVE  LET more == Codes(Violations(MetricsOf(t), before, dm))
           IN  Codes(Violations(MetricsOf(s), before, cm)) \ more
                   \subseteq (IF "board_notify" \in more THEN {"cfo_approval"} ELSE {})
<1> DEFINE a == MetricsOf(s)
           b == MetricsOf(t)
           fewer == Codes(Violations(a, before, cm))
           more == Codes(Violations(b, before, dm))
           x == before.burn
           l == Largest(cm)
           m == Largest(dm)
<1>1. /\ a.cash \in Int /\ b.cash \in Int /\ b.cash <= a.cash
      /\ a.burn \in Int /\ b.burn \in Int /\ b.burn >= a.burn
      /\ b.margin = a.margin
      /\ a.runway # None /\ a.runway < 90 => b.runway # None /\ b.runway < 90
      /\ a.multiple # None /\ a.multiple > 200 => b.multiple # None /\ b.multiple > 200
  BY SpendingIs
<1>2. fewer = Flag(a.runway # None /\ a.runway < 90, "min_runway_months")
              \cup Flag(a.cash < 15000, "min_cash_buffer")
              \cup Flag(a.multiple # None /\ a.multiple > 200, "max_burn_multiple")
              \cup Flag(a.margin < 7000, "min_gross_margin")
              \cup Flag(x > 0 /\ 100 * (a.burn - x) > 8 * x, "max_netburn_growth")
              \cup Flag(l > 1500, "board_notify")
              \cup Flag(l > 500 /\ l <= 1500, "cfo_approval")
  BY CodesAre
<1>3. more = Flag(b.runway # None /\ b.runway < 90, "min_runway_months")
             \cup Flag(b.cash < 15000, "min_cash_buffer")
             \cup Flag(b.multiple # None /\ b.multiple > 200, "max_burn_multiple")
             \cup Flag(b.margin < 7000, "min_gross_margin")
             \cup Flag(x > 0 /\ 100 * (b.burn - x) > 8 * x, "max_netburn_growth")
             \cup Flag(m > 1500, "board_notify")
             \cup Flag(m > 500 /\ m <= 1500, "cfo_approval")
  BY CodesAre
<1>4. a.cash < 15000 => b.cash < 15000
  BY <1>1
<1>5. x > 0 /\ 100 * (a.burn - x) > 8 * x => x > 0 /\ 100 * (b.burn - x) > 8 * x
  BY <1>1
<1>6. (l > 1500 => m > 1500) /\ (l > 500 /\ l <= 1500 => m > 1500 \/ (m > 500 /\ m <= 1500))
  OBVIOUS
<1> HIDE DEF a, b, x, l, m, fewer, more
<1>7. "board_notify" \in more <=> m > 1500
  BY <1>3 DEF Flag
<1>8. ASSUME NEW code \in fewer, code \notin more PROVE code = "cfo_approval" /\ "board_notify" \in more
  BY <1>1, <1>2, <1>3, <1>4, <1>5, <1>6, <1>7, <1>8 DEF Flag
<1> QED
  BY <1>8 DEF fewer, more, a, b

(***************************************************************************)
(* The projection and the runway.                                          *)
(***************************************************************************)
\* What lies between two whole numbers is rounded to between them.
LEMMA RoundedBetween ==
    ASSUME NEW m \in Int, NEW d \in Int, d > 0, NEW k \in Int
    PROVE  (k * d <= m => k <= Rounded(m, d)) /\ (m <= k * d => Rounded(m, d) <= k)
<1> DEFINE r == Rounded(m, d)
<1>1. r \in Int /\ 2 * m - d <= 2 * (d * r) /\ 2 * (d * r) <= 2 * m + d
  BY RoundedIs
<1> HIDE DEF r
<1>2. ASSUME k * d <= m, r <= k - 1 PROVE FALSE
  <2>1. d * (k - 1 - r) >= 0
    BY <1>1, <1>2
  <2>2. d * (k - 1 - r) = k * d - d - d * r
    BY <1>1
  <2> QED
    BY <1>1, <1>2, <2>1, <2>2
<1>3. ASSUME m <= k * d, k <= r - 1 PROVE FALSE
  <2>1. d * (r - 1 - k) >= 0
    BY <1>1, <1>3
  <2>2. d * (r - 1 - k) = d * r - d - k * d
    BY <1>1
  <2> QED
    BY <1>1, <1>3, <2>1, <2>2
<1>4. k * d <= m => k <= r
  BY <1>1, <1>2
<1>5. m <= k * d => r <= k
  BY <1>1, <1>3
<1> QED
  BY <1>4, <1>5 DEF r

LEMMA ProjectionIs ==
    ASSUME NEW after, after.cash \in Int, after.burn \in Int, after.cash > 0, after.burn > 0,
           after.runway = Rounded(10 * after.cash, after.burn)
    PROVE  LET n == Len(Projection(after))
           IN  IF Projection(after)[n] <= 0
               THEN 10 * (n - 1) <= after.runway /\ after.runway <= 10 * n
               ELSE after.runway >= 180
<1> DEFINE x == after.cash
           y == after.burn
           cash(i) == x - i * y
           dry == {i \in 1..18 : cash(i) <= 0}
           n == IF dry = {} THEN 18 ELSE Min(dry)
<1>1. Projection(after) = [i \in 1..n |-> cash(i)]
  BY DEF Projection, MONTHS
<1>2. dry # {} => n \in dry /\ \A i \in dry : n <= i
  <2>1. dry \in SUBSET Nat
    OBVIOUS
  <2> HIDE DEF dry
  <2> QED
    BY <2>1, MinIs
<1>3. n \in 1..18
  <2> HIDE DEF dry
  <2>1. CASE dry = {}
    BY <2>1
  <2>2. CASE dry # {}
    BY <1>2, <2>2 DEF dry
  <2> QED
    BY <2>1, <2>2
<1>4. cash(n) <= 0 <=> dry # {}
  <2>1. CASE dry # {}
    <3>1. n \in dry
      BY <1>2, <2>1
    <3> HIDE DEF n
    <3> QED
      BY <2>1, <3>1
  <2>2. CASE dry = {}
    <3> HIDE DEF n
    <3>1. n \notin dry
      BY <2>2
    <3> QED
      BY <1>3, <2>2, <3>1
  <2> QED
    BY <2>1, <2>2
<1>5. dry = {} => n = 18
  BY DEF n
<1> HIDE DEF n
<1>6. Len(Projection(after)) = n /\ Projection(after)[n] = cash(n)
  BY <1>1, <1>3
<1>7. ASSUME cash(n) <= 0 PROVE 10 * (n - 1) <= after.runway /\ after.runway <= 10 * n
  <2>1. x <= n * y
    BY <1>3, <1>7
  <2>2. (n - 1) * y <= x
    <3>1. CASE n = 1
      BY <3>1
    <3>2. CASE n # 1
      <4>1. n - 1 \in 1..18 /\ ~(n <= n - 1)
        BY <1>3, <3>2
      <4>2. n - 1 \notin dry
        BY <1>2, <1>4, <1>7, <4>1
      <4>3. x - (n - 1) * y > 0
        BY <4>1, <4>2
      <4> QED
        BY <4>1, <4>3
    <3> QED
      BY <3>1, <3>2
  <2>3. (10 * (n - 1)) * y = 10 * ((n - 1) * y) /\ (10 * n) * y = 10 * (n * y)
        /\ (n - 1) * y \in Int /\ n * y \in Int
    BY <1>3
  <2>4. (10 * (n - 1)) * y <= 10 * x /\ 10 * x <= (10 * n) * y
    BY <2>1, <2>2, <2>3
  <2>5. 10 * (n - 1) \in Int /\ 10 * n \in Int /\ 10 * x \in Int /\ y \in Int /\ y > 0
    BY <1>3
  <2> QED
    BY <2>4, <2>5, RoundedBetween
<1>8. ASSUME ~(cash(n) <= 0) PROVE after.runway >= 180
  <2>1. n = 18
    BY <1>4, <1>5, <1>8
  <2>2. 180 * y <= 10 * x
    BY <1>8, <2>1
  <2>3. 180 \in Int /\ 10 * x \in Int /\ y \in Int /\ y > 0
    OBVIOUS
  <2>4. 180 <= Rounded(10 * x, y)
    BY <2>2, <2>3, RoundedBetween
  <2> QED
    BY <2>4
<1> QED
  BY <1>6, <1>7, <1>8

(***************************************************************************)
(* The branch.                                                             *)
(***************************************************************************)
LEMMA EvaluatedIs ==
    ASSUME NEW company \in States, NEW changes \in Seq(Changes)
    PROVE  LET e == Evaluated(company, changes)
               before == MetricsOf(company)
               after == MetricsOf(FoldLeft(Apply, company, changes))
           IN  /\ e.company = company /\ e.changes = changes /\ e.projected = after
               /\ e.violations = Violations(after, before, CommitmentsOf(changes))
               /\ e.projection = Projection(after)
  BY DEF Evaluated, CommitmentsOf

\* What create_scenario leaves: no branch, or one of a company and a list of changes.
BranchMade ==
    \/ branch = NoBranch
    \/ \E company \in States, changes \in Seq(Changes) : branch = Evaluated(company, changes)

LEMMA BranchIsMade == BranchSpec => []BranchMade
<1>1. BranchInit => BranchMade
  BY DEF BranchInit, BranchMade
<1>2. BranchMade /\ [BranchNext]_branch => BranchMade'
  BY InputsAssumption DEF BranchMade, BranchNext, CreateScenario
<1> QED
  BY <1>1, <1>2, PTL DEF BranchSpec

LEMMA MadeAddsUp == ASSUME BranchMade, branch.evaluated PROVE BranchesAddUp
<1>1. PICK company \in States, changes \in Seq(Changes) : branch = Evaluated(company, changes)
  BY DEF BranchMade, NoBranch
<1> DEFINE before == MetricsOf(company)
           s == FoldLeft(Apply, company, changes)
           after == MetricsOf(s)
<1>2. s \in States
  BY FoldType
<1>3. /\ branch.company = company /\ branch.changes = changes /\ branch.projected = after
      /\ branch.violations = Violations(after, before, CommitmentsOf(changes))
      /\ branch.projection = Projection(after)
  BY <1>1, EvaluatedIs
<1>4. SpendingClearsNothing
  <2> SUFFICES ASSUME NEW c \in Costs
      PROVE  LET more == Codes(Evaluated(branch.company, Append(branch.changes, c)).violations)
             IN  Codes(branch.violations) \ more \subseteq
                     (IF "board_notify" \in more THEN {"cfo_approval"} ELSE {})
    BY DEF SpendingClearsNothing
  <2> DEFINE t == FoldLeft(Apply, company, Append(changes, c))
             dm == CommitmentsOf(Append(changes, c))
  <2>1. c \in Changes /\ Append(changes, c) \in Seq(Changes)
    <3>1. c \in Changes
      BY <1>2, CostIs
    <3> QED
      BY <3>1
  <2>2. t = Apply(s, c)
    BY <2>1, FoldStep
  <2>3. Spent(t, s)
    <3> HIDE DEF s, t
    <3> QED
      BY <1>2, <2>2, CostIs DEF Spent
  <2>4. before.burn \in Int
    BY MetricsAre
  <2>5. /\ Largest(CommitmentsOf(changes)) \in Int /\ Largest(dm) \in Int
        /\ Largest(CommitmentsOf(changes)) <= Largest(dm)
    BY LargestGrows
  <2>6. Evaluated(company, Append(changes, c)).violations = Violations(MetricsOf(t), before, dm)
    BY <2>1, EvaluatedIs
  <2> HIDE DEF s, t, dm, before
  <2>7. LET more == Codes(Violations(MetricsOf(t), before, dm))
        IN  Codes(Violations(MetricsOf(s), before, CommitmentsOf(changes))) \ more
                \subseteq (IF "board_notify" \in more THEN {"cfo_approval"} ELSE {})
    BY <2>3, <2>4, <2>5, SpendingKeepsCodes
  <2> QED
    BY <1>3, <2>6, <2>7
<1>5. ProjectionIsTheRunway
  <2> SUFFICES ASSUME after.runway # None, after.cash > 0
      PROVE  LET n == Len(Projection(after))
             IN  IF Projection(after)[n] <= 0
                 THEN 10 * (n - 1) <= after.runway /\ after.runway <= 10 * n
                 ELSE after.runway >= 180
    <3> HIDE DEF after
    <3> QED
      BY <1>3 DEF ProjectionIsTheRunway, MONTHS
  <2> HIDE DEF s
  <2>1. s.cash \in Int
    BY <1>2 DEF States
  <2>2. /\ after.burn \in Int /\ after.cash \in Int /\ after.burn > 0
        /\ after.runway = Rounded(10 * after.cash, after.burn)
    BY <1>2, <2>1, MetricsAre
  <2> HIDE DEF after
  <2> QED
    BY <2>2, ProjectionIs
<1> QED
  BY <1>4, <1>5 DEF BranchesAddUp

\* Of every company and every list of changes: another change that only costs
\* removes no constraint that the branch violates, and the projection ends in the
\* month that the runway names (scenario_engine.py: _violations, _projection).
THEOREM BranchesAlwaysAddUp == BranchSpec => []BranchesAddUp
<1>1. BranchMade => BranchesAddUp
  <2>1. CASE branch.evaluated
    BY <2>1, MadeAddsUp
  <2>2. CASE ~branch.evaluated
    BY <2>2 DEF BranchesAddUp, SpendingClearsNothing, ProjectionIsTheRunway
  <2> QED
    BY <2>1, <2>2
<1> QED
  BY <1>1, BranchIsMade, PTL

(***************************************************************************)
(* The signals of an analyst.                                              *)
(***************************************************************************)
\* A product grows with a factor.
LEMMA TimesMonotone ==
    ASSUME NEW a \in Nat, NEW x \in Int, NEW y \in Int, x <= y
    PROVE  a * x \in Int /\ a * y \in Int /\ a * x <= a * y
<1>1. a * (y - x) >= 0 /\ a * (y - x) = a * y - a * x
  <2>1. y - x \in Nat
    OBVIOUS
  <2>2. a * (y - x) >= 0
    BY <2>1
  <2> QED
    BY <2>2
<1> QED
  BY <1>1

\* A rounded quotient is within a half.
LEMMA RoundedNear ==
    ASSUME NEW n \in Int, NEW d \in Int, d > 0, NEW x, x = Rounded(n, d)
    PROVE  x \in Int /\ 2 * n - d <= 2 * (d * x) /\ 2 * (d * x) <= 2 * n + d
  BY RoundedIs

\* There are four.
LEMMA SeatsAre == Seats = {1, 2, 3, 4}
  BY DEF Seats, ANALYSTS

\* What citations are worth.
LEMMA GroundingIs ==
    ASSUME NEW n \in Nat
    PROVE  /\ GroundingSignal(n) \in 42..100
           /\ n = 0 => GroundingSignal(n) = 42
           /\ n = 1 => GroundingSignal(n) = 56
           /\ n >= 2 => GroundingSignal(n) >= 70
  BY DEF GroundingSignal, GroundingScore, Clamp, Least, Greatest

\* What the round of challenges is worth.
LEMMA DebateSignalIs ==
    ASSUME NEW x \in Tables, NEW i \in Seats
    PROVE  DebateSignal(x.made[i], x.met[i]) \in 35..74
<1>1. x.made[i] \in {0, 1, 3} /\ x.met[i] \in {0, 1, 3}
  BY SeatsAre DEF Tables
<1> QED
  BY <1>1 DEF DebateSignal, Least, Greatest

\* What the type of the decision is worth.
LEMMA TypeBiasIs == ASSUME NEW type, NEW i \in Seats PROVE TypeBias(type, i) \in 0..12
<1> DEFINE biases == [vendor_renewal |-> <<4, 0, 0, 10>>, hiring_plan |-> <<6, 10, 0, 0>>,
                      capital_allocation |-> <<8, 8, 0, 0>>, security_blocker |-> <<0, 0, 12, 4>>,
                      pricing_change |-> <<0, 10, 0, 4>>, financing_scenario |-> <<12, 6, 0, 0>>]
<1>1. TypeBias(type, i) = IF type \in DOMAIN biases THEN biases[type][i] ELSE 0
  BY DEF TypeBias
<1>2. ASSUME type \in DOMAIN biases PROVE biases[type][i] \in 0..12
  BY <1>2, SeatsAre
<1> QED
  BY <1>1, <1>2

\* The raw score of a seat.
Raw(type, p, n, x, i) ==
    40 * p[i] + 35 * GroundingSignal(n[i]) + 25 * DebateSignal(x.made[i], x.met[i]) + 100 * TypeBias(type, i)

\* What is known of a raw score y, of a seat with m citations.
RawScore(y, m) ==
    /\ y \in Int /\ 2345 <= y /\ y <= 10550
    /\ m = 0 => y <= 8520
    /\ m >= 2 => y >= 3325

\* A raw score, and how far citations move it.
LEMMA RawIs ==
    ASSUME NEW type, NEW p \in [Seats -> 0..100], NEW n \in [Seats -> Nat], NEW x \in Tables, NEW i \in Seats
    PROVE  RawScore(Raw(type, p, n, x, i), n[i])
<1> DEFINE g == GroundingSignal(n[i])
           d == DebateSignal(x.made[i], x.met[i])
           t == TypeBias(type, i)
           a == p[i]
           m == n[i]
<1>1. a \in 0..100 /\ m \in Nat
  OBVIOUS
<1>2. g \in 42..100 /\ (m = 0 => g = 42) /\ (m >= 2 => g >= 70)
  BY <1>1, GroundingIs
<1>3. d \in 35..74
  BY DebateSignalIs
<1>4. t \in 0..12
  BY TypeBiasIs
<1>5. Raw(type, p, n, x, i) = 40 * a + 35 * g + 25 * d + 100 * t
  BY DEF Raw
<1> HIDE DEF g, d, t, a, m
<1>6. RawScore(40 * a + 35 * g + 25 * d + 100 * t, m)
  BY <1>1, <1>2, <1>3, <1>4 DEF RawScore
<1> QED
  BY <1>5, <1>6 DEF m

(***************************************************************************)
(* The weights.                                                            *)
(***************************************************************************)
\* How far a share may be off, in parts of 200.
Slack(s, i) == IF i = 4 THEN 3 * s ELSE s

\* Of weights that are none too small, the normalised ones make a whole.
LEMMA NormalizedIs ==
    ASSUME NEW w \in [Seats -> Int], NEW m \in {6, 7}, \A i \in Seats : w[i] >= m,
           NEW s \in Int, s = Total(w), s <= 102
    PROVE  LET o == Normalized(w)
           IN  /\ o \in [Seats -> Int] /\ \A i \in Seats : o[i] >= m - 1
               /\ Total(o) = 100
               /\ \A i \in Seats : s * o[i] \in Int
               /\ s * o[1] + s * o[2] + s * o[3] + s * o[4] = 100 * s
               /\ \A i \in Seats : /\ 200 * w[i] - Slack(s, i) <= 2 * (s * o[i])
                                   /\ 2 * (s * o[i]) <= 200 * w[i] + Slack(s, i)
               /\ \A i \in 1..3 : o[i] = Rounded(100 * w[i], s)
<1>1. /\ w[1] \in Int /\ w[2] \in Int /\ w[3] \in Int /\ w[4] \in Int
      /\ w[1] >= m /\ w[2] >= m /\ w[3] >= m /\ w[4] >= m
      /\ s = w[1] + w[2] + w[3] + w[4]
  BY SeatsAre DEF Total
<1>2. s \in Nat /\ s >= 24
  BY <1>1
<1> DEFINE k(i) == Rounded(100 * w[i], s)
<1>3. ASSUME NEW i \in Seats
      PROVE  /\ k(i) \in Int /\ s * k(i) \in Int
             /\ 200 * w[i] - s <= 2 * (s * k(i)) /\ 2 * (s * k(i)) <= 200 * w[i] + s
             /\ k(i) >= m - 1
  <2> DEFINE a == 100 * w[i]
             x == k(i)
  <2>1. a \in Int /\ w[i] \in Int /\ w[i] >= m
    OBVIOUS
  <2> HIDE DEF a
  <2>2. x \in Int /\ 2 * a - s <= 2 * (s * x) /\ 2 * (s * x) <= 2 * a + s
    <3>1. x = Rounded(a, s)
      BY DEF a
    <3>2. s > 0
      BY <1>2
    <3> HIDE DEF x
    <3> QED
      BY <2>1, <3>1, <3>2, RoundedIs
  <2>3. s * x \in Int
    BY <1>2, <2>2
  <2> HIDE DEF x
  <2>4. ASSUME x <= m - 2 PROVE FALSE
    <3>1. s * x <= s * (m - 2)
      BY <1>2, <2>2, <2>4, TimesMonotone
    <3>2. CASE m = 6
      <4>1. s * (m - 2) = 4 * s
        BY <1>2, <3>2
      <4> QED
        BY <1>2, <2>1, <2>2, <2>3, <3>1, <3>2, <4>1 DEF a
    <3>3. CASE m = 7
      <4>1. s * (m - 2) = 5 * s
        BY <1>2, <3>3
      <4> QED
        BY <1>2, <2>1, <2>2, <2>3, <3>1, <3>3, <4>1 DEF a
    <3> QED
      BY <3>2, <3>3
  <2> QED
    BY <2>1, <2>2, <2>3, <2>4 DEF a, x
<1> DEFINE q == k(1) + k(2) + k(3)
<1>4. /\ k(1) \in Int /\ k(2) \in Int /\ k(3) \in Int /\ q \in Int
      /\ s * k(1) \in Int /\ s * k(2) \in Int /\ s * k(3) \in Int
      /\ s * q = s * k(1) + s * k(2) + s * k(3)
      /\ k(1) >= m - 1 /\ k(2) >= m - 1 /\ k(3) >= m - 1
  <2>1. /\ k(1) \in Int /\ k(2) \in Int /\ k(3) \in Int
        /\ s * k(1) \in Int /\ s * k(2) \in Int /\ s * k(3) \in Int
        /\ k(1) >= m - 1 /\ k(2) >= m - 1 /\ k(3) >= m - 1
    BY <1>3, SeatsAre
  <2> HIDE DEF k
  <2> QED
    BY <1>2, <2>1
<1>5. /\ 200 * w[1] - s <= 2 * (s * k(1)) /\ 2 * (s * k(1)) <= 200 * w[1] + s
      /\ 200 * w[2] - s <= 2 * (s * k(2)) /\ 2 * (s * k(2)) <= 200 * w[2] + s
      /\ 200 * w[3] - s <= 2 * (s * k(3)) /\ 2 * (s * k(3)) <= 200 * w[3] + s
  BY <1>3, SeatsAre
<1>6. q <= 101 - m
  <2> HIDE DEF k
  <2> SUFFICES ASSUME 102 - m <= q PROVE FALSE
    BY <1>4
  <2>1. s * (102 - m) <= s * q
    BY <1>2, <1>4, TimesMonotone
  <2> HIDE DEF q
  <2>2. CASE m = 6
    <3>1. s * (102 - m) = 96 * s
      BY <1>2, <2>2
    <3> QED
      BY <1>1, <1>2, <1>4, <1>5, <2>1, <2>2, <3>1
  <2>3. CASE m = 7
    <3>1. s * (102 - m) = 95 * s
      BY <1>2, <2>3
    <3> QED
      BY <1>1, <1>2, <1>4, <1>5, <2>1, <2>3, <3>1
  <2> QED
    BY <2>2, <2>3
<1> DEFINE o == Normalized(w)
<1>7. o = [i \in Seats |-> IF i < 4 THEN k(i) ELSE 100 - q]
  <2> DEFINE at(i) == Greatest(1, w[i])
             sum == at(1) + at(2) + at(3) + at(4)
             share(i) == Greatest(5, Rounded(100 * at(i), sum))
  <2>1. o = [i \in Seats |-> IF i < 4 THEN share(i) ELSE Greatest(5, 100 - share(1) - share(2) - share(3))]
    BY DEF Normalized
  <2>2. at(1) = w[1] /\ at(2) = w[2] /\ at(3) = w[3] /\ at(4) = w[4]
    BY <1>1 DEF Greatest
  <2>3. sum = s
    BY <1>1, <2>2
  <2>4. share(1) = k(1) /\ share(2) = k(2) /\ share(3) = k(3)
    <3>1. share(1) = Greatest(5, k(1)) /\ share(2) = Greatest(5, k(2)) /\ share(3) = Greatest(5, k(3))
      BY <2>2, <2>3
    <3> HIDE DEF share, k
    <3> QED
      BY <1>4, <3>1 DEF Greatest
  <2>5. Greatest(5, 100 - share(1) - share(2) - share(3)) = 100 - q
    <3> HIDE DEF share, k
    <3> QED
      BY <1>4, <1>6, <2>4 DEF Greatest
  <2> HIDE DEF share, k
  <2>6. \A i \in Seats : i < 4 => share(i) = k(i)
    BY <2>4, SeatsAre
  <2> HIDE DEF q
  <2> QED
    BY <2>1, <2>5, <2>6
<1> HIDE DEF o, k
<1>8. o[1] = k(1) /\ o[2] = k(2) /\ o[3] = k(3) /\ o[4] = 100 - q
  BY <1>7, SeatsAre
<1>9. o[4] \in Int /\ o[4] >= m - 1 /\ s * o[4] = 100 * s - s * q
  BY <1>2, <1>4, <1>6, <1>8
<1> HIDE DEF q
<1>10. o \in [Seats -> Int] /\ \A i \in Seats : o[i] >= m - 1
  BY <1>4, <1>7, <1>8, <1>9, SeatsAre
<1>11. Total(o) = 100
  BY <1>4, <1>8 DEF Total, q
<1>12. /\ \A i \in Seats : s * o[i] \in Int
       /\ s * o[1] + s * o[2] + s * o[3] + s * o[4] = 100 * s
  BY <1>2, <1>4, <1>8, <1>9, <1>10, SeatsAre
<1>13. ASSUME NEW i \in Seats
       PROVE  /\ 200 * w[i] - Slack(s, i) <= 2 * (s * o[i])
              /\ 2 * (s * o[i]) <= 200 * w[i] + Slack(s, i)
  BY <1>1, <1>2, <1>4, <1>5, <1>8, <1>9, SeatsAre DEF Slack
<1>14. \A i \in 1..3 : o[i] = Rounded(100 * w[i], s)
  BY <1>8 DEF k
<1> QED
  BY <1>10, <1>11, <1>12, <1>13, <1>14 DEF o

\* One weight of the baseline.
LEMMA WeighedOne ==
    ASSUME NEW x \in Int, NEW t \in Int, 2345 <= x, t > 0, t <= x + 31650
    PROVE  LET k == Rounded(100 * x, t)
           IN  /\ k \in Int /\ k >= 7 /\ t * k \in Int
               /\ 200 * x - t <= 2 * (t * k) /\ 2 * (t * k) <= 200 * x + t
<1> DEFINE a == 100 * x
           k == Rounded(a, t)
<1>1. a \in Int /\ a = 100 * x
  OBVIOUS
<1> HIDE DEF a
<1>2. k \in Int /\ 2 * a - t <= 2 * (t * k) /\ 2 * (t * k) <= 2 * a + t
  BY <1>1, RoundedNear
<1>3. k = Rounded(100 * x, t)
  BY <1>1
<1> HIDE DEF k
<1>4. ASSUME k <= 6 PROVE FALSE
  <2>1. t * k <= t * 6 /\ t * k \in Int
    BY <1>2, <1>4, TimesMonotone
  <2> QED
    BY <1>1, <1>2, <2>1
<1>5. k >= 7 /\ t * k \in Int
  BY <1>2, <1>4
<1> QED
  BY <1>1, <1>2, <1>3, <1>5

\* A product of a sum of four.
LEMMA Distributes ==
    ASSUME NEW t \in Int, NEW w \in Int, NEW x \in Int, NEW y \in Int, NEW z \in Int
    PROVE  t * (w + x + y + z) = t * w + t * x + t * y + t * z
<1>1. t * (w + x + y + z) = t * (w + x) + t * (y + z)
  OBVIOUS
<1> QED
  BY <1>1

\* Four times a half is two: so far the whole may be off.
LEMMA WholeIsNear ==
    ASSUME NEW t \in Nat, t > 0, NEW q \in Int, NEW z \in Int, z = t * q, 196 * t <= 2 * z, 2 * z <= 204 * t
    PROVE  q \in 98..102
<1>1. ASSUME q <= 97 PROVE FALSE
  <2>1. t * q <= t * 97 /\ t * q \in Int
    BY <1>1, TimesMonotone
  <2> QED
    BY <2>1
<1>2. ASSUME 103 <= q PROVE FALSE
  <2>1. t * 103 <= t * q /\ t * q \in Int
    BY <1>2, TimesMonotone
  <2> QED
    BY <2>1
<1> QED
  BY <1>1, <1>2

\* The weights of the baseline, before they are normalised.
LEMMA WeighedIs ==
    ASSUME NEW raw \in [Seats -> Int], \A k \in Seats : 2345 <= raw[k] /\ raw[k] <= 10550,
           NEW t \in Int, t = Total(raw)
    PROVE  LET r == [i \in Seats |-> Greatest(5, Rounded(100 * raw[i], t))]
           IN  /\ t \in Nat /\ t > 0 /\ r \in [Seats -> Int]
               /\ \A i \in Seats :
                      /\ r[i] >= 7 /\ t * r[i] \in Int
                      /\ 200 * raw[i] - t <= 2 * (t * r[i]) /\ 2 * (t * r[i]) <= 200 * raw[i] + t
               /\ Total(r) \in 98..102
<1> DEFINE r == [i \in Seats |-> Greatest(5, Rounded(100 * raw[i], t))]
<1>1. /\ raw[1] \in Int /\ 2345 <= raw[1] /\ raw[1] <= 10550
      /\ raw[2] \in Int /\ 2345 <= raw[2] /\ raw[2] <= 10550
      /\ raw[3] \in Int /\ 2345 <= raw[3] /\ raw[3] <= 10550
      /\ raw[4] \in Int /\ 2345 <= raw[4] /\ raw[4] <= 10550
      /\ t = raw[1] + raw[2] + raw[3] + raw[4]
  BY SeatsAre DEF Total
<1>2. t \in Nat /\ t > 0
  BY <1>1
<1>3. ASSUME NEW i \in Seats
      PROVE  /\ r[i] \in Int /\ r[i] >= 7 /\ t * r[i] \in Int
             /\ 200 * raw[i] - t <= 2 * (t * r[i]) /\ 2 * (t * r[i]) <= 200 * raw[i] + t
  <2> DEFINE x == raw[i]
             k == Rounded(100 * x, t)
  <2>1. x \in Int /\ 2345 <= x /\ t <= x + 31650
    BY <1>1, SeatsAre
  <2>2. r[i] = Greatest(5, k)
    OBVIOUS
  <2> HIDE DEF x
  <2>3. /\ k \in Int /\ k >= 7 /\ t * k \in Int
        /\ 200 * x - t <= 2 * (t * k) /\ 2 * (t * k) <= 200 * x + t
    BY <1>2, <2>1, WeighedOne
  <2> HIDE DEF k
  <2>4. r[i] = k
    BY <2>2, <2>3 DEF Greatest
  <2> QED
    BY <2>3, <2>4 DEF x
<1>4. r \in [Seats -> Int]
  BY <1>3
<1> HIDE DEF r
<1> DEFINE q == r[1] + r[2] + r[3] + r[4]
<1>5. /\ r[1] \in Int /\ r[2] \in Int /\ r[3] \in Int /\ r[4] \in Int /\ q \in Int
      /\ t * r[1] \in Int /\ t * r[2] \in Int /\ t * r[3] \in Int /\ t * r[4] \in Int
      /\ t * q = t * r[1] + t * r[2] + t * r[3] + t * r[4]
  <2>1. r[1] \in Int /\ r[2] \in Int /\ r[3] \in Int /\ r[4] \in Int
    BY <1>3, SeatsAre
  <2>3. \A w \in Int : t * w \in Int
    BY <1>2
  <2>4. t * q = t * r[1] + t * r[2] + t * r[3] + t * r[4]
    BY <2>1, Distributes
  <2>5. q \in Int
    BY <2>1
  <2> HIDE DEF q
  <2> QED
    BY <2>1, <2>3, <2>4, <2>5
<1>6. /\ 200 * raw[1] - t <= 2 * (t * r[1]) /\ 2 * (t * r[1]) <= 200 * raw[1] + t
      /\ 200 * raw[2] - t <= 2 * (t * r[2]) /\ 2 * (t * r[2]) <= 200 * raw[2] + t
      /\ 200 * raw[3] - t <= 2 * (t * r[3]) /\ 2 * (t * r[3]) <= 200 * raw[3] + t
      /\ 200 * raw[4] - t <= 2 * (t * r[4]) /\ 2 * (t * r[4]) <= 200 * raw[4] + t
  BY <1>3, SeatsAre
<1>7. 196 * t <= 2 * (t * q) /\ 2 * (t * q) <= 204 * t
  BY <1>1, <1>2, <1>5, <1>6
<1>8. Total(r) = q
  BY DEF Total
<1> HIDE DEF q
<1>9. q \in 98..102
  <2> DEFINE z == t * q
  <2>1. z = t * q /\ z \in Int
    BY <1>5
  <2>2. 196 * t <= 2 * z /\ 2 * z <= 204 * t
    BY <1>7
  <2> HIDE DEF z
  <2>3. q \in Int
    BY <1>5
  <2> QED
    BY <1>2, <2>1, <2>2, <2>3, WholeIsNear
<1> QED
  BY <1>2, <1>3, <1>4, <1>5, <1>8, <1>9 DEF r

\* The baseline: four whole numbers that make a hundred, each at least 6.
LEMMA WholeIs ==
    ASSUME NEW raw \in [Seats -> Int], \A k \in Seats : 2345 <= raw[k] /\ raw[k] <= 10550,
           NEW t \in Int, t = Total(raw)
    PROVE  LET r == [k \in Seats |-> Greatest(5, Rounded(100 * raw[k], t))]
               s == Total(r)
               b == Normalized(r)
           IN  /\ t \in Nat /\ t > 0 /\ r \in [Seats -> Int] /\ s \in 98..102
               /\ \A k \in Seats :
                      /\ r[k] >= 7 /\ t * r[k] \in Int
                      /\ 200 * raw[k] - t <= 2 * (t * r[k]) /\ 2 * (t * r[k]) <= 200 * raw[k] + t
               /\ b \in [Seats -> Int] /\ (\A k \in Seats : b[k] >= 6) /\ Total(b) = 100
               /\ \A k \in Seats : /\ s * b[k] \in Int
                                    /\ 200 * r[k] - Slack(s, k) <= 2 * (s * b[k])
                                    /\ 2 * (s * b[k]) <= 200 * r[k] + Slack(s, k)
<1> DEFINE r == [k \in Seats |-> Greatest(5, Rounded(100 * raw[k], t))]
           s == Total(r)
           b == Normalized(r)
<1>3. /\ t \in Nat /\ t > 0 /\ r \in [Seats -> Int]
      /\ \A k \in Seats :
             /\ r[k] >= 7 /\ t * r[k] \in Int
             /\ 200 * raw[k] - t <= 2 * (t * r[k]) /\ 2 * (t * r[k]) <= 200 * raw[k] + t
      /\ s \in 98..102
  BY WeighedIs
<1> HIDE DEF r
<1>4. /\ b \in [Seats -> Int] /\ (\A k \in Seats : b[k] >= 6) /\ Total(b) = 100
      /\ \A k \in Seats : /\ s * b[k] \in Int
                           /\ 200 * r[k] - Slack(s, k) <= 2 * (s * b[k])
                           /\ 2 * (s * b[k]) <= 200 * r[k] + Slack(s, k)
  <2>1. s \in Int /\ s = Total(r) /\ s <= 102
    BY <1>3
  <2> HIDE DEF s
  <2>2. \E m \in {6, 7} : m = 7
    OBVIOUS
  <2>3. PICK m \in {6, 7} : m = 7
    BY <2>2
  <2>4. \A k \in Seats : r[k] >= m
    BY <1>3, <2>3
  <2>5. /\ b \in [Seats -> Int] /\ (\A k \in Seats : b[k] >= m - 1) /\ Total(b) = 100
        /\ \A k \in Seats : s * b[k] \in Int
        /\ \A k \in Seats : /\ 200 * r[k] - Slack(s, k) <= 2 * (s * b[k])
                             /\ 2 * (s * b[k]) <= 200 * r[k] + Slack(s, k)
    BY <1>3, <2>1, <2>4, NormalizedIs
  <2> HIDE DEF b
  <2> QED
    BY <2>3, <2>5
<1> HIDE DEF b
<1> QED
  BY <1>3, <1>4 DEF b, r

\* A seat that is more than half of the whole leaves no other small, of those that
\* are strong.
LEMMA ShareIsKept ==
    ASSUME NEW raw \in [Seats -> Int], \A k \in Seats : 2345 <= raw[k] /\ raw[k] <= 10550,
           NEW t, t = Total(raw),
           NEW r, r = [k \in Seats |-> Greatest(5, Rounded(100 * raw[k], t))],
           NEW s, s = Total(r),
           NEW b, b = Normalized(r),
           NEW i \in Seats, NEW j \in Seats, i # j, raw[i] <= 8520, raw[j] >= 3325,
           b[i] >= 51
    PROVE  b[j] >= 18
<1>1. /\ t \in Nat /\ t > 0 /\ r \in [Seats -> Int] /\ s \in 98..102
      /\ \A k \in Seats :
             /\ r[k] >= 7 /\ t * r[k] \in Int
             /\ 200 * raw[k] - t <= 2 * (t * r[k]) /\ 2 * (t * r[k]) <= 200 * raw[k] + t
      /\ b \in [Seats -> Int]
      /\ \A k \in Seats : /\ s * b[k] \in Int
                           /\ 200 * r[k] - Slack(s, k) <= 2 * (s * b[k])
                           /\ 2 * (s * b[k]) <= 200 * r[k] + Slack(s, k)
  <2>1. t \in Int
    <3>1. raw[1] \in Int /\ raw[2] \in Int /\ raw[3] \in Int /\ raw[4] \in Int
      BY SeatsAre
    <3> QED
      BY <3>1 DEF Total
  <2> QED
    BY <2>1, WholeIs
<1>2. raw[i] \in Int /\ raw[j] \in Int /\ r[i] \in Int /\ r[j] \in Int /\ b[i] \in Int /\ b[j] \in Int
  BY <1>1
<1>3. /\ r[j] >= 7
      /\ t * r[i] \in Int /\ 2 * (t * r[i]) <= 200 * raw[i] + t
      /\ t * r[j] \in Int /\ 200 * raw[j] - t <= 2 * (t * r[j])
      /\ s * b[i] \in Int /\ 2 * (s * b[i]) <= 200 * r[i] + 3 * s
      /\ s * b[j] \in Int /\ 200 * r[j] - 3 * s <= 2 * (s * b[j])
  <2>1. Slack(s, i) <= 3 * s /\ Slack(s, j) <= 3 * s /\ Slack(s, i) \in Int /\ Slack(s, j) \in Int
    BY <1>1 DEF Slack
  <2> QED
    BY <1>1, <1>2, <2>1
<1>4. SUFFICES ASSUME b[j] <= 17 PROVE FALSE
  BY <1>2
<1>5. s * 51 <= s * b[i] /\ s * b[j] <= s * 17
  BY <1>1, <1>2, <1>4, TimesMonotone
<1>6. r[i] >= 49
  BY <1>1, <1>2, <1>3, <1>5
<1>7. t * 49 <= t * r[i]
  BY <1>1, <1>2, <1>6, TimesMonotone
<1>8. 97 * t <= 1704000
  BY <1>1, <1>2, <1>3, <1>7
<1>9. ASSUME r[j] <= 18 PROVE FALSE
  <2>1. t * r[j] <= t * 18
    BY <1>1, <1>2, <1>9, TimesMonotone
  <2> QED
    BY <1>1, <1>2, <1>3, <1>8, <2>1
<1>10. r[j] >= 19
  BY <1>2, <1>9
<1> QED
  BY <1>1, <1>2, <1>3, <1>5, <1>10

(***************************************************************************)
(* Who may lead.                                                           *)
(***************************************************************************)
\* Shares of 18 that tie at a half.
LEMMA TieUp ==
    ASSUME NEW s \in 48..72, NEW o \in Int, o % 2 = 0, 2 * (s * o) = 3600 + s
    PROVE  s = 48
<1>1. s * (2 * o) = 3600 + s /\ s \in Nat /\ 2 * o \in Int
  OBVIOUS
<1>2. ASSUME o <= 25 PROVE FALSE
  <2>1. s * o <= s * 25 /\ s * o \in Int
    BY <1>1, <1>2, TimesMonotone
  <2> QED
    BY <2>1
<1>3. ASSUME o >= 39 PROVE FALSE
  <2>1. s * 39 <= s * o /\ s * o \in Int
    BY <1>1, <1>3, TimesMonotone
  <2> QED
    BY <2>1
<1>4. o \in {26, 28, 30, 32, 34, 36, 38}
  BY <1>2, <1>3
<1> QED
  BY <1>4

\* Shares of 18 that tie downwards.
LEMMA TieDown ==
    ASSUME NEW s \in 48..72, NEW o \in Int, o % 2 = 0, 2 * (s * o) = 3600 - s
    PROVE  FALSE
<1>1. s \in Nat
  OBVIOUS
<1>2. ASSUME o <= 23 PROVE FALSE
  <2>1. s * o <= s * 23 /\ s * o \in Int
    BY <1>1, <1>2, TimesMonotone
  <2> QED
    BY <2>1
<1>3. ASSUME o >= 38 PROVE FALSE
  <2>1. s * 38 <= s * o /\ s * o \in Int
    BY <1>1, <1>3, TimesMonotone
  <2> QED
    BY <2>1
<1>4. o \in {24, 26, 28, 30, 32, 34, 36}
  BY <1>2, <1>3
<1> QED
  BY <1>4

\* A lead of two over the last seat takes all that rounding may give.
LEMMA AllRoundUp ==
    ASSUME NEW s \in Int, NEW a \in Int, NEW b \in Int,
           NEW p \in Int, NEW q \in Int, NEW r \in Int, NEW z \in Int,
           s = 36 + a + b, p + q + r + z = 100 * s, p >= z + 2 * s,
           2 * p <= 3600 + s, 2 * q <= 200 * a + s, 2 * r <= 200 * b + s
    PROVE  2 * p = 3600 + s /\ 2 * q = 200 * a + s /\ 2 * r = 200 * b + s
<1>1. 2 * p + (p + q + r + z) >= 2 * p + 100 * s
  OBVIOUS
<1>2. 2 * p + q + r >= 102 * s
  OBVIOUS
<1>3. 4 * p + 2 * q + 2 * r <= 204 * s
  OBVIOUS
<1> QED
  BY <1>2, <1>3

\* Who leads with at most 18 held more than half before it was capped, and all the
\* others hold less than 18.
LEMMA LeaderHeldMore ==
    ASSUME NEW b \in [Seats -> Int], Total(b) = 100,
           NEW c \in [Seats -> Int],
           \A k \in Seats : c[k] >= 6 /\ c[k] <= b[k] /\ (c[k] <= 17 => c[k] = b[k]),
           NEW i \in Seats, c[i] <= 18,
           NEW o, o = Normalized(c), \A k \in Seats \ {i} : o[i] > o[k] + 1
    PROVE  b[i] >= 51 /\ \A k \in Seats \ {i} : c[k] <= 17
<1> DEFINE s == Total(c)
<1>1. /\ c[1] \in Int /\ c[2] \in Int /\ c[3] \in Int /\ c[4] \in Int
      /\ c[1] >= 6 /\ c[2] >= 6 /\ c[3] >= 6 /\ c[4] >= 6
      /\ s = c[1] + c[2] + c[3] + c[4]
  BY SeatsAre DEF Total
<1>2. /\ b[1] \in Int /\ b[2] \in Int /\ b[3] \in Int /\ b[4] \in Int
      /\ b[1] + b[2] + b[3] + b[4] = 100
  BY SeatsAre DEF Total
<1>3. s \in Nat /\ 24 <= s /\ s <= 100
  BY <1>1, <1>2, SeatsAre
<1> HIDE DEF s
<1>4. /\ o \in [Seats -> Int] /\ Total(o) = 100
      /\ \A k \in Seats : s * o[k] \in Int
      /\ s * o[1] + s * o[2] + s * o[3] + s * o[4] = 100 * s
      /\ \A k \in Seats : /\ 200 * c[k] - Slack(s, k) <= 2 * (s * o[k])
                           /\ 2 * (s * o[k]) <= 200 * c[k] + Slack(s, k)
      /\ \A k \in 1..3 : o[k] = Rounded(100 * c[k], s)
  <2> DEFINE p == Normalized(c)
  <2>1. \E m \in {6, 7} : m = 6
    OBVIOUS
  <2>2. PICK m \in {6, 7} : m = 6
    BY <2>1
  <2>3. s = Total(c) /\ s <= 102 /\ s \in Int /\ \A k \in Seats : c[k] >= m
    BY <1>3, <2>2 DEF s
  <2>4. /\ p \in [Seats -> Int] /\ Total(p) = 100
        /\ \A k \in Seats : s * p[k] \in Int
        /\ s * p[1] + s * p[2] + s * p[3] + s * p[4] = 100 * s
        /\ \A k \in Seats : /\ 200 * c[k] - Slack(s, k) <= 2 * (s * p[k])
                             /\ 2 * (s * p[k]) <= 200 * c[k] + Slack(s, k)
        /\ \A k \in 1..3 : p[k] = Rounded(100 * c[k], s)
    BY <2>3, NormalizedIs
  <2>5. o = p
    OBVIOUS
  <2> HIDE DEF p
  <2> QED
    BY <2>4, <2>5
<1>5. /\ o[1] \in Int /\ o[2] \in Int /\ o[3] \in Int /\ o[4] \in Int
      /\ o[1] + o[2] + o[3] + o[4] = 100
      /\ s * o[1] \in Int /\ s * o[2] \in Int /\ s * o[3] \in Int /\ s * o[4] \in Int
  BY <1>4, SeatsAre DEF Total
<1>6. /\ 200 * c[1] - s <= 2 * (s * o[1]) /\ 2 * (s * o[1]) <= 200 * c[1] + s
      /\ 200 * c[2] - s <= 2 * (s * o[2]) /\ 2 * (s * o[2]) <= 200 * c[2] + s
      /\ 200 * c[3] - s <= 2 * (s * o[3]) /\ 2 * (s * o[3]) <= 200 * c[3] + s
      /\ 200 * c[4] - 3 * s <= 2 * (s * o[4]) /\ 2 * (s * o[4]) <= 200 * c[4] + 3 * s
  BY <1>4, SeatsAre DEF Slack
\* A half is rounded to the even share.
<1>7. ASSUME NEW k \in 1..3, 2 * (s * o[k]) = 200 * c[k] - s \/ 2 * (s * o[k]) = 200 * c[k] + s
      PROVE  o[k] % 2 = 0
  <2> DEFINE n == 100 * c[k]
             x == Rounded(n, s)
  <2>1. n \in Int /\ 2 * n = 200 * c[k] /\ s \in Int /\ s > 0
    BY <1>1, <1>3
  <2>2. o[k] = x
    BY <1>4
  <2> HIDE DEF n
  <2>3. 2 * n - s = 2 * (s * x) \/ 2 * (s * x) = 2 * n + s => x % 2 = 0
    BY <2>1, RoundedIs
  <2> HIDE DEF x
  <2> QED
    BY <1>7, <2>1, <2>2, <2>3
<1>8. ASSUME NEW k \in Seats \ {i}
      PROVE  s * o[i] >= s * o[k] + 2 * s
  <2>1. o[i] \in Int /\ o[k] \in Int /\ o[k] + 2 <= o[i]
    BY <1>4
  <2>2. s * (o[k] + 2) <= s * o[i] /\ s * (o[k] + 2) = s * o[k] + s * 2
    BY <1>3, <2>1, TimesMonotone
  <2> QED
    BY <1>3, <1>4, <2>2
<1>9. ASSUME NEW k \in Seats \ {i}
      PROVE  c[k] <= c[i] /\ (i # 4 /\ k # 4 => c[k] < c[i])
  BY <1>1, <1>3, <1>5, <1>6, <1>8, SeatsAre
<1>10. c[i] = 18
  <2> SUFFICES ASSUME c[i] <= 17 PROVE FALSE
    BY <1>1, SeatsAre
  <2>1. \A k \in Seats : c[k] <= 17 /\ c[k] = b[k]
    BY <1>1, <1>9, SeatsAre
  <2> QED
    BY <1>1, <1>2, <2>1, SeatsAre
<1>11. ASSUME NEW k \in Seats \ {i}, c[k] = 18 PROVE FALSE
  <2>1. s \in 48..72
    BY <1>1, <1>3, <1>9, <1>10, <1>11, SeatsAre
  <2>2. i = 4 \/ k = 4
    BY <1>9, <1>10, <1>11
  <2>3. CASE i = 4
    <3>1. k \in 1..3 /\ 2 * (s * o[4]) <= 3600 + 3 * s /\ s * o[4] >= s * o[k] + 2 * s
      BY <1>1, <1>6, <1>8, <1>10, <2>3, SeatsAre
    <3>2. 2 * (s * o[k]) = 3600 - s
      <4>1. s * o[k] \in Int /\ 3600 - s <= 2 * (s * o[k])
        BY <1>5, <1>6, <1>11, <3>1
      <4> QED
        BY <1>3, <1>5, <3>1, <4>1
    <3>3. o[k] % 2 = 0 /\ o[k] \in Int
      BY <1>4, <1>7, <1>11, <3>1, <3>2
    <3> QED
      BY <2>1, <3>2, <3>3, TieDown
  <2>4. CASE k = 4
    <3>1. i \in 1..3
      BY <2>4, SeatsAre
    <3>2. \A m \in 1..3 : 2 * (s * o[m]) = 200 * c[m] + s
      <4>1. s * o[i] >= s * o[4] + 2 * s /\ c[4] = 18
        BY <1>8, <1>11, <2>4
      <4>2. CASE i = 1
        <5>1. s = 36 + c[2] + c[3] /\ s * o[1] + s * o[2] + s * o[3] + s * o[4] = 100 * s
          BY <1>1, <1>4, <1>5, <1>10, <4>1, <4>2
        <5>2. /\ 2 * (s * o[1]) = 3600 + s
              /\ 2 * (s * o[2]) = 200 * c[2] + s /\ 2 * (s * o[3]) = 200 * c[3] + s
          <6> DEFINE p == s * o[1]
                     q == s * o[2]
                     r == s * o[3]
                     z == s * o[4]
          <6>1. /\ p \in Int /\ q \in Int /\ r \in Int /\ z \in Int /\ p + q + r + z = 100 * s
                /\ p >= z + 2 * s
            BY <1>5, <4>1, <4>2, <5>1
          <6>2. 2 * p <= 3600 + s /\ 2 * q <= 200 * c[2] + s /\ 2 * r <= 200 * c[3] + s
            <7>1. 200 * c[1] = 3600
              BY <1>10, <4>2
            <7> QED
              BY <1>6, <7>1
          <6> HIDE DEF p, q, r, z
          <6>3. 2 * p = 3600 + s /\ 2 * q = 200 * c[2] + s /\ 2 * r = 200 * c[3] + s
            BY <1>1, <1>3, <5>1, <6>1, <6>2, AllRoundUp
          <6> QED
            BY <6>3 DEF p, q, r
        <5> QED
          BY <1>10, <4>2, <5>2
      <4>3. CASE i = 2
        <5>1. s = 36 + c[1] + c[3] /\ s * o[2] + s * o[1] + s * o[3] + s * o[4] = 100 * s
          BY <1>1, <1>4, <1>5, <1>10, <4>1, <4>3
        <5>2. /\ 2 * (s * o[2]) = 3600 + s
              /\ 2 * (s * o[1]) = 200 * c[1] + s /\ 2 * (s * o[3]) = 200 * c[3] + s
          <6> DEFINE p == s * o[2]
                     q == s * o[1]
                     r == s * o[3]
                     z == s * o[4]
          <6>1. /\ p \in Int /\ q \in Int /\ r \in Int /\ z \in Int /\ p + q + r + z = 100 * s
                /\ p >= z + 2 * s
            BY <1>5, <4>1, <4>3, <5>1
          <6>2. 2 * p <= 3600 + s /\ 2 * q <= 200 * c[1] + s /\ 2 * r <= 200 * c[3] + s
            <7>1. 200 * c[2] = 3600
              BY <1>10, <4>3
            <7> QED
              BY <1>6, <7>1
          <6> HIDE DEF p, q, r, z
          <6>3. 2 * p = 3600 + s /\ 2 * q = 200 * c[1] + s /\ 2 * r = 200 * c[3] + s
            BY <1>1, <1>3, <5>1, <6>1, <6>2, AllRoundUp
          <6> QED
            BY <6>3 DEF p, q, r
        <5> QED
          BY <1>10, <4>3, <5>2
      <4>4. CASE i = 3
        <5>1. s = 36 + c[1] + c[2] /\ s * o[3] + s * o[1] + s * o[2] + s * o[4] = 100 * s
          BY <1>1, <1>4, <1>5, <1>10, <4>1, <4>4
        <5>2. /\ 2 * (s * o[3]) = 3600 + s
              /\ 2 * (s * o[1]) = 200 * c[1] + s /\ 2 * (s * o[2]) = 200 * c[2] + s
          <6> DEFINE p == s * o[3]
                     q == s * o[1]
                     r == s * o[2]
                     z == s * o[4]
          <6>1. /\ p \in Int /\ q \in Int /\ r \in Int /\ z \in Int /\ p + q + r + z = 100 * s
                /\ p >= z + 2 * s
            BY <1>5, <4>1, <4>4, <5>1
          <6>2. 2 * p <= 3600 + s /\ 2 * q <= 200 * c[1] + s /\ 2 * r <= 200 * c[2] + s
            <7>1. 200 * c[3] = 3600
              BY <1>10, <4>4
            <7> QED
              BY <1>6, <7>1
          <6> HIDE DEF p, q, r, z
          <6>3. 2 * p = 3600 + s /\ 2 * q = 200 * c[1] + s /\ 2 * r = 200 * c[2] + s
            BY <1>1, <1>3, <5>1, <6>1, <6>2, AllRoundUp
          <6> QED
            BY <6>3 DEF p, q, r
        <5> QED
          BY <1>10, <4>4, <5>2
      <4> QED
        BY <3>1, <4>2, <4>3, <4>4
    <3>3. 2 * (s * o[i]) = 3600 + s /\ o[i] % 2 = 0 /\ o[i] \in Int
      BY <1>4, <1>7, <1>10, <3>1, <3>2
    <3>4. s = 48
      BY <2>1, <3>3, TieUp
    <3>5. PICK m \in 1..3 : m # i /\ c[m] = 6
      BY <1>1, <1>10, <1>11, <2>4, <3>1, <3>4
    <3>6. o[m] \in Int /\ 2 * (48 * o[m]) = 1248 /\ o[m] % 2 = 0
      BY <1>5, <1>7, <3>2, <3>4, <3>5
    <3> QED
      BY <3>6
  <2> QED
    BY <2>2, <2>3, <2>4
<1>12. \A k \in Seats \ {i} : c[k] <= 17 /\ c[k] = b[k]
  BY <1>1, <1>9, <1>10, <1>11, SeatsAre
<1>13. s = 118 - b[i]
  BY <1>1, <1>2, <1>10, <1>12, SeatsAre
<1>14. ASSUME s >= 68 PROVE FALSE
  <2>1. s \in {68, 69}
    BY <1>1, <1>3, <1>10, <1>12, <1>14, SeatsAre
  <2>2. CASE s = 69
    <3>1. \A k \in Seats \ {i} : c[k] = 17
      BY <1>1, <1>10, <1>12, <2>2, SeatsAre
    <3> QED
      BY <1>1, <1>5, <1>6, <1>10, <2>2, <3>1, SeatsAre
  <2>3. CASE s = 68
    <3> QED
      BY <1>1, <1>5, <1>6, <1>10, <1>12, <2>3, SeatsAre
  <2> QED
    BY <2>1, <2>2, <2>3
<1> QED
  BY <1>2, <1>3, <1>12, <1>13, <1>14, SeatsAre

\* What an analyst may hold of the shares.
LEMMA CapIs ==
    ASSUME NEW n \in Nat
    PROVE  /\ Cap(GroundingSignal(n)) \in {18, 28, 100}
           /\ n = 0 => Cap(GroundingSignal(n)) = 18
           /\ n >= 2 => Cap(GroundingSignal(n)) = 100
<1> DEFINE g == GroundingSignal(n)
<1>1. /\ g \in 42..100 /\ (n = 0 => g = 42) /\ (n = 1 => g = 56) /\ (n >= 2 => g >= 70)
  BY GroundingIs
<1>2. n = 0 \/ n = 1 \/ n >= 2
  OBVIOUS
<1> HIDE DEF g
<1>3. /\ Cap(g) \in {18, 28, 100} /\ (n = 0 => Cap(g) = 18) /\ (n >= 2 => Cap(g) = 100)
  BY <1>1, <1>2 DEF Cap
<1> QED
  BY <1>3 DEF g

\* A cap takes no weight below 18 away, and none from who is grounded.
LEMMA CappedIs ==
    ASSUME NEW b \in [Seats -> Int], \A k \in Seats : b[k] >= 6, NEW n \in [Seats -> Nat], NEW k \in Seats
    PROVE  LET c == Least(b[k], Cap(GroundingSignal(n[k])))
           IN  /\ c \in Int /\ c >= 6 /\ c <= b[k] /\ (c <= 17 => c = b[k])
               /\ n[k] = 0 => c <= 18
               /\ n[k] >= 2 => c = b[k] \/ c >= 100
<1> DEFINE g == Cap(GroundingSignal(n[k]))
<1>1. /\ g \in {18, 28, 100} /\ (n[k] = 0 => g = 18) /\ (n[k] >= 2 => g = 100)
  BY CapIs
<1>2. b[k] \in Int /\ b[k] >= 6
  OBVIOUS
<1> HIDE DEF g
<1>3. LET c == Least(b[k], g)
      IN  /\ c \in Int /\ c >= 6 /\ c <= b[k] /\ (c <= 17 => c = b[k])
          /\ n[k] = 0 => c <= 18
          /\ n[k] >= 2 => c = b[k] \/ c >= 100
  BY <1>1, <1>2 DEF Least
<1> QED
  BY <1>3 DEF g

\* WeakLeads, of any shares and citations.
UngroundedLeads(o, n) ==
    \E i \in Seats : /\ n[i] = 0
                     /\ \A j \in Seats \ {i} : o[i] > o[j] + 1
                     /\ \E j \in Seats : n[j] >= 2

\* What is fair of the shares o of a baseline b.
Fair(b, o, n) ==
    /\ b \in [Seats -> Int]
    /\ o \in [Seats -> Int] /\ (\A k \in Seats : o[k] >= 5) /\ Total(o) = 100
    /\ ~UngroundedLeads(o, n)

\* The shares of the baseline: a hundred in all, at least 5 each, and none that is
\* not grounded leads when another is well grounded.
LEMMA BaselineIsFair ==
    ASSUME NEW type, NEW p \in [Seats -> 0..100], NEW n \in [Seats -> Nat], NEW x \in Tables
    PROVE  LET b == Baseline(type, p, n, x.made, x.met)
               o == Floored(b, n)
           IN  Fair(b, o, n)
<1> DEFINE raw == [i \in Seats |-> Raw(type, p, n, x, i)]
           t == Total(raw)
           r == [k \in Seats |-> Greatest(5, Rounded(100 * raw[k], t))]
           s == Total(r)
           b == Normalized(r)
<1>1. b = Baseline(type, p, n, x.made, x.met)
  BY DEF Baseline, Raw
<1>2. /\ raw \in [Seats -> Int] /\ \A k \in Seats : 2345 <= raw[k] /\ raw[k] <= 10550
      /\ \A k \in Seats : (n[k] = 0 => raw[k] <= 8520) /\ (n[k] >= 2 => raw[k] >= 3325)
  <2>1. ASSUME NEW k \in Seats
        PROVE  /\ raw[k] \in Int /\ 2345 <= raw[k] /\ raw[k] <= 10550
               /\ (n[k] = 0 => raw[k] <= 8520) /\ (n[k] >= 2 => raw[k] >= 3325)
    <3>1. RawScore(Raw(type, p, n, x, k), n[k])
      BY RawIs
    <3>2. raw[k] = Raw(type, p, n, x, k)
      OBVIOUS
    <3> HIDE DEF raw
    <3> QED
      BY <3>1, <3>2 DEF RawScore
  <2> HIDE DEF raw
  <2>2. raw = [k \in Seats |-> raw[k]]
    BY DEF raw
  <2> QED
    BY <2>1, <2>2
<1> HIDE DEF raw
<1>3. t \in Int
  <2>1. raw[1] \in Int /\ raw[2] \in Int /\ raw[3] \in Int /\ raw[4] \in Int
    BY <1>2, SeatsAre
  <2> QED
    BY <2>1 DEF Total
<1>4. b \in [Seats -> Int] /\ (\A k \in Seats : b[k] >= 6) /\ Total(b) = 100
  <2> HIDE DEF t
  <2>1. t = Total(raw)
    BY DEF t
  <2> QED
    BY <1>2, <1>3, <2>1, WholeIs
<1>5. ASSUME NEW i \in Seats, NEW j \in Seats, i # j, n[i] = 0, n[j] >= 2, b[i] >= 51
      PROVE  b[j] >= 18
  <2>1. raw[i] <= 8520 /\ raw[j] >= 3325
    BY <1>2, <1>5
  <2> QED
    BY <1>2, <1>5, <2>1, ShareIsKept
<1> HIDE DEF b
<1> DEFINE c == [k \in Seats |-> Least(b[k], Cap(GroundingSignal(n[k])))]
           o == Normalized(c)
<1>6. Floored(b, n) = o
  BY DEF Floored
<1>7. ASSUME NEW k \in Seats
      PROVE  /\ c[k] \in Int /\ c[k] >= 6 /\ c[k] <= b[k] /\ (c[k] <= 17 => c[k] = b[k])
             /\ n[k] = 0 => c[k] <= 18
             /\ n[k] >= 2 => c[k] = b[k] \/ c[k] >= 100
  <2> DEFINE a == Least(b[k], Cap(GroundingSignal(n[k])))
  <2>1. /\ a \in Int /\ a >= 6 /\ a <= b[k] /\ (a <= 17 => a = b[k])
        /\ n[k] = 0 => a <= 18
        /\ n[k] >= 2 => a = b[k] \/ a >= 100
    BY <1>4, CappedIs
  <2>2. c[k] = a
    OBVIOUS
  <2> QED
    BY <2>1, <2>2
<1>8. c \in [Seats -> Int]
  BY <1>7
<1> HIDE DEF c
<1>9. o \in [Seats -> Int] /\ (\A k \in Seats : o[k] >= 5) /\ Total(o) = 100
  <2> DEFINE q == Total(c)
  <2>1. q \in Int /\ q <= 102
    <3>1. /\ c[1] \in Int /\ c[2] \in Int /\ c[3] \in Int /\ c[4] \in Int
          /\ b[1] \in Int /\ b[2] \in Int /\ b[3] \in Int /\ b[4] \in Int
          /\ c[1] <= b[1] /\ c[2] <= b[2] /\ c[3] <= b[3] /\ c[4] <= b[4]
      BY <1>4, <1>7, SeatsAre
    <3>2. b[1] + b[2] + b[3] + b[4] = 100
      BY <1>4 DEF Total
    <3> QED
      BY <3>1, <3>2 DEF Total
  <2>2. \E m \in {6, 7} : m = 6
    OBVIOUS
  <2>3. PICK m \in {6, 7} : m = 6
    BY <2>2
  <2>4. q = Total(c)
    OBVIOUS
  <2> HIDE DEF q
  <2>5. o \in [Seats -> Int] /\ (\A k \in Seats : o[k] >= m - 1) /\ Total(o) = 100
    BY <1>7, <1>8, <2>1, <2>3, <2>4, NormalizedIs
  <2> HIDE DEF o
  <2> QED
    BY <2>3, <2>5
<1>10. ASSUME NEW i \in Seats, n[i] = 0, \A j \in Seats \ {i} : o[i] > o[j] + 1,
              NEW j \in Seats, n[j] >= 2
       PROVE  FALSE
  <2>1. i # j
    BY <1>10
  <2>2. c[i] <= 18
    BY <1>7, <1>10
  <2>3. b[i] >= 51 /\ \A k \in Seats \ {i} : c[k] <= 17
    <3>1. \A k \in Seats : c[k] >= 6 /\ c[k] <= b[k] /\ (c[k] <= 17 => c[k] = b[k])
      BY <1>7
    <3> QED
      BY <1>4, <1>8, <1>10, <2>2, <3>1, LeaderHeldMore
  <2>4. c[j] <= 17 /\ c[j] = b[j]
    BY <1>7, <2>1, <2>3
  <2>5. b[j] >= 18
    BY <1>5, <1>10, <2>1, <2>3
  <2> QED
    BY <1>7, <2>4, <2>5
<1> HIDE DEF o
<1> DEFINE d == Floored(b, n)
<1>11. d = o
  BY <1>6
<1> HIDE DEF d
<1>12. Fair(b, d, n)
  BY <1>4, <1>9, <1>10, <1>11 DEF Fair, UngroundedLeads
<1> QED
  BY <1>1, <1>12 DEF d

\* Whatever the weights, the minimum is kept.
LEMMA MinimumIsKept ==
    ASSUME NEW w \in [Seats -> Int]
    PROVE  LET o == Normalized(w)
           IN  o \in [Seats -> Int] /\ \A k \in Seats : o[k] >= 5
<1> DEFINE at(i) == Greatest(1, w[i])
           sum == at(1) + at(2) + at(3) + at(4)
           share(i) == Greatest(5, Rounded(100 * at(i), sum))
           rest == Greatest(5, 100 - share(1) - share(2) - share(3))
           o == Normalized(w)
<1>1. o = [i \in Seats |-> IF i < 4 THEN share(i) ELSE rest]
  BY DEF Normalized
<1>2. \A i \in Seats : at(i) \in Int /\ at(i) >= 1
  BY DEF Greatest
<1> HIDE DEF at
<1>3. sum \in Int /\ sum > 0
  BY <1>2, SeatsAre
<1> HIDE DEF sum
<1>4. ASSUME NEW i \in Seats PROVE share(i) \in Int /\ share(i) >= 5
  <2> DEFINE a == 100 * at(i)
             k == Rounded(a, sum)
  <2>1. a \in Int
    BY <1>2
  <2> HIDE DEF a
  <2>2. k \in Int
    BY <1>3, <2>1, RoundedNear
  <2>3. share(i) = Greatest(5, k)
    BY DEF a
  <2> HIDE DEF k
  <2> QED
    BY <2>2, <2>3 DEF Greatest
<1> HIDE DEF share
<1>5. rest \in Int /\ rest >= 5
  BY <1>4, SeatsAre DEF Greatest
<1> HIDE DEF rest, o
<1>6. o \in [Seats -> Int] /\ \A k \in Seats : o[k] >= 5
  BY <1>1, <1>4, <1>5, SeatsAre
<1> QED
  BY <1>6 DEF o

\* A whole of which every seat has its minimum is reported as it is.
LEMMA ReportedAsItIs ==
    ASSUME NEW w \in [Seats -> Int], \A i \in Seats : w[i] >= 5, Total(w) = 100
    PROVE  Reported(w) = w
<1>1. w[1] \in Int /\ w[2] \in Int /\ w[3] \in Int /\ w[4] \in Int
  BY SeatsAre
<1>2. w[1] >= 5 /\ w[2] >= 5 /\ w[3] >= 5 /\ w[4] >= 5 /\ w[4] = 100 - w[1] - w[2] - w[3]
  BY <1>1, SeatsAre DEF Total
<1>3. ASSUME NEW i \in Seats PROVE Greatest(1, w[i]) = w[i]
  BY DEF Greatest
<1>4. ASSUME NEW i \in Seats PROVE Greatest(5, Rounded(100 * w[i], 100)) = w[i]
  <2>1. Rounded(100 * w[i], 100) = w[i]
    <3> DEFINE k == w[i]
    <3>1. k \in Int
      OBVIOUS
    <3> HIDE DEF k
    <3>2. (100 * k) \div 100 = k /\ (100 * k) % 100 = 0
      BY <3>1
    <3>3. Rounded(100 * k, 100) = k
      BY <3>1, <3>2 DEF Rounded
    <3> QED
      BY <3>3 DEF k
  <2> QED
    BY <2>1 DEF Greatest
<1> DEFINE at(i) == Greatest(1, w[i])
           sum == at(1) + at(2) + at(3) + at(4)
           share(i) == Greatest(5, Rounded(100 * at(i), sum))
           rest == Greatest(5, 100 - share(1) - share(2) - share(3))
<1>5. Reported(w) = [i \in Seats |-> IF i < 4 THEN share(i) ELSE rest]
  BY DEF Reported, Normalized
<1>6. \A i \in Seats : at(i) = w[i]
  BY <1>3
<1> HIDE DEF at
<1>7. sum = 100
  BY <1>1, <1>2, <1>6, SeatsAre
<1> HIDE DEF sum
<1>8. \A i \in Seats : share(i) = w[i]
  BY <1>4, <1>6, <1>7
<1> HIDE DEF share
<1>9. rest = w[4]
  BY <1>1, <1>2, <1>8, SeatsAre DEF Greatest
<1> HIDE DEF rest
<1>10. Reported(w) = [i \in Seats |-> w[i]]
  BY <1>5, <1>8, <1>9, SeatsAre
<1> QED
  BY <1>10

\* The shares of a model: at least 5 each.
LEMMA ModelKeepsTheMinimum ==
    ASSUME NEW m \in [Seats -> 0..100], NEW b \in [Seats -> Int], NEW n \in [Seats -> Nat]
    PROVE  LET o == Floored(Reconciled(m, b), n)
           IN  o \in [Seats -> Int] /\ \A k \in Seats : o[k] >= 5
<1> DEFINE a == Reconciled(m, b)
           c == [k \in Seats |-> Least(a[k], Cap(GroundingSignal(n[k])))]
<1>1. a \in [Seats -> Int]
  <2>1. ASSUME NEW i \in Seats PROVE Rounded(65 * m[i] + 35 * b[i], 100) \in Int
    <3> DEFINE k == 65 * m[i] + 35 * b[i]
    <3>1. k \in Int
      OBVIOUS
    <3> HIDE DEF k
    <3>2. Rounded(k, 100) \in Int
      BY <3>1, RoundedNear
    <3> QED
      BY <3>2 DEF k
  <2> QED
    BY <2>1 DEF Reconciled
<1> HIDE DEF a
<1>2. c \in [Seats -> Int]
  <2>1. ASSUME NEW k \in Seats PROVE Least(a[k], Cap(GroundingSignal(n[k]))) \in Int
    <3>1. Cap(GroundingSignal(n[k])) \in {18, 28, 100}
      BY CapIs
    <3> QED
      BY <1>1, <3>1 DEF Least
  <2> QED
    BY <2>1
<1>3. Floored(a, n) = Normalized(c)
  BY DEF Floored
<1> HIDE DEF c
<1>4. Normalized(c) \in [Seats -> Int] /\ \A k \in Seats : Normalized(c)[k] >= 5
  BY <1>2, MinimumIsKept
<1>5. Floored(a, n) \in [Seats -> Int] /\ \A k \in Seats : Floored(a, n)[k] >= 5
  BY <1>3, <1>4
<1> QED
  BY <1>5 DEF a

(***************************************************************************)
(* The shares stay fair.                                                   *)
(***************************************************************************)
\* What a prior, the citations and the shares are, whatever has happened.
InfluenceInv ==
    /\ prior \in [Seats -> 0..100]
    /\ cited \in [Seats -> Nat]
    /\ shares \in [Seats -> Int]
    /\ SharesAreFair

\* A prior stays a score.
LEMMA BlendedIs ==
    ASSUME NEW p \in 0..100, NEW a \in 0..100, NEW x \in Int
    PROVE  Blended(p, a, x) \in 0..100
<1> DEFINE n == 62 * a + 38 * Least(100, 4 * x)
           y == Rounded(n, 100)
           k == 65 * p + 35 * y
           z == Rounded(k, 100)
<1>1. Blended(p, a, x) = Clamp(z)
  BY DEF Blended
<1>2. n \in Int
  BY DEF Least
<1> HIDE DEF n
<1>3. y \in Int
  BY <1>2, RoundedNear
<1> HIDE DEF y
<1>4. k \in Int
  BY <1>3
<1> HIDE DEF k
<1>5. z \in Int
  BY <1>4, RoundedNear
<1> HIDE DEF z
<1> QED
  BY <1>1, <1>5 DEF Clamp, Least, Greatest

\* At first every seat has a quarter.
LEMMA InfluenceStarts == InfluenceInit => InfluenceInv
<1> SUFFICES ASSUME InfluenceInit PROVE InfluenceInv
  OBVIOUS
<1>1. prior \in [Seats -> 0..100]
  BY BoundsAssumption DEF InfluenceInit
<1>2. cited \in [Seats -> Nat] /\ shares \in [Seats -> Int] /\ \A i \in Seats : shares[i] = 25
  BY DEF InfluenceInit
<1>3. Total(shares) = 100
  BY <1>2, SeatsAre DEF Total
<1> QED
  BY <1>1, <1>2, <1>3 DEF InfluenceInv, SharesAreFair, InfluenceInit

\* Each step keeps it.
LEMMA InfluenceStep == InfluenceInv /\ [InfluenceNext]_influenceVars => InfluenceInv'
<1> SUFFICES ASSUME InfluenceInv, [InfluenceNext]_influenceVars PROVE InfluenceInv'
  OBVIOUS
<1> USE DEF InfluenceInv
<1>1. CASE WeighByBaseline
  <2>1. PICK type \in DecisionTypes, n \in [Seats -> Citations], x \in Tables :
            cited' = n /\ shares' = Reported(Floored(Baseline(type, prior, n, x.made, x.met), n))
    BY <1>1 DEF WeighByBaseline
  <2>2. n \in [Seats -> Nat]
    BY BoundsAssumption
  <2> DEFINE b == Baseline(type, prior, n, x.made, x.met)
             o == Floored(b, n)
  <2>3. Fair(b, o, n)
    BY <2>2, BaselineIsFair
  <2>4. shares' = o /\ cited' = n
    <3>1. shares' = Reported(o) /\ cited' = n
      BY <2>1
    <3> HIDE DEF o
    <3>2. Reported(o) = o
      BY <2>3, ReportedAsItIs DEF Fair
    <3> QED
      BY <3>1, <3>2
  <2> HIDE DEF o
  <2>5. prior' = prior
    BY <1>1 DEF WeighByBaseline
  <2>6. ~WeakLeads'
    BY <2>3, <2>4 DEF Fair, WeakLeads, UngroundedLeads
  <2> QED
    BY <2>2, <2>3, <2>4, <2>5, <2>6 DEF Fair, SharesAreFair
<1>2. CASE WeighByModel
  <2> DEFINE x == [made |-> <<0, 0, 0, 0>>, met |-> <<0, 0, 0, 0>>]
             e == <<0, 0, 0, 0>>
  <2>1. PICK type \in DecisionTypes, n \in [Seats -> Citations], m \in ModelWeights :
            cited' = n /\ shares' = Reported(Floored(Reconciled(m, Baseline(type, prior, n, e, e)), n))
    BY <1>2 DEF WeighByModel
  <2>2. n \in [Seats -> Nat] /\ m \in [Seats -> 0..100]
    BY BoundsAssumption
  <2>3. x \in Tables /\ x.made = e /\ x.met = e
    BY DEF Tables
  <2> HIDE DEF x, e
  <2> DEFINE b == Baseline(type, prior, n, e, e)
             o == Floored(Reconciled(m, b), n)
  <2>4. b \in [Seats -> Int]
    <3> DEFINE c == Baseline(type, prior, n, x.made, x.met)
               d == Floored(c, n)
    <3>1. Fair(c, d, n)
      BY <2>2, <2>3, BaselineIsFair
    <3>2. c = b
      BY <2>3
    <3> HIDE DEF b, c, d
    <3> QED
      BY <3>1, <3>2 DEF Fair
  <2> HIDE DEF b
  <2>5. o \in [Seats -> Int] /\ \A k \in Seats : o[k] >= 5
    BY <2>2, <2>4, ModelKeepsTheMinimum
  <2>6. shares' = Reported(o) /\ cited' = n
    BY <2>1 DEF b
  <2> HIDE DEF o
  <2>8. Reported(o) \in [Seats -> Int] /\ \A k \in Seats : Reported(o)[k] >= 5
    BY <2>5, MinimumIsKept DEF Reported
  <2>7. prior' = prior /\ path' = "model"
    BY <1>2 DEF WeighByModel
  <2> QED
    BY <2>2, <2>6, <2>7, <2>8 DEF SharesAreFair
<1>3. CASE Audit
  <2>1. PICK score \in [Seats -> Audits] : prior' = [i \in Seats |-> Blended(prior[i], score[i], shares[i])]
    BY <1>3 DEF Audit
  <2>2. prior' \in [Seats -> 0..100]
    <3>1. ASSUME NEW i \in Seats PROVE Blended(prior[i], score[i], shares[i]) \in 0..100
      <4>1. prior[i] \in 0..100 /\ score[i] \in 0..100 /\ shares[i] \in Int
        BY BoundsAssumption
      <4> QED
        BY <4>1, BlendedIs
    <3> QED
      BY <2>1, <3>1
  <2>3. cited' = cited /\ path' = path /\ shares' = shares /\ stage' = "open"
    BY <1>3 DEF Audit
  <2>4. Total(shares)' = Total(shares)
    BY <2>3 DEF Total
  <2> QED
    BY <2>2, <2>3, <2>4 DEF SharesAreFair
<1>4. CASE UNCHANGED influenceVars
  <2>1. /\ prior' = prior /\ cited' = cited /\ path' = path /\ shares' = shares /\ stage' = stage
    BY <1>4 DEF influenceVars
  <2> QED
    BY <2>1 DEF SharesAreFair, WeakLeads, Total
<1> QED
  BY <1>1, <1>2, <1>3, <1>4 DEF InfluenceNext

\* The influence of the analysts sums to a hundred on the baseline's path, each
\* holds at least 5, and an analyst who cited nothing does not lead one who cited
\* two metrics or more: after any number of debates, for any priors, citations,
\* audits and weights of a model.
THEOREM SharesAreAlwaysFair == InfluenceSpec => []SharesAreFair
<1>1. InfluenceInv => SharesAreFair
  BY DEF InfluenceInv
<1> QED
  BY <1>1, InfluenceStarts, InfluenceStep, PTL DEF InfluenceSpec

(***************************************************************************)
(* Sums.  Sum(f) is a fold over the domain of f; that it may be taken apart *)
(* at any element is shown by a smallest set for which it may not.         *)
(***************************************************************************)
\* The element that a fold takes next.
AnyOf(s) == CHOOSE x \in s : TRUE

\* it adds up the values of f, over each set in S.
AddsUp(f, it, S) == it = [s \in SUBSET S |-> IF s = {} THEN 0 ELSE f[AnyOf(s)] + it[s \ {AnyOf(s)}]]

LEMMA SumIs == ASSUME NEW f PROVE Sum(f) = (CHOOSE it : AddsUp(f, it, DOMAIN f))[DOMAIN f]
  BY DEF Sum, FoldFunction, FoldFunctionOnSet, MapThenFoldSet, AddsUp, AnyOf

LEMMA AddsUpOnce ==
    ASSUME NEW f, NEW S, IsFiniteSet(S), NEW g, NEW h, AddsUp(f, g, S), AddsUp(f, h, S)
    PROVE  g = h
<1>1. /\ g = [s \in SUBSET S |-> IF s = {} THEN 0 ELSE f[AnyOf(s)] + g[s \ {AnyOf(s)}]]
      /\ h = [s \in SUBSET S |-> IF s = {} THEN 0 ELSE f[AnyOf(s)] + h[s \ {AnyOf(s)}]]
  BY DEF AddsUp
<1> DEFINE T == {s \in SUBSET S : g[s] # h[s]}
<1>2. SUFFICES ASSUME T # {} PROVE FALSE
  BY <1>1
<1>3. PICK U \in T : \A V \in T : V \subseteq U => V = U
  <2>1. T \subseteq SUBSET S
    OBVIOUS
  <2> HIDE DEF T
  <2> QED
    BY <2>1, <1>2, MinimalSubset
<1>4. U # {}
  BY <1>1, <1>3
<1>5. AnyOf(U) \in U
  BY <1>4 DEF AnyOf
<1>6. U \ {AnyOf(U)} \in SUBSET S /\ U \ {AnyOf(U)} # U
  BY <1>3, <1>5
<1>7. g[U \ {AnyOf(U)}] = h[U \ {AnyOf(U)}]
  BY <1>3, <1>6
<1> QED
  BY <1>1, <1>3, <1>4, <1>7

LEMMA AddsUpWithin ==
    ASSUME NEW f, NEW S, NEW g, AddsUp(f, g, S), NEW R \in SUBSET S
    PROVE  AddsUp(f, [s \in SUBSET R |-> g[s]], R)
<1> DEFINE h == [s \in SUBSET R |-> g[s]]
<1>1. g = [s \in SUBSET S |-> IF s = {} THEN 0 ELSE f[AnyOf(s)] + g[s \ {AnyOf(s)}]]
  BY DEF AddsUp
<1>2. \A s \in SUBSET R : h[s] = IF s = {} THEN 0 ELSE f[AnyOf(s)] + h[s \ {AnyOf(s)}]
  <2> TAKE s \in SUBSET R
  <2>1. s \in SUBSET S /\ s \ {AnyOf(s)} \in SUBSET R
    OBVIOUS
  <2>2. g[s] = IF s = {} THEN 0 ELSE f[AnyOf(s)] + g[s \ {AnyOf(s)}]
    BY <1>1, <2>1
  <2> QED
    BY <2>1, <2>2
<1>3. h = [s \in SUBSET R |-> h[s]]
  OBVIOUS
<1> HIDE DEF h
<1>4. h = [s \in SUBSET R |-> IF s = {} THEN 0 ELSE f[AnyOf(s)] + h[s \ {AnyOf(s)}]]
  BY <1>2, <1>3
<1>5. AddsUp(f, h, R)
  BY <1>4 DEF AddsUp
<1> QED
  BY <1>5 DEF h

LEMMA AddsUpExists ==
    ASSUME NEW f, NEW S, IsFiniteSet(S)
    PROVE  \E it : AddsUp(f, it, S)
<1> DEFINE T == {s \in SUBSET S : ~\E it : AddsUp(f, it, s)}
<1>1. SUFFICES ASSUME T # {} PROVE FALSE
  OBVIOUS
<1>2. PICK U \in T : \A V \in T : V \subseteq U => V = U
  <2>1. T \subseteq SUBSET S
    OBVIOUS
  <2> HIDE DEF T
  <2> QED
    BY <2>1, <1>1, MinimalSubset
<1> DEFINE of(V) == CHOOSE it : AddsUp(f, it, V)
<1>3. ASSUME NEW V \in SUBSET U, V # U
      PROVE  AddsUp(f, of(V), V)
  <2>1. V \in SUBSET S /\ V \notin T
    BY <1>2, <1>3
  <2>2. \E it : AddsUp(f, it, V)
    BY <2>1
  <2> QED
    BY <2>2
<1> HIDE DEF of
<1> DEFINE value(s) == IF s = {} THEN 0 ELSE f[AnyOf(s)] + of(s \ {AnyOf(s)})[s \ {AnyOf(s)}]
           g == [s \in SUBSET U |-> value(s)]
<1>4. ASSUME NEW V \in SUBSET U, V # U
      PROVE  of(V)[V] = value(V)
  <2>1. of(V) = [s \in SUBSET V |-> IF s = {} THEN 0 ELSE f[AnyOf(s)] + of(V)[s \ {AnyOf(s)}]]
    BY <1>3, <1>4 DEF AddsUp
  <2>2. of(V)[V] = IF V = {} THEN 0 ELSE f[AnyOf(V)] + of(V)[V \ {AnyOf(V)}]
    BY <2>1
  <2>3. CASE V = {}
    BY <2>2, <2>3
  <2>4. CASE V # {}
    <3> DEFINE W == V \ {AnyOf(V)}
    <3>1. W \in SUBSET V /\ W \in SUBSET U /\ W # U
      BY <1>4, <2>4 DEF AnyOf
    <3>2. AddsUp(f, of(W), W)
      BY <3>1, <1>3
    <3>3. AddsUp(f, [s \in SUBSET W |-> of(V)[s]], W)
      <4> HIDE DEF W
      <4> QED
        BY <1>3, <1>4, <3>1, AddsUpWithin
    <3>4. IsFiniteSet(W)
      <4>1. U \in SUBSET S
        BY <1>2
      <4> QED
        BY <3>1, <4>1, FS_Subset
    <3>5. of(W) = [s \in SUBSET W |-> of(V)[s]]
      <4> HIDE DEF W
      <4> QED
        BY <3>2, <3>3, <3>4, AddsUpOnce
    <3>6. of(W)[W] = of(V)[W]
      BY <3>5
    <3> QED
      BY <2>2, <2>4, <3>6
  <2> QED
    BY <2>3, <2>4
<1>5. \A s \in SUBSET U : g[s] = IF s = {} THEN 0 ELSE f[AnyOf(s)] + g[s \ {AnyOf(s)}]
  <2> TAKE s \in SUBSET U
  <2>1. CASE s = {}
    BY <2>1
  <2>2. CASE s # {}
    <3> DEFINE V == s \ {AnyOf(s)}
    <3>1. V \in SUBSET U /\ V # U
      BY <2>2 DEF AnyOf
    <3>2. of(V)[V] = g[V]
      <4> HIDE DEF value, V
      <4> QED
        BY <3>1, <1>4
    <3> QED
      BY <2>2, <3>2
  <2> QED
    BY <2>1, <2>2
<1>6. g = [s \in SUBSET U |-> g[s]]
  OBVIOUS
<1> HIDE DEF g
<1>7. g = [s \in SUBSET U |-> IF s = {} THEN 0 ELSE f[AnyOf(s)] + g[s \ {AnyOf(s)}]]
  BY <1>5, <1>6
<1>8. AddsUp(f, g, U)
  BY <1>7 DEF AddsUp
<1> QED
  BY <1>2, <1>8

\* A sum over a part of the domain.
Part(f, S) == Sum([k \in S |-> f[k]])

LEMMA PartUnfolds ==
    ASSUME NEW f, NEW S, IsFiniteSet(S)
    PROVE  \E it : AddsUp(f, it, S) /\ \A R \in SUBSET S : Part(f, R) = it[R]
<1>1. PICK it : AddsUp(f, it, S)
  BY AddsUpExists
<1>2. ASSUME NEW R \in SUBSET S PROVE Part(f, R) = it[R]
  <2> DEFINE g == [k \in R |-> f[k]]
             h == CHOOSE e : AddsUp(g, e, R)
  <2>1. IsFiniteSet(R)
    BY FS_Subset
  <2>2. DOMAIN g = R /\ \A k \in R : g[k] = f[k]
    OBVIOUS
  <2> HIDE DEF g
  <2>3. Sum(g) = h[R]
    BY <2>2, SumIs
  <2>4. AddsUp(g, h, R)
    BY <2>1, AddsUpExists
  <2> HIDE DEF h
  <2>5. AddsUp(f, h, R)
    <3>1. h = [s \in SUBSET R |-> IF s = {} THEN 0 ELSE g[AnyOf(s)] + h[s \ {AnyOf(s)}]]
      BY <2>4 DEF AddsUp
    <3>2. \A s \in SUBSET R : s # {} => g[AnyOf(s)] = f[AnyOf(s)]
      BY <2>2 DEF AnyOf
    <3>3. h = [s \in SUBSET R |-> IF s = {} THEN 0 ELSE f[AnyOf(s)] + h[s \ {AnyOf(s)}]]
      BY <3>1, <3>2
    <3> QED
      BY <3>3 DEF AddsUp
  <2>6. h = [s \in SUBSET R |-> it[s]]
    <3>1. AddsUp(f, [s \in SUBSET R |-> it[s]], R)
      BY <1>1, AddsUpWithin
    <3> QED
      BY <2>1, <2>5, <3>1, AddsUpOnce
  <2>7. h[R] = it[R]
    BY <2>6
  <2> QED
    BY <2>3, <2>7 DEF Part, g
<1> QED
  BY <1>1, <1>2

\* An element at a time: the one that the fold takes.
LEMMA PartTakes ==
    ASSUME NEW f, NEW S, IsFiniteSet(S)
    PROVE  Part(f, S) = IF S = {} THEN 0 ELSE f[AnyOf(S)] + Part(f, S \ {AnyOf(S)})
<1>1. PICK it : AddsUp(f, it, S) /\ \A R \in SUBSET S : Part(f, R) = it[R]
  BY PartUnfolds
<1>2. it[S] = IF S = {} THEN 0 ELSE f[AnyOf(S)] + it[S \ {AnyOf(S)}]
  BY <1>1 DEF AddsUp
<1>3. S \in SUBSET S /\ S \ {AnyOf(S)} \in SUBSET S
  OBVIOUS
<1> QED
  BY <1>1, <1>2, <1>3

\* Whole numbers have a whole sum.
LEMMA PartType ==
    ASSUME NEW f, NEW S, IsFiniteSet(S), \A k \in S : f[k] \in Int
    PROVE  Part(f, S) \in Int
<1> DEFINE T == {s \in SUBSET S : Part(f, s) \notin Int}
<1>1. SUFFICES ASSUME T # {} PROVE FALSE
  OBVIOUS
<1>2. PICK U \in T : \A V \in T : V \subseteq U => V = U
  <2>1. T \subseteq SUBSET S
    OBVIOUS
  <2> HIDE DEF T
  <2> QED
    BY <2>1, <1>1, MinimalSubset
<1>3. U \in SUBSET S /\ Part(f, U) \notin Int
  BY <1>2
<1>4. IsFiniteSet(U)
  BY <1>3, FS_Subset
<1>5. Part(f, U) = IF U = {} THEN 0 ELSE f[AnyOf(U)] + Part(f, U \ {AnyOf(U)})
  BY <1>4, PartTakes
<1>6. U # {} /\ AnyOf(U) \in U
  BY <1>3, <1>5 DEF AnyOf
<1>7. U \ {AnyOf(U)} \notin T /\ U \ {AnyOf(U)} \in SUBSET S
  BY <1>2, <1>3, <1>6
<1>8. Part(f, U \ {AnyOf(U)}) \in Int
  BY <1>7
<1> QED
  BY <1>3, <1>5, <1>6, <1>8

\* Any element can be taken first.
LEMMA PartWithout ==
    ASSUME NEW f, NEW S, IsFiniteSet(S), \A k \in S : f[k] \in Int, NEW x \in S
    PROVE  Part(f, S) = f[x] + Part(f, S \ {x})
<1> DEFINE T == {s \in SUBSET S : \E y \in s : Part(f, s) # f[y] + Part(f, s \ {y})}
<1>1. SUFFICES ASSUME T # {} PROVE FALSE
  OBVIOUS
<1>2. PICK U \in T : \A V \in T : V \subseteq U => V = U
  <2>1. T \subseteq SUBSET S
    OBVIOUS
  <2> HIDE DEF T
  <2> QED
    BY <2>1, <1>1, MinimalSubset
<1>3. PICK y \in U : Part(f, U) # f[y] + Part(f, U \ {y})
  BY <1>2
<1> DEFINE z == AnyOf(U)
<1>4. U \in SUBSET S /\ IsFiniteSet(U) /\ z \in U
  BY <1>2, <1>3, FS_Subset DEF AnyOf
<1>5. Part(f, U) = f[z] + Part(f, U \ {z})
  BY <1>3, <1>4, PartTakes
<1> HIDE DEF z
<1>6. y # z
  BY <1>3, <1>5
<1>7. \A V \in SUBSET U : V # U => \A k \in V : Part(f, V) = f[k] + Part(f, V \ {k})
  BY <1>2, <1>4
<1>8. Part(f, U \ {z}) = f[y] + Part(f, (U \ {z}) \ {y})
  <2>1. U \ {z} \in SUBSET U /\ U \ {z} # U /\ y \in U \ {z}
    BY <1>4, <1>6
  <2> QED
    BY <1>7, <2>1
<1>9. Part(f, U \ {y}) = f[z] + Part(f, (U \ {y}) \ {z})
  <2>1. U \ {y} \in SUBSET U /\ U \ {y} # U /\ z \in U \ {y}
    BY <1>4, <1>6
  <2> QED
    BY <1>7, <2>1
<1>10. (U \ {z}) \ {y} = (U \ {y}) \ {z}
  OBVIOUS
<1>11. /\ f[y] \in Int /\ f[z] \in Int /\ Part(f, (U \ {y}) \ {z}) \in Int
  <2>1. IsFiniteSet((U \ {y}) \ {z})
    BY <1>4, FS_Subset
  <2> QED
    BY <1>4, <2>1, PartType
<1>12. /\ Part(f, U) = f[z] + (f[y] + Part(f, (U \ {y}) \ {z}))
       /\ Part(f, U \ {y}) = f[z] + Part(f, (U \ {y}) \ {z})
  BY <1>5, <1>8, <1>9, <1>10
<1> DEFINE rest == Part(f, (U \ {y}) \ {z})
<1>13. rest \in Int /\ Part(f, U) = f[z] + (f[y] + rest) /\ Part(f, U \ {y}) = f[z] + rest
  BY <1>11, <1>12
<1> HIDE DEF rest
<1>14. f[z] + (f[y] + rest) = f[y] + (f[z] + rest)
  BY <1>11, <1>13
<1> QED
  BY <1>3, <1>13, <1>14

\* h is taken apart as a sum is.
TakenApart(h, f, S) ==
    /\ h[{}] = 0
    /\ \A T \in SUBSET S : T # {} => h[T] = f[AnyOf(T)] + h[T \ {AnyOf(T)}]

LEMMA PartIsLike ==
    ASSUME NEW f, NEW S, IsFiniteSet(S), NEW h, TakenApart(h, f, S)
    PROVE  Part(f, S) = h[S]
<1> DEFINE T == {s \in SUBSET S : Part(f, s) # h[s]}
<1>1. SUFFICES ASSUME T # {} PROVE FALSE
  OBVIOUS
<1>2. PICK U \in T : \A V \in T : V \subseteq U => V = U
  <2>1. T \subseteq SUBSET S
    OBVIOUS
  <2> HIDE DEF T
  <2> QED
    BY <2>1, <1>1, MinimalSubset
<1>3. U \in SUBSET S /\ Part(f, U) # h[U] /\ IsFiniteSet(U)
  BY <1>2, FS_Subset
<1>4. Part(f, U) = IF U = {} THEN 0 ELSE f[AnyOf(U)] + Part(f, U \ {AnyOf(U)})
  BY <1>3, PartTakes
<1>5. U # {} /\ AnyOf(U) \in U
  BY <1>3, <1>4 DEF AnyOf, TakenApart
<1>6. U \ {AnyOf(U)} \in SUBSET S /\ U \ {AnyOf(U)} # U
  BY <1>3, <1>5
<1>7. Part(f, U \ {AnyOf(U)}) = h[U \ {AnyOf(U)}]
  BY <1>2, <1>6
<1> QED
  BY <1>3, <1>4, <1>5, <1>7 DEF TakenApart

LEMMA PartSame ==
    ASSUME NEW f, NEW g, NEW S, \A k \in S : f[k] = g[k]
    PROVE  Part(f, S) = Part(g, S)
<1>1. [k \in S |-> f[k]] = [k \in S |-> g[k]]
  OBVIOUS
<1> QED
  BY <1>1 DEF Part

LEMMA PartOfNone == ASSUME NEW f PROVE Part(f, {}) = 0
<1>1. IsFiniteSet({})
  BY FS_EmptySet
<1> QED
  BY <1>1, PartTakes

\* The sum of sums.
LEMMA PartPlus ==
    ASSUME NEW S, IsFiniteSet(S), NEW e, NEW f, NEW g,
           \A k \in S : f[k] \in Int /\ g[k] \in Int /\ e[k] = f[k] + g[k]
    PROVE  Part(e, S) = Part(f, S) + Part(g, S)
<1> DEFINE h == [T \in SUBSET S |-> Part(f, T) + Part(g, T)]
<1>1. h[{}] = 0
  <2>1. h[{}] = Part(f, {}) + Part(g, {})
    OBVIOUS
  <2> QED
    BY <2>1, PartOfNone
<1>2. ASSUME NEW T \in SUBSET S, T # {} PROVE h[T] = e[AnyOf(T)] + h[T \ {AnyOf(T)}]
  <2> DEFINE x == AnyOf(T)
             R == T \ {x}
  <2>1. x \in T /\ R \in SUBSET S
    BY <1>2 DEF AnyOf
  <2>2. IsFiniteSet(T) /\ IsFiniteSet(R)
    BY <2>1, FS_Subset
  <2>3. h[T] = Part(f, T) + Part(g, T) /\ h[R] = Part(f, R) + Part(g, R)
    BY <2>1
  <2>4. Part(f, T) = f[x] + Part(f, R) /\ Part(g, T) = g[x] + Part(g, R)
    BY <1>2, <2>2, PartTakes
  <2> HIDE DEF x, h
  <2>5. Part(f, R) \in Int /\ Part(g, R) \in Int
    BY <2>1, <2>2, PartType
  <2>6. f[x] \in Int /\ g[x] \in Int /\ e[x] = f[x] + g[x]
    BY <2>1
  <2> HIDE DEF R
  <2>7. h[T] = e[x] + h[R]
    BY <2>3, <2>4, <2>5, <2>6
  <2> QED
    BY <2>7 DEF x, R
<1>3. h[S] = Part(f, S) + Part(g, S)
  OBVIOUS
<1> HIDE DEF h
<1>4. TakenApart(h, e, S)
  BY <1>1, <1>2 DEF TakenApart
<1>5. Part(e, S) = h[S]
  BY <1>4, PartIsLike
<1> QED
  BY <1>3, <1>5

\* What is zero does not count.
LEMMA PartCounts ==
    ASSUME NEW S, IsFiniteSet(S), NEW f, \A k \in S : f[k] \in Int,
           NEW A \in SUBSET S, \A k \in S \ A : f[k] = 0
    PROVE  Part(f, S) = Part(f, A)
<1> DEFINE h == [T \in SUBSET S |-> Part(f, T \cap A)]
<1>1. h[{}] = 0
  <2>1. h[{}] = Part(f, {} \cap A) /\ {} \cap A = {}
    OBVIOUS
  <2> QED
    BY <2>1, PartOfNone
<1>2. ASSUME NEW T \in SUBSET S, T # {} PROVE h[T] = f[AnyOf(T)] + h[T \ {AnyOf(T)}]
  <2> DEFINE x == AnyOf(T)
             R == T \ {x}
  <2>1. x \in T /\ R \in SUBSET S /\ x \in S
    BY <1>2 DEF AnyOf
  <2>2. IsFiniteSet(T \cap A) /\ IsFiniteSet(R \cap A)
    BY <2>1, FS_Subset
  <2>3. h[T] = Part(f, T \cap A) /\ h[R] = Part(f, R \cap A)
    BY <2>1
  <2> HIDE DEF x, h
  <2>4. CASE x \in A
    <3>1. x \in T \cap A /\ (T \cap A) \ {x} = R \cap A
      BY <2>1, <2>4
    <3>2. Part(f, T \cap A) = f[x] + Part(f, (T \cap A) \ {x})
      BY <2>2, <3>1, PartWithout
    <3>3. h[T] = f[x] + h[R]
      BY <2>3, <3>1, <3>2
    <3> QED
      BY <3>3 DEF x
  <2>5. CASE x \notin A
    <3>1. T \cap A = R \cap A
      BY <2>5
    <3>2. f[x] = 0
      BY <2>1, <2>5
    <3>3. Part(f, R \cap A) \in Int
      BY <2>2, PartType
    <3>4. h[R] \in Int /\ h[T] = h[R]
      BY <2>3, <3>1, <3>3
    <3>5. h[T] = f[x] + h[R]
      BY <3>2, <3>4
    <3> QED
      BY <3>5 DEF x
  <2> QED
    BY <2>4, <2>5
<1>3. h[S] = Part(f, A)
  <2>1. S \cap A = A /\ S \in SUBSET S /\ h[S] = Part(f, S \cap A)
    OBVIOUS
  <2> QED
    BY <2>1
<1> HIDE DEF h
<1>4. TakenApart(h, f, S)
  BY <1>1, <1>2 DEF TakenApart
<1>5. Part(f, S) = h[S]
  BY <1>4, PartIsLike
<1> QED
  BY <1>3, <1>5

LEMMA PartIsNatural ==
    ASSUME NEW f, NEW S, IsFiniteSet(S), \A k \in S : f[k] \in Int /\ f[k] >= 0
    PROVE  Part(f, S) \in Int /\ Part(f, S) >= 0
<1>1. ASSUME NEW R \in SUBSET S PROVE Part(f, R) \in Int
  <2>1. IsFiniteSet(R)
    BY FS_Subset
  <2> QED
    BY <2>1, PartType
<1> DEFINE T == {s \in SUBSET S : ~(Part(f, s) >= 0)}
<1>2. SUFFICES ASSUME T # {} PROVE FALSE
  BY <1>1
<1>3. PICK U \in T : \A V \in T : V \subseteq U => V = U
  <2>1. T \subseteq SUBSET S
    OBVIOUS
  <2> HIDE DEF T
  <2> QED
    BY <2>1, <1>2, MinimalSubset
<1>4. U \in SUBSET S /\ ~(Part(f, U) >= 0) /\ IsFiniteSet(U)
  BY <1>3, FS_Subset
<1>5. Part(f, U) = IF U = {} THEN 0 ELSE f[AnyOf(U)] + Part(f, U \ {AnyOf(U)})
  BY <1>4, PartTakes
<1>6. U # {} /\ AnyOf(U) \in U
  BY <1>4, <1>5 DEF AnyOf
<1>7. U \ {AnyOf(U)} \in SUBSET S /\ U \ {AnyOf(U)} # U
  BY <1>4, <1>6
<1>8. Part(f, U \ {AnyOf(U)}) >= 0 /\ Part(f, U \ {AnyOf(U)}) \in Int
  BY <1>1, <1>3, <1>7
<1>9. f[AnyOf(U)] \in Int /\ f[AnyOf(U)] >= 0
  BY <1>4, <1>6
<1> DEFINE a == f[AnyOf(U)]
           b == Part(f, U \ {AnyOf(U)})
<1>10. Part(f, U) = a + b /\ a \in Int /\ b \in Int /\ a >= 0 /\ b >= 0
  BY <1>5, <1>6, <1>8, <1>9
<1> HIDE DEF a, b
<1> QED
  BY <1>4, <1>10

\* Two parts that have nothing in common.
LEMMA PartOfTwo ==
    ASSUME NEW f, NEW A, NEW B, IsFiniteSet(A), IsFiniteSet(B), A \cap B = {},
           \A k \in A \cup B : f[k] \in Int
    PROVE  Part(f, A \cup B) = Part(f, A) + Part(f, B)
<1> DEFINE S == A \cup B
           a == [k \in S |-> IF k \in A THEN f[k] ELSE 0]
           b == [k \in S |-> IF k \in A THEN 0 ELSE f[k]]
<1>1. IsFiniteSet(S)
  BY FS_Union
<1>2. \A k \in S : a[k] \in Int /\ b[k] \in Int /\ f[k] = a[k] + b[k]
  OBVIOUS
<1>3. /\ \A k \in A : a[k] = f[k]
      /\ \A k \in B : b[k] = f[k]
      /\ \A k \in S \ A : a[k] = 0
      /\ \A k \in S \ B : b[k] = 0
  OBVIOUS
<1>4. A \in SUBSET S /\ B \in SUBSET S
  OBVIOUS
<1> HIDE DEF S, a, b
<1>5. Part(f, S) = Part(a, S) + Part(b, S)
  BY <1>1, <1>2, PartPlus
<1>6. Part(a, S) = Part(a, A) /\ Part(b, S) = Part(b, B)
  BY <1>1, <1>2, <1>3, <1>4, PartCounts
<1>7. Part(a, A) = Part(f, A) /\ Part(b, B) = Part(f, B)
  BY <1>3, PartSame
<1> QED
  BY <1>5, <1>6, <1>7 DEF S

(***************************************************************************)
(* What a step of a plan does in a month.                                  *)
(***************************************************************************)
Kinds == {"hire", "spend", "revenue_unlock", "vendor_savings", "cut", "financing", "policy"}

\* A step that a playbook may have.
StepOK(s) ==
    /\ s.kind \in Kinds
    /\ s.start \in Nat \ {0} /\ s.cost \in Nat /\ s.oneTime \in Nat /\ s.revenue \in Nat
    /\ s.finance \in Nat /\ s.roles \in Nat /\ s.ramp \in {1, 2} /\ s.rise \in {3, 4}
    /\ s.kind # "financing" => s.finance = 0
    /\ s.kind \notin {"spend", "revenue_unlock"} => s.oneTime = 0

LEMMA FlowIs ==
    ASSUME NEW s, StepOK(s), NEW i \in Nat
    PROVE  /\ FlowOf(s, i) \in Int
           /\ s.revenue = 0 \/ s.kind \notin {"hire", "spend", "revenue_unlock"} => FlowOf(s, i) = 0
<1> DEFINE u == Unlocked(s)
           r == s.rise
           b == s.start
<1>1. u \in Nat /\ (s.revenue = 0 \/ s.kind \notin {"hire", "spend", "revenue_unlock"} => u = 0)
  BY DEF StepOK, Unlocked
<1>2. r \in {3, 4} /\ b \in Nat
  BY DEF StepOK
<1>3. FlowOf(s, i) = RampFlow(u, i, b, r)
  BY DEF FlowOf
<1> HIDE DEF u, r, b
<1>4. Greatest(r, 1) = r
  BY <1>2 DEF Greatest
<1>5. u \div r \in Int /\ (u = 0 => u \div r = 0)
  BY <1>1, <1>2
<1>6. RampFlow(u, i, b, r) \in Int /\ (u = 0 => RampFlow(u, i, b, r) = 0)
  BY <1>1, <1>2, <1>4, <1>5 DEF RampFlow
<1> QED
  BY <1>1, <1>3, <1>6

LEMMA CostOfIs ==
    ASSUME NEW s, StepOK(s), NEW i \in Nat
    PROVE  /\ CostOf(s, i) \in Int
           /\ s.kind \in {"hire", "spend", "revenue_unlock"} => CostOf(s, i) >= 0
           /\ s.kind \in {"vendor_savings", "cut"} => CostOf(s, i) <= 0
           /\ s.kind = "financing" => CostOf(s, i) = 0
<1> DEFINE d == OpexDelta(s)
           r == s.ramp
           b == s.start
<1>1. /\ d \in Int
      /\ s.kind \in {"hire", "spend", "revenue_unlock"} => d >= 0
      /\ s.kind \in {"vendor_savings", "cut"} => d <= 0
      /\ s.kind = "financing" => d = 0
  BY DEF StepOK, OpexDelta
<1>2. r \in {1, 2} /\ b \in Nat
  BY DEF StepOK
<1>3. CostOf(s, i) = RampFraction(d, i, b, r)
  BY DEF CostOf
<1> HIDE DEF d, r, b
<1> DEFINE x == RampFraction(d, i, b, r)
<1>4. x \in Int /\ (d >= 0 => x >= 0) /\ (d <= 0 => x <= 0)
  <2>1. CASE i < b
    BY <2>1 DEF RampFraction
  <2>2. CASE ~(i < b) /\ r = 1
    BY <1>1, <1>2, <2>2 DEF RampFraction
  <2>3. CASE ~(i < b) /\ r = 2
    <3>1. i - b + 1 \in Nat /\ i - b + 1 >= 1
      BY <1>2, <2>3
    <3>2. Least(r, i - b + 1) \in {1, 2}
      BY <2>3, <3>1 DEF Least
    <3>3. x = (d * Least(r, i - b + 1)) \div 2
      BY <2>3 DEF RampFraction
    <3>4. x = (d * 1) \div 2 \/ x = (d * 2) \div 2
      BY <3>2, <3>3
    <3> HIDE DEF x
    <3> QED
      BY <1>1, <3>4
  <2> QED
    BY <1>2, <2>1, <2>2, <2>3
<1> HIDE DEF x
<1>5. x = CostOf(s, i)
  BY <1>3 DEF x
<1> QED
  BY <1>1, <1>4, <1>5

LEMMA OnceIs ==
    ASSUME NEW s, StepOK(s), NEW i
    PROVE  OnceOf(s, i) = IF s.start = i THEN s.oneTime ELSE 0
  BY DEF StepOK, OnceOf, OneTimeCost

LEMMA InflowIs ==
    ASSUME NEW s, StepOK(s), NEW i
    PROVE  Inflow(s, i) = IF s.start = i THEN s.finance ELSE 0
  BY DEF StepOK, Inflow

(***************************************************************************)
(* The steps of the playbooks.                                             *)
(***************************************************************************)
\* A list of steps that a playbook may have.
StepsOK(steps) == IsFiniteSet(DOMAIN steps) /\ \A k \in DOMAIN steps : StepOK(steps[k])

LEMMA ListOf2 ==
    ASSUME NEW a, NEW b, StepOK(a), StepOK(b)
    PROVE  StepsOK(<<a, b>>)
<1> DEFINE list == <<a, b>>
<1>1. DOMAIN list = 1..2 /\ list[1] = a /\ list[2] = b
  OBVIOUS
<1> HIDE DEF list
<1>2. IsFiniteSet(DOMAIN list)
  <2>1. \A n \in Nat : IsFiniteSet(1..n)
    BY FS_Interval
  <2> QED
    BY <1>1, <2>1
<1>3. \A k \in DOMAIN list : StepOK(list[k])
  BY <1>1
<1>4. StepsOK(list)
  BY <1>2, <1>3 DEF StepsOK
<1> QED
  BY <1>4 DEF list

LEMMA ListOf3 ==
    ASSUME NEW a, NEW b, NEW c, StepOK(a), StepOK(b), StepOK(c)
    PROVE  StepsOK(<<a, b, c>>)
<1> DEFINE list == <<a, b, c>>
<1>1. DOMAIN list = 1..3 /\ list[1] = a /\ list[2] = b /\ list[3] = c
  OBVIOUS
<1> HIDE DEF list
<1>2. IsFiniteSet(DOMAIN list)
  <2>1. \A n \in Nat : IsFiniteSet(1..n)
    BY FS_Interval
  <2> QED
    BY <1>1, <2>1
<1>3. \A k \in DOMAIN list : StepOK(list[k])
  BY <1>1
<1>4. StepsOK(list)
  BY <1>2, <1>3 DEF StepsOK
<1> QED
  BY <1>4 DEF list

LEMMA ListOf4 ==
    ASSUME NEW a, NEW b, NEW c, NEW d, StepOK(a), StepOK(b), StepOK(c), StepOK(d)
    PROVE  StepsOK(<<a, b, c, d>>)
<1> DEFINE list == <<a, b, c, d>>
<1>1. DOMAIN list = 1..4 /\ list[1] = a /\ list[2] = b /\ list[3] = c /\ list[4] = d
  OBVIOUS
<1> HIDE DEF list
<1>2. IsFiniteSet(DOMAIN list)
  <2>1. \A n \in Nat : IsFiniteSet(1..n)
    BY FS_Interval
  <2> QED
    BY <1>1, <2>1
<1>3. \A k \in DOMAIN list : StepOK(list[k])
  BY <1>1
<1>4. StepsOK(list)
  BY <1>2, <1>3 DEF StepsOK
<1> QED
  BY <1>4 DEF list

LEMMA ListOf5 ==
    ASSUME NEW a, NEW b, NEW c, NEW d, NEW e, StepOK(a), StepOK(b), StepOK(c), StepOK(d), StepOK(e)
    PROVE  StepsOK(<<a, b, c, d, e>>)
<1> DEFINE list == <<a, b, c, d, e>>
<1>1. DOMAIN list = 1..5 /\ list[1] = a /\ list[2] = b /\ list[3] = c /\ list[4] = d /\ list[5] = e
  OBVIOUS
<1> HIDE DEF list
<1>2. IsFiniteSet(DOMAIN list)
  <2>1. \A n \in Nat : IsFiniteSet(1..n)
    BY FS_Interval
  <2> QED
    BY <1>1, <2>1
<1>3. \A k \in DOMAIN list : StepOK(list[k])
  BY <1>1
<1>4. StepsOK(list)
  BY <1>2, <1>3 DEF StepsOK
<1> QED
  BY <1>4 DEF list

LEMMA ListsAreOK ==
    /\ StepsOK(HiringPlan) /\ StepsOK(ExtendRunway) /\ StepsOK(UnblockEnterprise)
    /\ StepsOK(RenegotiateVendors) /\ StepsOK(HireAgainstRevenue) /\ StepsOK(FinancingBridge)
    /\ StepsOK(GrowthToEfficiency) /\ StepsOK(RecoverPipeline)
<1>1. StepsOK(HiringPlan)
  <2> DEFINE a == Hire(2, 95000, 5, TRUE)
             b == Hire(1, 42000, 3, FALSE)
             c == Hire(3, 38000, 2, FALSE)
  <2>1. StepOK(a)
    BY SMT DEF StepOK, Step, Kinds, Hire
  <2>2. StepOK(b)
    BY SMT DEF StepOK, Step, Kinds, Hire
  <2>3. StepOK(c)
    BY SMT DEF StepOK, Step, Kinds, Hire
  <2>4. HiringPlan = <<a, b, c>>
    BY SMT DEF HiringPlan
  <2> HIDE DEF a, b, c
  <2> QED
    BY <2>1, <2>2, <2>3, <2>4, ListOf3
<1>2. StepsOK(ExtendRunway)
  <2> DEFINE a == Step("vendor_savings", 2, 5500)
             b == Step("vendor_savings", 3, 1750)
             c == Step("cut", 1, 18000)
             d == Hire(1, 42000, 3, FALSE)
             e == Hire(4, 95000, 5, TRUE)
  <2>1. StepOK(a)
    BY SMT DEF StepOK, Step, Kinds
  <2>2. StepOK(b)
    BY SMT DEF StepOK, Step, Kinds
  <2>3. StepOK(c)
    BY SMT DEF StepOK, Step, Kinds
  <2>4. StepOK(d)
    BY SMT DEF StepOK, Step, Kinds, Hire
  <2>5. StepOK(e)
    BY SMT DEF StepOK, Step, Kinds, Hire
  <2>6. ExtendRunway = <<a, b, c, d, e>>
    BY SMT DEF ExtendRunway
  <2> HIDE DEF a, b, c, d, e
  <2> QED
    BY <2>1, <2>2, <2>3, <2>4, <2>5, <2>6, ListOf5
<1>3. StepsOK(UnblockEnterprise)
  <2> DEFINE a == [Step("spend", 1, 12000) EXCEPT !.oneTime = 120000]
             b == Hire(2, 95000, 5, TRUE)
             c == Earning(Step("revenue_unlock", 3, 0), 62000, 4)
  <2>1. StepOK(a)
    BY SMT DEF StepOK, Step, Kinds
  <2>2. StepOK(b)
    BY SMT DEF StepOK, Step, Kinds, Hire
  <2>3. StepOK(c)
    BY SMT DEF StepOK, Step, Kinds, Earning
  <2>4. UnblockEnterprise = <<a, b, c>>
    BY SMT DEF UnblockEnterprise
  <2> HIDE DEF a, b, c
  <2> QED
    BY <2>1, <2>2, <2>3, <2>4, ListOf3
<1>4. StepsOK(RenegotiateVendors)
  <2> DEFINE a == Step("vendor_savings", 2, 6000)
             b == Step("vendor_savings", 3, 1750)
             c == Step("vendor_savings", 2, 1400)
             d == Step("vendor_savings", 4, 2500)
  <2>1. StepOK(a)
    BY SMT DEF StepOK, Step, Kinds
  <2>2. StepOK(b)
    BY SMT DEF StepOK, Step, Kinds
  <2>3. StepOK(c)
    BY SMT DEF StepOK, Step, Kinds
  <2>4. StepOK(d)
    BY SMT DEF StepOK, Step, Kinds
  <2>5. RenegotiateVendors = <<a, b, c, d>>
    BY SMT DEF RenegotiateVendors
  <2> HIDE DEF a, b, c, d
  <2> QED
    BY <2>1, <2>2, <2>3, <2>4, <2>5, ListOf4
<1>5. StepsOK(HireAgainstRevenue)
  <2> DEFINE a == Earning(Hire(1, 42000, 3, FALSE), 25600, 3)
             b == Earning(Hire(3, 38000, 2, TRUE), 38400, 4)
  <2>1. StepOK(a)
    BY SMT DEF StepOK, Step, Kinds, Hire, Earning
  <2>2. StepOK(b)
    BY SMT DEF StepOK, Step, Kinds, Hire, Earning
  <2>3. HireAgainstRevenue = <<a, b>>
    BY SMT DEF HireAgainstRevenue
  <2> HIDE DEF a, b
  <2> QED
    BY <2>1, <2>2, <2>3, ListOf2
<1>6. StepsOK(FinancingBridge)
  <2> DEFINE a == Raise(4, 3000000)
             b == Hire(1, 42000, 3, FALSE)
             c == Hire(2, 95000, 5, TRUE)
  <2>1. StepOK(a)
    BY SMT DEF StepOK, Step, Kinds, Raise
  <2>2. StepOK(b)
    BY SMT DEF StepOK, Step, Kinds, Hire
  <2>3. StepOK(c)
    BY SMT DEF StepOK, Step, Kinds, Hire
  <2>4. FinancingBridge = <<a, b, c>>
    BY SMT DEF FinancingBridge
  <2> HIDE DEF a, b, c
  <2> QED
    BY <2>1, <2>2, <2>3, <2>4, ListOf3
<1>7. StepsOK(GrowthToEfficiency)
  <2> DEFINE a == Step("cut", 1, 60000)
             b == Step("cut", 3, 0)
             c == Step("policy", 2, 0)
             d == Hire(1, 28000, 2, FALSE)
  <2>1. StepOK(a)
    BY SMT DEF StepOK, Step, Kinds
  <2>2. StepOK(b)
    BY SMT DEF StepOK, Step, Kinds
  <2>3. StepOK(c)
    BY SMT DEF StepOK, Step, Kinds
  <2>4. StepOK(d)
    BY SMT DEF StepOK, Step, Kinds, Hire
  <2>5. GrowthToEfficiency = <<a, b, c, d>>
    BY SMT DEF GrowthToEfficiency
  <2> HIDE DEF a, b, c, d
  <2> QED
    BY <2>1, <2>2, <2>3, <2>4, <2>5, ListOf4
<1>8. StepsOK(RecoverPipeline)
  <2> DEFINE a == Step("policy", 1, 0)
             b == Earning(Hire(1, 28000, 2, FALSE), 9000, 3)
             c == Earning(Step("spend", 2, 6000), 14000, 4)
  <2>1. StepOK(a)
    BY SMT DEF StepOK, Step, Kinds
  <2>2. StepOK(b)
    BY SMT DEF StepOK, Step, Kinds, Hire, Earning
  <2>3. StepOK(c)
    BY SMT DEF StepOK, Step, Kinds, Earning
  <2>4. RecoverPipeline = <<a, b, c>>
    BY SMT DEF RecoverPipeline
  <2> HIDE DEF a, b, c
  <2> QED
    BY <2>1, <2>2, <2>3, <2>4, ListOf3
<1> QED
  BY <1>1, <1>2, <1>3, <1>4, <1>5, <1>6, <1>7, <1>8

(***************************************************************************)
(* What compounds, and the months of a projection: both are recursive      *)
(* functions, which exist by a smallest number of months for which they    *)
(* would not.                                                              *)
(***************************************************************************)
Compounds(after, amount, rate, n) ==
    after = [k \in 0..n |-> IF k = 0 THEN amount ELSE after[k - 1] + Share(after[k - 1], rate)]

LEMMA CompoundedIs ==
    ASSUME NEW amount, NEW rate, NEW n
    PROVE  Compounded(amount, rate, n) = (CHOOSE after : Compounds(after, amount, rate, n))[n]
  BY DEF Compounded, Compounds

LEMMA CompoundsExist ==
    ASSUME NEW amount, NEW rate, NEW n \in Nat
    PROVE  \E after : Compounds(after, amount, rate, n)
<1> DEFINE K == {k \in Nat : ~\E after : Compounds(after, amount, rate, k)}
<1>1. SUFFICES ASSUME K # {} PROVE FALSE
  OBVIOUS
<1>2. PICK k \in K : \A j \in K : k <= j
  <2>1. K \in SUBSET Nat
    OBVIOUS
  <2> HIDE DEF K
  <2> QED
    BY <1>1, <2>1, LeastExists
<1>3. k # 0
  <2> DEFINE g == [i \in 0..0 |-> amount]
  <2>1. Compounds(g, amount, rate, 0)
    BY DEF Compounds
  <2> QED
    BY <1>2, <2>1
<1>4. k \in Nat /\ k - 1 \in Nat /\ k - 1 \notin K
  BY <1>2, <1>3
<1>5. PICK f : Compounds(f, amount, rate, k - 1)
  BY <1>4
<1> DEFINE g == [i \in 0..k |-> IF i < k THEN f[i] ELSE f[k - 1] + Share(f[k - 1], rate)]
<1>6. \A i \in 0..(k - 1) : f[i] = IF i = 0 THEN amount ELSE f[i - 1] + Share(f[i - 1], rate)
  BY <1>5 DEF Compounds
<1>7. ASSUME NEW i \in 0..k
      PROVE  g[i] = IF i = 0 THEN amount ELSE g[i - 1] + Share(g[i - 1], rate)
  <2>1. CASE i < k
    <3>1. i \in 0..(k - 1) /\ g[i] = f[i]
      BY <1>4, <2>1
    <3>2. i # 0 => g[i - 1] = f[i - 1]
      BY <1>4, <2>1
    <3> QED
      BY <1>6, <3>1, <3>2
  <2>2. CASE i = k
    <3>1. g[i] = f[k - 1] + Share(f[k - 1], rate) /\ g[k - 1] = f[k - 1] /\ i # 0
      BY <1>3, <1>4, <2>2
    <3> QED
      BY <2>2, <3>1
  <2> QED
    BY <1>4, <2>1, <2>2
<1>8. g = [i \in 0..k |-> g[i]]
  OBVIOUS
<1> HIDE DEF g
<1>9. Compounds(g, amount, rate, k)
  BY <1>7, <1>8 DEF Compounds
<1> QED
  BY <1>2, <1>9

LEMMA ShareType == ASSUME NEW a \in Int, NEW t \in Int PROVE Share(a, t) \in Int
<1> DEFINE p == a * t
<1>1. p \in Int
  OBVIOUS
<1>2. Share(a, t) = p \div 1000
  BY DEF Share
<1> HIDE DEF p
<1> QED
  BY <1>1, <1>2, SMT

LEMMA CompoundedType ==
    ASSUME NEW amount \in Int, NEW rate \in Int, NEW n \in Nat
    PROVE  Compounded(amount, rate, n) \in Int
<1> DEFINE f == CHOOSE after : Compounds(after, amount, rate, n)
<1>1. Compounds(f, amount, rate, n) /\ Compounded(amount, rate, n) = f[n]
  BY CompoundedIs, CompoundsExist
<1> HIDE DEF f
<1>2. \A i \in 0..n : f[i] = IF i = 0 THEN amount ELSE f[i - 1] + Share(f[i - 1], rate)
  BY <1>1 DEF Compounds
<1> DEFINE K == {k \in 0..n : f[k] \notin Int}
<1>3. SUFFICES ASSUME K # {} PROVE FALSE
  BY <1>1
<1>4. PICK k \in K : \A j \in K : k <= j
  <2>1. K \in SUBSET Nat
    OBVIOUS
  <2> HIDE DEF K
  <2> QED
    BY <1>3, <2>1, LeastExists
<1>5. k \in 0..n /\ f[k] \notin Int /\ k # 0
  BY <1>2, <1>4
<1>6. k - 1 \in 0..n /\ k - 1 \notin K
  BY <1>4, <1>5
<1>7. f[k - 1] \in Int
  BY <1>6
<1>8. Share(f[k - 1], rate) \in Int
  BY <1>7, ShareType
<1>9. f[k] = f[k - 1] + Share(f[k - 1], rate)
  BY <1>2, <1>5
<1> QED
  BY <1>5, <1>7, <1>8, <1>9

(***************************************************************************)
(* What the steps come to in a month.                                      *)
(***************************************************************************)
EarnedBy(steps, i) == [k \in DOMAIN steps |-> FlowOf(steps[k], i)]
SpentBy(steps, i) == [k \in DOMAIN steps |-> CostOf(steps[k], i)]
PaidBy(steps, i) == [k \in DOMAIN steps |-> OnceOf(steps[k], i)]
RaisedBy(steps, i) == [k \in DOMAIN steps |-> Inflow(steps[k], i)]

EarnedIn(steps, i) == Sum(EarnedBy(steps, i))
SpentIn(steps, i) == Sum(SpentBy(steps, i))
PaidIn(steps, i) == Sum(PaidBy(steps, i))
RaisedIn(steps, i) == Sum(RaisedBy(steps, i))

\* The sum of all the parts.
LEMMA WholeIsPart ==
    ASSUME NEW f, NEW S, f = [k \in S |-> f[k]]
    PROVE  Sum(f) = Part(f, S)
  BY DEF Part

LEMMA InEachStep ==
    ASSUME NEW steps, StepsOK(steps), NEW i \in Nat
    PROVE  /\ \A k \in DOMAIN steps : EarnedBy(steps, i)[k] \in Int
           /\ \A k \in DOMAIN steps : SpentBy(steps, i)[k] \in Int
           /\ \A k \in DOMAIN steps : PaidBy(steps, i)[k] \in Int
           /\ \A k \in DOMAIN steps : RaisedBy(steps, i)[k] \in Int
<1> SUFFICES ASSUME NEW k \in DOMAIN steps
             PROVE  /\ EarnedBy(steps, i)[k] \in Int /\ SpentBy(steps, i)[k] \in Int
                    /\ PaidBy(steps, i)[k] \in Int /\ RaisedBy(steps, i)[k] \in Int
  OBVIOUS
<1>1. StepOK(steps[k])
  BY DEF StepsOK
<1>2. FlowOf(steps[k], i) \in Int /\ CostOf(steps[k], i) \in Int
  BY <1>1, FlowIs, CostOfIs
<1>3. OnceOf(steps[k], i) \in Int /\ Inflow(steps[k], i) \in Int
  BY <1>1, OnceIs, InflowIs DEF StepOK
<1> QED
  BY <1>2, <1>3 DEF EarnedBy, SpentBy, PaidBy, RaisedBy

LEMMA AreParts ==
    ASSUME NEW steps, NEW i
    PROVE  /\ EarnedIn(steps, i) = Part(EarnedBy(steps, i), DOMAIN steps)
           /\ SpentIn(steps, i) = Part(SpentBy(steps, i), DOMAIN steps)
           /\ PaidIn(steps, i) = Part(PaidBy(steps, i), DOMAIN steps)
           /\ RaisedIn(steps, i) = Part(RaisedBy(steps, i), DOMAIN steps)
<1>1. EarnedBy(steps, i) = [k \in DOMAIN steps |-> EarnedBy(steps, i)[k]]
  BY DEF EarnedBy
<1>2. SpentBy(steps, i) = [k \in DOMAIN steps |-> SpentBy(steps, i)[k]]
  BY DEF SpentBy
<1>3. PaidBy(steps, i) = [k \in DOMAIN steps |-> PaidBy(steps, i)[k]]
  BY DEF PaidBy
<1>4. RaisedBy(steps, i) = [k \in DOMAIN steps |-> RaisedBy(steps, i)[k]]
  BY DEF RaisedBy
<1> QED
  BY <1>1, <1>2, <1>3, <1>4, WholeIsPart DEF EarnedIn, SpentIn, PaidIn, RaisedIn

LEMMA InAllSteps ==
    ASSUME NEW steps, StepsOK(steps), NEW i \in Nat
    PROVE  /\ EarnedIn(steps, i) \in Int /\ SpentIn(steps, i) \in Int
           /\ PaidIn(steps, i) \in Int /\ RaisedIn(steps, i) \in Int
<1>1. IsFiniteSet(DOMAIN steps)
  BY DEF StepsOK
<1>2. \A k \in DOMAIN steps : EarnedBy(steps, i)[k] \in Int
  BY InEachStep
<1>3. \A k \in DOMAIN steps : SpentBy(steps, i)[k] \in Int
  BY InEachStep
<1>4. \A k \in DOMAIN steps : PaidBy(steps, i)[k] \in Int
  BY InEachStep
<1>5. \A k \in DOMAIN steps : RaisedBy(steps, i)[k] \in Int
  BY InEachStep
<1>6. Part(EarnedBy(steps, i), DOMAIN steps) \in Int
  BY <1>1, <1>2, PartType
<1>7. Part(SpentBy(steps, i), DOMAIN steps) \in Int
  BY <1>1, <1>3, PartType
<1>8. Part(PaidBy(steps, i), DOMAIN steps) \in Int
  BY <1>1, <1>4, PartType
<1>9. Part(RaisedBy(steps, i), DOMAIN steps) \in Int
  BY <1>1, <1>5, PartType
<1> QED
  BY <1>6, <1>7, <1>8, <1>9, AreParts

(***************************************************************************)
(* A month.                                                                *)
(***************************************************************************)
BookOK(book) == book.cash \in Int /\ book.mrr \in Int /\ book.opex \in Int

DialsOK(dials) ==
    /\ dials.growth \in Int /\ dials.churn \in Int /\ dials.margin \in Int /\ dials.conversion \in Int
    /\ dials.opexGrowth \in Int /\ dials.newBusinessRamp \in Int
    /\ dials.baseGrowth \in Int /\ dials.baseChurn \in Int

\* What a month starts from.
Balance(row) == row.mrr \in Int /\ row.cash \in Int

\* New business and cost, without the steps.
NewRun(book, dials, i) ==
    Compounded((Share(book.mrr, dials.baseGrowth + dials.baseChurn) * dials.conversion) \div BASE_CONVERSION,
               dials.newBusinessRamp, i - 1)
OpexRun(book, dials, i) == Compounded(book.opex, dials.opexGrowth, i - 1)

MrrAfter(book, dials, steps, before, i) ==
    Greatest(0, before.mrr - Share(before.mrr, dials.churn) + (NewRun(book, dials, i) + EarnedIn(steps, i)))
OpexIn(book, dials, steps, i) == Greatest(0, OpexRun(book, dials, i) + SpentIn(steps, i))

LEMMA RunsAreWhole ==
    ASSUME NEW book, BookOK(book), NEW dials, DialsOK(dials), NEW i \in Nat, i > 0
    PROVE  NewRun(book, dials, i) \in Int /\ OpexRun(book, dials, i) \in Int
<1>1. i - 1 \in Nat
  OBVIOUS
<1> DEFINE s == Share(book.mrr, dials.baseGrowth + dials.baseChurn)
           p == s * dials.conversion
           q == p \div BASE_CONVERSION
<1>2. s \in Int
  <2>1. book.mrr \in Int /\ dials.baseGrowth + dials.baseChurn \in Int
    BY DEF BookOK, DialsOK
  <2> QED
    BY <2>1, ShareType
<1>3. p \in Int
  <2> HIDE DEF s
  <2> QED
    BY <1>2 DEF DialsOK
<1>4. q \in Int
  <2> HIDE DEF p
  <2> QED
    BY <1>3, SMT DEF BASE_CONVERSION
<1>5. NewRun(book, dials, i) = Compounded(q, dials.newBusinessRamp, i - 1)
  BY DEF NewRun
<1> HIDE DEF q
<1>6. NewRun(book, dials, i) \in Int
  BY <1>1, <1>4, <1>5, CompoundedType DEF DialsOK
<1>7. OpexRun(book, dials, i) \in Int
  BY <1>1, CompoundedType DEF OpexRun, BookOK, DialsOK
<1> QED
  BY <1>6, <1>7

\* A month by its parts.
MonthOf(r, book, dials, steps, before, i) ==
    /\ r.month = i
    /\ r.mrr = MrrAfter(book, dials, steps, before, i)
    /\ r.opex = OpexIn(book, dials, steps, i)
    /\ r.net = NetBurn(r.mrr, r.opex, dials.margin)
    /\ r.once = PaidIn(steps, i) /\ r.inflow = RaisedIn(steps, i)
    /\ r.cash = before.cash - r.net - r.once + r.inflow
    /\ r.runway = Runway(r.cash, r.net)

LEMMA MonthIs ==
    ASSUME NEW book, NEW dials, NEW steps, NEW before, NEW i
    PROVE  MonthOf(MonthAfter(book, dials, steps, before, i), book, dials, steps, before, i)
<1> DEFINE mrr  == MrrAfter(book, dials, steps, before, i)
           opex == OpexIn(book, dials, steps, i)
           open == [month |-> i, mrr |-> mrr, opex |-> opex, net |-> NetBurn(mrr, opex, dials.margin),
                    once |-> PaidIn(steps, i), inflow |-> RaisedIn(steps, i),
                    headcount |-> book.headcount + Sum([k \in DOMAIN steps |-> RolesOf(steps[k], i)]),
                    cash |-> before.cash, runway |-> None]
<1>1. MonthAfter(book, dials, steps, before, i) = Banked(open)
  BY DEF MonthAfter, MrrAfter, OpexIn, NewRun, OpexRun, EarnedIn, SpentIn, PaidIn, RaisedIn,
         EarnedBy, SpentBy, PaidBy, RaisedBy
<1>2. /\ open.month = i /\ open.mrr = mrr /\ open.opex = opex
      /\ open.net = NetBurn(mrr, opex, dials.margin)
      /\ open.once = PaidIn(steps, i) /\ open.inflow = RaisedIn(steps, i) /\ open.cash = before.cash
  <2> HIDE DEF mrr, opex
  <2> QED
    OBVIOUS
<1>3. \A cash : LET r == Closed(open, cash)
                IN  /\ r.month = open.month /\ r.mrr = open.mrr /\ r.opex = open.opex /\ r.net = open.net
                    /\ r.once = open.once /\ r.inflow = open.inflow
                    /\ r.cash = cash /\ r.runway = Runway(cash, open.net)
  <2> HIDE DEF mrr, opex
  <2> QED
    BY DEF Closed
<1> DEFINE r == Banked(open)
<1>4. /\ r.month = open.month /\ r.mrr = open.mrr /\ r.opex = open.opex /\ r.net = open.net
      /\ r.once = open.once /\ r.inflow = open.inflow
      /\ r.cash = open.cash - open.net - open.once + open.inflow
      /\ r.runway = Runway(open.cash - open.net - open.once + open.inflow, open.net)
  <2> HIDE DEF open
  <2> QED
    BY <1>3 DEF Banked
<1> HIDE DEF open, r
<1>5. MonthOf(r, book, dials, steps, before, i)
  BY <1>2, <1>4 DEF MonthOf
<1> QED
  BY <1>1, <1>5 DEF r

(***************************************************************************)
(* A projection, month by month.                                           *)
(***************************************************************************)
StartsFrom(rows, book, i) == IF i = 1 THEN Opening(book) ELSE rows[i - 1]

Projects(rows, book, dials, steps, h) ==
    /\ DOMAIN rows = 1..h
    /\ \A i \in 1..h : MonthOf(rows[i], book, dials, steps, StartsFrom(rows, book, i), i)

Projected(row, book, dials, steps, h) ==
    row = [i \in 0..h |-> IF i = 0 THEN Opening(book) ELSE MonthAfter(book, dials, steps, row[i - 1], i)]

LEMMA TrajectoryChosen ==
    ASSUME NEW book, NEW dials, NEW steps, NEW h
    PROVE  Trajectory(book, dials, steps, h) =
               [i \in 1..h |-> (CHOOSE row : Projected(row, book, dials, steps, h))[i]]
  BY DEF Trajectory, Projected

LEMMA ProjectionExists ==
    ASSUME NEW book, NEW dials, NEW steps, NEW h \in Nat
    PROVE  \E row : Projected(row, book, dials, steps, h)
<1> DEFINE K == {k \in Nat : ~\E row : Projected(row, book, dials, steps, k)}
<1>1. SUFFICES ASSUME K # {} PROVE FALSE
  OBVIOUS
<1>2. PICK k \in K : \A j \in K : k <= j
  <2>1. K \in SUBSET Nat
    OBVIOUS
  <2> HIDE DEF K
  <2> QED
    BY <1>1, <2>1, LeastExists
<1>3. k # 0
  <2> DEFINE g == [i \in 0..0 |-> Opening(book)]
  <2>1. Projected(g, book, dials, steps, 0)
    BY DEF Projected
  <2> QED
    BY <1>2, <2>1
<1>4. k \in Nat /\ k - 1 \in Nat /\ k - 1 \notin K
  BY <1>2, <1>3
<1>5. PICK f : Projected(f, book, dials, steps, k - 1)
  BY <1>4
<1> DEFINE g == [i \in 0..k |-> IF i < k THEN f[i] ELSE MonthAfter(book, dials, steps, f[k - 1], k)]
<1>6. \A i \in 0..(k - 1) : f[i] = IF i = 0 THEN Opening(book) ELSE MonthAfter(book, dials, steps, f[i - 1], i)
  BY <1>5 DEF Projected
<1>7. ASSUME NEW i \in 0..k
      PROVE  g[i] = IF i = 0 THEN Opening(book) ELSE MonthAfter(book, dials, steps, g[i - 1], i)
  <2>1. CASE i < k
    <3>1. i \in 0..(k - 1) /\ g[i] = f[i]
      BY <1>4, <2>1
    <3>2. i # 0 => g[i - 1] = f[i - 1]
      BY <1>4, <2>1
    <3> QED
      BY <1>6, <3>1, <3>2
  <2>2. CASE i = k
    <3>1. g[i] = MonthAfter(book, dials, steps, f[k - 1], k) /\ g[k - 1] = f[k - 1] /\ i # 0
      BY <1>3, <1>4, <2>2
    <3> QED
      BY <2>2, <3>1
  <2> QED
    BY <1>4, <2>1, <2>2
<1>8. g = [i \in 0..k |-> g[i]]
  OBVIOUS
<1> HIDE DEF g
<1>9. Projected(g, book, dials, steps, k)
  BY <1>7, <1>8 DEF Projected
<1> QED
  BY <1>2, <1>9

LEMMA TrajectoryIs ==
    ASSUME NEW book, NEW dials, NEW steps, NEW h \in Nat
    PROVE  Projects(Trajectory(book, dials, steps, h), book, dials, steps, h)
<1> DEFINE row  == CHOOSE row : Projected(row, book, dials, steps, h)
           rows == [i \in 1..h |-> row[i]]
<1>1. Projected(row, book, dials, steps, h) /\ Trajectory(book, dials, steps, h) = rows
  BY ProjectionExists, TrajectoryChosen
<1> HIDE DEF row
<1>2. \A i \in 0..h : row[i] = IF i = 0 THEN Opening(book) ELSE MonthAfter(book, dials, steps, row[i - 1], i)
  BY <1>1 DEF Projected
<1>3. ASSUME NEW i \in 1..h
      PROVE  MonthOf(rows[i], book, dials, steps, StartsFrom(rows, book, i), i)
  <2>1. rows[i] = MonthAfter(book, dials, steps, row[i - 1], i)
    BY <1>2
  <2>2. StartsFrom(rows, book, i) = row[i - 1]
    <3>1. CASE i = 1
      <4>1. row[0] = Opening(book)
        BY <1>2
      <4> QED
        BY <3>1, <4>1 DEF StartsFrom
    <3>2. CASE i # 1
      <4>1. i - 1 \in 1..h
        BY <3>2
      <4> QED
        BY <3>2, <4>1 DEF StartsFrom
    <3> QED
      BY <3>1, <3>2
  <2> QED
    BY <2>1, <2>2, MonthIs
<1>4. DOMAIN rows = 1..h
  OBVIOUS
<1> HIDE DEF rows
<1>5. Projects(rows, book, dials, steps, h)
  BY <1>3, <1>4 DEF Projects
<1> QED
  BY <1>1, <1>5

\* A month whose amounts are whole numbers.
WholeMonth(r) ==
    /\ r.mrr \in Int /\ r.opex \in Int /\ r.net \in Int
    /\ r.once \in Int /\ r.inflow \in Int /\ r.cash \in Int

LEMMA OpeningIs == ASSUME NEW book, BookOK(book) PROVE Balance(Opening(book))
  BY DEF Opening, Balance, BookOK

LEMMA NetBurnIs ==
    ASSUME NEW mrr \in Int, NEW opex \in Int, NEW margin \in Int
    PROVE  NetBurn(mrr, opex, margin) \in Int /\ NetBurn(mrr, opex, margin) = opex - Share(mrr, margin)
<1>1. Share(mrr, margin) \in Int
  BY ShareType
<1> QED
  BY <1>1 DEF NetBurn

LEMMA MonthIsWhole ==
    ASSUME NEW book, BookOK(book), NEW dials, DialsOK(dials), NEW steps, StepsOK(steps),
           NEW before, Balance(before), NEW i \in Nat, i > 0, NEW r, MonthOf(r, book, dials, steps, before, i)
    PROVE  WholeMonth(r)
<1>1. /\ EarnedIn(steps, i) \in Int /\ SpentIn(steps, i) \in Int
      /\ PaidIn(steps, i) \in Int /\ RaisedIn(steps, i) \in Int
  BY InAllSteps
<1>2. NewRun(book, dials, i) \in Int /\ OpexRun(book, dials, i) \in Int
  BY RunsAreWhole
<1>3. Share(before.mrr, dials.churn) \in Int
  BY ShareType DEF Balance, DialsOK
<1>4. r.mrr \in Int
  BY <1>1, <1>2, <1>3 DEF MonthOf, MrrAfter, Greatest, Balance
<1>5. r.opex \in Int
  BY <1>1, <1>2 DEF MonthOf, OpexIn, Greatest
<1>6. r.net \in Int
  <2>1. dials.margin \in Int
    BY DEF DialsOK
  <2>2. NetBurn(r.mrr, r.opex, dials.margin) \in Int
    BY <1>4, <1>5, <2>1, NetBurnIs
  <2> QED
    BY <2>2 DEF MonthOf
<1>7. r.once \in Int /\ r.inflow \in Int
  BY <1>1 DEF MonthOf
<1>8. r.cash \in Int
  BY <1>6, <1>7 DEF MonthOf, Balance
<1> QED
  BY <1>4, <1>5, <1>6, <1>7, <1>8 DEF WholeMonth

LEMMA MonthsAreWhole ==
    ASSUME NEW book, BookOK(book), NEW dials, DialsOK(dials), NEW steps, StepsOK(steps), NEW h \in Nat,
           NEW rows, Projects(rows, book, dials, steps, h)
    PROVE  \A i \in 1..h : WholeMonth(rows[i]) /\ Balance(StartsFrom(rows, book, i))
<1> DEFINE K == {k \in 1..h : ~(WholeMonth(rows[k]) /\ Balance(StartsFrom(rows, book, k)))}
<1>1. SUFFICES ASSUME K # {} PROVE FALSE
  OBVIOUS
<1>2. PICK k \in K : \A j \in K : k <= j
  <2>1. K \in SUBSET Nat
    OBVIOUS
  <2> HIDE DEF K
  <2> QED
    BY <1>1, <2>1, LeastExists
<1>3. k \in 1..h /\ ~(WholeMonth(rows[k]) /\ Balance(StartsFrom(rows, book, k)))
  BY <1>2
<1>4. Balance(StartsFrom(rows, book, k))
  <2>1. CASE k = 1
    BY <2>1, OpeningIs DEF StartsFrom
  <2>2. CASE k # 1
    <3>1. k - 1 \in 1..h /\ k - 1 \notin K
      BY <1>2, <1>3, <2>2
    <3>2. WholeMonth(rows[k - 1])
      BY <3>1
    <3> QED
      BY <2>2, <3>2 DEF StartsFrom, WholeMonth, Balance
  <2> QED
    BY <2>1, <2>2
<1>5. MonthOf(rows[k], book, dials, steps, StartsFrom(rows, book, k), k)
  BY <1>3 DEF Projects
<1>6. k \in Nat /\ k > 0
  BY <1>3
<1> HIDE DEF K
<1>7. WholeMonth(rows[k])
  BY <1>4, <1>5, <1>6, MonthIsWhole
<1> QED
  BY <1>3, <1>4, <1>7

(***************************************************************************)
(* Two projections of one book with the same dials.                        *)
(***************************************************************************)
\* b brings in what a does, and costs as much or more.
EarnsTheSame(a, b, h) == \A i \in 1..h : EarnedIn(a, i) = EarnedIn(b, i)
CostsNoMore(a, b, h) == \A i \in 1..h : SpentIn(a, i) <= SpentIn(b, i)
PaysNoMore(a, b, h) == \A i \in 1..h : PaidIn(a, i) <= PaidIn(b, i) /\ RaisedIn(a, i) >= RaisedIn(b, i)

TwoProjections(p, q, book, dials, a, b, h) ==
    /\ BookOK(book) /\ DialsOK(dials) /\ StepsOK(a) /\ StepsOK(b) /\ h \in Nat
    /\ Projects(p, book, dials, a, h) /\ Projects(q, book, dials, b, h)

LEMMA SameRevenue ==
    ASSUME NEW book, NEW dials, NEW a, NEW b, NEW h, NEW p, NEW q,
           TwoProjections(p, q, book, dials, a, b, h), EarnsTheSame(a, b, h)
    PROVE  \A i \in 1..h : p[i].mrr = q[i].mrr
<1> DEFINE K == {k \in 1..h : p[k].mrr # q[k].mrr}
<1>1. SUFFICES ASSUME K # {} PROVE FALSE
  OBVIOUS
<1>2. PICK k \in K : \A j \in K : k <= j
  <2>1. K \in SUBSET Nat
    BY DEF TwoProjections
  <2> HIDE DEF K
  <2> QED
    BY <1>1, <2>1, LeastExists
<1>3. k \in 1..h /\ p[k].mrr # q[k].mrr
  BY <1>2
<1>4. StartsFrom(p, book, k).mrr = StartsFrom(q, book, k).mrr
  <2>1. CASE k = 1
    BY <2>1 DEF StartsFrom
  <2>2. CASE k # 1
    <3>1. k - 1 \in 1..h /\ k - 1 \notin K
      BY <1>2, <1>3, <2>2 DEF TwoProjections
    <3> QED
      BY <2>2, <3>1 DEF StartsFrom
  <2> QED
    BY <2>1, <2>2
<1>5. MonthOf(p[k], book, dials, a, StartsFrom(p, book, k), k)
  BY <1>3 DEF TwoProjections, Projects
<1>6. MonthOf(q[k], book, dials, b, StartsFrom(q, book, k), k)
  BY <1>3 DEF TwoProjections, Projects
<1>7. EarnedIn(a, k) = EarnedIn(b, k)
  BY <1>3 DEF EarnsTheSame
<1> HIDE DEF K
<1> QED
  BY <1>3, <1>4, <1>5, <1>6, <1>7 DEF MonthOf, MrrAfter

LEMMA LessCost ==
    ASSUME NEW book, NEW dials, NEW a, NEW b, NEW h, NEW p, NEW q,
           TwoProjections(p, q, book, dials, a, b, h), EarnsTheSame(a, b, h), CostsNoMore(a, b, h)
    PROVE  \A i \in 1..h : p[i].net <= q[i].net
<1> SUFFICES ASSUME NEW i \in 1..h PROVE p[i].net <= q[i].net
  OBVIOUS
<1>1. p[i].mrr = q[i].mrr
  BY SameRevenue
<1>2. MonthOf(p[i], book, dials, a, StartsFrom(p, book, i), i)
  BY DEF TwoProjections, Projects
<1>3. MonthOf(q[i], book, dials, b, StartsFrom(q, book, i), i)
  BY DEF TwoProjections, Projects
<1>4. i \in Nat /\ i > 0
  BY DEF TwoProjections
<1>5. WholeMonth(p[i])
  BY MonthsAreWhole DEF TwoProjections
<1>6. WholeMonth(q[i])
  BY MonthsAreWhole DEF TwoProjections
<1>7. SpentIn(a, i) \in Int /\ SpentIn(b, i) \in Int /\ SpentIn(a, i) <= SpentIn(b, i)
  BY <1>4, InAllSteps DEF TwoProjections, CostsNoMore
<1>8. OpexRun(book, dials, i) \in Int
  BY <1>4, RunsAreWhole DEF TwoProjections
<1>9. p[i].opex <= q[i].opex
  BY <1>2, <1>3, <1>7, <1>8 DEF MonthOf, OpexIn, Greatest
<1>10. dials.margin \in Int
  BY DEF TwoProjections, DialsOK
<1>11. p[i].net = p[i].opex - Share(p[i].mrr, dials.margin)
  <2>1. p[i].net = NetBurn(p[i].mrr, p[i].opex, dials.margin)
    BY <1>2 DEF MonthOf
  <2>2. p[i].mrr \in Int /\ p[i].opex \in Int
    BY <1>5 DEF WholeMonth
  <2> QED
    BY <1>10, <2>1, <2>2, NetBurnIs
<1>12. q[i].net = q[i].opex - Share(q[i].mrr, dials.margin)
  <2>1. q[i].net = NetBurn(q[i].mrr, q[i].opex, dials.margin)
    BY <1>3 DEF MonthOf
  <2>2. q[i].mrr \in Int /\ q[i].opex \in Int
    BY <1>6 DEF WholeMonth
  <2> QED
    BY <1>10, <2>1, <2>2, NetBurnIs
<1>13. Share(p[i].mrr, dials.margin) \in Int
  BY <1>5, <1>10, ShareType DEF WholeMonth
<1> QED
  BY <1>1, <1>5, <1>6, <1>9, <1>11, <1>12, <1>13 DEF WholeMonth

LEMMA MoreCash ==
    ASSUME NEW book, NEW dials, NEW a, NEW b, NEW h, NEW p, NEW q,
           TwoProjections(p, q, book, dials, a, b, h),
           EarnsTheSame(a, b, h), CostsNoMore(a, b, h), PaysNoMore(a, b, h)
    PROVE  \A i \in 1..h : p[i].cash >= q[i].cash
<1> DEFINE K == {k \in 1..h : ~(p[k].cash >= q[k].cash)}
<1>1. SUFFICES ASSUME K # {} PROVE FALSE
  OBVIOUS
<1>2. PICK k \in K : \A j \in K : k <= j
  <2>1. K \in SUBSET Nat
    BY DEF TwoProjections
  <2> HIDE DEF K
  <2> QED
    BY <1>1, <2>1, LeastExists
<1>3. k \in 1..h /\ ~(p[k].cash >= q[k].cash)
  BY <1>2
<1> DEFINE s == StartsFrom(p, book, k)
           t == StartsFrom(q, book, k)
<1>4. WholeMonth(p[k]) /\ Balance(s)
  BY <1>3, MonthsAreWhole DEF TwoProjections
<1>5. WholeMonth(q[k]) /\ Balance(t)
  BY <1>3, MonthsAreWhole DEF TwoProjections
<1>6. s.cash >= t.cash
  <2>1. CASE k = 1
    <3>1. s = t
      BY <2>1 DEF StartsFrom
    <3> QED
      BY <1>4, <3>1 DEF Balance
  <2>2. CASE k # 1
    <3>1. k - 1 \in 1..h /\ k - 1 \notin K
      BY <1>2, <1>3, <2>2 DEF TwoProjections
    <3> QED
      BY <2>2, <3>1 DEF StartsFrom
  <2> QED
    BY <2>1, <2>2
<1>7. MonthOf(p[k], book, dials, a, s, k)
  BY <1>3 DEF TwoProjections, Projects
<1>8. MonthOf(q[k], book, dials, b, t, k)
  BY <1>3 DEF TwoProjections, Projects
<1>9. p[k].net <= q[k].net
  BY <1>3, LessCost
<1>10. p[k].once <= q[k].once /\ p[k].inflow >= q[k].inflow
  BY <1>3, <1>7, <1>8 DEF MonthOf, PaysNoMore
<1> HIDE DEF K, s, t
<1>11. p[k].cash = s.cash - p[k].net - p[k].once + p[k].inflow
  BY <1>7 DEF MonthOf
<1>12. q[k].cash = t.cash - q[k].net - q[k].once + q[k].inflow
  BY <1>8 DEF MonthOf
<1> QED
  BY <1>3, <1>4, <1>5, <1>6, <1>9, <1>10, <1>11, <1>12 DEF WholeMonth, Balance

(***************************************************************************)
(* What is read off a projection.                                          *)
(***************************************************************************)
\* More cash lasts no less.
LEMMA RoundedGrows ==
    ASSUME NEW n \in Int, NEW m \in Int, NEW d \in Int, d > 0, n <= m
    PROVE  Rounded(n, d) <= Rounded(m, d)
<1> DEFINE k == Rounded(n, d)
           j == Rounded(m, d)
<1>1. /\ k \in Int /\ 2 * (d * k) <= 2 * n + d
      /\ 2 * (d * k) = 2 * n + d => k % 2 = 0
  BY RoundedIs
<1>2. /\ j \in Int /\ 2 * m - d <= 2 * (d * j)
      /\ 2 * m - d = 2 * (d * j) => j % 2 = 0
  BY RoundedIs
<1> HIDE DEF k, j
<1> SUFFICES ASSUME k > j PROVE FALSE
  BY <1>1, <1>2 DEF k, j
<1> DEFINE e == k - j - 1
<1>3. e \in Nat /\ d * k \in Int /\ d * j \in Int /\ d * e = d * k - d * j - d
  BY <1>1, <1>2
<1>4. k = j + 1 + e
  BY <1>1, <1>2
<1> HIDE DEF e
<1>5. d * e \in Int /\ d * e >= 0
  BY <1>3
<1>6. 2 * (d * k) = 2 * n + d /\ 2 * m - d = 2 * (d * j) /\ d * e = 0
  BY <1>1, <1>2, <1>3, <1>5
<1>7. e = 0
  BY <1>3, <1>6
<1>8. k % 2 = 0 /\ j % 2 = 0
  BY <1>1, <1>2, <1>6
<1> QED
  BY <1>1, <1>2, <1>4, <1>7, <1>8

LEMMA RunwayIs ==
    ASSUME NEW cash \in Int, NEW net \in Int
    PROVE  /\ Runway(cash, net) # None <=> net > 0
           /\ net > 0 => Runway(cash, net) \in Int /\ Runway(cash, net) = Rounded(10 * cash, net)
<1>1. 10 * cash \in Int
  OBVIOUS
<1>2. net > 0 => Rounded(10 * cash, net) \in Int
  BY <1>1, RoundedType
<1> QED
  BY <1>2, NoneAssumption DEF Runway

\* A month that has no more cash and burns no less is below the floor with another.
LEMMA FloorIsShared ==
    ASSUME NEW p, NEW q, WholeMonth(p), WholeMonth(q), p.cash >= q.cash, p.net <= q.net,
           p.runway = Runway(p.cash, p.net), q.runway = Runway(q.cash, q.net), BelowFloor(p)
    PROVE  BelowFloor(q)
<1> DEFINE m == 10 * p.cash
           n == 10 * q.cash
           e == p.net
           d == q.net
<1>1. m \in Int /\ n \in Int /\ e \in Int /\ d \in Int /\ n <= m /\ e <= d
  BY DEF WholeMonth
<1>2. e > 0 /\ p.runway = Rounded(m, e) /\ p.runway < RUNWAY_FLOOR
  <2>1. p.cash \in Int /\ p.net \in Int
    BY DEF WholeMonth
  <2> QED
    BY <2>1, RunwayIs DEF BelowFloor
<1>3. q.runway # None /\ q.runway = Rounded(n, d)
  <2>1. q.cash \in Int /\ q.net \in Int /\ q.net > 0
    BY <1>1, <1>2 DEF WholeMonth
  <2>2. Runway(q.cash, q.net) # None /\ Runway(q.cash, q.net) = Rounded(10 * q.cash, q.net)
    BY <2>1, RunwayIs
  <2> QED
    BY <2>2
<1> HIDE DEF m, n, e, d
<1>4. d > 0 /\ Rounded(m, e) \in Int /\ Rounded(n, d) \in Int
  BY <1>1, <1>2, RoundedType
<1>5. Rounded(n, d) < RUNWAY_FLOOR
  <2>1. CASE n >= 0
    <3>1. Rounded(n, d) <= Rounded(m, e)
      BY <1>1, <1>2, <2>1, RoundedMonotone
    <3> QED
      BY <1>2, <1>4, <3>1 DEF RUNWAY_FLOOR
  <2>2. CASE n < 0
    <3>1. Rounded(n, d) <= 0
      BY <1>1, <1>4, <2>2, RoundedNegative
    <3> QED
      BY <1>4, <3>1 DEF RUNWAY_FLOOR
  <2> QED
    BY <1>1, <2>1, <2>2
<1> QED
  BY <1>3, <1>5 DEF BelowFloor

LEMMA FirstIs ==
    ASSUME NEW S \in SUBSET (Nat \ {0})
    PROVE  First(S) # 0 <=> S # {}
<1>1. S # {} => Min(S) \in S
  BY MinIs
<1> QED
  BY <1>1 DEF First

\* Whole numbers, finitely many, have a least one.
HasLeast(s) == \E m \in s : \A j \in s : m <= j
WholeNumbers(s) == s \subseteq Int

LEMMA LowestIs ==
    ASSUME NEW S, IsFiniteSet(S), WholeNumbers(S), S # {}
    PROVE  Min(S) \in S /\ \A j \in S : Min(S) <= j
<1> DEFINE T == {s \in SUBSET S : s # {} /\ ~HasLeast(s)}
<1>1. SUFFICES ASSUME T # {} PROVE FALSE
  <2>1. HasLeast(S)
    BY <1>1
  <2> QED
    BY <2>1 DEF Min, HasLeast
<1>2. PICK U \in T : \A V \in T : V \subseteq U => V = U
  <2>1. T \subseteq SUBSET S
    OBVIOUS
  <2> HIDE DEF T
  <2> QED
    BY <2>1, <1>1, MinimalSubset
<1>3. U \subseteq S /\ U # {} /\ ~HasLeast(U)
  BY <1>2
<1>4. PICK x \in U : TRUE
  BY <1>3
<1>5. U \ {x} \notin T
  BY <1>2, <1>4
<1>6. CASE U \ {x} = {}
  BY <1>3, <1>4, <1>6 DEF HasLeast, WholeNumbers
<1>7. CASE U \ {x} # {}
  <2>1. PICK y \in U \ {x} : \A j \in U \ {x} : y <= j
    <3>1. HasLeast(U \ {x})
      BY <1>3, <1>5, <1>7
    <3> QED
      BY <3>1 DEF HasLeast
  <2>2. x \in Int /\ y \in Int /\ \A j \in U : j \in Int
    BY <1>3, <1>4, <2>1 DEF WholeNumbers
  <2>3. CASE x <= y
    BY <1>3, <1>4, <2>1, <2>2, <2>3 DEF HasLeast
  <2>4. CASE y <= x
    BY <1>3, <1>4, <2>1, <2>2, <2>4 DEF HasLeast
  <2> QED
    BY <2>2, <2>3, <2>4
<1> QED
  BY <1>6, <1>7

\* The months of a projection with their runways.
LEMMA MonthsRun ==
    ASSUME NEW book, BookOK(book), NEW dials, DialsOK(dials), NEW steps, StepsOK(steps), NEW h \in Nat,
           NEW rows, Projects(rows, book, dials, steps, h)
    PROVE  \A i \in 1..h : /\ WholeMonth(rows[i]) /\ rows[i].runway = Runway(rows[i].cash, rows[i].net)
                           /\ rows[i].runway # None <=> rows[i].net > 0
                           /\ rows[i].net > 0 => rows[i].runway \in Int
<1> SUFFICES ASSUME NEW i \in 1..h
             PROVE  /\ WholeMonth(rows[i]) /\ rows[i].runway = Runway(rows[i].cash, rows[i].net)
                    /\ rows[i].runway # None <=> rows[i].net > 0
                    /\ rows[i].net > 0 => rows[i].runway \in Int
  OBVIOUS
<1>1. WholeMonth(rows[i])
  BY MonthsAreWhole
<1>2. rows[i].runway = Runway(rows[i].cash, rows[i].net)
  BY DEF Projects, MonthOf
<1>3. rows[i].cash \in Int /\ rows[i].net \in Int
  BY <1>1 DEF WholeMonth
<1> QED
  BY <1>1, <1>2, <1>3, RunwayIs

\* q never has more than p, and burns no less.
Worse(p, q, h) ==
    /\ \A i \in 1..h : p[i].cash >= q[i].cash
    /\ \A i \in 1..h : p[i].net <= q[i].net

\* What is triggered in s is triggered in t.
Triggers(s, t) ==
    /\ s.floor # 0 => t.floor # 0
    /\ s.buffer # 0 => t.buffer # 0
    /\ s.insolvent # 0 => t.insolvent # 0

LEMMA SummaryIsWorse ==
    ASSUME NEW book, NEW dials, NEW a, NEW b, NEW h, NEW p, NEW q,
           TwoProjections(p, q, book, dials, a, b, h), Worse(p, q, h)
    PROVE  Triggers(Summary(p), Summary(q))
<1>1. \A i \in 1..h : WholeMonth(p[i]) /\ p[i].runway = Runway(p[i].cash, p[i].net)
  BY MonthsRun DEF TwoProjections
<1>2. \A i \in 1..h : WholeMonth(q[i]) /\ q[i].runway = Runway(q[i].cash, q[i].net)
  BY MonthsRun DEF TwoProjections
<1>3. DOMAIN p = 1..h /\ DOMAIN q = 1..h /\ h \in Nat
  BY DEF TwoProjections, Projects
<1> DEFINE floor(r) == {i \in DOMAIN r : BelowFloor(r[i])}
           buffer(r) == {i \in DOMAIN r : r[i].cash < CASH_BUFFER_FLOOR}
           insolvent(r) == {i \in DOMAIN r : r[i].cash < 0}
<1>4. floor(p) \subseteq floor(q)
  <2> SUFFICES ASSUME NEW i \in 1..h, BelowFloor(p[i]) PROVE BelowFloor(q[i])
    BY <1>3
  <2> QED
    BY <1>1, <1>2, FloorIsShared DEF Worse
<1>5. CASH_BUFFER_FLOOR \in Int
  BY SMT DEF CASH_BUFFER_FLOOR
<1>6. \A i \in 1..h : p[i].cash \in Int /\ q[i].cash \in Int /\ p[i].cash >= q[i].cash
  BY <1>1, <1>2 DEF Worse, WholeMonth
<1>7. buffer(p) \subseteq buffer(q) /\ insolvent(p) \subseteq insolvent(q)
  BY <1>3, <1>5, <1>6
<1>8. /\ Summary(p).floor = First(floor(p)) /\ Summary(q).floor = First(floor(q))
      /\ Summary(p).buffer = First(buffer(p)) /\ Summary(q).buffer = First(buffer(q))
      /\ Summary(p).insolvent = First(insolvent(p)) /\ Summary(q).insolvent = First(insolvent(q))
  BY DEF Summary
<1>9. /\ floor(p) \in SUBSET (Nat \ {0}) /\ floor(q) \in SUBSET (Nat \ {0})
      /\ buffer(p) \in SUBSET (Nat \ {0}) /\ buffer(q) \in SUBSET (Nat \ {0})
      /\ insolvent(p) \in SUBSET (Nat \ {0}) /\ insolvent(q) \in SUBSET (Nat \ {0})
  BY <1>3
<1> HIDE DEF floor, buffer, insolvent
<1> QED
  BY <1>4, <1>7, <1>8, <1>9, FirstIs DEF Triggers

\* A projection that burns the same with more cash lasts no less.
LEMMA LowestIsWorse ==
    ASSUME NEW book, NEW dials, NEW a, NEW b, NEW h, NEW p, NEW q,
           TwoProjections(p, q, book, dials, a, b, h),
           \A i \in 1..h : p[i].cash >= q[i].cash /\ p[i].net = q[i].net,
           Summary(p).lowestRunway # None, Summary(q).lowestRunway # None
    PROVE  Extension(Summary(p).lowestRunway, Summary(q).lowestRunway) >= 0
<1> DEFINE burning(r) == {k \in DOMAIN r : r[k].runway # None}
           of(r) == {r[i].runway : i \in burning(r)}
<1>1. \A i \in 1..h : /\ WholeMonth(p[i]) /\ p[i].runway = Runway(p[i].cash, p[i].net)
                      /\ p[i].runway # None <=> p[i].net > 0
                      /\ p[i].net > 0 => p[i].runway \in Int
  BY MonthsRun DEF TwoProjections
<1>2. \A i \in 1..h : /\ WholeMonth(q[i]) /\ q[i].runway = Runway(q[i].cash, q[i].net)
                      /\ q[i].runway # None <=> q[i].net > 0
                      /\ q[i].net > 0 => q[i].runway \in Int
  BY MonthsRun DEF TwoProjections
<1>3. DOMAIN p = 1..h /\ DOMAIN q = 1..h /\ h \in Nat
  BY DEF TwoProjections, Projects
<1>4. burning(p) = burning(q) /\ burning(p) \subseteq 1..h
  BY <1>1, <1>2, <1>3
<1>5. Summary(p).lowestRunway = Lowest(of(p)) /\ Summary(q).lowestRunway = Lowest(of(q))
  BY DEF Summary, Burning
<1>6. of(p) \subseteq Int /\ of(q) \subseteq Int
  BY <1>1, <1>2, <1>3
<1>7. IsFiniteSet(of(p)) /\ IsFiniteSet(of(q))
  <2>1. IsFiniteSet(burning(p))
    <3>1. IsFiniteSet(1..h)
      BY FS_Interval, <1>3
    <3> HIDE DEF burning
    <3> QED
      BY <1>4, <3>1, FS_Subset
  <2>2. IsFiniteSet(burning(q))
    BY <1>4, <2>1
  <2>3. \A r : LET f == [i \in burning(r) |-> r[i].runway] IN f \in Surjection(burning(r), of(r))
    <3> HIDE DEF burning
    <3> QED
      BY DEF Surjection
  <2> HIDE DEF burning, of
  <2> QED
    BY <2>1, <2>2, <2>3, FS_Surjection
<1>8. of(p) # {} /\ of(q) # {} /\ Lowest(of(p)) = Min(of(p)) /\ Lowest(of(q)) = Min(of(q))
  <2> HIDE DEF of
  <2> QED
    BY <1>5 DEF Lowest
<1>9. Min(of(p)) \in of(p) /\ Min(of(q)) \in of(q) /\ \A j \in of(q) : Min(of(q)) <= j
  <2> HIDE DEF of
  <2> QED
    BY <1>6, <1>7, <1>8, LowestIs DEF WholeNumbers
<1>10. PICK i \in burning(p) : Min(of(p)) = p[i].runway
  BY <1>9
<1>11. i \in 1..h /\ p[i].net > 0 /\ q[i].net = p[i].net /\ q[i].runway \in of(q)
  BY <1>1, <1>2, <1>3, <1>4, <1>10
<1>12. p[i].runway >= q[i].runway
  <2>1. /\ p[i].cash \in Int /\ q[i].cash \in Int /\ p[i].net \in Int /\ q[i].net \in Int
        /\ q[i].cash <= p[i].cash
    BY <1>1, <1>2, <1>11 DEF WholeMonth
  <2>2. 10 * p[i].cash \in Int /\ 10 * q[i].cash \in Int /\ 10 * q[i].cash <= 10 * p[i].cash
    BY <2>1
  <2>3. p[i].runway = Rounded(10 * p[i].cash, p[i].net) /\ q[i].runway = Rounded(10 * q[i].cash, p[i].net)
    <3>1. p[i].runway = Runway(p[i].cash, p[i].net) /\ q[i].runway = Runway(q[i].cash, p[i].net)
      BY <1>1, <1>2, <1>11
    <3>2. Runway(p[i].cash, p[i].net) = Rounded(10 * p[i].cash, p[i].net)
      BY <1>11, <2>1, RunwayIs
    <3>3. Runway(q[i].cash, p[i].net) = Rounded(10 * q[i].cash, p[i].net)
      BY <1>11, <2>1, RunwayIs
    <3> QED
      BY <3>1, <3>2, <3>3
  <2>4. Rounded(10 * q[i].cash, p[i].net) <= Rounded(10 * p[i].cash, p[i].net)
    BY <1>11, <2>1, <2>2, RoundedGrows
  <2>5. p[i].runway \in Int /\ q[i].runway \in Int
    BY <1>1, <1>2, <1>11
  <2> QED
    BY <2>3, <2>4, <2>5
<1>13. Min(of(q)) <= q[i].runway
  <2> HIDE DEF of
  <2> QED
    BY <1>9, <1>11
<1>14. Min(of(p)) \in Int /\ Min(of(q)) \in Int /\ q[i].runway \in Int
  <2>1. q[i].runway \in Int
    BY <1>2, <1>11
  <2> HIDE DEF of
  <2> QED
    BY <1>6, <1>9, <2>1
<1>15. Min(of(p)) - Min(of(q)) >= 0
  <2> HIDE DEF of
  <2> QED
    BY <1>10, <1>12, <1>13, <1>14
<1> HIDE DEF of
<1> QED
  BY <1>5, <1>8, <1>14, <1>15, NoneAssumption DEF Extension

(***************************************************************************)
(* The plan without some of its steps.                                     *)
(***************************************************************************)
LEMMA WithoutIs ==
    ASSUME NEW steps, NEW K
    PROVE  /\ DOMAIN Without(steps, K) = DOMAIN steps \ K
           /\ \A k \in DOMAIN steps \ K : Without(steps, K)[k] = steps[k]
  BY DEF Without, Restrict

LEMMA WithoutOK == ASSUME NEW steps, StepsOK(steps), NEW K PROVE StepsOK(Without(steps, K))
<1>1. IsFiniteSet(DOMAIN steps \ K)
  <2>1. IsFiniteSet(DOMAIN steps)
    BY DEF StepsOK
  <2> QED
    BY <2>1, FS_Difference
<1>2. \A k \in DOMAIN steps \ K : StepOK(steps[k])
  BY DEF StepsOK
<1> DEFINE w == Without(steps, K)
<1>3. DOMAIN w = DOMAIN steps \ K /\ \A k \in DOMAIN steps \ K : w[k] = steps[k]
  BY WithoutIs
<1> HIDE DEF w
<1>4. StepsOK(w)
  BY <1>1, <1>2, <1>3 DEF StepsOK
<1> QED
  BY <1>4 DEF w

LEMMA PartsWithout ==
    ASSUME NEW steps, NEW K, NEW i
    PROVE  /\ EarnedIn(Without(steps, K), i) = Part(EarnedBy(steps, i), DOMAIN steps \ K)
           /\ SpentIn(Without(steps, K), i) = Part(SpentBy(steps, i), DOMAIN steps \ K)
           /\ PaidIn(Without(steps, K), i) = Part(PaidBy(steps, i), DOMAIN steps \ K)
           /\ RaisedIn(Without(steps, K), i) = Part(RaisedBy(steps, i), DOMAIN steps \ K)
<1> DEFINE w == Without(steps, K)
           D == DOMAIN steps \ K
<1>1. DOMAIN w = D /\ \A k \in D : w[k] = steps[k] /\ k \in DOMAIN steps
  BY WithoutIs
<1> HIDE DEF w, D
<1>2. /\ \A k \in D : EarnedBy(w, i)[k] = EarnedBy(steps, i)[k]
      /\ \A k \in D : SpentBy(w, i)[k] = SpentBy(steps, i)[k]
      /\ \A k \in D : PaidBy(w, i)[k] = PaidBy(steps, i)[k]
      /\ \A k \in D : RaisedBy(w, i)[k] = RaisedBy(steps, i)[k]
  BY <1>1 DEF EarnedBy, SpentBy, PaidBy, RaisedBy
<1>3. EarnedIn(w, i) = Part(EarnedBy(steps, i), D)
  BY <1>1, <1>2, AreParts, PartSame
<1>4. SpentIn(w, i) = Part(SpentBy(steps, i), D)
  BY <1>1, <1>2, AreParts, PartSame
<1>5. PaidIn(w, i) = Part(PaidBy(steps, i), D)
  BY <1>1, <1>2, AreParts, PartSame
<1>6. RaisedIn(w, i) = Part(RaisedBy(steps, i), D)
  BY <1>1, <1>2, AreParts, PartSame
<1> QED
  BY <1>3, <1>4, <1>5, <1>6 DEF w, D

\* A sum without what K adds to it.
LEMMA SumWithout ==
    ASSUME NEW f, NEW D, IsFiniteSet(D), \A k \in D : f[k] \in Int, NEW K \in SUBSET D
    PROVE  /\ (\A k \in K : f[k] = 0) => Part(f, D \ K) = Part(f, D)
           /\ (\A k \in K : f[k] >= 0) => Part(f, D \ K) <= Part(f, D)
<1>1. IsFiniteSet(K) /\ IsFiniteSet(D \ K)
  BY FS_Subset
<1>2. D = (D \ K) \cup K /\ (D \ K) \cap K = {}
  OBVIOUS
<1>3. Part(f, D) = Part(f, D \ K) + Part(f, K)
  BY <1>1, <1>2, PartOfTwo
<1>4. Part(f, D \ K) \in Int
  BY <1>1, PartType
<1>5. ASSUME \A k \in K : f[k] >= 0
      PROVE  Part(f, D \ K) <= Part(f, D)
  <2>1. \A k \in K : f[k] \in Int /\ f[k] >= 0
    BY <1>5
  <2>2. Part(f, K) \in Int /\ Part(f, K) >= 0
    BY <1>1, <2>1, PartIsNatural
  <2> QED
    BY <1>3, <1>4, <2>2
<1>6. ASSUME \A k \in K : f[k] = 0
      PROVE  Part(f, D \ K) = Part(f, D)
  <2>1. \A k \in D \ (D \ K) : f[k] = 0
    BY <1>6
  <2> QED
    BY <2>1, PartCounts
<1> QED
  BY <1>5, <1>6

\* A month without the steps at K, by what these do in it.
LEMMA MonthWithout ==
    ASSUME NEW steps, StepsOK(steps), NEW K \in SUBSET DOMAIN steps, NEW i \in Nat
    PROVE  LET w == Without(steps, K)
           IN  /\ (\A k \in K : FlowOf(steps[k], i) = 0) => EarnedIn(w, i) = EarnedIn(steps, i)
               /\ (\A k \in K : CostOf(steps[k], i) = 0) => SpentIn(w, i) = SpentIn(steps, i)
               /\ (\A k \in K : CostOf(steps[k], i) >= 0) => SpentIn(w, i) <= SpentIn(steps, i)
               /\ (\A k \in K : OnceOf(steps[k], i) = 0) => PaidIn(w, i) = PaidIn(steps, i)
               /\ (\A k \in K : OnceOf(steps[k], i) >= 0) => PaidIn(w, i) <= PaidIn(steps, i)
               /\ (\A k \in K : Inflow(steps[k], i) = 0) => RaisedIn(w, i) = RaisedIn(steps, i)
               /\ (\A k \in K : Inflow(steps[k], i) >= 0) => RaisedIn(w, i) <= RaisedIn(steps, i)
<1> DEFINE D == DOMAIN steps
<1>1. IsFiniteSet(D)
  BY DEF StepsOK
<1>2. /\ \A k \in D : EarnedBy(steps, i)[k] = FlowOf(steps[k], i)
      /\ \A k \in D : SpentBy(steps, i)[k] = CostOf(steps[k], i)
      /\ \A k \in D : PaidBy(steps, i)[k] = OnceOf(steps[k], i)
      /\ \A k \in D : RaisedBy(steps, i)[k] = Inflow(steps[k], i)
  BY DEF EarnedBy, SpentBy, PaidBy, RaisedBy
<1> DEFINE e == EarnedBy(steps, i)
           c == SpentBy(steps, i)
           o == PaidBy(steps, i)
           r == RaisedBy(steps, i)
<1>3. (\A k \in D : e[k] \in Int) /\ (\A k \in D : c[k] \in Int)
  BY InEachStep
<1>4. (\A k \in D : o[k] \in Int) /\ (\A k \in D : r[k] \in Int)
  BY InEachStep
<1>5. /\ EarnedIn(steps, i) = Part(e, D) /\ SpentIn(steps, i) = Part(c, D)
      /\ PaidIn(steps, i) = Part(o, D) /\ RaisedIn(steps, i) = Part(r, D)
  BY AreParts
<1>6. /\ EarnedIn(Without(steps, K), i) = Part(e, D \ K) /\ SpentIn(Without(steps, K), i) = Part(c, D \ K)
      /\ PaidIn(Without(steps, K), i) = Part(o, D \ K) /\ RaisedIn(Without(steps, K), i) = Part(r, D \ K)
  BY PartsWithout
<1>7. K \in SUBSET D
  OBVIOUS
<1> HIDE DEF D, e, c, o, r
<1>8. (\A k \in K : e[k] = 0) => Part(e, D \ K) = Part(e, D)
  BY <1>1, <1>3, <1>7, SumWithout
<1>9. /\ (\A k \in K : c[k] = 0) => Part(c, D \ K) = Part(c, D)
      /\ (\A k \in K : c[k] >= 0) => Part(c, D \ K) <= Part(c, D)
  BY <1>1, <1>3, <1>7, SumWithout
<1>10. /\ (\A k \in K : o[k] = 0) => Part(o, D \ K) = Part(o, D)
       /\ (\A k \in K : o[k] >= 0) => Part(o, D \ K) <= Part(o, D)
  BY <1>1, <1>4, <1>7, SumWithout
<1>11. /\ (\A k \in K : r[k] = 0) => Part(r, D \ K) = Part(r, D)
       /\ (\A k \in K : r[k] >= 0) => Part(r, D \ K) <= Part(r, D)
  BY <1>1, <1>4, <1>7, SumWithout
<1>12. \A k \in K : /\ e[k] = FlowOf(steps[k], i) /\ c[k] = CostOf(steps[k], i)
                    /\ o[k] = OnceOf(steps[k], i) /\ r[k] = Inflow(steps[k], i)
  BY <1>2, <1>7 DEF e, c, o, r
<1> QED
  BY <1>5, <1>6, <1>8, <1>9, <1>10, <1>11, <1>12

OnlyCosts(s) == s.kind \in {"hire", "spend"} /\ s.revenue = 0
OnlySaves(s) == s.kind \in {"vendor_savings", "cut"}
IsRaise(s) == s.kind = "financing"

LEMMA WithoutACost ==
    ASSUME NEW steps, StepsOK(steps), NEW k \in DOMAIN steps, OnlyCosts(steps[k]), NEW h \in Nat
    PROVE  LET w == Without(steps, {k})
           IN  EarnsTheSame(w, steps, h) /\ CostsNoMore(w, steps, h) /\ PaysNoMore(w, steps, h)
<1> DEFINE w == Without(steps, {k})
<1> SUFFICES ASSUME NEW i \in 1..h
             PROVE  /\ EarnedIn(w, i) = EarnedIn(steps, i) /\ SpentIn(w, i) <= SpentIn(steps, i)
                    /\ PaidIn(w, i) <= PaidIn(steps, i) /\ RaisedIn(w, i) >= RaisedIn(steps, i)
  BY DEF EarnsTheSame, CostsNoMore, PaysNoMore
<1>1. StepOK(steps[k]) /\ i \in Nat
  BY DEF StepsOK
<1>2. FlowOf(steps[k], i) = 0
  BY <1>1, FlowIs DEF OnlyCosts
<1>3. CostOf(steps[k], i) >= 0
  BY <1>1, CostOfIs DEF OnlyCosts
<1>4. OnceOf(steps[k], i) >= 0 /\ Inflow(steps[k], i) = 0
  BY <1>1, OnceIs, InflowIs DEF OnlyCosts, StepOK
<1>5. {k} \in SUBSET DOMAIN steps
  OBVIOUS
<1>6. /\ EarnedIn(w, i) = EarnedIn(steps, i) /\ SpentIn(w, i) <= SpentIn(steps, i)
      /\ PaidIn(w, i) <= PaidIn(steps, i) /\ RaisedIn(w, i) = RaisedIn(steps, i)
  BY <1>1, <1>2, <1>3, <1>4, <1>5, MonthWithout
<1>7. RaisedIn(steps, i) \in Int
  BY <1>1, InAllSteps
<1> QED
  BY <1>6, <1>7

\* One step out of a sum of costs that it lowers.
LEMMA WithoutASaving ==
    ASSUME NEW steps, StepsOK(steps), NEW k \in DOMAIN steps, OnlySaves(steps[k]), NEW h \in Nat
    PROVE  LET w == Without(steps, {k})
           IN  EarnsTheSame(steps, w, h) /\ CostsNoMore(steps, w, h) /\ PaysNoMore(steps, w, h)
<1> DEFINE w == Without(steps, {k})
<1> SUFFICES ASSUME NEW i \in 1..h
             PROVE  /\ EarnedIn(steps, i) = EarnedIn(w, i) /\ SpentIn(steps, i) <= SpentIn(w, i)
                    /\ PaidIn(steps, i) <= PaidIn(w, i) /\ RaisedIn(steps, i) >= RaisedIn(w, i)
  BY DEF EarnsTheSame, CostsNoMore, PaysNoMore
<1>1. StepOK(steps[k]) /\ i \in Nat
  BY DEF StepsOK
<1>2. FlowOf(steps[k], i) = 0
  BY <1>1, FlowIs DEF OnlySaves
<1>3. CostOf(steps[k], i) \in Int /\ CostOf(steps[k], i) <= 0
  BY <1>1, CostOfIs DEF OnlySaves
<1>4. OnceOf(steps[k], i) = 0 /\ Inflow(steps[k], i) = 0
  BY <1>1, OnceIs, InflowIs DEF OnlySaves, StepOK
<1>5. {k} \in SUBSET DOMAIN steps
  OBVIOUS
<1>6. /\ EarnedIn(w, i) = EarnedIn(steps, i)
      /\ PaidIn(w, i) = PaidIn(steps, i) /\ RaisedIn(w, i) = RaisedIn(steps, i)
  BY <1>1, <1>2, <1>4, <1>5, MonthWithout
<1>7. RaisedIn(steps, i) \in Int /\ PaidIn(steps, i) \in Int
  BY <1>1, InAllSteps
<1>8. SpentIn(steps, i) = CostOf(steps[k], i) + SpentIn(w, i) /\ SpentIn(w, i) \in Int
  <2> DEFINE c == SpentBy(steps, i)
             D == DOMAIN steps
  <2>1. IsFiniteSet(D) /\ k \in D
    BY DEF StepsOK
  <2>2. \A j \in D : c[j] \in Int
    BY <1>1, InEachStep
  <2>3. c[k] = CostOf(steps[k], i)
    BY DEF SpentBy
  <2>4. SpentIn(steps, i) = Part(c, D) /\ SpentIn(w, i) = Part(c, D \ {k})
    BY AreParts, PartsWithout
  <2> HIDE DEF c, D
  <2>5. Part(c, D) = c[k] + Part(c, D \ {k})
    BY <2>1, <2>2, PartWithout
  <2>6. StepsOK(w)
    BY WithoutOK
  <2>7. SpentIn(w, i) \in Int
    BY <1>1, <2>6, InAllSteps
  <2> QED
    BY <2>3, <2>4, <2>5, <2>7
<1> QED
  BY <1>3, <1>6, <1>7, <1>8

LEMMA WithoutRaises ==
    ASSUME NEW steps, StepsOK(steps), NEW K \in SUBSET DOMAIN steps, \A k \in K : IsRaise(steps[k]),
           NEW h \in Nat
    PROVE  LET w == Without(steps, K)
           IN  /\ EarnsTheSame(steps, w, h) /\ CostsNoMore(steps, w, h) /\ PaysNoMore(steps, w, h)
               /\ EarnsTheSame(w, steps, h) /\ CostsNoMore(w, steps, h)
<1> DEFINE w == Without(steps, K)
<1>0. ASSUME NEW i \in 1..h
      PROVE  /\ EarnedIn(w, i) = EarnedIn(steps, i) /\ SpentIn(w, i) = SpentIn(steps, i)
             /\ PaidIn(w, i) = PaidIn(steps, i) /\ RaisedIn(steps, i) >= RaisedIn(w, i)
             /\ SpentIn(steps, i) \in Int /\ PaidIn(steps, i) \in Int
  <2>1. \A k \in K : StepOK(steps[k])
    BY DEF StepsOK
  <2>2. i \in Nat
    OBVIOUS
  <2>3. \A k \in K : FlowOf(steps[k], i) = 0
    BY <2>1, <2>2, FlowIs DEF IsRaise
  <2>4. \A k \in K : CostOf(steps[k], i) = 0
    BY <2>1, <2>2, CostOfIs DEF IsRaise
  <2>5. \A k \in K : OnceOf(steps[k], i) = 0
    BY <2>1, OnceIs DEF IsRaise, StepOK
  <2>6. \A k \in K : Inflow(steps[k], i) >= 0
    BY <2>1, InflowIs DEF StepOK
  <2>7. /\ EarnedIn(w, i) = EarnedIn(steps, i) /\ SpentIn(w, i) = SpentIn(steps, i)
        /\ PaidIn(w, i) = PaidIn(steps, i) /\ RaisedIn(w, i) <= RaisedIn(steps, i)
    BY <2>2, <2>3, <2>4, <2>5, <2>6, MonthWithout
  <2>8. StepsOK(w)
    BY WithoutOK
  <2>9. /\ RaisedIn(w, i) \in Int /\ RaisedIn(steps, i) \in Int
        /\ SpentIn(steps, i) \in Int /\ PaidIn(steps, i) \in Int
    BY <2>2, <2>8, InAllSteps
  <2> HIDE DEF w
  <2> QED
    BY <2>7, <2>9
<1> HIDE DEF w
<1>1. EarnsTheSame(steps, w, h) /\ CostsNoMore(steps, w, h) /\ PaysNoMore(steps, w, h)
  BY <1>0 DEF EarnsTheSame, CostsNoMore, PaysNoMore
<1>2. EarnsTheSame(w, steps, h) /\ CostsNoMore(w, steps, h)
  BY <1>0 DEF EarnsTheSame, CostsNoMore
<1> QED
  BY <1>1, <1>2 DEF w

(***************************************************************************)
(* The policies in the way of a plan.                                      *)
(***************************************************************************)
SomeStepsOf(q, p) == DOMAIN q.steps \subseteq DOMAIN p.steps /\ \A k \in DOMAIN q.steps : q.steps[k] = p.steps[k]

LEMMA FewerPolicies ==
    ASSUME NEW p, NEW q, NEW s, NEW t, NEW c, NEW d,
           SomeStepsOf(q, p), Triggers(t, s)
    PROVE  Policies(PolicyBlockers(q, t, d)) \subseteq Policies(PolicyBlockers(p, s, c))
<1> SUFFICES ASSUME NEW b \in PolicyBlockers(q, t, d)
             PROVE  \E e \in PolicyBlockers(p, s, c) : e.policy = b.policy
  BY DEF Policies
<1> DEFINE cq == d.raise # 0 /\ d.close <= t.floor
           cp == c.raise # 0 /\ c.close <= s.floor
           A(m, covered) == BlockerIf(m.floor # 0, "runway_guardrail", IF covered THEN "warning" ELSE "high", 0)
           B(m) == BlockerIf(m.buffer # 0, "cash_buffer", "high", 0)
           C(m) == BlockerIf(m.insolvent # 0, "solvency", "critical", 0)
           D(r) == UNION {SpendBlockers(r.steps[k], k) : k \in DOMAIN r.steps}
           E(r) == UNION {BlockerIf(r.steps[k].kind = "hire" /\ r.steps[k].revenue = 0 /\ ~r.steps[k].tied,
                              "headcount", "warning", k) : k \in DOMAIN r.steps}
<1>1. /\ PolicyBlockers(q, t, d) = A(t, cq) \cup B(t) \cup C(t) \cup D(q) \cup E(q)
      /\ PolicyBlockers(p, s, c) = A(s, cp) \cup B(s) \cup C(s) \cup D(p) \cup E(p)
  <2>1. PolicyBlockers(q, t, d) = A(t, cq) \cup B(t) \cup C(t) \cup D(q) \cup E(q)
    BY DEF PolicyBlockers
  <2>2. PolicyBlockers(p, s, c) = A(s, cp) \cup B(s) \cup C(s) \cup D(p) \cup E(p)
    BY DEF PolicyBlockers
  <2> HIDE DEF A, B, C, D, E, cp, cq
  <2> QED
    BY <2>1, <2>2
<1>2. D(q) \subseteq D(p) /\ E(q) \subseteq E(p)
  BY DEF SomeStepsOf
<1>3. CASE b \in A(t, cq)
  <2>1. t.floor # 0 /\ b.policy = "runway_guardrail"
    BY <1>3 DEF BlockerIf, Blocker
  <2>2. \E e \in A(s, cp) : e.policy = "runway_guardrail"
    BY <2>1 DEF BlockerIf, Blocker, Triggers
  <2> HIDE DEF A, B, C, D, E, cp, cq
  <2> QED
    BY <1>1, <2>1, <2>2
<1>4. CASE b \in B(t)
  <2>1. t.buffer # 0
    BY <1>4 DEF BlockerIf
  <2>2. B(s) = B(t)
    BY <2>1 DEF BlockerIf, Triggers
  <2> HIDE DEF A, B, C, D, E, cp, cq
  <2> QED
    BY <1>1, <1>4, <2>2
<1>5. CASE b \in C(t)
  <2>1. t.insolvent # 0
    BY <1>5 DEF BlockerIf
  <2>2. C(s) = C(t)
    BY <2>1 DEF BlockerIf, Triggers
  <2> HIDE DEF A, B, C, D, E, cp, cq
  <2> QED
    BY <1>1, <1>5, <2>2
<1> HIDE DEF A, B, C, D, E, cp, cq
<1>6. CASE b \in D(q) \cup E(q)
  BY <1>1, <1>2, <1>6
<1> QED
  BY <1>1, <1>3, <1>4, <1>5, <1>6

(***************************************************************************)
(* The cash of a projection.                                               *)
(***************************************************************************)
\* What a step brings at once, and the steps that start in a month or before it.
AtOnce(steps) == [k \in DOMAIN steps |-> steps[k].finance - steps[k].oneTime]
StartedBy(steps, m) == {k \in DOMAIN steps : Began(steps, k, m)}
StartingIn(steps, m) == {k \in DOMAIN steps : steps[k].start = m}

LEMMA AtOnceInAMonth ==
    ASSUME NEW steps, StepsOK(steps), NEW m \in Nat
    PROVE  RaisedIn(steps, m) - PaidIn(steps, m) = Part(AtOnce(steps), StartingIn(steps, m))
<1> DEFINE D == DOMAIN steps
           S == StartingIn(steps, m)
           g == AtOnce(steps)
           o == PaidBy(steps, m)
           r == RaisedBy(steps, m)
           d == [k \in D |-> r[k] - o[k]]
<1>1. IsFiniteSet(D) /\ S \in SUBSET D
  BY DEF StepsOK, StartingIn
<1>2. (\A k \in D : o[k] \in Int) /\ (\A k \in D : r[k] \in Int)
  BY InEachStep
<1>3. PaidIn(steps, m) = Part(o, D) /\ RaisedIn(steps, m) = Part(r, D)
  BY AreParts
<1>4. ASSUME NEW k \in D
      PROVE  /\ o[k] = IF k \in S THEN steps[k].oneTime ELSE 0
             /\ r[k] = IF k \in S THEN steps[k].finance ELSE 0
  <2>1. StepOK(steps[k])
    BY DEF StepsOK
  <2>2. o[k] = OnceOf(steps[k], m) /\ r[k] = Inflow(steps[k], m)
    BY DEF PaidBy, RaisedBy
  <2>3. k \in S <=> steps[k].start = m
    BY DEF StartingIn
  <2> QED
    BY <2>1, <2>2, <2>3, OnceIs, InflowIs
<1>5. \A k \in S : g[k] = steps[k].finance - steps[k].oneTime
  BY <1>1 DEF AtOnce
<1>6. \A k \in D : d[k] \in Int /\ r[k] = d[k] + o[k]
  <2> HIDE DEF D, o, r
  <2> QED
    BY <1>2
<1>7. (\A k \in D \ S : d[k] = 0) /\ (\A k \in S : d[k] = g[k])
  <2> HIDE DEF D, S, o, r, g
  <2> QED
    BY <1>1, <1>4, <1>5
<1> HIDE DEF D, S, g, o, r, d
<1>8. Part(r, D) = Part(d, D) + Part(o, D)
  BY <1>1, <1>2, <1>6, PartPlus
<1>9. Part(d, D) = Part(d, S)
  BY <1>1, <1>6, <1>7, PartCounts
<1>10. Part(d, S) = Part(g, S)
  BY <1>7, PartSame
<1>11. Part(d, D) \in Int /\ Part(o, D) \in Int
  BY <1>1, <1>2, <1>6, PartType
<1>12. RaisedIn(steps, m) - PaidIn(steps, m) = Part(g, S)
  BY <1>3, <1>8, <1>9, <1>10, <1>11
<1> QED
  BY <1>12 DEF g, S

LEMMA AtOnceType ==
    ASSUME NEW steps, StepsOK(steps)
    PROVE  \A k \in DOMAIN steps : AtOnce(steps)[k] \in Int
  BY DEF StepsOK, StepOK, AtOnce

\* One month more.
LEMMA StartedByNow ==
    ASSUME NEW steps, StepsOK(steps), NEW m \in Nat, m > 0
    PROVE  Part(AtOnce(steps), StartedBy(steps, m)) =
               Part(AtOnce(steps), StartedBy(steps, m - 1)) + Part(AtOnce(steps), StartingIn(steps, m))
<1> DEFINE A == StartedBy(steps, m - 1)
           B == StartingIn(steps, m)
           g == AtOnce(steps)
<1>1. \A k \in DOMAIN steps : steps[k].start \in Nat
  BY DEF StepsOK, StepOK
<1>2. StartedBy(steps, m) = A \cup B /\ A \cap B = {}
  BY <1>1 DEF StartedBy, StartingIn, Began
<1>3. A \in SUBSET DOMAIN steps /\ B \in SUBSET DOMAIN steps
  BY DEF StartedBy, StartingIn
<1>4. IsFiniteSet(A) /\ IsFiniteSet(B)
  <2>1. IsFiniteSet(DOMAIN steps)
    BY DEF StepsOK
  <2> QED
    BY <1>3, <2>1, FS_Subset
<1>5. \A k \in A \cup B : g[k] \in Int
  <2>1. \A k \in DOMAIN steps : g[k] \in Int
    BY AtOnceType
  <2> HIDE DEF A, B, g
  <2> QED
    BY <1>3, <2>1
<1> HIDE DEF A, B, g
<1>6. Part(g, A \cup B) = Part(g, A) + Part(g, B)
  BY <1>2, <1>4, <1>5, PartOfTwo
<1>7. Part(g, StartedBy(steps, m)) = Part(g, A) + Part(g, B)
  BY <1>2, <1>6
<1> QED
  BY <1>7 DEF A, B, g

Nets(rows) == [i \in DOMAIN rows |-> rows[i].net]
CashAt(rows, book, m) == IF m = 0 THEN book.cash ELSE rows[m].cash

AccountsAt(rows, book, steps, m) ==
    CashAt(rows, book, m) =
        book.cash - Part(Nets(rows), 1..m) + Part(AtOnce(steps), StartedBy(steps, m))

LEMMA NextAccounts ==
    ASSUME NEW book, BookOK(book), NEW dials, DialsOK(dials), NEW steps, StepsOK(steps), NEW h \in Nat,
           NEW rows, Projects(rows, book, dials, steps, h), NEW m \in 1..h,
           AccountsAt(rows, book, steps, m - 1)
    PROVE  AccountsAt(rows, book, steps, m)
<1> DEFINE before == StartsFrom(rows, book, m)
           f == Nets(rows)
           g == AtOnce(steps)
<1>1. m \in Nat /\ m > 0 /\ m - 1 \in Nat /\ IsFiniteSet(1..m)
  BY FS_Interval
<1>2. before.cash = CashAt(rows, book, m - 1)
  BY <1>1 DEF StartsFrom, CashAt, Opening
<1>3. \A i \in 1..h : WholeMonth(rows[i]) /\ Balance(StartsFrom(rows, book, i))
  BY MonthsAreWhole
<1>4. WholeMonth(rows[m]) /\ Balance(before)
  BY <1>3
<1>5. rows[m].cash = before.cash - rows[m].net - PaidIn(steps, m) + RaisedIn(steps, m)
  BY DEF Projects, MonthOf
<1>6. \A i \in 1..h : f[i] \in Int /\ f[i] = rows[i].net
  BY <1>3 DEF Nets, WholeMonth, Projects
<1>7. Part(f, 1..m) = f[m] + Part(f, 1..(m - 1)) /\ Part(f, 1..(m - 1)) \in Int
  <2>1. (1..m) \ {m} = 1..(m - 1) /\ m \in 1..m /\ \A i \in 1..m : i \in 1..h
    BY <1>1
  <2>2. \A i \in 1..m : f[i] \in Int
    <3> HIDE DEF f
    <3> QED
      BY <1>6, <2>1
  <2> HIDE DEF f
  <2>3. Part(f, 1..m) = f[m] + Part(f, (1..m) \ {m})
    BY <1>1, <2>1, <2>2, PartWithout
  <2>4. IsFiniteSet(1..(m - 1)) /\ \A i \in 1..(m - 1) : f[i] \in Int
    BY <1>1, <2>1, <2>2, FS_Interval
  <2>5. Part(f, 1..(m - 1)) \in Int
    BY <2>4, PartType
  <2> QED
    BY <2>1, <2>3, <2>5
<1>8. RaisedIn(steps, m) - PaidIn(steps, m) = Part(g, StartingIn(steps, m))
  BY <1>1, AtOnceInAMonth
<1>9. Part(g, StartedBy(steps, m)) = Part(g, StartedBy(steps, m - 1)) + Part(g, StartingIn(steps, m))
  BY <1>1, StartedByNow
<1>10. PaidIn(steps, m) \in Int /\ RaisedIn(steps, m) \in Int
  BY <1>1, InAllSteps
<1>11. Part(g, StartedBy(steps, m - 1)) \in Int
  <2>1. StartedBy(steps, m - 1) \in SUBSET DOMAIN steps
    BY DEF StartedBy
  <2>2. IsFiniteSet(StartedBy(steps, m - 1))
    BY <2>1, FS_Subset DEF StepsOK
  <2>3. \A k \in StartedBy(steps, m - 1) : g[k] \in Int
    BY <2>1, AtOnceType
  <2> QED
    BY <2>2, <2>3, PartType
<1>12. CashAt(rows, book, m - 1) = book.cash - Part(f, 1..(m - 1)) + Part(g, StartedBy(steps, m - 1))
  BY DEF AccountsAt
<1>13. book.cash \in Int /\ before.cash \in Int /\ rows[m].net \in Int
  BY <1>4 DEF BookOK, Balance, WholeMonth
<1>14. f[m] = rows[m].net
  BY <1>6
<1> HIDE DEF before, f, g
<1>15. rows[m].cash = book.cash - Part(f, 1..m) + Part(g, StartedBy(steps, m))
  <2> DEFINE paid == PaidIn(steps, m)
             raised == RaisedIn(steps, m)
             nets == Part(f, 1..(m - 1))
             was == Part(g, StartedBy(steps, m - 1))
             now == Part(g, StartingIn(steps, m))
             start == book.cash
             begin == before.cash
             end == rows[m].cash
             net == rows[m].net
  <2>1. /\ begin = start - nets + was /\ raised - paid = now /\ end = begin - net - paid + raised
        /\ Part(f, 1..m) = net + nets /\ Part(g, StartedBy(steps, m)) = was + now
    BY <1>2, <1>5, <1>7, <1>8, <1>9, <1>12, <1>14
  <2>2. /\ paid \in Int /\ raised \in Int /\ nets \in Int /\ was \in Int
        /\ start \in Int /\ begin \in Int /\ net \in Int
    BY <1>7, <1>10, <1>11, <1>13
  <2> HIDE DEF paid, raised, nets, was, now, start, begin, end, net
  <2>3. now \in Int
    BY <2>1, <2>2
  <2>4. end = start - (net + nets) + (was + now)
    BY <2>1, <2>2, <2>3
  <2>5. end = start - Part(f, 1..m) + Part(g, StartedBy(steps, m))
    BY <2>1, <2>4
  <2> QED
    BY <2>5 DEF start, end
<1> QED
  BY <1>1, <1>15 DEF AccountsAt, CashAt, f, g

LEMMA CashAdds ==
    ASSUME NEW book, BookOK(book), NEW dials, DialsOK(dials), NEW steps, StepsOK(steps), NEW h \in Nat,
           NEW rows, Projects(rows, book, dials, steps, h)
    PROVE  \A m \in 0..h : AccountsAt(rows, book, steps, m)
<1> DEFINE K == {k \in 0..h : ~AccountsAt(rows, book, steps, k)}
<1>1. SUFFICES ASSUME K # {} PROVE FALSE
  OBVIOUS
<1>2. PICK k \in K : \A j \in K : k <= j
  <2>1. K \in SUBSET Nat
    OBVIOUS
  <2> HIDE DEF K
  <2> QED
    BY <1>1, <2>1, LeastExists
<1>3. k \in 0..h /\ ~AccountsAt(rows, book, steps, k)
  BY <1>2
<1>4. AccountsAt(rows, book, steps, 0)
  <2>1. 1..0 = {} /\ StartedBy(steps, 0) = {}
    BY DEF StepsOK, StepOK, StartedBy, Began
  <2>2. Part(Nets(rows), {}) = 0 /\ Part(AtOnce(steps), {}) = 0
    BY PartOfNone
  <2>3. book.cash \in Int
    BY DEF BookOK
  <2>4. CashAt(rows, book, 0) = book.cash
    BY DEF CashAt
  <2>5. book.cash = book.cash - 0 + 0
    BY <2>3
  <2> QED
    BY <2>1, <2>2, <2>4, <2>5 DEF AccountsAt
<1>5. k \in 1..h /\ k - 1 \in 0..h /\ k - 1 \notin K
  BY <1>2, <1>3, <1>4
<1>6. AccountsAt(rows, book, steps, k - 1)
  BY <1>5
<1> HIDE DEF K
<1> QED
  BY <1>3, <1>5, <1>6, NextAccounts

(***************************************************************************)
(* The plans that are made.                                                *)
(***************************************************************************)
DialNames == {"growth", "churn", "margin", "conversion", "opexGrowth", "newBusinessRamp",
              "baseGrowth", "baseChurn"}
IsDials(dials) == dials \in [DialNames -> Int]
Numbers(values) == \A name \in DOMAIN values : values[name] \in Int

LEMMA DialsAreOK == ASSUME NEW dials, IsDials(dials) PROVE DialsOK(dials)
  BY DEF IsDials, DialNames, DialsOK

LEMMA TurnedIs ==
    ASSUME NEW dials, IsDials(dials), NEW values, Numbers(values)
    PROVE  IsDials(Turned(dials, values))
<1>1. DOMAIN dials = DialNames /\ \A name \in DialNames : dials[name] \in Int
  BY DEF IsDials
<1>2. \A name \in DialNames : (IF name \in DOMAIN values THEN values[name] ELSE dials[name]) \in Int
  BY <1>1 DEF Numbers
<1> QED
  BY <1>1, <1>2 DEF Turned, IsDials

LEMMA BooksAreOK ==
    ASSUME NEW book \in Books
    PROVE  BookOK(book) /\ IsDials(BaseDials(book))
<1>1. book \in [cash : Int, mrr : Int, opex : Int, headcount : Int, growth : Int, churn : Int, margin : Int]
  BY PlanAssumption
<1>2. /\ book.cash \in Int /\ book.mrr \in Int /\ book.opex \in Int
      /\ book.growth \in Int /\ book.churn \in Int /\ book.margin \in Int
  BY <1>1
<1>4. IsDials(BaseDials(book))
  BY <1>2 DEF IsDials, DialNames, BaseDials, BASE_CONVERSION
<1> QED
  BY <1>2, <1>4 DEF BookOK

PlaybookOK(playbook) == StepsOK(playbook.steps) /\ Numbers(playbook.dials)

LEMMA PlaybookIs ==
    ASSUME NEW steps, StepsOK(steps), NEW dials, Numbers(dials), NEW dilution
    PROVE  PlaybookOK(Playbook(steps, dials, dilution))
  BY DEF PlaybookOK, Playbook

LEMMA PlaybooksAreOK ==
    PlaybookOK(BasePlan) /\ \A id \in DOMAIN PLAYBOOKS : PlaybookOK(PLAYBOOKS[id])
<1>1. Numbers(NoDials)
  BY DEF Numbers, NoDials
<1>2. Numbers([conversion |-> 360])
  BY DEF Numbers
<1>3. Numbers([growth |-> 50, conversion |-> 240, margin |-> 800])
  BY DEF Numbers
<1>4. Numbers([conversion |-> 240, churn |-> 22])
  BY DEF Numbers
<1>5. PlaybookOK(BasePlan)
  BY <1>1, ListsAreOK, PlaybookIs DEF BasePlan
<1>6. DOMAIN PLAYBOOKS = {"extend_runway", "unblock_enterprise", "renegotiate_vendors", "hire_against_revenue",
                          "financing_bridge", "growth_to_efficiency", "recover_pipeline"}
  BY DEF PLAYBOOKS
<1>7. PlaybookOK(PLAYBOOKS["extend_runway"])
  <2>1. PLAYBOOKS["extend_runway"] = Playbook(ExtendRunway, NoDials, 0)
    BY DEF PLAYBOOKS
  <2> QED
    BY <2>1, <1>1, ListsAreOK, PlaybookIs
<1>8. PlaybookOK(PLAYBOOKS["unblock_enterprise"])
  <2>1. PLAYBOOKS["unblock_enterprise"] = Playbook(UnblockEnterprise, NoDials, 0)
    BY DEF PLAYBOOKS
  <2> QED
    BY <2>1, <1>1, ListsAreOK, PlaybookIs
<1>9. PlaybookOK(PLAYBOOKS["renegotiate_vendors"])
  <2>1. PLAYBOOKS["renegotiate_vendors"] = Playbook(RenegotiateVendors, NoDials, 0)
    BY DEF PLAYBOOKS
  <2> QED
    BY <2>1, <1>1, ListsAreOK, PlaybookIs
<1>10. PlaybookOK(PLAYBOOKS["hire_against_revenue"])
  <2>1. PLAYBOOKS["hire_against_revenue"] = Playbook(HireAgainstRevenue, [conversion |-> 360], 0)
    BY DEF PLAYBOOKS
  <2> QED
    BY <2>1, <1>2, ListsAreOK, PlaybookIs
<1>11. PlaybookOK(PLAYBOOKS["financing_bridge"])
  <2>1. PLAYBOOKS["financing_bridge"] = Playbook(FinancingBridge, NoDials, 81)
    BY DEF PLAYBOOKS
  <2> QED
    BY <2>1, <1>1, ListsAreOK, PlaybookIs
<1>12. PlaybookOK(PLAYBOOKS["growth_to_efficiency"])
  <2>1. PLAYBOOKS["growth_to_efficiency"] =
            Playbook(GrowthToEfficiency, [growth |-> 50, conversion |-> 240, margin |-> 800], 0)
    BY DEF PLAYBOOKS
  <2> QED
    BY <2>1, <1>3, ListsAreOK, PlaybookIs
<1>13. PlaybookOK(PLAYBOOKS["recover_pipeline"])
  <2>1. PLAYBOOKS["recover_pipeline"] = Playbook(RecoverPipeline, [conversion |-> 240, churn |-> 22], 0)
    BY DEF PLAYBOOKS
  <2> QED
    BY <2>1, <1>4, ListsAreOK, PlaybookIs
<1> QED
  BY <1>5, <1>6, <1>7, <1>8, <1>9, <1>10, <1>11, <1>12, <1>13

(***************************************************************************)
(* The inductive invariant: a plan is a projection of its book, so far or  *)
(* to its horizon.                                                         *)
(***************************************************************************)
IsList(rows) == \E T : rows \in Seq(T)

Adequate(p) ==
    /\ BookOK(p.book) /\ DialsOK(p.dials) /\ StepsOK(p.steps) /\ p.horizon \in Nat \ {0}
    /\ IsList(p.rows) /\ Projects(p.rows, p.book, p.dials, p.steps, Len(p.rows))

InDraft == plan.phase = "projecting" /\ Adequate(plan) /\ Len(plan.rows) <= plan.horizon
IsBuilt == \E p : Adequate(p) /\ Len(p.rows) = p.horizon /\ plan = Completed(p)

PlanInv == plan = NoPlan \/ InDraft \/ IsBuilt

LEMMA ListIs == ASSUME NEW rows, IsList(rows) PROVE Len(rows) \in Nat /\ DOMAIN rows = 1..Len(rows)
  BY DEF IsList

LEMMA LongerList ==
    ASSUME NEW rows, IsList(rows), NEW r
    PROVE  /\ IsList(Append(rows, r)) /\ Len(Append(rows, r)) = Len(rows) + 1
           /\ Append(rows, r)[Len(rows) + 1] = r
           /\ \A i \in 1..Len(rows) : Append(rows, r)[i] = rows[i]
<1>1. PICK T : rows \in Seq(T)
  BY DEF IsList
<1>2. rows \in Seq(T \cup {r}) /\ r \in T \cup {r}
  BY <1>1
<1>3. Append(rows, r) \in Seq(T \cup {r})
  BY <1>2
<1> QED
  BY <1>2, <1>3 DEF IsList

LEMMA OneMonthMore ==
    ASSUME NEW book, NEW dials, NEW steps, NEW rows, IsList(rows),
           Projects(rows, book, dials, steps, Len(rows)), NEW r,
           MonthOf(r, book, dials, steps, IF Len(rows) = 0 THEN Opening(book) ELSE rows[Len(rows)], Len(rows) + 1)
    PROVE  Projects(Append(rows, r), book, dials, steps, Len(rows) + 1)
<1> DEFINE n == Len(rows)
           more == Append(rows, r)
<1>1. n \in Nat /\ IsList(more) /\ Len(more) = n + 1 /\ more[n + 1] = r
  BY ListIs, LongerList
<1>2. \A i \in 1..n : more[i] = rows[i]
  BY LongerList
<1>3. DOMAIN more = 1..(n + 1)
  BY <1>1, ListIs
<1>4. \A i \in 1..n : MonthOf(rows[i], book, dials, steps, StartsFrom(rows, book, i), i)
  BY DEF Projects
<1>5. MonthOf(r, book, dials, steps, IF n = 0 THEN Opening(book) ELSE rows[n], n + 1)
  OBVIOUS
<1> HIDE DEF n, more
<1>6. ASSUME NEW i \in 1..(n + 1)
      PROVE  MonthOf(more[i], book, dials, steps, StartsFrom(more, book, i), i)
  <2>1. CASE i = n + 1
    <3>1. StartsFrom(more, book, i) = IF n = 0 THEN Opening(book) ELSE rows[n]
      BY <1>1, <1>2, <2>1 DEF StartsFrom
    <3> QED
      BY <1>1, <1>5, <2>1, <3>1
  <2>2. CASE i # n + 1
    <3>1. i \in 1..n /\ more[i] = rows[i]
      BY <1>1, <1>2, <2>2
    <3>2. StartsFrom(more, book, i) = StartsFrom(rows, book, i)
      <4>1. i # 1 => i - 1 \in 1..n
        BY <1>1, <3>1
      <4> QED
        BY <1>2, <4>1 DEF StartsFrom
    <3> QED
      BY <1>4, <3>1, <3>2
  <2> QED
    BY <2>1, <2>2
<1>7. Projects(more, book, dials, steps, n + 1)
  BY <1>3, <1>6 DEF Projects
<1> QED
  BY <1>7 DEF n, more

LEMMA DraftIsAdequate ==
    ASSUME NEW playbook, PlaybookOK(playbook), NEW book \in Books, NEW values, Numbers(values),
           NEW horizon \in Horizons, NEW p, p = Draft(playbook, book, values, horizon)
    PROVE  p.phase = "projecting" /\ Adequate(p) /\ Len(p.rows) <= p.horizon
<1>1. /\ p.phase = "projecting" /\ p.book = book /\ p.steps = playbook.steps /\ p.rows = <<>>
      /\ p.dials = Turned(Turned(BaseDials(book), playbook.dials), values) /\ p.horizon = horizon
  BY DEF Draft
<1>2. IsDials(Turned(BaseDials(book), playbook.dials))
  BY BooksAreOK, TurnedIs DEF PlaybookOK
<1>3. DialsOK(p.dials)
  BY <1>1, <1>2, TurnedIs, DialsAreOK
<1>4. p.horizon \in Nat \ {0}
  BY <1>1, PlanAssumption
<1>5. IsList(p.rows) /\ Len(p.rows) = 0
  <2>1. <<>> \in Seq({})
    OBVIOUS
  <2> QED
    BY <1>1, <2>1 DEF IsList
<1>6. Projects(p.rows, p.book, p.dials, p.steps, Len(p.rows))
  <2>1. DOMAIN p.rows = 1..0 /\ 1..0 = {}
    BY <1>1
  <2> QED
    BY <1>5, <2>1 DEF Projects
<1> QED
  BY <1>1, <1>3, <1>4, <1>5, <1>6, BooksAreOK DEF Adequate, PlaybookOK

LEMMA PlanInvInit == PlanInit => PlanInv
  BY DEF PlanInit, PlanInv

LEMMA StartPlanKeeps == ASSUME StartPlan PROVE PlanInv'
<1>1. Numbers(NoDials) /\ \A overrides \in Overrides : Numbers(overrides)
  BY PlanAssumption DEF NoDials, Numbers
<1>2. PICK book \in Books, horizon \in Horizons :
           \/ \E id \in DOMAIN PLAYBOOKS : plan' = Draft(PLAYBOOKS[id], book, NoDials, horizon)
           \/ \E overrides \in Overrides : plan' = Draft(BasePlan, book, overrides, horizon)
  BY DEF StartPlan
<1>3. PICK playbook, values :
          PlaybookOK(playbook) /\ Numbers(values) /\ plan' = Draft(playbook, book, values, horizon)
  BY <1>1, <1>2, PlaybooksAreOK
<1>4. plan'.phase = "projecting" /\ Adequate(plan') /\ Len(plan'.rows) <= plan'.horizon
  BY <1>3, DraftIsAdequate
<1> QED
  BY <1>4 DEF PlanInv, InDraft, Adequate

LEMMA ProjectMonthKeeps == ASSUME PlanInv, ProjectMonth PROVE PlanInv'
<1>1. plan.phase = "projecting" /\ Len(plan.rows) < plan.horizon
  BY DEF ProjectMonth, Projecting
<1>2. InDraft
  <2>1. NoPlan.phase = "none" /\ \A p : Completed(p).phase = "built"
    BY DEF NoPlan, Completed, Finished
  <2> QED
    BY <1>1, <2>1 DEF PlanInv, IsBuilt
<1> DEFINE n == Len(plan.rows)
           before == IF n = 0 THEN Opening(plan.book) ELSE plan.rows[n]
           r == MonthAfter(plan.book, plan.dials, plan.steps, before, n + 1)
<1>3. plan' = [plan EXCEPT !.rows = Append(@, r)]
  BY DEF ProjectMonth
<1>4. Adequate(plan) /\ IsList(plan.rows) /\ n \in Nat /\ plan.horizon \in Nat
  BY <1>2, ListIs DEF InDraft, Adequate
<1>5. /\ plan'.rows = Append(plan.rows, r) /\ plan'.book = plan.book /\ plan'.dials = plan.dials
      /\ plan'.steps = plan.steps /\ plan'.horizon = plan.horizon /\ plan'.phase = plan.phase
  <2> HIDE DEF r
  <2> QED
    BY <1>3
<1>6. MonthOf(r, plan.book, plan.dials, plan.steps, before, n + 1)
  BY MonthIs
<1> HIDE DEF r
<1>7. Projects(plan'.rows, plan.book, plan.dials, plan.steps, n + 1)
  BY <1>4, <1>5, <1>6, OneMonthMore DEF Adequate
<1>8. IsList(plan'.rows) /\ Len(plan'.rows) = n + 1
  BY <1>4, <1>5, LongerList
<1> HIDE DEF n
<1>9. InDraft'
  BY <1>1, <1>4, <1>5, <1>7, <1>8 DEF InDraft, Adequate, n
<1> QED
  BY <1>9 DEF PlanInv

LEMMA CompletePlanKeeps == ASSUME PlanInv, CompletePlan PROVE PlanInv'
<1>1. plan.phase = "projecting" /\ Len(plan.rows) = plan.horizon /\ plan' = Completed(plan)
  BY DEF CompletePlan
<1>2. InDraft
  <2>1. NoPlan.phase = "none" /\ \A p : Completed(p).phase = "built"
    BY DEF NoPlan, Completed, Finished
  <2> QED
    BY <1>1, <2>1 DEF PlanInv, IsBuilt
<1>3. \E p : Adequate(p) /\ Len(p.rows) = p.horizon /\ plan' = Completed(p)
  BY <1>1, <1>2 DEF InDraft
<1> QED
  BY <1>3 DEF PlanInv, IsBuilt

LEMMA PlanInvAlways == PlanSpec => []PlanInv
<1>1. PlanInv /\ [PlanNext]_plan => PlanInv'
  <2> SUFFICES ASSUME PlanInv, [PlanNext]_plan PROVE PlanInv'
    OBVIOUS
  <2>1. CASE StartPlan
    BY <2>1, StartPlanKeeps
  <2>2. CASE ProjectMonth
    BY <2>2, ProjectMonthKeeps
  <2>3. CASE CompletePlan
    BY <2>3, CompletePlanKeeps
  <2>4. CASE UNCHANGED plan
    BY <2>4 DEF PlanInv, InDraft, IsBuilt
  <2> QED
    BY <2>1, <2>2, <2>3, <2>4 DEF PlanNext
<1> QED
  BY <1>1, PlanInvInit, PTL DEF PlanSpec

(***************************************************************************)
(* A plan of the invariant adds up.                                        *)
(***************************************************************************)
LEMMA BuiltIs ==
    ASSUME NEW p
    PROVE  LET c == Completed(p)
               s == Summary(p.rows)
           IN  /\ c.phase = "built" /\ c.book = p.book /\ c.steps = p.steps /\ c.dials = p.dials
               /\ c.horizon = p.horizon /\ c.rows = p.rows
               /\ c.capital = CapitalPlan(p, s) /\ c.blockers = PolicyBlockers(p, s, CapitalPlan(p, s))
  BY DEF Completed, Finished

\* The cash of p.
CashOf(p) ==
    LET n     == Len(p.rows)
        begun == {k \in DOMAIN p.steps : Began(p.steps, k, n)}
    IN  p.rows[n].cash = p.book.cash - Sum([i \in 1..n |-> p.rows[i].net])
            + Sum([k \in begun |-> p.steps[k].finance - p.steps[k].oneTime])

LEMMA AdequateAccounts == ASSUME NEW p, Adequate(p), p.rows # <<>> PROVE CashOf(p)
<1> DEFINE n == Len(p.rows)
<1>1. n \in Nat /\ DOMAIN p.rows = 1..n /\ n # 0
  BY ListIs DEF Adequate, IsList
<1>2. AccountsAt(p.rows, p.book, p.steps, n)
  <2>1. \A m \in 0..n : AccountsAt(p.rows, p.book, p.steps, m)
    BY <1>1, CashAdds DEF Adequate
  <2> QED
    BY <1>1, <2>1
<1>3. p.rows[n].cash = p.book.cash - Part(Nets(p.rows), 1..n) + Part(AtOnce(p.steps), StartedBy(p.steps, n))
  BY <1>1, <1>2 DEF AccountsAt, CashAt
<1>4. Part(Nets(p.rows), 1..n) = Sum([i \in 1..n |-> p.rows[i].net])
  <2>1. [i \in 1..n |-> Nets(p.rows)[i]] = [i \in 1..n |-> p.rows[i].net]
    BY <1>1 DEF Nets
  <2> QED
    BY <2>1 DEF Part
<1>5. Part(AtOnce(p.steps), StartedBy(p.steps, n)) =
          Sum([k \in StartedBy(p.steps, n) |-> p.steps[k].finance - p.steps[k].oneTime])
  <2>1. [k \in StartedBy(p.steps, n) |-> AtOnce(p.steps)[k]] =
            [k \in StartedBy(p.steps, n) |-> p.steps[k].finance - p.steps[k].oneTime]
    BY DEF AtOnce, StartedBy
  <2> QED
    BY <2>1 DEF Part
<1> HIDE DEF n
<1>6. p.rows[n].cash = p.book.cash - Sum([i \in 1..n |-> p.rows[i].net])
          + Sum([k \in StartedBy(p.steps, n) |-> p.steps[k].finance - p.steps[k].oneTime])
  BY <1>3, <1>4, <1>5
<1> QED
  BY <1>6 DEF CashOf, StartedBy, n

LEMMA Accounted == PlanInv => CashIsAccounted
<1> SUFFICES ASSUME PlanInv, plan # NoPlan, plan.rows # <<>> PROVE CashOf(plan)
  BY DEF CashIsAccounted, CashOf
<1>1. CASE InDraft
  BY <1>1, AdequateAccounts DEF InDraft
<1>2. CASE IsBuilt
  <2>1. PICK p : Adequate(p) /\ plan = Completed(p)
    BY <1>2 DEF IsBuilt
  <2>2. plan.rows = p.rows /\ plan.book = p.book /\ plan.steps = p.steps
    BY <2>1, BuiltIs
  <2>3. CashOf(p)
    BY <2>1, <2>2, AdequateAccounts
  <2> QED
    BY <2>2, <2>3 DEF CashOf
<1> QED
  BY <1>1, <1>2 DEF PlanInv

LEMMA AreComparable ==
    ASSUME NEW p, Adequate(p), Len(p.rows) = p.horizon, NEW K,
           NEW rows, rows = Trajectory(p.book, p.dials, Without(p.steps, K), p.horizon)
    PROVE  /\ TwoProjections(rows, p.rows, p.book, p.dials, Without(p.steps, K), p.steps, p.horizon)
           /\ TwoProjections(p.rows, rows, p.book, p.dials, p.steps, Without(p.steps, K), p.horizon)
<1>1. /\ BookOK(p.book) /\ DialsOK(p.dials) /\ StepsOK(p.steps) /\ p.horizon \in Nat
      /\ Projects(p.rows, p.book, p.dials, p.steps, p.horizon)
  BY DEF Adequate
<1>2. StepsOK(Without(p.steps, K))
  BY <1>1, WithoutOK
<1>3. Projects(rows, p.book, p.dials, Without(p.steps, K), p.horizon)
  BY <1>1, TrajectoryIs
<1> QED
  BY <1>1, <1>2, <1>3 DEF TwoProjections

LEMMA EachStepPays ==
    ASSUME NEW p, Adequate(p), Len(p.rows) = p.horizon, plan = Completed(p), NEW k \in DOMAIN p.steps,
           NEW other, other.steps = Without(p.steps, {k}),
           other.rows = Trajectory(p.book, p.dials, Without(p.steps, {k}), p.horizon)
    PROVE  PaysItsWay(p.steps[k], other.rows, Policies(Completed(other).blockers))
<1> DEFINE h    == p.horizon
           less == Without(p.steps, {k})
           rows == other.rows
<1>1. /\ TwoProjections(rows, p.rows, p.book, p.dials, less, p.steps, h)
      /\ TwoProjections(p.rows, rows, p.book, p.dials, p.steps, less, h)
  BY AreComparable
<1>2. DOMAIN rows = 1..h /\ StepsOK(p.steps) /\ h \in Nat /\ k \in DOMAIN p.steps
  BY <1>1 DEF TwoProjections, Projects
<1>3. plan.rows = p.rows /\ plan.blockers = PolicyBlockers(p, Summary(p.rows), CapitalPlan(p, Summary(p.rows)))
  BY BuiltIs
<1> HIDE DEF h, less, rows
<1>4. ASSUME OnlyCosts(p.steps[k])
      PROVE  /\ \A i \in 1..h : rows[i].cash >= p.rows[i].cash
             /\ Policies(Completed(other).blockers) \subseteq Policies(plan.blockers)
  <2>1. EarnsTheSame(less, p.steps, h) /\ CostsNoMore(less, p.steps, h) /\ PaysNoMore(less, p.steps, h)
    BY <1>2, <1>4, WithoutACost DEF less
  <2>2. \A i \in 1..h : rows[i].cash >= p.rows[i].cash
    BY <1>1, <2>1, MoreCash
  <2>3. \A i \in 1..h : rows[i].net <= p.rows[i].net
    BY <1>1, <2>1, LessCost
  <2>4. Worse(rows, p.rows, h)
    BY <2>2, <2>3 DEF Worse
  <2>5. Triggers(Summary(rows), Summary(p.rows))
    BY <1>1, <2>4, SummaryIsWorse
  <2>6. SomeStepsOf(other, p)
    <3>1. DOMAIN less = DOMAIN p.steps \ {k} /\ \A j \in DOMAIN p.steps \ {k} : less[j] = p.steps[j]
      BY WithoutIs DEF less
    <3>2. other.steps = less
      BY DEF less
    <3> QED
      BY <3>1, <3>2 DEF SomeStepsOf
  <2>7. Completed(other).blockers = PolicyBlockers(other, Summary(rows), CapitalPlan(other, Summary(rows)))
    BY BuiltIs DEF rows
  <2>8. Policies(PolicyBlockers(other, Summary(rows), CapitalPlan(other, Summary(rows))))
            \subseteq Policies(PolicyBlockers(p, Summary(p.rows), CapitalPlan(p, Summary(p.rows))))
    BY <2>5, <2>6, FewerPolicies
  <2> QED
    BY <1>3, <2>2, <2>7, <2>8
<1>5. ASSUME OnlySaves(p.steps[k])
      PROVE  \A i \in 1..h : rows[i].cash <= p.rows[i].cash
  <2>1. EarnsTheSame(p.steps, less, h) /\ CostsNoMore(p.steps, less, h) /\ PaysNoMore(p.steps, less, h)
    BY <1>2, <1>5, WithoutASaving DEF less
  <2>2. \A i \in 1..h : p.rows[i].cash >= rows[i].cash
    BY <1>1, <2>1, MoreCash
  <2>3. \A i \in 1..h : WholeMonth(p.rows[i])
    BY <1>1, MonthsAreWhole DEF TwoProjections
  <2>4. \A i \in 1..h : WholeMonth(rows[i])
    BY <1>1, MonthsAreWhole DEF TwoProjections
  <2> QED
    BY <2>2, <2>3, <2>4 DEF WholeMonth
<1>6. /\ (OnlyCosts(p.steps[k]) => /\ \A i \in DOMAIN rows : rows[i].cash >= plan.rows[i].cash
                                   /\ Policies(Completed(other).blockers) \subseteq Policies(plan.blockers))
      /\ (OnlySaves(p.steps[k]) => \A i \in DOMAIN rows : rows[i].cash <= plan.rows[i].cash)
  BY <1>2, <1>3, <1>4, <1>5
<1> QED
  BY <1>6 DEF PaysItsWay, OnlyCosts, OnlySaves, rows

LEMMA RaisesExtend ==
    ASSUME NEW p, Adequate(p), Len(p.rows) = p.horizon,
           CapitalPlan(p, Summary(p.rows)).extension # None
    PROVE  CapitalPlan(p, Summary(p.rows)).extension >= 0
<1> DEFINE K    == {k \in DOMAIN p.steps : p.steps[k].kind = "financing"}
           h    == p.horizon
           bare == Without(p.steps, K)
           rows == Trajectory(p.book, p.dials, bare, h)
           x    == Extension(Summary(p.rows).lowestRunway, Summary(rows).lowestRunway)
<1>1. CapitalPlan(p, Summary(p.rows)).extension \in {None, x}
  BY DEF CapitalPlan
<1>2. CapitalPlan(p, Summary(p.rows)).extension = x /\ x # None
  BY <1>1
<1>3. Summary(p.rows).lowestRunway # None /\ Summary(rows).lowestRunway # None
  <2> HIDE DEF rows
  <2> QED
    BY <1>2 DEF Extension
<1>4. /\ TwoProjections(rows, p.rows, p.book, p.dials, bare, p.steps, h)
      /\ TwoProjections(p.rows, rows, p.book, p.dials, p.steps, bare, h)
  BY AreComparable
<1>5. StepsOK(p.steps) /\ h \in Nat /\ K \in SUBSET DOMAIN p.steps /\ \A k \in K : IsRaise(p.steps[k])
  BY <1>4 DEF TwoProjections, IsRaise
<1> HIDE DEF K, h, rows
<1>6. /\ EarnsTheSame(p.steps, bare, h) /\ CostsNoMore(p.steps, bare, h) /\ PaysNoMore(p.steps, bare, h)
      /\ EarnsTheSame(bare, p.steps, h) /\ CostsNoMore(bare, p.steps, h)
  BY <1>5, WithoutRaises
<1> HIDE DEF bare
<1>7. \A i \in 1..h : p.rows[i].cash >= rows[i].cash
  BY <1>4, <1>6, MoreCash
<1>8. \A i \in 1..h : p.rows[i].net <= rows[i].net
  BY <1>4, <1>6, LessCost
<1>9. \A i \in 1..h : rows[i].net <= p.rows[i].net
  BY <1>4, <1>6, LessCost
<1>10. \A i \in 1..h : WholeMonth(p.rows[i])
  BY <1>4, MonthsAreWhole DEF TwoProjections
<1>11. \A i \in 1..h : WholeMonth(rows[i])
  BY <1>4, MonthsAreWhole DEF TwoProjections
<1>12. \A i \in 1..h : p.rows[i].cash >= rows[i].cash /\ p.rows[i].net = rows[i].net
  BY <1>7, <1>8, <1>9, <1>10, <1>11 DEF WholeMonth
<1>13. x >= 0
  BY <1>3, <1>4, <1>12, LowestIsWorse
<1> QED
  BY <1>2, <1>13

LEMMA CostsAndSavings == PlanInv => CostsCostAndSavingsSave
<1> SUFFICES ASSUME PlanInv, plan.phase = "built" PROVE CostsCostAndSavingsSave
  BY DEF CostsCostAndSavingsSave
<1>1. IsBuilt
  BY DEF PlanInv, InDraft, NoPlan
<1>2. PICK p : Adequate(p) /\ Len(p.rows) = p.horizon /\ plan = Completed(p)
  BY <1>1 DEF IsBuilt
<1>3. /\ plan.book = p.book /\ plan.steps = p.steps /\ plan.dials = p.dials /\ plan.horizon = p.horizon
      /\ plan.capital = CapitalPlan(p, Summary(p.rows))
  BY <1>2, BuiltIs
<1>4. plan.capital.extension # None => plan.capital.extension >= 0
  BY <1>2, <1>3, RaisesExtend
<1>5. ASSUME NEW k \in DOMAIN plan.steps
      PROVE  LET steps == Without(plan.steps, {k})
                 rows  == Trajectory(plan.book, plan.dials, steps, plan.horizon)
                 other == [phase |-> "projecting", book |-> plan.book, steps |-> steps, dials |-> plan.dials,
                           dilution |-> 0, horizon |-> plan.horizon, rows |-> rows]
             IN  PaysItsWay(plan.steps[k], rows, Policies(Completed(other).blockers))
  <2> DEFINE steps == Without(p.steps, {k})
             rows  == Trajectory(p.book, p.dials, steps, p.horizon)
             other == [phase |-> "projecting", book |-> p.book, steps |-> steps, dials |-> p.dials,
                       dilution |-> 0, horizon |-> p.horizon, rows |-> rows]
  <2>1. other.steps = steps /\ other.rows = rows
    OBVIOUS
  <2> HIDE DEF other
  <2>2. PaysItsWay(p.steps[k], other.rows, Policies(Completed(other).blockers))
    BY <1>2, <1>3, <1>5, <2>1, EachStepPays
  <2>3. PaysItsWay(p.steps[k], rows, Policies(Completed(other).blockers))
    BY <2>1, <2>2
  <2> QED
    BY <1>3, <2>3 DEF other
<1> QED
  BY <1>4, <1>5 DEF CostsCostAndSavingsSave

\* A plan adds up: its cash is accounted for to the dollar however far the
\* projection is, whatever the books, the dials and the horizon, a step that only
\* costs never makes a month better, one that only saves never makes one worse,
\* and a raise never shortens the runway.
THEOREM PlansAlwaysAddUp == PlanSpec => []PlansAddUp
<1>1. PlanInv => PlansAddUp
  BY Accounted, CostsAndSavings DEF PlansAddUp
<1> QED
  BY <1>1, PlanInvAlways, PTL

(***************************************************************************)
(* What a criterion comes to.                                              *)
(***************************************************************************)
\* Digit by digit, what round(1000 * n / d) is.
LEMMA ThousandthsIs ==
    ASSUME NEW n \in Int, NEW d \in Int, d > 0
    PROVE  Thousandths(n, d) = Rounded(1000 * n, d)
<1> DEFINE q1 == (10 * n) \div d
           r1 == (10 * n) % d
           q2 == (10 * r1) \div d
           r2 == (10 * r1) % d
           q3 == (10 * r2) \div d
           s3 == (10 * r2) % d
           q  == 100 * q1 + 10 * q2 + q3
<1>1. \A m \in Int : /\ m \div d \in Int /\ m % d \in Int /\ 0 <= m % d /\ m % d < d
                     /\ m = d * (m \div d) + (m % d)
  OBVIOUS
<1>2. q1 \in Int /\ r1 \in Int /\ 10 * n = d * q1 + r1
  <2>1. 10 * n \in Int
    OBVIOUS
  <2> QED
    BY <1>1, <2>1
<1>3. q2 \in Int /\ r2 \in Int /\ 10 * r1 = d * q2 + r2
  <2>1. 10 * r1 \in Int
    BY <1>2
  <2> HIDE DEF r1
  <2> QED
    BY <1>1, <2>1
<1>4. q3 \in Int /\ s3 \in Int /\ 0 <= s3 /\ s3 < d /\ 10 * r2 = d * q3 + s3
  <2>1. 10 * r2 \in Int
    BY <1>3
  <2> HIDE DEF r2
  <2> QED
    BY <1>1, <2>1
<1>5. Thousandths(n, d) = IF 2 * s3 > d \/ (2 * s3 = d /\ q % 2 = 1) THEN q + 1 ELSE q
  BY DEF Thousandths
<1> HIDE DEF q1, r1, q2, r2, q3, s3
<1>6. q \in Int /\ d * q = 100 * (d * q1) + 10 * (d * q2) + d * q3
  BY <1>2, <1>3, <1>4
<1>7. d * q1 \in Int /\ d * q2 \in Int /\ d * q3 \in Int
  BY <1>2, <1>3, <1>4
<1> HIDE DEF q
<1>8. 1000 * n = d * q + s3
  BY <1>2, <1>3, <1>4, <1>6, <1>7
<1>9. (1000 * n) \div d = q /\ (1000 * n) % d = s3
  <2> DEFINE m == 1000 * n
             k == m \div d
             t == m % d
  <2>1. m \in Int /\ m = d * q + s3
    BY <1>8
  <2>2. k \in Int /\ t \in Int /\ 0 <= t /\ t < d /\ m = d * k + t
    BY <1>1, <2>1
  <2> HIDE DEF m, k, t
  <2>3. d * (k - q) = s3 - t
    BY <1>4, <1>6, <2>1, <2>2
  <2>4. k - q = 0
    <3> DEFINE e == k - q
    <3>1. e \in Int /\ d * e = s3 - t
      BY <1>6, <2>2, <2>3
    <3> HIDE DEF e
    <3>2. -d < d * e /\ d * e < d
      BY <1>4, <2>2, <3>1
    <3>3. ~(e >= 1) /\ ~(e <= -1)
      <4>1. ASSUME e >= 1 PROVE FALSE
        <5>1. d * (e - 1) >= 0 /\ d * (e - 1) = d * e - d /\ d * e \in Int
          BY <3>1, <4>1
        <5> QED
          BY <3>2, <5>1
      <4>2. ASSUME e <= -1 PROVE FALSE
        <5>1. d * (-1 - e) >= 0 /\ d * (-1 - e) = -d - d * e /\ d * e \in Int
          BY <3>1, <4>2
        <5> QED
          BY <3>2, <5>1
      <4> QED
        BY <4>1, <4>2
    <3>4. e = 0
      BY <3>1, <3>3
    <3> QED
      BY <3>4 DEF e
  <2>5. k = q /\ t = s3
    BY <1>4, <1>6, <2>1, <2>2, <2>4
  <2> QED
    BY <2>5 DEF k, t, m
<1> DEFINE m == 1000 * n
<1>10. Rounded(m, d) = IF 2 * s3 > d \/ (2 * s3 = d /\ q % 2 = 1) THEN q + 1 ELSE q
  BY <1>9 DEF Rounded
<1> QED
  BY <1>5, <1>10

LEMMA ThousandthsGrow ==
    ASSUME NEW n \in Int, NEW m \in Int, NEW d \in Int, d > 0, n <= m
    PROVE  /\ Thousandths(n, d) \in Int /\ Thousandths(m, d) \in Int
           /\ Thousandths(n, d) <= Thousandths(m, d)
<1> DEFINE a == 1000 * n
           b == 1000 * m
<1>1. a \in Int /\ b \in Int /\ a <= b
  OBVIOUS
<1>2. Thousandths(n, d) = Rounded(a, d) /\ Thousandths(m, d) = Rounded(b, d)
  BY ThousandthsIs
<1> HIDE DEF a, b
<1> QED
  BY <1>1, <1>2, RoundedType, RoundedGrows

\* Whole numbers, finitely many, have a greatest one.
LEMMA HighestIs ==
    ASSUME NEW S, IsFiniteSet(S), WholeNumbers(S), S # {}
    PROVE  Max(S) \in S /\ \A j \in S : j <= Max(S)
<1> DEFINE N == {-x : x \in S}
           f == [x \in S |-> -x]
<1>1. f \in Surjection(S, N)
  BY DEF Surjection
<1>2. IsFiniteSet(N)
  <2> HIDE DEF f, N
  <2> QED
    BY <1>1, FS_Surjection
<1>3. WholeNumbers(N) /\ N # {}
  <2>1. \A x \in S : x \in Int /\ -x \in Int
    BY DEF WholeNumbers
  <2>2. \A y \in N : y \in Int
    BY <2>1
  <2>3. N # {}
    OBVIOUS
  <2> HIDE DEF N
  <2> QED
    BY <2>2, <2>3 DEF WholeNumbers
<1>4. Min(N) \in N /\ \A j \in N : Min(N) <= j
  <2> HIDE DEF N
  <2> QED
    BY <1>2, <1>3, LowestIs
<1>5. PICK x \in S : Min(N) = -x
  BY <1>4
<1>6. \A j \in S : j \in Int
  BY DEF WholeNumbers
<1>7. ASSUME NEW j \in S PROVE j <= x
  <2>1. -x <= -j
    BY <1>4, <1>5
  <2> QED
    BY <1>6, <2>1
<1>8. \E y \in S : \A j \in S : j <= y
  BY <1>7
<1> QED
  BY <1>6, <1>8 DEF Max

\* A number for each of finitely many.
NumberedBy(values, D) == DOMAIN values = D /\ \A i \in D : values[i] \in Int

LEMMA ValuesAreWhole ==
    ASSUME NEW values, NEW D, IsFiniteSet(D), NumberedBy(values, D)
    PROVE  LET all == {values[i] : i \in DOMAIN values} IN IsFiniteSet(all) /\ WholeNumbers(all)
<1> DEFINE all == {values[i] : i \in DOMAIN values}
           f == [i \in D |-> values[i]]
<1>1. f \in Surjection(D, all)
  BY DEF Surjection, NumberedBy
<1>2. WholeNumbers(all)
  BY DEF WholeNumbers, NumberedBy
<1> HIDE DEF f, all
<1>3. IsFiniteSet(all)
  BY <1>1, FS_Surjection
<1> QED
  BY <1>2, <1>3 DEF all

LEMMA NormalizeGrows ==
    ASSUME NEW values, NEW D, IsFiniteSet(D), NumberedBy(values, D), NEW k \in D, NEW l \in D,
           NEW higher \in BOOLEAN, IF higher THEN values[k] >= values[l] ELSE values[k] <= values[l]
    PROVE  /\ Normalize(values, k, higher) \in Int /\ Normalize(values, l, higher) \in Int
           /\ Normalize(values, k, higher) >= Normalize(values, l, higher)
<1> DEFINE all == {values[i] : i \in DOMAIN values}
           lo == Min(all)
           hi == Max(all)
<1>1. IsFiniteSet(all) /\ WholeNumbers(all)
  BY ValuesAreWhole
<1>2. values[k] \in all /\ values[l] \in all
  BY DEF NumberedBy
<1>3. \A m \in D : Normalize(values, m, higher) =
                       IF hi = lo THEN 500
                       ELSE IF higher THEN Thousandths(values[m] - lo, hi - lo)
                       ELSE Thousandths(hi - values[m], hi - lo)
  BY DEF Normalize
<1> HIDE DEF all
<1>4. lo \in all /\ hi \in all /\ \A j \in all : lo <= j /\ j <= hi
  BY <1>1, <1>2, LowestIs, HighestIs
<1>5. lo \in Int /\ hi \in Int /\ values[k] \in Int /\ values[l] \in Int /\ lo <= hi
  BY <1>1, <1>2, <1>4 DEF WholeNumbers
<1> HIDE DEF lo, hi
<1>6. CASE hi = lo
  BY <1>3, <1>6
<1>7. CASE hi # lo /\ higher
  <2> DEFINE a == values[k] - lo
             b == values[l] - lo
             d == hi - lo
  <2>1. a \in Int /\ b \in Int /\ d \in Int /\ d > 0 /\ b <= a
    BY <1>5, <1>7
  <2>2. Normalize(values, k, higher) = Thousandths(a, d) /\ Normalize(values, l, higher) = Thousandths(b, d)
    BY <1>3, <1>7
  <2> HIDE DEF a, b, d
  <2> QED
    BY <2>1, <2>2, ThousandthsGrow
<1>8. CASE hi # lo /\ ~higher
  <2> DEFINE a == hi - values[k]
             b == hi - values[l]
             d == hi - lo
  <2>1. a \in Int /\ b \in Int /\ d \in Int /\ d > 0 /\ b <= a
    BY <1>5, <1>8
  <2>2. Normalize(values, k, higher) = Thousandths(a, d) /\ Normalize(values, l, higher) = Thousandths(b, d)
    BY <1>3, <1>8
  <2> HIDE DEF a, b, d
  <2> QED
    BY <2>1, <2>2, ThousandthsGrow
<1> QED
  BY <1>6, <1>7, <1>8

\* A sum of more is more.
LEMMA PartGrows ==
    ASSUME NEW S, IsFiniteSet(S), NEW f, NEW g, \A k \in S : f[k] \in Int /\ g[k] \in Int /\ f[k] <= g[k]
    PROVE  Part(f, S) \in Int /\ Part(g, S) \in Int /\ Part(f, S) <= Part(g, S)
<1> DEFINE e == [k \in S |-> g[k] - f[k]]
<1>1. \A k \in S : e[k] \in Int /\ e[k] >= 0 /\ f[k] \in Int /\ g[k] = f[k] + e[k]
  OBVIOUS
<1> HIDE DEF e
<1>2. Part(g, S) = Part(f, S) + Part(e, S)
  BY <1>1, PartPlus
<1>3. Part(e, S) \in Int /\ Part(e, S) >= 0
  BY <1>1, PartIsNatural
<1>4. Part(f, S) \in Int
  BY <1>1, PartType
<1> QED
  BY <1>2, <1>3, <1>4

(***************************************************************************)
(* What a playbook scores.                                                 *)
(***************************************************************************)
\* Whole numbers for every criterion.
Measured(metrics, D) == DOMAIN metrics = D /\ \A i \in D : \A c \in Criteria : metrics[i][c] \in Int

LEMMA CriteriaAre ==
    /\ Criteria = {"runway", "liquidity", "growth", "compliance", "efficiency", "dilution"}
    /\ IsFiniteSet(Criteria) /\ \A c \in Criteria : PORTFOLIO_WEIGHTS[c] \in Nat
<1>1. Criteria = {"runway", "liquidity", "growth", "compliance", "efficiency", "dilution"}
  BY DEF Criteria, PORTFOLIO_WEIGHTS
<1>2. IsFiniteSet(Criteria)
  <2>1. Criteria = {"runway"} \cup {"liquidity"} \cup {"growth"} \cup {"compliance"} \cup {"efficiency"}
                       \cup {"dilution"}
    BY <1>1
  <2> QED
    BY <2>1, FS_Singleton, FS_Union
<1>3. \A c \in Criteria : PORTFOLIO_WEIGHTS[c] \in Nat
  BY <1>1 DEF PORTFOLIO_WEIGHTS
<1> QED
  BY <1>1, <1>2, <1>3

LEMMA ScoreGrows ==
    ASSUME NEW metrics, NEW D, IsFiniteSet(D), Measured(metrics, D), NEW k \in D, NEW l \in D,
           AsGood(metrics[k], metrics[l])
    PROVE  Score(metrics, k) \in Int /\ Score(metrics, l) \in Int /\ Score(metrics, k) >= Score(metrics, l)
<1> DEFINE of(c) == [i \in DOMAIN metrics |-> metrics[i][c]]
           points(m) == [c \in Criteria |-> PORTFOLIO_WEIGHTS[c] * Normalize(of(c), m, c \in HigherIsBetter)]
<1>1. ASSUME NEW c \in Criteria
      PROVE  /\ points(l)[c] \in Int /\ points(k)[c] \in Int /\ points(l)[c] <= points(k)[c]
  <2> DEFINE higher == c \in HigherIsBetter
             a == Normalize(of(c), k, higher)
             b == Normalize(of(c), l, higher)
             w == PORTFOLIO_WEIGHTS[c]
  <2>1. NumberedBy(of(c), D)
    BY DEF NumberedBy, Measured
  <2>2. higher \in BOOLEAN
    OBVIOUS
  <2>3. IF higher THEN of(c)[k] >= of(c)[l] ELSE of(c)[k] <= of(c)[l]
    BY DEF Measured, AsGood
  <2>4. points(k)[c] = w * a /\ points(l)[c] = w * b
    OBVIOUS
  <2>5. w \in Nat
    BY CriteriaAre
  <2> HIDE DEF of, higher, w
  <2>6. a \in Int /\ b \in Int /\ b <= a
    BY <2>1, <2>2, <2>3, NormalizeGrows
  <2> HIDE DEF a, b, points
  <2>7. w * (a - b) >= 0 /\ w * (a - b) = w * a - w * b /\ w * a \in Int /\ w * b \in Int
    BY <2>5, <2>6
  <2> QED
    BY <2>4, <2>7
<1> DEFINE p == Part(points(k), Criteria)
           q == Part(points(l), Criteria)
<1>2. Score(metrics, k) = Rounded(p, 100) /\ Score(metrics, l) = Rounded(q, 100)
  <2>1. Sum(points(k)) = p /\ Sum(points(l)) = q
    BY DEF Part
  <2> QED
    BY <2>1 DEF Score
<1> HIDE DEF points
<1>3. p \in Int /\ q \in Int /\ q <= p
  BY <1>1, CriteriaAre, PartGrows
<1> HIDE DEF p, q
<1> QED
  BY <1>2, <1>3, RoundedType, RoundedGrows

(***************************************************************************)
(* The ranking.                                                            *)
(***************************************************************************)
\* What is ranked before i.
Before(scores, i) == {j \in DOMAIN scores : scores[j] > scores[i] \/ (scores[j] = scores[i] /\ j < i)}

LEMMA BeforeIs ==
    ASSUME NEW n \in Nat, NEW scores, NumberedBy(scores, 1..n), NEW i \in 1..n
    PROVE  IsFiniteSet(Before(scores, i)) /\ Cardinality(Before(scores, i)) \in 0..(n - 1)
<1>1. Before(scores, i) \in SUBSET ((1..n) \ {i})
  BY DEF Before, NumberedBy
<1>2. IsFiniteSet(1..n) /\ Cardinality(1..n) = n
  BY FS_Interval
<1>3. IsFiniteSet((1..n) \ {i}) /\ Cardinality((1..n) \ {i}) = n - 1
  BY <1>2, FS_RemoveElement
<1> DEFINE B == Before(scores, i)
<1> HIDE DEF B
<1>4. IsFiniteSet(B) /\ Cardinality(B) <= n - 1
  BY <1>1, <1>3, FS_Subset DEF B
<1>5. Cardinality(B) \in Nat
  BY <1>4, FS_CardinalityType
<1> QED
  BY <1>4, <1>5 DEF B

\* Whatever is before what is before i is before i.
LEMMA BeforeGrows ==
    ASSUME NEW n \in Nat, NEW scores, NumberedBy(scores, 1..n), NEW i \in 1..n, NEW j \in Before(scores, i)
    PROVE  Cardinality(Before(scores, j)) < Cardinality(Before(scores, i))
<1> DEFINE A == Before(scores, j)
           B == Before(scores, i)
<1>1. j \in 1..n /\ \A k \in 1..n : scores[k] \in Int
  BY DEF Before, NumberedBy
<1>2. A \in SUBSET (B \ {j}) /\ j \in B
  BY <1>1 DEF Before, NumberedBy
<1>3. IsFiniteSet(A) /\ IsFiniteSet(B) /\ Cardinality(A) \in Nat /\ Cardinality(B) \in Nat
  BY <1>1, BeforeIs
<1> HIDE DEF A, B
<1>4. IsFiniteSet(B \ {j}) /\ Cardinality(B \ {j}) = Cardinality(B) - 1
  BY <1>2, <1>3, FS_RemoveElement
<1>5. Cardinality(A) <= Cardinality(B \ {j})
  BY <1>2, <1>4, FS_Subset
<1>6. Cardinality(A) < Cardinality(B)
  BY <1>3, <1>4, <1>5
<1> QED
  BY <1>6 DEF A, B

LEMMA RankedIs ==
    ASSUME NEW n \in Nat, NEW scores, NumberedBy(scores, 1..n)
    PROVE  /\ DOMAIN Ranked(scores) = 1..n
           /\ \A rank \in 1..n : /\ Ranked(scores)[rank] \in 1..n
                                 /\ Cardinality(Before(scores, Ranked(scores)[rank])) = rank - 1
<1> DEFINE f == [i \in 1..n |-> Cardinality(Before(scores, i))]
<1>1. f \in [1..n -> 0..(n - 1)]
  BY BeforeIs
<1>2. \A i, j \in 1..n : i # j => f[i] # f[j]
  <2> SUFFICES ASSUME NEW i \in 1..n, NEW j \in 1..n, i # j PROVE f[i] # f[j]
    OBVIOUS
  <2>1. j \in Before(scores, i) \/ i \in Before(scores, j)
    BY DEF Before, NumberedBy
  <2>2. f[i] \in Int /\ f[j] \in Int
    BY <1>1
  <2>3. f[i] = Cardinality(Before(scores, i)) /\ f[j] = Cardinality(Before(scores, j))
    OBVIOUS
  <2> HIDE DEF f
  <2>4. CASE j \in Before(scores, i)
    BY <2>2, <2>3, <2>4, BeforeGrows
  <2>5. CASE i \in Before(scores, j)
    BY <2>2, <2>3, <2>5, BeforeGrows
  <2> QED
    BY <2>1, <2>4, <2>5
<1>3. f \in Injection(1..n, 0..(n - 1))
  <2> HIDE DEF f
  <2> QED
    BY <1>1, <1>2 DEF Injection, IsInjective
<1>4. IsFiniteSet(0..(n - 1)) /\ Cardinality(0..(n - 1)) = n /\ Cardinality(1..n) = n
  <2>1. Cardinality(1..n) = n
    BY FS_Interval
  <2>2. IsFiniteSet(0..(n - 1)) /\ Cardinality(0..(n - 1)) = IF 0 > n - 1 THEN 0 ELSE (n - 1) - 0 + 1
    <3>1. 0 \in Int /\ n - 1 \in Int
      OBVIOUS
    <3> QED
      BY <3>1, FS_Interval
  <2> QED
    BY <2>1, <2>2
<1>5. f \in Surjection(1..n, 0..(n - 1))
  <2> HIDE DEF f
  <2> QED
    BY <1>3, <1>4, FS_Injection
<1>6. ASSUME NEW rank \in 1..n
      PROVE  \E i \in 1..n : Cardinality(Before(scores, i)) = rank - 1
  <2>1. rank - 1 \in 0..(n - 1)
    OBVIOUS
  <2>2. \E i \in 1..n : f[i] = rank - 1
    <3> HIDE DEF f
    <3> QED
      BY <1>5, <2>1 DEF Surjection
  <2> QED
    BY <2>2
<1>7. Ranked(scores) = [rank \in 1..n |-> CHOOSE i \in 1..n : Cardinality(Before(scores, i)) = rank - 1]
  BY DEF Ranked, Before, NumberedBy
<1> HIDE DEF f
<1> QED
  BY <1>6, <1>7

\* Best first.
LEMMA RankedDescends ==
    ASSUME NEW n \in Nat, NEW scores, NumberedBy(scores, 1..n), NEW k \in 1..(n - 1)
    PROVE  scores[Ranked(scores)[k]] >= scores[Ranked(scores)[k + 1]]
<1> DEFINE a == Ranked(scores)[k]
           b == Ranked(scores)[k + 1]
<1>1. k \in 1..n /\ k + 1 \in 1..n
  OBVIOUS
<1>2. /\ a \in 1..n /\ Cardinality(Before(scores, a)) = k - 1
      /\ b \in 1..n /\ Cardinality(Before(scores, b)) = (k + 1) - 1
  BY <1>1, RankedIs
<1> HIDE DEF a, b
<1> SUFFICES ASSUME ~(scores[a] >= scores[b]) PROVE FALSE
  BY DEF a, b
<1>3. b \in Before(scores, a)
  BY <1>2 DEF Before, NumberedBy
<1>4. Cardinality(Before(scores, b)) < Cardinality(Before(scores, a))
  BY <1>2, <1>3, BeforeGrows
<1> QED
  BY <1>2, <1>4

(***************************************************************************)
(* What is measured of a plan.                                             *)
(***************************************************************************)
LEMMA ListOfAll ==
    ASSUME NEW n \in Nat, NEW s, DOMAIN s = 1..n, s = [i \in 1..n |-> s[i]]
    PROVE  IsList(s) /\ Len(s) = n /\ Each(s) = s
<1> DEFINE T == {s[i] : i \in 1..n}
<1>1. s \in [1..n -> T]
  OBVIOUS
<1>2. s \in Seq(T) /\ Len(s) = n
  <2> HIDE DEF T
  <2> QED
    BY <1>1
<1> HIDE DEF T
<1> DEFINE e == SubSeq(s, 1, n)
<1>3. e \in Seq(T) /\ Len(e) = n /\ \A i \in 1..n : e[i] = s[i]
  BY <1>2
<1> HIDE DEF e
<1>4. e = s
  BY <1>2, <1>3
<1> QED
  BY <1>2, <1>4 DEF IsList, Each, e

LEMMA SummaryIsWhole ==
    ASSUME NEW book, BookOK(book), NEW dials, DialsOK(dials), NEW steps, StepsOK(steps),
           NEW h \in Nat \ {0}, NEW rows, rows = Trajectory(book, dials, steps, h)
    PROVE  LET s == Summary(rows)
           IN  /\ s.minCash \in Int /\ s.endingArr \in Int /\ s.positive \in Int
               /\ s.lowestRunway # None => s.lowestRunway \in Int
<1>1. Projects(rows, book, dials, steps, h) /\ DOMAIN rows = 1..h /\ h \in Nat
  BY TrajectoryIs DEF Projects
<1>2. rows = [i \in 1..h |-> rows[i]]
  BY TrajectoryChosen
<1>3. Len(rows) = h
  BY <1>1, <1>2, ListOfAll
<1>4. \A i \in 1..h : /\ WholeMonth(rows[i]) /\ (rows[i].runway # None <=> rows[i].net > 0)
                      /\ (rows[i].net > 0 => rows[i].runway \in Int)
  BY <1>1, MonthsRun
<1> DEFINE cash == {rows[i].cash : i \in DOMAIN rows}
           burning == {k \in DOMAIN rows : rows[k].runway # None}
           run == {rows[i].runway : i \in burning}
           good == {i \in DOMAIN rows : rows[i].net <= 0}
<1>5. /\ Summary(rows).minCash = Min(cash) /\ Summary(rows).lowestRunway = Lowest(run)
      /\ Summary(rows).endingArr = 12 * rows[Len(rows)].mrr /\ Summary(rows).positive = First(good)
  BY DEF Summary, Burning
<1>6. IsFiniteSet(1..h)
  BY FS_Interval
<1>7. IsFiniteSet(cash) /\ IsFiniteSet(run)
  <2>1. [i \in 1..h |-> rows[i].cash] \in Surjection(1..h, cash)
    BY <1>1 DEF Surjection
  <2>2. IsFiniteSet(burning)
    BY <1>1, <1>6, FS_Subset
  <2>3. [i \in burning |-> rows[i].runway] \in Surjection(burning, run)
    BY DEF Surjection
  <2> HIDE DEF cash, burning, run
  <2> QED
    BY <1>6, <2>1, <2>2, <2>3, FS_Surjection
<1>8. WholeNumbers(cash) /\ cash # {} /\ WholeNumbers(run)
  BY <1>1, <1>4 DEF WholeNumbers, WholeMonth
<1>9. good \in SUBSET Nat
  BY <1>1
<1>10. rows[h].mrr \in Int
  BY <1>1, <1>4 DEF WholeMonth
<1> HIDE DEF cash, burning, run, good
<1>11. Min(cash) \in Int
  BY <1>7, <1>8, LowestIs DEF WholeNumbers
<1>12. Lowest(run) # None => Lowest(run) \in Int
  <2>1. run # {} => Min(run) \in run
    BY <1>7, <1>8, LowestIs
  <2> QED
    BY <1>8, <2>1 DEF Lowest, WholeNumbers
<1>13. First(good) \in Int
  <2>1. good # {} => Min(good) \in good
    BY <1>9, MinIs
  <2>2. First(good) = IF good = {} THEN 0 ELSE Min(good)
    BY DEF First
  <2>3. \A j \in good : j \in Int
    BY <1>9
  <2> QED
    BY <2>1, <2>2, <2>3
<1> QED
  BY <1>3, <1>5, <1>10, <1>11, <1>12, <1>13

LEMMA FewBlockers ==
    ASSUME NEW condition, NEW policy, NEW severity, NEW step
    PROVE  IsFiniteSet(BlockerIf(condition, policy, severity, step))
  BY FS_Singleton, FS_EmptySet DEF BlockerIf

LEMMA BlockersAreFew ==
    ASSUME NEW p, StepsOK(p.steps), NEW s, NEW c
    PROVE  IsFiniteSet(PolicyBlockers(p, s, c))
<1> DEFINE D == DOMAIN p.steps
           F == {SpendBlockers(p.steps[k], k) : k \in D}
           Tied(k) == BlockerIf(p.steps[k].kind = "hire" /\ p.steps[k].revenue = 0 /\ ~p.steps[k].tied,
                                "headcount", "warning", k)
           G == {Tied(k) : k \in D}
           covered == c.raise # 0 /\ c.close <= s.floor
           A == BlockerIf(s.floor # 0, "runway_guardrail", IF covered THEN "warning" ELSE "high", 0)
           B == BlockerIf(s.buffer # 0, "cash_buffer", "high", 0)
           C == BlockerIf(s.insolvent # 0, "solvency", "critical", 0)
<1>1. PolicyBlockers(p, s, c) = A \cup B \cup C \cup (UNION F) \cup (UNION G)
  BY DEF PolicyBlockers
<1>2. IsFiniteSet(D)
  BY DEF StepsOK
<1>3. IsFiniteSet(A) /\ IsFiniteSet(B) /\ IsFiniteSet(C)
  BY FewBlockers
<1>4. IsFiniteSet(UNION F)
  <2>1. [k \in D |-> SpendBlockers(p.steps[k], k)] \in Surjection(D, F)
    BY DEF Surjection
  <2>2. IsFiniteSet(F)
    <3> HIDE DEF D, F
    <3> QED
      BY <1>2, <2>1, FS_Surjection
  <2>3. \A k : IsFiniteSet(SpendBlockers(p.steps[k], k))
    BY FewBlockers, FS_Union DEF SpendBlockers
  <2>4. \A T \in F : IsFiniteSet(T)
    BY <2>3
  <2> HIDE DEF F
  <2> QED
    BY <2>2, <2>4, FS_UNION
<1>5. IsFiniteSet(UNION G)
  <2>1. [k \in D |-> Tied(k)] \in Surjection(D, G)
    BY DEF Surjection
  <2>2. IsFiniteSet(G)
    <3> HIDE DEF D, G
    <3> QED
      BY <1>2, <2>1, FS_Surjection
  <2>3. \A k : IsFiniteSet(Tied(k))
    BY FewBlockers
  <2>4. \A T \in G : IsFiniteSet(T)
    <3> HIDE DEF Tied
    <3> QED
      BY <2>3
  <2> HIDE DEF G
  <2> QED
    BY <2>2, <2>4, FS_UNION
<1> HIDE DEF A, B, C, F, G
<1>6. IsFiniteSet(A \cup B \cup C \cup (UNION F) \cup (UNION G))
  BY <1>3, <1>4, <1>5, FS_Union
<1> QED
  BY <1>1, <1>6

\* Whole numbers for each criterion.
MetricsOK(m) == \A c \in Criteria : m[c] \in Int

LEMMA MetricsAreWhole ==
    ASSUME NEW id \in DOMAIN PLAYBOOKS, NEW book \in Books, NEW h \in Horizons
    PROVE  MetricsOK(Metrics(Built(Draft(PLAYBOOKS[id], book, NoDials, h))))
<1> DEFINE draft == Draft(PLAYBOOKS[id], book, NoDials, h)
           rows == Trajectory(draft.book, draft.dials, draft.steps, draft.horizon)
           q == [draft EXCEPT !.rows = rows]
           p == Built(draft)
           s == Summary(rows)
           capital == CapitalPlan(q, s)
<1>1. Adequate(draft)
  <2>1. PlaybookOK(PLAYBOOKS[id]) /\ Numbers(NoDials)
    BY PlaybooksAreOK DEF Numbers, NoDials
  <2> QED
    BY <2>1, DraftIsAdequate
<1>2. /\ BookOK(draft.book) /\ DialsOK(draft.dials) /\ StepsOK(draft.steps) /\ draft.horizon \in Nat \ {0}
  <2> HIDE DEF draft
  <2> QED
    BY <1>1 DEF Adequate
<1>3. draft.dilution \in Int
  <2>1. draft.dilution = PLAYBOOKS[id].dilution
    BY DEF Draft
  <2>2. PLAYBOOKS[id].dilution \in Int
    BY SMT DEF PLAYBOOKS, Playbook
  <2> QED
    BY <2>1, <2>2
<1>4. q.dilution = draft.dilution /\ q.rows = rows /\ q.steps = draft.steps /\ q.horizon = draft.horizon
  BY DEF Draft
<1>5. p = Completed(q)
  BY DEF Built
<1> HIDE DEF draft, q, p, rows
<1>6. /\ s.minCash \in Int /\ s.endingArr \in Int /\ s.positive \in Int
      /\ s.lowestRunway # None => s.lowestRunway \in Int
  BY <1>2, SummaryIsWhole DEF rows
<1>7. /\ p.summary = s /\ p.capital = capital /\ p.horizon = draft.horizon
      /\ p.blockers = PolicyBlockers(q, s, capital)
  BY <1>4, <1>5 DEF Completed, Finished
<1>8. capital.dilution \in Int
  <2>1. capital.dilution \in {0, q.dilution}
    BY DEF CapitalPlan
  <2> QED
    BY <1>3, <1>4, <2>1
<1>9. IsFiniteSet(p.blockers)
  BY <1>2, <1>4, <1>7, BlockersAreFew
<1> DEFINE load == [b \in p.blockers |-> SeverityWeight(b.severity)]
<1>10. Sum(load) \in Int
  <2>1. Sum(load) = Part(load, p.blockers)
    BY DEF Part
  <2>2. \A b \in p.blockers : load[b] \in Int
    BY DEF SeverityWeight
  <2> HIDE DEF load
  <2> QED
    BY <1>9, <2>1, <2>2, PartType
<1> DEFINE m == Metrics(p)
<1>11. /\ m.runway = (IF s.lowestRunway = None THEN 30 * p.horizon ELSE s.lowestRunway)
       /\ m.liquidity = s.minCash /\ m.growth = s.endingArr /\ m.compliance = Sum(load)
       /\ m.efficiency = (IF s.positive = 0 THEN p.horizon + 1 ELSE s.positive)
       /\ m.dilution = capital.dilution
  BY <1>7 DEF Metrics
<1> HIDE DEF s, capital, load, m
<1>12. /\ m.runway \in Int /\ m.liquidity \in Int /\ m.growth \in Int /\ m.compliance \in Int
       /\ m.efficiency \in Int /\ m.dilution \in Int
  BY <1>2, <1>6, <1>7, <1>8, <1>10, <1>11
<1>13. MetricsOK(m)
  BY <1>12, CriteriaAre DEF MetricsOK
<1> QED
  BY <1>13 DEF m, p, draft

(***************************************************************************)
(* What is recommended.                                                    *)
(***************************************************************************)
\* What each pick weighs before the weights are made a whole.
Weighs(k) == IF k = 1 THEN 60 ELSE 20
PicksOf(list, m) ==
    /\ DOMAIN list = 1..m /\ Len(list) = m
    /\ \A k \in 1..m : list[k] = Pick(list[k].id, list[k].role, Weighs(k))

Whole(list) == [k \in DOMAIN list |-> [list[k] EXCEPT !.weight = Rounded(100 * @, 60 + 20 * (Len(list) - 1))]]

LEMMA WeightsAre ==
    /\ Rounded(100 * 60, 60) = 100
    /\ Rounded(100 * 60, 80) = 75 /\ Rounded(100 * 20, 80) = 25
    /\ Rounded(100 * 60, 100) = 60 /\ Rounded(100 * 20, 100) = 20
  BY SMT DEF Rounded

LEMMA SumsOfFew ==
    ASSUME NEW f
    PROVE  /\ f[1] \in Int => Part(f, 1..1) = f[1]
           /\ f[1] \in Int /\ f[2] \in Int => Part(f, 1..2) = f[1] + f[2]
           /\ f[1] \in Int /\ f[2] \in Int /\ f[3] \in Int => Part(f, 1..3) = f[1] + f[2] + f[3]
<1>1. IsFiniteSet(1..1) /\ IsFiniteSet(1..2) /\ IsFiniteSet(1..3)
  <2>1. \A n \in Nat : IsFiniteSet(1..n)
    BY FS_Interval
  <2> QED
    BY <2>1
<1>2. (1..1) \ {1} = {} /\ (1..2) \ {2} = 1..1 /\ (1..3) \ {3} = 1..2
  OBVIOUS
<1>3. ASSUME f[1] \in Int PROVE Part(f, 1..1) = f[1]
  <2>1. Part(f, 1..1) = f[1] + Part(f, (1..1) \ {1})
    <3>1. 1 \in 1..1 /\ \A k \in 1..1 : f[k] \in Int
      BY <1>3
    <3> QED
      BY <1>1, <3>1, PartWithout
  <2> QED
    BY <1>2, <1>3, <2>1, PartOfNone
<1>4. ASSUME f[1] \in Int, f[2] \in Int PROVE Part(f, 1..2) = f[1] + f[2]
  <2>1. Part(f, 1..2) = f[2] + Part(f, (1..2) \ {2})
    <3>1. 2 \in 1..2 /\ \A k \in 1..2 : f[k] \in Int
      BY <1>4
    <3> QED
      BY <1>1, <3>1, PartWithout
  <2>2. Part(f, (1..2) \ {2}) = f[1]
    BY <1>2, <1>3, <1>4
  <2> QED
    BY <1>4, <2>1, <2>2
<1>5. ASSUME f[1] \in Int, f[2] \in Int, f[3] \in Int PROVE Part(f, 1..3) = f[1] + f[2] + f[3]
  <2>1. Part(f, 1..3) = f[3] + Part(f, (1..3) \ {3})
    <3>1. 3 \in 1..3 /\ \A k \in 1..3 : f[k] \in Int
      BY <1>5
    <3> QED
      BY <1>1, <3>1, PartWithout
  <2>2. Part(f, (1..3) \ {3}) = f[1] + f[2]
    BY <1>2, <1>4, <1>5
  <2> QED
    BY <1>5, <2>1, <2>2
<1> QED
  BY <1>3, <1>4, <1>5

\* The same picks, and weights that are a whole.
MadeWhole(picks, list, m) ==
    /\ DOMAIN picks = 1..m
    /\ \A k \in 1..m : picks[k].id = list[k].id /\ picks[k].role = list[k].role
    /\ Sum([k \in DOMAIN picks |-> picks[k].weight]) = 100

LEMMA MadeWholeIs ==
    ASSUME NEW list, NEW m \in 1..3, PicksOf(list, m)
    PROVE  MadeWhole(Whole(list), list, m)
<1> DEFINE total == 60 + 20 * (m - 1)
           w == [k \in DOMAIN Whole(list) |-> Whole(list)[k].weight]
<1>1. DOMAIN Whole(list) = 1..m
  BY DEF Whole, PicksOf
<1>2. \A k \in 1..m : /\ Whole(list)[k].id = list[k].id /\ Whole(list)[k].role = list[k].role
                      /\ Whole(list)[k].weight = Rounded(100 * Weighs(k), total)
  <2> SUFFICES ASSUME NEW k \in 1..m
               PROVE  /\ Whole(list)[k].id = list[k].id /\ Whole(list)[k].role = list[k].role
                      /\ Whole(list)[k].weight = Rounded(100 * Weighs(k), total)
    OBVIOUS
  <2>1. Whole(list)[k] = [list[k] EXCEPT !.weight = Rounded(100 * list[k].weight, total)]
    BY DEF Whole, PicksOf
  <2>2. \A i, r, v, u : LET a == [Pick(i, r, v) EXCEPT !.weight = u]
                        IN  a.id = i /\ a.role = r /\ a.weight = u
    BY DEF Pick
  <2>3. list[k] = Pick(list[k].id, list[k].role, Weighs(k)) /\ list[k].weight = Weighs(k)
    BY DEF PicksOf, Pick
  <2> HIDE DEF total
  <2> QED
    BY <2>1, <2>2, <2>3
<1>3. \A k \in 1..m : w[k] = Rounded(100 * Weighs(k), total)
  BY <1>1, <1>2
<1>4. Sum(w) = Part(w, 1..m)
  BY <1>1 DEF Part
<1> HIDE DEF w
<1>5. Sum(w) = 100
  <2>1. CASE m = 1
    <3>1. w[1] = 100
      BY <1>3, <2>1, WeightsAre DEF Weighs
    <3> QED
      BY <1>4, <2>1, <3>1, SumsOfFew
  <2>2. CASE m = 2
    <3>1. w[1] = 75 /\ w[2] = 25
      BY <1>3, <2>2, WeightsAre DEF Weighs
    <3> QED
      BY <1>4, <2>2, <3>1, SumsOfFew
  <2>3. CASE m = 3
    <3>1. w[1] = 60 /\ w[2] = 20 /\ w[3] = 20
      BY <1>3, <2>3, WeightsAre DEF Weighs
    <3> QED
      BY <1>4, <2>3, <3>1, SumsOfFew
  <2> QED
    BY <2>1, <2>2, <2>3
<1> QED
  BY <1>1, <1>2, <1>5 DEF w, MadeWhole

Breaching(p) == p.summary.floor # 0 \/ p.summary.buffer # 0

\* A choice among ids whose best is ids[best], which breaches a guardrail or not.
IsChoice(picks, ids, best, breaching) ==
    /\ \A k \in DOMAIN picks : picks[k].id \in Range(ids)
    /\ \A k, l \in DOMAIN picks : picks[k].id = picks[l].id => k = l
    /\ Sum([k \in DOMAIN picks |-> picks[k].weight]) = 100
    /\ breaching /\ (\A k \in DOMAIN picks : picks[k].role # "stabilizer") =>
           Range(ids) \cap {"financing_bridge", "extend_runway"} \subseteq {ids[best]}

Offered(id, ids, best) == id \in Range(ids) /\ id # ids[best]

\* m picks that are a choice but for their weights.
ListOK(list, m, ids, best, breaching) ==
    /\ PicksOf(list, m)
    /\ \A k \in 1..m : list[k].id \in Range(ids)
    /\ \A k, l \in 1..m : list[k].id = list[l].id => k = l
    /\ breaching /\ (\A k \in 1..m : list[k].role # "stabilizer") =>
           ~Offered("financing_bridge", ids, best) /\ ~Offered("extend_runway", ids, best)

LEMMA ChoiceOf ==
    ASSUME NEW ids, NEW best \in DOMAIN ids, NEW breaching, NEW list, NEW m \in 1..3,
           ListOK(list, m, ids, best, breaching)
    PROVE  IsChoice(Whole(list), ids, best, breaching)
<1> DEFINE picks == Whole(list)
<1>1. MadeWhole(picks, list, m)
  BY MadeWholeIs DEF ListOK
<1>2. ~Offered("financing_bridge", ids, best) /\ ~Offered("extend_runway", ids, best) =>
          Range(ids) \cap {"financing_bridge", "extend_runway"} \subseteq {ids[best]}
  BY DEF Offered
<1> HIDE DEF picks
<1>3. IsChoice(picks, ids, best, breaching)
  BY <1>1, <1>2 DEF ListOK, MadeWhole, IsChoice
<1> QED
  BY <1>3 DEF picks

LEMMA Joined ==
    ASSUME NEW x, NEW y, NEW z
    PROVE  /\ LET l == <<x>> \o <<>> \o <<>> IN DOMAIN l = 1..1 /\ Len(l) = 1 /\ l[1] = x
           /\ LET l == <<x>> \o <<y>> \o <<>> IN DOMAIN l = 1..2 /\ Len(l) = 2 /\ l[1] = x /\ l[2] = y
           /\ LET l == <<x>> \o <<>> \o <<z>> IN DOMAIN l = 1..2 /\ Len(l) = 2 /\ l[1] = x /\ l[2] = z
           /\ LET l == <<x>> \o <<y>> \o <<z>>
              IN  DOMAIN l = 1..3 /\ Len(l) = 3 /\ l[1] = x /\ l[2] = y /\ l[3] = z
<1> DEFINE T == {x, y, z}
<1>1. <<x>> \in Seq(T) /\ <<y>> \in Seq(T) /\ <<z>> \in Seq(T) /\ <<>> \in Seq(T)
  OBVIOUS
<1>2. Len(<<x>>) = 1 /\ Len(<<y>>) = 1 /\ Len(<<z>>) = 1 /\ <<x>>[1] = x /\ <<y>>[1] = y /\ <<z>>[1] = z
  OBVIOUS
<1> DEFINE p == <<x>>
           q == <<y>>
           r == <<z>>
           e == <<>>
<1>3. p \in Seq(T) /\ q \in Seq(T) /\ r \in Seq(T) /\ e \in Seq(T)
  BY <1>1
<1>4. Len(p) = 1 /\ Len(q) = 1 /\ Len(r) = 1 /\ p[1] = x /\ q[1] = y /\ r[1] = z
  BY <1>2
<1>5. p \o e = p /\ (p \o q) \o e = p \o q
  <2>1. p \o q \in Seq(T)
    BY <1>3, ConcatProperties
  <2> QED
    BY <1>3, <2>1, ConcatEmptySeq
<1> HIDE DEF T, p, q, r, e
<1>6. \A u, v \in Seq(T) : /\ u \o v \in Seq(T) /\ Len(u \o v) = Len(u) + Len(v)
                           /\ \A i \in 1..(Len(u) + Len(v)) :
                                  (u \o v)[i] = IF i <= Len(u) THEN u[i] ELSE v[i - Len(u)]
  BY ConcatProperties
<1>7. \A u \in Seq(T) : DOMAIN u = 1..Len(u)
  OBVIOUS
<1>8. DOMAIN p = 1..1 /\ Len(p) = 1 /\ p[1] = x
  BY <1>3, <1>4, <1>7
<1>9. LET l == p \o q IN l \in Seq(T) /\ DOMAIN l = 1..2 /\ Len(l) = 2 /\ l[1] = x /\ l[2] = y
  <2> DEFINE l == p \o q
  <2>1. /\ l \in Seq(T) /\ Len(l) = 2 /\ \A i \in 1..2 : l[i] = IF i <= 1 THEN p[i] ELSE q[i - 1]
    <3>1. /\ p \o q \in Seq(T) /\ Len(p \o q) = Len(p) + Len(q)
          /\ \A i \in 1..(Len(p) + Len(q)) : (p \o q)[i] = IF i <= Len(p) THEN p[i] ELSE q[i - Len(p)]
      BY <1>3, <1>6
    <3>2. Len(p) = 1 /\ Len(p) + Len(q) = 2
      BY <1>4
    <3> QED
      BY <3>1, <3>2
  <2> HIDE DEF l
  <2>2. DOMAIN l = 1..2
    BY <1>7, <2>1
  <2>3. l[1] = x /\ l[2] = y
    BY <1>4, <2>1
  <2> QED
    BY <2>1, <2>2, <2>3 DEF l
<1>10. LET l == p \o r IN DOMAIN l = 1..2 /\ Len(l) = 2 /\ l[1] = x /\ l[2] = z
  <2> DEFINE l == p \o r
  <2>1. /\ l \in Seq(T) /\ Len(l) = 2 /\ \A i \in 1..2 : l[i] = IF i <= 1 THEN p[i] ELSE r[i - 1]
    <3>1. /\ p \o r \in Seq(T) /\ Len(p \o r) = Len(p) + Len(r)
          /\ \A i \in 1..(Len(p) + Len(r)) : (p \o r)[i] = IF i <= Len(p) THEN p[i] ELSE r[i - Len(p)]
      BY <1>3, <1>6
    <3>2. Len(p) = 1 /\ Len(p) + Len(r) = 2
      BY <1>4
    <3> QED
      BY <3>1, <3>2
  <2> HIDE DEF l
  <2>2. DOMAIN l = 1..2
    BY <1>7, <2>1
  <2>3. l[1] = x /\ l[2] = z
    BY <1>4, <2>1
  <2> QED
    BY <2>1, <2>2, <2>3 DEF l
<1>11. LET l == (p \o q) \o r IN DOMAIN l = 1..3 /\ Len(l) = 3 /\ l[1] = x /\ l[2] = y /\ l[3] = z
  <2> DEFINE k == p \o q
             l == k \o r
  <2>1. k \in Seq(T) /\ Len(k) = 2 /\ k[1] = x /\ k[2] = y
    BY <1>9
  <2> HIDE DEF k
  <2>2. /\ l \in Seq(T) /\ Len(l) = 3 /\ \A i \in 1..3 : l[i] = IF i <= 2 THEN k[i] ELSE r[i - 2]
    <3>1. r \in Seq(T) /\ Len(r) = 1
      BY <1>3, <1>4
    <3>2. /\ k \o r \in Seq(T) /\ Len(k \o r) = Len(k) + Len(r)
          /\ \A i \in 1..(Len(k) + Len(r)) : (k \o r)[i] = IF i <= Len(k) THEN k[i] ELSE r[i - Len(k)]
      BY <1>6, <2>1, <3>1
    <3>3. Len(k) + Len(r) = 3
      BY <2>1, <3>1
    <3> QED
      BY <2>1, <3>2, <3>3
  <2> HIDE DEF l
  <2>3. DOMAIN l = 1..3
    BY <1>7, <2>2
  <2>4. l[1] = x /\ l[2] = y /\ l[3] = z
    BY <1>4, <2>1, <2>2
  <2> QED
    BY <2>2, <2>3, <2>4 DEF k, l
<1>12. (p \o e) \o e = p
  BY <1>5
<1> QED
  BY <1>5, <1>8, <1>9, <1>10, <1>11, <1>12 DEF p, q, r, e

LEMMA RecommendIs ==
    ASSUME NEW ids, NEW best \in DOMAIN ids, NEW made
    PROVE  IsChoice(Recommend(ids, best, made), ids, best, Breaching(made[best]))
<1> DEFINE offered(id) == Offered(id, ids, best)
           breaches == Breaching(made[best])
           a == Pick(ids[best], "primary", 60)
           s == Pick("renegotiate_vendors", "no_regret", 20)
           b == Pick("financing_bridge", "stabilizer", 20)
           e == Pick("extend_runway", "stabilizer", 20)
           savings == IF offered("renegotiate_vendors") THEN <<s>> ELSE <<>>
           steady == CASE breaches /\ offered("financing_bridge") -> <<b>>
                       [] breaches /\ ~offered("financing_bridge") /\ offered("extend_runway") -> <<e>>
                       [] OTHER -> <<>>
           list == <<a>> \o savings \o steady
<1>1. Recommend(ids, best, made) = Whole(list)
  BY DEF Recommend, Whole, Breaching, Offered
<1>2. /\ a.id = ids[best] /\ a.role = "primary" /\ a = Pick(a.id, a.role, 60)
      /\ s.id = "renegotiate_vendors" /\ s.role = "no_regret" /\ s = Pick(s.id, s.role, 20)
      /\ b.id = "financing_bridge" /\ b.role = "stabilizer" /\ b = Pick(b.id, b.role, 20)
      /\ e.id = "extend_runway" /\ e.role = "stabilizer" /\ e = Pick(e.id, e.role, 20)
  BY DEF Pick
<1>3. ids[best] \in Range(ids)
  BY DEF Range
<1>4. (savings = <<s>> /\ offered("renegotiate_vendors")) \/ savings = <<>>
  OBVIOUS
<1>5. \/ steady = <<b>> /\ offered("financing_bridge")
      \/ steady = <<e>> /\ offered("extend_runway")
      \/ steady = <<>> /\ (breaches => ~offered("financing_bridge") /\ ~offered("extend_runway"))
  OBVIOUS
<1>6. \A id : offered(id) => id \in Range(ids) /\ id # ids[best]
  BY DEF Offered
<1> DEFINE steadies(x) == x \in {b, e} /\ offered(x.id)
<1>7. \A x : steadies(x) => /\ x.id \in Range(ids) /\ x.id # ids[best] /\ x.id # "renegotiate_vendors"
                            /\ x.role = "stabilizer" /\ x = Pick(x.id, x.role, 20)
  <2> HIDE DEF a, s, b, e, offered
  <2> QED
    BY <1>2, <1>6
<1>8. (\E x : steady = <<x>> /\ steadies(x))
          \/ (steady = <<>> /\ (breaches => ~offered("financing_bridge") /\ ~offered("extend_runway")))
  <2> HIDE DEF a, s, b, e, offered, steady, breaches
  <2> QED
    BY <1>2, <1>5
<1> HIDE DEF a, s, b, e, savings, steady, breaches, steadies
<1> DEFINE shown == \E m \in 1..3 : ListOK(list, m, ids, best, breaches)
<1>9. ASSUME savings = <<>>, steady = <<>> PROVE shown
  <2>1. DOMAIN list = 1..1 /\ Len(list) = 1 /\ list[1] = a
    BY <1>9, Joined
  <2> HIDE DEF list
  <2>2. ListOK(list, 1, ids, best, breaches)
    BY <1>2, <1>3, <1>8, <1>9, <2>1 DEF ListOK, PicksOf, Weighs
  <2> QED
    BY <2>2
<1>10. ASSUME savings = <<s>>, offered("renegotiate_vendors"), steady = <<>> PROVE shown
  <2>1. DOMAIN list = 1..2 /\ Len(list) = 2 /\ list[1] = a /\ list[2] = s
    BY <1>10, Joined
  <2> HIDE DEF list, offered
  <2>2. ListOK(list, 2, ids, best, breaches)
    BY <1>2, <1>3, <1>6, <1>8, <1>10, <2>1 DEF ListOK, PicksOf, Weighs, offered
  <2> QED
    BY <2>2
<1>11. ASSUME NEW x, savings = <<>>, steady = <<x>>, steadies(x) PROVE shown
  <2>1. DOMAIN list = 1..2 /\ Len(list) = 2 /\ list[1] = a /\ list[2] = x
    BY <1>11, Joined
  <2> HIDE DEF list, offered
  <2>2. ListOK(list, 2, ids, best, breaches)
    BY <1>2, <1>3, <1>7, <1>11, <2>1 DEF ListOK, PicksOf, Weighs
  <2> QED
    BY <2>2
<1>12. ASSUME NEW x, savings = <<s>>, offered("renegotiate_vendors"), steady = <<x>>, steadies(x) PROVE shown
  <2>1. DOMAIN list = 1..3 /\ Len(list) = 3 /\ list[1] = a /\ list[2] = s /\ list[3] = x
    BY <1>12, Joined
  <2> HIDE DEF list, offered
  <2>2. ListOK(list, 3, ids, best, breaches)
    BY <1>2, <1>3, <1>6, <1>7, <1>12, <2>1 DEF ListOK, PicksOf, Weighs
  <2> QED
    BY <2>2
<1> HIDE DEF list, offered
<1>13. PICK m \in 1..3 : ListOK(list, m, ids, best, breaches)
  BY <1>4, <1>8, <1>9, <1>10, <1>11, <1>12
<1>14. IsChoice(Whole(list), ids, best, breaches)
  BY <1>13, ChoiceOf
<1> QED
  BY <1>1, <1>14 DEF breaches

(***************************************************************************)
(* What a comparison says.                                                 *)
(***************************************************************************)
\* TheBestIsNotBeaten and ThePortfolioIsAChoice, of one comparison.
NotBeaten(c) ==
    /\ \A i, j \in DOMAIN c.ids : AsGood(c.metrics[i], c.metrics[j]) => c.scores[i] >= c.scores[j]
    /\ \A k \in 1..(Len(c.ranking) - 1) : c.scores[c.ranking[k]] >= c.scores[c.ranking[k + 1]]
AChoice(c) == IsChoice(c.picks, c.ids, c.ranking[1], c.breaches[c.ranking[1]])

LEMMA MeasuredScores ==
    ASSUME NEW n \in Nat \ {0}, NEW ids, DOMAIN ids = 1..n, NEW made, NEW metrics, Measured(metrics, 1..n)
    PROVE  NotBeaten(Scored(ids, made, metrics)) /\ AChoice(Scored(ids, made, metrics))
<1> DEFINE given == [k \in DOMAIN ids |-> Score(metrics, k)]
           scores == Each(given)
           ranking == Ranked(scores)
           c == Scored(ids, made, metrics)
<1>1. IsFiniteSet(1..n)
  BY FS_Interval
<1>2. ASSUME NEW i \in 1..n, NEW j \in 1..n, AsGood(metrics[i], metrics[j])
      PROVE  Score(metrics, i) >= Score(metrics, j)
  BY <1>1, <1>2, ScoreGrows
<1>3. ASSUME NEW i \in 1..n PROVE Score(metrics, i) \in Int
  <2>1. AsGood(metrics[i], metrics[i])
    BY DEF AsGood, Measured
  <2> QED
    BY <1>1, <2>1, ScoreGrows
<1>4. DOMAIN given = 1..n /\ given = [k \in 1..n |-> given[k]]
  OBVIOUS
<1>5. scores = given
  <2> HIDE DEF given
  <2> QED
    BY <1>4, ListOfAll
<1>6. \A k \in 1..n : scores[k] = Score(metrics, k)
  BY <1>5
<1>7. NumberedBy(scores, 1..n)
  BY <1>3, <1>4, <1>5, <1>6 DEF NumberedBy
<1>8. c = Comparison(ids, made, metrics, scores, ranking)
  BY DEF Scored
<1> HIDE DEF given, scores, c
<1>9. DOMAIN ranking = 1..n /\ \A rank \in 1..n : ranking[rank] \in 1..n
  BY <1>7, RankedIs
<1>10. Len(ranking) = n
  <2>1. ranking = [k \in 1..n |-> ranking[k]]
    <3> DEFINE chosen(rank) == CHOOSE i \in 1..n : Cardinality(Before(scores, i)) = rank - 1
    <3>1. ranking = [rank \in 1..n |-> chosen(rank)]
      BY <1>7 DEF Ranked, Before, NumberedBy
    <3> HIDE DEF chosen, ranking
    <3> QED
      BY <3>1
  <2> HIDE DEF ranking
  <2> QED
    BY <1>9, <2>1, ListOfAll
<1>11. \A k \in 1..(n - 1) : scores[ranking[k]] >= scores[ranking[k + 1]]
  BY <1>7, RankedDescends
<1> HIDE DEF ranking
<1>12. /\ c.ids = ids /\ c.metrics = metrics /\ c.scores = scores /\ c.ranking = ranking
       /\ c.picks = Recommend(ids, ranking[1], made)
       /\ c.breaches = [k \in DOMAIN ids |-> Breaching(made[k])]
  BY <1>8 DEF Comparison, Breaching
<1>13. NotBeaten(c)
  BY <1>2, <1>6, <1>10, <1>11, <1>12 DEF NotBeaten
<1>14. ranking[1] \in DOMAIN ids
  BY <1>9
<1>15. c.breaches[ranking[1]] = Breaching(made[ranking[1]])
  BY <1>12, <1>14
<1>16. AChoice(c)
  <2> DEFINE best == ranking[1]
             picks == Recommend(ids, best, made)
  <2>1. IsChoice(picks, ids, best, Breaching(made[best]))
    BY <1>14, RecommendIs
  <2>2. c.picks = picks /\ c.ids = ids /\ c.ranking[1] = best /\ c.breaches[c.ranking[1]] = Breaching(made[best])
    BY <1>12, <1>15
  <2> HIDE DEF best, picks
  <2> QED
    BY <2>1, <2>2 DEF AChoice
<1> QED
  BY <1>13, <1>16 DEF c

LEMMA ComparedIs ==
    ASSUME NEW ids \in Requests, NEW book \in Books, NEW h \in Horizons
    PROVE  NotBeaten(Compared(ids, book, h)) /\ AChoice(Compared(ids, book, h))
<1> DEFINE made == Each([k \in DOMAIN ids |-> Built(Draft(PLAYBOOKS[ids[k]], book, NoDials, h))])
           n == Len(ids)
           built(k) == Built(Draft(PLAYBOOKS[ids[k]], book, NoDials, h))
           all == [k \in 1..n |-> built(k)]
           given == [k \in 1..n |-> Metrics(made[k])]
           metrics == Each(given)
<1>1. n \in Nat \ {0} /\ DOMAIN ids = 1..n /\ \A k \in 1..n : ids[k] \in DOMAIN PLAYBOOKS
  <2>1. ids \in Seq(DOMAIN PLAYBOOKS) /\ ids # <<>>
    BY PortfolioAssumption
  <2> DEFINE D == DOMAIN PLAYBOOKS
  <2> HIDE DEF D
  <2> QED
    BY <2>1 DEF D
<1> HIDE DEF n
<1>2. made = all
  <2>1. made = Each(all)
    BY <1>1
  <2>2. DOMAIN all = 1..n /\ all = [k \in 1..n |-> all[k]]
    OBVIOUS
  <2> HIDE DEF all, made
  <2> QED
    BY <1>1, <2>1, <2>2, ListOfAll
<1>3. \A k \in 1..n : made[k] = built(k)
  BY <1>2
<1> HIDE DEF made, all
<1>4. ASSUME NEW k \in 1..n PROVE MetricsOK(given[k])
  <2>1. given[k] = Metrics(built(k))
    BY <1>3
  <2>2. MetricsOK(Metrics(built(k)))
    BY <1>1, MetricsAreWhole
  <2> QED
    BY <2>1, <2>2
<1>5. DOMAIN given = 1..n /\ given = [k \in 1..n |-> given[k]]
  OBVIOUS
<1>6. Compared(ids, book, h) = Scored(ids, made, metrics)
  BY <1>1 DEF Compared, made
<1> HIDE DEF given
<1>7. metrics = given
  BY <1>1, <1>5, ListOfAll
<1>8. Measured(metrics, 1..n)
  BY <1>4, <1>5, <1>7 DEF Measured, MetricsOK
<1> HIDE DEF metrics
<1> QED
  BY <1>1, <1>6, <1>8, MeasuredScores

(***************************************************************************)
(* Shares, and what is kept.                                               *)
(***************************************************************************)
LEMMA QuotientsGrow ==
    ASSUME NEW a \in Int, NEW b \in Int, NEW d \in Nat \ {0}, a <= b
    PROVE  a \div d \in Int /\ b \div d \in Int /\ a \div d <= b \div d
<1> DEFINE k == a \div d
           r == a % d
           l == b \div d
           s == b % d
<1>1. /\ k \in Int /\ r \in Int /\ 0 <= r /\ r < d /\ a = d * k + r
      /\ l \in Int /\ s \in Int /\ 0 <= s /\ s < d /\ b = d * l + s
  OBVIOUS
<1> HIDE DEF k, r, l, s
<1>2. k <= l
  <2>1. SUFFICES ASSUME k >= l + 1 PROVE FALSE
    BY <1>1
  <2> DEFINE e == k - (l + 1)
  <2>2. e \in Nat /\ d * e >= 0 /\ d * e = d * k - d * l - d /\ d * k \in Int /\ d * l \in Int
    BY <1>1, <2>1
  <2> QED
    BY <1>1, <2>2
<1> QED
  BY <1>1, <1>2 DEF k, l

LEMMA SharesGrow ==
    ASSUME NEW a \in Int, NEW b \in Int, NEW t \in Int, NEW u \in Int, 0 <= a, a <= b, 0 <= t, t <= u
    PROVE  Share(a, t) \in Int /\ Share(b, u) \in Int /\ Share(a, t) <= Share(b, u)
<1> DEFINE p == a * t
           q == b * u
<1>1. p \in Int /\ q \in Int /\ p <= q
  <2>1. a * (u - t) >= 0 /\ a * (u - t) = a * u - a * t /\ a * u \in Int /\ a * t \in Int
    OBVIOUS
  <2>2. u * (b - a) >= 0 /\ u * (b - a) = b * u - a * u /\ b * u \in Int
    OBVIOUS
  <2> QED
    BY <2>1, <2>2
<1>2. Share(a, t) = p \div 1000 /\ Share(b, u) = q \div 1000
  BY DEF Share
<1>3. 1000 \in Nat \ {0}
  BY SMT
<1> HIDE DEF p, q
<1> QED
  BY <1>1, <1>2, <1>3, QuotientsGrow

\* More leaves more, whatever part goes; a greater part leaves less.
LEMMA KeptGrows ==
    ASSUME NEW a \in Int, NEW b \in Int, NEW t \in Int, NEW u \in Int,
           0 <= a, a <= b, 0 <= t, t <= u, u <= 1000
    PROVE  a - Share(a, u) <= b - Share(b, t)
<1>1. Share(a, t) \in Int /\ Share(a, u) \in Int /\ Share(a, t) <= Share(a, u)
  BY SharesGrow
<1> DEFINE p == a * t
           q == b * t
           e == b - a
           f == p + 1000 * e
<1>2. p \in Int /\ q \in Int /\ f \in Int /\ e \in Int /\ q <= f
  <2>1. e * (1000 - t) >= 0 /\ e * (1000 - t) = 1000 * e - e * t /\ e * t \in Int
    BY SMT
  <2>2. q = p + e * t /\ p \in Int
    OBVIOUS
  <2> HIDE DEF p, q, e
  <2> QED
    BY <2>1, <2>2 DEF e
<1>3. Share(a, t) = p \div 1000 /\ Share(b, t) = q \div 1000
  BY DEF Share
<1> HIDE DEF p, q, e
<1>4. 1000 \in Nat \ {0}
  BY SMT
<1>5. f \div 1000 = (p \div 1000) + e
  BY <1>2, SMT
<1>6. q \div 1000 \in Int /\ q \div 1000 <= f \div 1000 /\ p \div 1000 \in Int
  <2> HIDE DEF f
  <2> QED
    BY <1>2, <1>4, QuotientsGrow
<1>7. Share(b, t) <= Share(a, t) + (b - a) /\ Share(b, t) \in Int
  BY <1>3, <1>5, <1>6 DEF e
<1> QED
  BY <1>1, <1>7

\* Without growth an amount stays.
LEMMA CompoundedStill ==
    ASSUME NEW amount \in Int, NEW n \in Nat
    PROVE  Compounded(amount, 0, n) = amount
<1> DEFINE f == CHOOSE after : Compounds(after, amount, 0, n)
<1>1. Compounds(f, amount, 0, n) /\ Compounded(amount, 0, n) = f[n]
  BY CompoundedIs, CompoundsExist
<1> HIDE DEF f
<1>2. \A i \in 0..n : f[i] = IF i = 0 THEN amount ELSE f[i - 1] + Share(f[i - 1], 0)
  BY <1>1 DEF Compounds
<1> DEFINE K == {k \in 0..n : f[k] # amount}
<1>3. SUFFICES ASSUME K # {} PROVE FALSE
  BY <1>1
<1>4. PICK k \in K : \A j \in K : k <= j
  <2>1. K \in SUBSET Nat
    OBVIOUS
  <2> HIDE DEF K
  <2> QED
    BY <1>3, <2>1, LeastExists
<1>5. k \in 0..n /\ f[k] # amount /\ k # 0
  BY <1>2, <1>4
<1>6. k - 1 \in 0..n /\ k - 1 \notin K
  BY <1>4, <1>5
<1>7. f[k - 1] = amount
  BY <1>6
<1>8. Share(amount, 0) = 0
  <2>1. amount * 0 = 0 /\ 0 \div 1000 = 0
    BY SMT
  <2> QED
    BY <2>1 DEF Share
<1>9. f[k] = f[k - 1] + Share(f[k - 1], 0)
  BY <1>2, <1>5
<1> QED
  BY <1>5, <1>7, <1>8, <1>9

(***************************************************************************)
(* Two projections of one book of which one is ahead.                      *)
(***************************************************************************)
\* The first is favoured in every month.
FavouredDials(d, e) ==
    /\ 0 <= d.churn /\ d.churn <= e.churn /\ e.churn <= 1000
    /\ 0 <= e.margin /\ e.margin <= d.margin
FavouredIn(book, d, e, a, b, i) ==
    /\ NewRun(book, d, i) >= NewRun(book, e, i) /\ OpexRun(book, d, i) <= OpexRun(book, e, i)
    /\ EarnedIn(a, i) >= EarnedIn(b, i) /\ SpentIn(a, i) <= SpentIn(b, i)
    /\ PaidIn(a, i) <= PaidIn(b, i) /\ RaisedIn(a, i) >= RaisedIn(b, i)

IsProjection(book, d, a, h, p) ==
    BookOK(book) /\ DialsOK(d) /\ StepsOK(a) /\ h \in Nat /\ Projects(p, book, d, a, h)

AheadOf(r, t) == r.mrr >= t.mrr /\ t.mrr >= 0 /\ r.cash >= t.cash

LEMMA MonthAhead ==
    ASSUME NEW book, BookOK(book), NEW d, DialsOK(d), NEW e, DialsOK(e), NEW a, StepsOK(a), NEW b, StepsOK(b),
           NEW i \in Nat, i > 0, FavouredDials(d, e), FavouredIn(book, d, e, a, b, i),
           NEW s, Balance(s), NEW t, Balance(t), AheadOf(s, t),
           NEW r, MonthOf(r, book, d, a, s, i), NEW q, MonthOf(q, book, e, b, t, i)
    PROVE  AheadOf(r, q)
<1>1. /\ EarnedIn(a, i) \in Int /\ SpentIn(a, i) \in Int /\ PaidIn(a, i) \in Int /\ RaisedIn(a, i) \in Int
      /\ EarnedIn(b, i) \in Int /\ SpentIn(b, i) \in Int /\ PaidIn(b, i) \in Int /\ RaisedIn(b, i) \in Int
  BY InAllSteps
<1>2. /\ NewRun(book, d, i) \in Int /\ OpexRun(book, d, i) \in Int
      /\ NewRun(book, e, i) \in Int /\ OpexRun(book, e, i) \in Int
  BY RunsAreWhole
<1>3. WholeMonth(r) /\ WholeMonth(q)
  BY MonthIsWhole
<1>4. /\ s.mrr \in Int /\ t.mrr \in Int /\ 0 <= t.mrr /\ t.mrr <= s.mrr
      /\ s.cash \in Int /\ t.cash \in Int /\ s.cash >= t.cash
  BY DEF Balance, AheadOf
<1>5. d.churn \in Int /\ e.churn \in Int /\ d.margin \in Int /\ e.margin \in Int
  BY DEF DialsOK
<1>6. t.mrr - Share(t.mrr, e.churn) <= s.mrr - Share(s.mrr, d.churn)
  BY <1>4, <1>5, KeptGrows DEF FavouredDials
<1>7. Share(t.mrr, e.churn) \in Int /\ Share(s.mrr, d.churn) \in Int
  BY <1>4, <1>5, ShareType
<1>8. r.mrr >= q.mrr /\ q.mrr >= 0
  <2> DEFINE x == s.mrr - Share(s.mrr, d.churn)
             y == t.mrr - Share(t.mrr, e.churn)
             m == NewRun(book, d, i) + EarnedIn(a, i)
             n == NewRun(book, e, i) + EarnedIn(b, i)
  <2>1. x \in Int /\ y \in Int /\ y <= x /\ m \in Int /\ n \in Int /\ n <= m
    BY <1>1, <1>2, <1>4, <1>6, <1>7 DEF FavouredIn
  <2>2. r.mrr = Greatest(0, x + m) /\ q.mrr = Greatest(0, y + n)
    BY DEF MonthOf, MrrAfter
  <2> HIDE DEF x, y, m, n
  <2> QED
    BY <2>1, <2>2 DEF Greatest
<1>9. r.opex <= q.opex
  <2>1. r.opex = Greatest(0, OpexRun(book, d, i) + SpentIn(a, i))
    BY DEF MonthOf, OpexIn
  <2>2. q.opex = Greatest(0, OpexRun(book, e, i) + SpentIn(b, i))
    BY DEF MonthOf, OpexIn
  <2> QED
    BY <1>1, <1>2, <2>1, <2>2 DEF FavouredIn, Greatest
<1>10. r.net <= q.net
  <2>1. r.mrr \in Int /\ r.opex \in Int /\ q.mrr \in Int /\ q.opex \in Int
    BY <1>3 DEF WholeMonth
  <2>2. r.net = r.opex - Share(r.mrr, d.margin)
    <3>1. r.net = NetBurn(r.mrr, r.opex, d.margin)
      BY DEF MonthOf
    <3> QED
      BY <1>5, <2>1, <3>1, NetBurnIs
  <2>3. q.net = q.opex - Share(q.mrr, e.margin)
    <3>1. q.net = NetBurn(q.mrr, q.opex, e.margin)
      BY DEF MonthOf
    <3> QED
      BY <1>5, <2>1, <3>1, NetBurnIs
  <2>4. Share(q.mrr, e.margin) \in Int /\ Share(r.mrr, d.margin) \in Int
        /\ Share(q.mrr, e.margin) <= Share(r.mrr, d.margin)
    BY <1>5, <1>8, <2>1, SharesGrow DEF FavouredDials
  <2> QED
    BY <1>9, <2>1, <2>2, <2>3, <2>4
<1>11. r.cash = s.cash - r.net - r.once + r.inflow /\ q.cash = t.cash - q.net - q.once + q.inflow
  BY DEF MonthOf
<1>12. r.once <= q.once /\ r.inflow >= q.inflow
  BY DEF MonthOf, FavouredIn
<1>13. /\ r.net \in Int /\ r.once \in Int /\ r.inflow \in Int
       /\ q.net \in Int /\ q.once \in Int /\ q.inflow \in Int
  BY <1>3 DEF WholeMonth
<1>14. r.cash >= q.cash
  BY <1>4, <1>10, <1>11, <1>12, <1>13
<1> QED
  BY <1>8, <1>14 DEF AheadOf

LEMMA StaysAhead ==
    ASSUME NEW book, book.mrr >= 0, NEW d, NEW e, FavouredDials(d, e), NEW a, NEW b, NEW h, NEW p, NEW q,
           IsProjection(book, d, a, h, p), IsProjection(book, e, b, h, q),
           \A i \in 1..h : FavouredIn(book, d, e, a, b, i)
    PROVE  \A i \in 1..h : AheadOf(p[i], q[i])
<1> DEFINE K == {k \in 1..h : ~AheadOf(p[k], q[k])}
<1>1. SUFFICES ASSUME K # {} PROVE FALSE
  OBVIOUS
<1>2. PICK k \in K : \A j \in K : k <= j
  <2>1. K \in SUBSET Nat
    BY DEF IsProjection
  <2> HIDE DEF K
  <2> QED
    BY <1>1, <2>1, LeastExists
<1>3. k \in 1..h /\ ~AheadOf(p[k], q[k]) /\ k \in Nat /\ k > 0
  BY <1>2 DEF IsProjection
<1> DEFINE s == StartsFrom(p, book, k)
           t == StartsFrom(q, book, k)
<1>4. Balance(s)
  BY <1>3, MonthsAreWhole DEF IsProjection
<1>5. Balance(t)
  BY <1>3, MonthsAreWhole DEF IsProjection
<1>6. AheadOf(s, t)
  <2>1. CASE k = 1
    <3>1. s = Opening(book) /\ t = Opening(book)
      BY <2>1 DEF StartsFrom
    <3>2. s.mrr = book.mrr /\ t.mrr = book.mrr /\ s.cash = t.cash
      BY <3>1 DEF Opening
    <3>3. s.mrr \in Int /\ s.cash \in Int
      BY <1>4 DEF Balance
    <3> HIDE DEF s, t
    <3> QED
      BY <3>2, <3>3 DEF AheadOf
  <2>2. CASE k # 1
    <3>1. k - 1 \in 1..h /\ k - 1 \notin K
      BY <1>2, <1>3, <2>2 DEF IsProjection
    <3> QED
      BY <2>2, <3>1 DEF StartsFrom
  <2> QED
    BY <2>1, <2>2
<1>7. MonthOf(p[k], book, d, a, s, k)
  BY <1>3 DEF IsProjection, Projects
<1>8. MonthOf(q[k], book, e, b, t, k)
  BY <1>3 DEF IsProjection, Projects
<1>9. FavouredIn(book, d, e, a, b, k)
  BY <1>3
<1>10. BookOK(book) /\ DialsOK(d) /\ DialsOK(e) /\ StepsOK(a) /\ StepsOK(b)
  BY DEF IsProjection
<1> HIDE DEF K, s, t
<1>11. AheadOf(p[k], q[k])
  BY <1>3, <1>4, <1>5, <1>6, <1>7, <1>8, <1>9, <1>10, MonthAhead
<1> QED
  BY <1>3, <1>11

(***************************************************************************)
(* The base plan with one step more, or later.                             *)
(***************************************************************************)
\* A hire costs from its start on, and brings in nothing.
IsHire(s) ==
    /\ StepOK(s) /\ s.kind = "hire" /\ s.revenue = 0 /\ s.finance = 0 /\ s.oneTime = 0
    /\ "start" \in DOMAIN s

LEMMA HiringIs ==
    /\ HiringPlan \in Seq({HiringPlan[k] : k \in 1..3}) /\ Len(HiringPlan) = 3
    /\ DOMAIN HiringPlan = 1..3 /\ \A k \in 1..3 : IsHire(HiringPlan[k])
<1> DEFINE a == Hire(2, 95000, 5, TRUE)
           b == Hire(1, 42000, 3, FALSE)
           c == Hire(3, 38000, 2, FALSE)
<1>1. IsHire(a)
  BY SMT DEF IsHire, StepOK, Step, Kinds, Hire
<1>2. IsHire(b)
  BY SMT DEF IsHire, StepOK, Step, Kinds, Hire
<1>3. IsHire(c)
  BY SMT DEF IsHire, StepOK, Step, Kinds, Hire
<1>4. HiringPlan = <<a, b, c>>
  BY SMT DEF HiringPlan
<1> HIDE DEF a, b, c
<1>5. DOMAIN HiringPlan = 1..3 /\ HiringPlan[1] = a /\ HiringPlan[2] = b /\ HiringPlan[3] = c
  BY <1>4
<1>6. \A T : a \in T /\ b \in T /\ c \in T => HiringPlan \in Seq(T)
  BY <1>4
<1>7. Len(HiringPlan) = 3
  BY <1>4
<1> QED
  BY <1>1, <1>2, <1>3, <1>5, <1>6, <1>7

\* What the base plan becomes with a step more.
WithStep(steps, x) ==
    /\ StepsOK(steps) /\ DOMAIN steps = 1..4 /\ steps[4] = x
    /\ \A k \in 1..3 : steps[k] = HiringPlan[k]

LEMMA OneStepMore ==
    ASSUME NEW x, StepOK(x)
    PROVE  WithStep(Append(HiringPlan, x), x)
<1> DEFINE T == {HiringPlan[k] : k \in 1..3}
           U == T \cup {x}
           list == Append(HiringPlan, x)
<1>1. HiringPlan \in Seq(T) /\ Len(HiringPlan) = 3 /\ DOMAIN HiringPlan = 1..3
      /\ \A k \in 1..3 : StepOK(HiringPlan[k])
  BY HiringIs DEF IsHire
<1>2. HiringPlan \in Seq(U) /\ x \in U
  BY <1>1
<1> HIDE DEF T, U
<1>3. /\ list \in Seq(U) /\ Len(list) = 4
      /\ \A k \in 1..3 : list[k] = HiringPlan[k]
      /\ list[4] = x
  <2>1. /\ list \in Seq(U) /\ Len(list) = Len(HiringPlan) + 1
        /\ \A k \in 1..Len(HiringPlan) : list[k] = HiringPlan[k]
        /\ list[Len(HiringPlan) + 1] = x
    BY <1>2, AppendProperties
  <2> HIDE DEF list
  <2> QED
    BY <1>1, <2>1
<1> HIDE DEF list
<1>4. DOMAIN list = 1..4
  BY <1>3
<1>5. IsFiniteSet(DOMAIN list)
  <2>1. \A n \in Nat : IsFiniteSet(1..n)
    BY FS_Interval
  <2> QED
    BY <1>4, <2>1
<1>6. \A k \in DOMAIN list : StepOK(list[k])
  BY <1>1, <1>3, <1>4
<1>7. WithStep(list, x)
  BY <1>3, <1>4, <1>5, <1>6 DEF WithStep, StepsOK
<1> QED
  BY <1>7 DEF list

\* What a step becomes that starts n months later.
Later(r, s, n) ==
    /\ IsHire(r) /\ r.start = s.start + n /\ r.cost = s.cost /\ r.ramp = s.ramp
LEMMA DelayedIs ==
    ASSUME NEW n \in Nat
    PROVE  /\ StepsOK(Delayed(HiringPlan, n)) /\ DOMAIN Delayed(HiringPlan, n) = 1..3
           /\ \A k \in 1..3 : Later(Delayed(HiringPlan, n)[k], HiringPlan[k], n)
<1> DEFINE list == Delayed(HiringPlan, n)
<1>1. DOMAIN list = 1..3
  BY HiringIs DEF Delayed
<1>2. ASSUME NEW k \in 1..3 PROVE Later(list[k], HiringPlan[k], n)
  <2> DEFINE s == HiringPlan[k]
             m == Greatest(1, s.start + n)
  <2>1. IsHire(s)
    BY HiringIs
  <2>2. list[k] = [s EXCEPT !.start = m]
    BY HiringIs DEF Delayed
  <2>3. m = s.start + n /\ m \in Nat \ {0}
    BY <2>1 DEF IsHire, StepOK, Greatest
  <2>4. "start" \in DOMAIN s
    BY <2>1 DEF IsHire
  <2> HIDE DEF s, m, list
  <2>5. \A r : r = [s EXCEPT !.start = m] =>
            /\ r.start = m /\ r.kind = s.kind /\ r.cost = s.cost /\ r.oneTime = s.oneTime
            /\ r.revenue = s.revenue /\ r.finance = s.finance /\ r.roles = s.roles
            /\ r.ramp = s.ramp /\ r.rise = s.rise /\ DOMAIN r = DOMAIN s
    BY <2>4
  <2> DEFINE r == list[k]
  <2>6. /\ r.start = m /\ r.kind = s.kind /\ r.cost = s.cost /\ r.oneTime = s.oneTime
        /\ r.revenue = s.revenue /\ r.finance = s.finance /\ r.roles = s.roles
        /\ r.ramp = s.ramp /\ r.rise = s.rise /\ DOMAIN r = DOMAIN s
    BY <2>2, <2>5
  <2> HIDE DEF r
  <2>7. Later(r, s, n)
    BY <2>1, <2>3, <2>6 DEF IsHire, StepOK, Later
  <2> QED
    BY <2>7 DEF r, s
<1> HIDE DEF list
<1>3. IsFiniteSet(DOMAIN list)
  <2>1. \A m \in Nat : IsFiniteSet(1..m)
    BY FS_Interval
  <2> QED
    BY <1>1, <2>1
<1>4. StepsOK(list)
  BY <1>1, <1>2, <1>3 DEF StepsOK, Later, IsHire
<1> QED
  BY <1>1, <1>2, <1>4 DEF list

LEMMA CostsLater ==
    ASSUME NEW s, NEW r, NEW t, NEW m \in Nat, NEW n \in Nat, m <= n, IsHire(t), Later(s, t, n), Later(r, t, m),
           NEW i \in Nat
    PROVE  CostOf(s, i) <= CostOf(r, i)
<1> DEFINE d == t.cost
           w == t.ramp
           x == s.start
           y == r.start
<1>1. d \in Nat /\ w \in {1, 2} /\ x \in Nat /\ y \in Nat /\ y <= x
  BY DEF Later, IsHire, StepOK
<1>2. CostOf(s, i) = RampFraction(d, i, x, w) /\ CostOf(r, i) = RampFraction(d, i, y, w)
  BY DEF CostOf, OpexDelta, Later, IsHire
<1> HIDE DEF d, w, x, y
<1>3. CASE i < x
  <2>1. RampFraction(d, i, x, w) = 0
    BY <1>3 DEF RampFraction
  <2>2. CostOf(r, i) >= 0 /\ CostOf(r, i) \in Int
    BY CostOfIs DEF Later, IsHire
  <2> QED
    BY <1>2, <2>1, <2>2
<1>4. CASE ~(i < x) /\ w = 1
  BY <1>1, <1>2, <1>4 DEF RampFraction
<1>5. CASE ~(i < x) /\ w = 2
  <2> DEFINE u == Least(2, i - x + 1)
             v == Least(2, i - y + 1)
  <2>1. u \in {1, 2} /\ v \in {1, 2} /\ u <= v
    BY <1>1, <1>5 DEF Least
  <2>2. RampFraction(d, i, x, w) = (d * u) \div 2 /\ RampFraction(d, i, y, w) = (d * v) \div 2
    BY <1>1, <1>5 DEF RampFraction
  <2> HIDE DEF u, v
  <2>3. d * u \in Int /\ d * v \in Int /\ d * u <= d * v /\ 2 \in Nat \ {0}
    BY <1>1, <2>1
  <2> DEFINE f == d * u
             g == d * v
  <2>4. f \in Int /\ g \in Int /\ f <= g
    BY <2>3
  <2>5. CostOf(s, i) = f \div 2 /\ CostOf(r, i) = g \div 2
    BY <1>2, <2>2
  <2> HIDE DEF f, g
  <2> QED
    BY <2>3, <2>4, <2>5, QuotientsGrow
<1> QED
  BY <1>1, <1>3, <1>4, <1>5

(***************************************************************************)
(* The lowest cash of a swept plan.                                        *)
(***************************************************************************)
\* The first of two steps brings in no less and costs no more in month i.
StepAhead(s, t, i) ==
    /\ FlowOf(s, i) >= FlowOf(t, i) /\ CostOf(s, i) <= CostOf(t, i)
    /\ OnceOf(s, i) <= OnceOf(t, i) /\ Inflow(s, i) >= Inflow(t, i)

StepsAhead(a, b, i) ==
    /\ EarnedIn(a, i) >= EarnedIn(b, i) /\ SpentIn(a, i) <= SpentIn(b, i)
    /\ PaidIn(a, i) <= PaidIn(b, i) /\ RaisedIn(a, i) >= RaisedIn(b, i)

LEMMA StepByStep ==
    ASSUME NEW a, StepsOK(a), NEW b, StepsOK(b), DOMAIN a = DOMAIN b, NEW i \in Nat,
           \A k \in DOMAIN a : StepAhead(a[k], b[k], i)
    PROVE  StepsAhead(a, b, i)
<1> DEFINE S == DOMAIN a
<1>1. IsFiniteSet(S)
  BY DEF StepsOK
<1>2. /\ \A k \in S : EarnedBy(a, i)[k] \in Int /\ EarnedBy(b, i)[k] \in Int
      /\ \A k \in S : SpentBy(a, i)[k] \in Int /\ SpentBy(b, i)[k] \in Int
      /\ \A k \in S : PaidBy(a, i)[k] \in Int /\ PaidBy(b, i)[k] \in Int
      /\ \A k \in S : RaisedBy(a, i)[k] \in Int /\ RaisedBy(b, i)[k] \in Int
  BY InEachStep
<1>3. \A k \in S : EarnedBy(b, i)[k] <= EarnedBy(a, i)[k]
  BY DEF EarnedBy, StepAhead
<1>4. \A k \in S : SpentBy(a, i)[k] <= SpentBy(b, i)[k]
  BY DEF SpentBy, StepAhead
<1>5. \A k \in S : PaidBy(a, i)[k] <= PaidBy(b, i)[k]
  BY DEF PaidBy, StepAhead
<1>6. \A k \in S : RaisedBy(b, i)[k] <= RaisedBy(a, i)[k]
  BY DEF RaisedBy, StepAhead
<1>7. /\ EarnedIn(a, i) = Part(EarnedBy(a, i), S) /\ EarnedIn(b, i) = Part(EarnedBy(b, i), S)
      /\ SpentIn(a, i) = Part(SpentBy(a, i), S) /\ SpentIn(b, i) = Part(SpentBy(b, i), S)
      /\ PaidIn(a, i) = Part(PaidBy(a, i), S) /\ PaidIn(b, i) = Part(PaidBy(b, i), S)
      /\ RaisedIn(a, i) = Part(RaisedBy(a, i), S) /\ RaisedIn(b, i) = Part(RaisedBy(b, i), S)
  BY AreParts
<1> HIDE DEF S
<1>8. Part(EarnedBy(b, i), S) <= Part(EarnedBy(a, i), S)
  BY <1>1, <1>2, <1>3, PartGrows
<1>9. Part(SpentBy(a, i), S) <= Part(SpentBy(b, i), S)
  BY <1>1, <1>2, <1>4, PartGrows
<1>10. Part(PaidBy(a, i), S) <= Part(PaidBy(b, i), S)
  BY <1>1, <1>2, <1>5, PartGrows
<1>11. Part(RaisedBy(b, i), S) <= Part(RaisedBy(a, i), S)
  BY <1>1, <1>2, <1>6, PartGrows
<1>12. /\ EarnedIn(a, i) \in Int /\ SpentIn(a, i) \in Int /\ PaidIn(a, i) \in Int /\ RaisedIn(a, i) \in Int
       /\ EarnedIn(b, i) \in Int /\ SpentIn(b, i) \in Int /\ PaidIn(b, i) \in Int /\ RaisedIn(b, i) \in Int
  BY InAllSteps
<1> QED
  BY <1>7, <1>8, <1>9, <1>10, <1>11, <1>12 DEF StepsAhead

LEMMA SameStepsAhead ==
    ASSUME NEW a, StepsOK(a), NEW i \in Nat
    PROVE  StepsAhead(a, a, i)
<1>1. EarnedIn(a, i) \in Int /\ SpentIn(a, i) \in Int /\ PaidIn(a, i) \in Int /\ RaisedIn(a, i) \in Int
  BY InAllSteps
<1> QED
  BY <1>1 DEF StepsAhead

LEMMA SameStepAhead ==
    ASSUME NEW s, StepOK(s), NEW i \in Nat
    PROVE  StepAhead(s, s, i)
<1>1. FlowOf(s, i) \in Int /\ CostOf(s, i) \in Int
  BY FlowIs, CostOfIs
<1>2. OnceOf(s, i) \in Int /\ Inflow(s, i) \in Int
  BY OnceIs, InflowIs DEF StepOK
<1> QED
  BY <1>1, <1>2 DEF StepAhead

\* The cash that a projection gets by with.
LowestCash(rows) == Summary(rows).minCash

LEMMA CashesAre ==
    ASSUME NEW h \in Nat \ {0}, NEW book, NEW d, NEW a, NEW p, IsProjection(book, d, a, h, p)
    PROVE  /\ \E k \in 1..h : p[k].cash \in Int /\ LowestCash(p) = p[k].cash
           /\ \A k \in 1..h : p[k].cash \in Int /\ LowestCash(p) <= p[k].cash
<1> DEFINE cash == {p[i].cash : i \in DOMAIN p}
<1>1. DOMAIN p = 1..h
  BY DEF IsProjection, Projects
<1>2. \A k \in 1..h : p[k].cash \in Int
  BY MonthsAreWhole DEF IsProjection, WholeMonth
<1>3. IsFiniteSet(cash)
  <2>1. [i \in 1..h |-> p[i].cash] \in Surjection(1..h, cash)
    BY <1>1 DEF Surjection
  <2>2. IsFiniteSet(1..h)
    BY FS_Interval
  <2> HIDE DEF cash
  <2> QED
    BY <2>1, <2>2, FS_Surjection
<1>4. WholeNumbers(cash) /\ cash # {}
  BY <1>1, <1>2 DEF WholeNumbers
<1>5. LowestCash(p) = Min(cash)
  BY DEF LowestCash, Summary
<1>6. Min(cash) \in cash /\ \A j \in cash : Min(cash) <= j
  <2> HIDE DEF cash
  <2> QED
    BY <1>3, <1>4, LowestIs
<1> QED
  BY <1>1, <1>2, <1>5, <1>6

LEMMA MoreGetsBy ==
    ASSUME NEW h \in Nat \ {0}, NEW book, NEW d, NEW e, NEW a, NEW b, NEW p, NEW q,
           IsProjection(book, d, a, h, p), IsProjection(book, e, b, h, q),
           \A i \in 1..h : p[i].cash >= q[i].cash
    PROVE  LowestCash(p) \in Int /\ LowestCash(q) \in Int /\ LowestCash(p) >= LowestCash(q)
<1>1. PICK k \in 1..h : p[k].cash \in Int /\ LowestCash(p) = p[k].cash
  BY CashesAre
<1>2. PICK l \in 1..h : q[l].cash \in Int /\ LowestCash(q) = q[l].cash
  BY CashesAre
<1>3. q[k].cash \in Int /\ LowestCash(q) <= q[k].cash
  BY CashesAre
<1>4. p[k].cash >= q[k].cash
  OBVIOUS
<1> QED
  BY <1>1, <1>2, <1>3, <1>4

\* One plan of a book is ahead of another.
LEMMA PlanAhead ==
    ASSUME NEW book, BookOK(book), book.mrr >= 0, NEW d, NEW e, DialsOK(d), DialsOK(e), FavouredDials(d, e),
           NEW a, NEW b, StepsOK(a), StepsOK(b), NEW h \in Nat \ {0},
           \A i \in 1..h : NewRun(book, d, i) >= NewRun(book, e, i) /\ OpexRun(book, d, i) <= OpexRun(book, e, i),
           \A i \in 1..h : StepsAhead(a, b, i)
    PROVE  LET p == LowestCash(Trajectory(book, d, a, h))
               q == LowestCash(Trajectory(book, e, b, h))
           IN  p \in Int /\ q \in Int /\ p >= q
<1> DEFINE p == Trajectory(book, d, a, h)
           q == Trajectory(book, e, b, h)
<1>1. IsProjection(book, d, a, h, p)
  BY TrajectoryIs DEF IsProjection
<1>2. IsProjection(book, e, b, h, q)
  BY TrajectoryIs DEF IsProjection
<1> HIDE DEF p, q
<1>3. \A i \in 1..h : FavouredIn(book, d, e, a, b, i)
  BY DEF FavouredIn, StepsAhead
<1>4. \A i \in 1..h : AheadOf(p[i], q[i])
  BY <1>1, <1>2, <1>3, StaysAhead
<1>5. \A i \in 1..h : p[i].cash >= q[i].cash
  BY <1>4 DEF AheadOf
<1>6. LowestCash(p) \in Int /\ LowestCash(q) \in Int /\ LowestCash(p) >= LowestCash(q)
  BY <1>1, <1>2, <1>5, MoreGetsBy
<1> QED
  BY <1>6 DEF p, q

(***************************************************************************)
(* A dial that is swept.                                                   *)
(***************************************************************************)
LowestOf(variable, v, book, h) ==
    LowestCash(Trajectory(book, Swept(variable, v, book).dials, Swept(variable, v, book).steps, h))

\* A greater value of the variable leaves no less cash.
Raises(variable, v, w, book, h) ==
    /\ LowestOf(variable, v, book, h) \in Int /\ LowestOf(variable, w, book, h) \in Int
    /\ LowestOf(variable, w, book, h) >= LowestOf(variable, v, book, h)
Lowers(variable, v, w, book, h) ==
    /\ LowestOf(variable, v, book, h) \in Int /\ LowestOf(variable, w, book, h) \in Int
    /\ LowestOf(variable, w, book, h) <= LowestOf(variable, v, book, h)

\* The base dials but for three of them.
LikeBase(d, book, churn, margin, conversion) ==
    /\ DialsOK(d) /\ d.churn = churn /\ d.margin = margin /\ d.conversion = conversion
    /\ d.opexGrowth = 0 /\ d.newBusinessRamp = 0
    /\ d.baseGrowth = book.growth /\ d.baseChurn = book.churn

LEMMA BaseIsLikeBase ==
    ASSUME NEW book \in Books
    PROVE  LikeBase(BaseDials(book), book, book.churn, book.margin, 320)
<1>1. DialsOK(BaseDials(book))
  BY BooksAreOK, DialsAreOK
<1> QED
  BY <1>1 DEF LikeBase, BaseDials, BASE_CONVERSION

LEMMA OneDialTurned ==
    ASSUME NEW book \in Books, NEW v \in Int
    PROVE  /\ LikeBase([BaseDials(book) EXCEPT !["churn"] = v], book, v, book.margin, 320)
           /\ LikeBase([BaseDials(book) EXCEPT !["margin"] = v], book, book.churn, v, 320)
           /\ LikeBase([BaseDials(book) EXCEPT !["conversion"] = v], book, book.churn, book.margin, v)
<1> DEFINE base == BaseDials(book)
<1>1. LikeBase(base, book, book.churn, book.margin, 320)
  BY BaseIsLikeBase
<1>2. DOMAIN base = DialNames
  BY BooksAreOK DEF IsDials
<1> HIDE DEF base
<1>3. /\ LikeBase([base EXCEPT !["churn"] = v], book, v, book.margin, 320)
  BY <1>1, <1>2 DEF LikeBase, DialsOK, DialNames
<1>4. /\ LikeBase([base EXCEPT !["margin"] = v], book, book.churn, v, 320)
  BY <1>1, <1>2 DEF LikeBase, DialsOK, DialNames
<1>5. /\ LikeBase([base EXCEPT !["conversion"] = v], book, book.churn, book.margin, v)
  BY <1>1, <1>2 DEF LikeBase, DialsOK, DialNames
<1> QED
  BY <1>3, <1>4, <1>5 DEF base

\* New business is the same every month, and grows with its conversion.
LEMMA RunGrows ==
    ASSUME NEW book \in Books, OrdinaryBook(book), NEW d, NEW e, NEW c1, NEW m1, NEW c2, NEW m2,
           NEW v \in Int, NEW w \in Int, v <= w,
           LikeBase(d, book, c1, m1, w), LikeBase(e, book, c2, m2, v), NEW i \in Nat, i > 0
    PROVE  NewRun(book, d, i) >= NewRun(book, e, i) /\ OpexRun(book, d, i) <= OpexRun(book, e, i)
<1> DEFINE g == book.growth + book.churn
           x == Share(book.mrr, g)
           f == x * v
           k == x * w
<1>1. book.mrr \in Int /\ book.growth \in Int /\ book.churn \in Int /\ book.opex \in Int
  BY PlanAssumption
<1>2. x \in Int /\ x >= 0
  <2>1. g \in Int /\ g >= 0 /\ book.mrr >= 0
    BY <1>1 DEF OrdinaryBook
  <2> HIDE DEF g
  <2>2. Share(0, g) \in Int /\ x \in Int /\ Share(0, g) <= x
    <3>1. 0 \in Int /\ 0 <= 0 /\ g <= g
      BY <2>1
    <3> QED
      BY <1>1, <2>1, <3>1, SharesGrow
  <2>3. Share(0, g) = 0
    <3>1. 0 * g = 0 /\ 0 \div 1000 = 0
      BY <2>1, SMT
    <3> QED
      BY <3>1 DEF Share
  <2> QED
    BY <2>2, <2>3
<1>3. f \in Int /\ k \in Int /\ f <= k
  <2> HIDE DEF x
  <2> QED
    BY <1>2, TimesMonotone
<1>4. NewRun(book, d, i) = Compounded(k \div 320, 0, i - 1) /\ NewRun(book, e, i) = Compounded(f \div 320, 0, i - 1)
  BY DEF NewRun, LikeBase, BASE_CONVERSION
<1> HIDE DEF f, k
<1>5. f \div 320 \in Int /\ k \div 320 \in Int /\ f \div 320 <= k \div 320
  <2>1. 320 \in Nat \ {0}
    OBVIOUS
  <2> QED
    BY <1>3, <2>1, QuotientsGrow
<1>6. i - 1 \in Nat
  OBVIOUS
<1>7. NewRun(book, d, i) = k \div 320 /\ NewRun(book, e, i) = f \div 320
  BY <1>4, <1>5, <1>6, CompoundedStill
<1>8. OpexRun(book, d, i) = book.opex /\ OpexRun(book, e, i) = book.opex
  <2>1. OpexRun(book, d, i) = Compounded(book.opex, 0, i - 1)
    BY DEF OpexRun, LikeBase
  <2>2. OpexRun(book, e, i) = Compounded(book.opex, 0, i - 1)
    BY DEF OpexRun, LikeBase
  <2> QED
    BY <1>1, <1>6, <2>1, <2>2, CompoundedStill
<1> QED
  BY <1>1, <1>5, <1>7, <1>8

LEMMA AheadByDials ==
    ASSUME NEW book \in Books, OrdinaryBook(book), NEW h \in Nat \ {0}, NEW d, NEW e,
           NEW c1 \in Int, NEW m1 \in Int, NEW v1 \in Int, NEW c2 \in Int, NEW m2 \in Int, NEW v2 \in Int,
           LikeBase(d, book, c1, m1, v1), LikeBase(e, book, c2, m2, v2),
           0 <= c1, c1 <= c2, c2 <= 1000, 0 <= m2, m2 <= m1, v2 <= v1,
           NEW a, NEW b, StepsOK(a), StepsOK(b), \A i \in 1..h : StepsAhead(a, b, i)
    PROVE  LET p == LowestCash(Trajectory(book, d, a, h))
               q == LowestCash(Trajectory(book, e, b, h))
           IN  p \in Int /\ q \in Int /\ p >= q
<1>1. FavouredDials(d, e) /\ DialsOK(d) /\ DialsOK(e)
  BY DEF FavouredDials, LikeBase
<1>2. \A i \in 1..h : NewRun(book, d, i) >= NewRun(book, e, i) /\ OpexRun(book, d, i) <= OpexRun(book, e, i)
  BY RunGrows
<1>3. BookOK(book) /\ book.mrr >= 0
  BY BooksAreOK DEF OrdinaryBook
<1> QED
  BY <1>1, <1>2, <1>3, PlanAhead

LEMMA DialsMove ==
    ASSUME NEW book \in Books, OrdinaryBook(book), NEW h \in Nat \ {0}, NEW v \in Nat, NEW w \in Nat, v <= w
    PROVE  /\ w <= 1000 => Lowers("churn", v, w, book, h)
           /\ Raises("margin", v, w, book, h)
           /\ Raises("conversion", v, w, book, h)
<1> DEFINE with(name, x) == [BaseDials(book) EXCEPT ![name] = x]
<1>1. \A name \in {"churn", "margin", "conversion"} : \A x :
          Swept(name, x, book).dials = with(name, x) /\ Swept(name, x, book).steps = HiringPlan
  BY DEF Swept
<1>2. book.churn \in Int /\ book.margin \in Int
  BY PlanAssumption
<1>3. 0 <= book.churn /\ book.churn <= 1000 /\ 0 <= book.margin
  BY DEF OrdinaryBook
<1>4. StepsOK(HiringPlan)
  BY ListsAreOK
<1>5. \A i \in 1..h : StepsAhead(HiringPlan, HiringPlan, i)
  BY <1>4, SameStepsAhead
<1>6. \A name \in {"churn", "margin", "conversion"} : \A x :
          LowestOf(name, x, book, h) = LowestCash(Trajectory(book, with(name, x), HiringPlan, h))
  BY <1>1 DEF LowestOf
<1>7. \A x \in Int : /\ LikeBase(with("churn", x), book, x, book.margin, 320)
                     /\ LikeBase(with("margin", x), book, book.churn, x, 320)
                     /\ LikeBase(with("conversion", x), book, book.churn, book.margin, x)
  BY OneDialTurned
<1> HIDE DEF with
<1>8. v \in Int /\ w \in Int /\ 320 \in Int /\ 320 <= 320 /\ 0 <= v
  OBVIOUS
<1>9. ASSUME w <= 1000 PROVE Lowers("churn", v, w, book, h)
  <2> DEFINE d == with("churn", v)
             e == with("churn", w)
  <2>1. LikeBase(d, book, v, book.margin, 320) /\ LikeBase(e, book, w, book.margin, 320)
    BY <1>7, <1>8
  <2>2. book.margin <= book.margin
    BY <1>2
  <2> HIDE DEF d, e
  <2>3. LET p == LowestCash(Trajectory(book, d, HiringPlan, h))
            q == LowestCash(Trajectory(book, e, HiringPlan, h))
        IN  p \in Int /\ q \in Int /\ p >= q
    BY <1>2, <1>3, <1>4, <1>5, <1>8, <1>9, <2>1, <2>2, AheadByDials
  <2> QED
    BY <1>6, <2>3 DEF Lowers, d, e
<1>10. Raises("margin", v, w, book, h)
  <2> DEFINE d == with("margin", w)
             e == with("margin", v)
  <2>1. LikeBase(d, book, book.churn, w, 320) /\ LikeBase(e, book, book.churn, v, 320)
    BY <1>7, <1>8
  <2>2. book.churn <= book.churn
    BY <1>2
  <2> HIDE DEF d, e
  <2>3. LET p == LowestCash(Trajectory(book, d, HiringPlan, h))
            q == LowestCash(Trajectory(book, e, HiringPlan, h))
        IN  p \in Int /\ q \in Int /\ p >= q
    BY <1>2, <1>3, <1>4, <1>5, <1>8, <2>1, <2>2, AheadByDials
  <2> QED
    BY <1>6, <2>3 DEF Raises, d, e
<1>11. Raises("conversion", v, w, book, h)
  <2> DEFINE d == with("conversion", w)
             e == with("conversion", v)
  <2>1. LikeBase(d, book, book.churn, book.margin, w) /\ LikeBase(e, book, book.churn, book.margin, v)
    BY <1>7, <1>8
  <2>2. book.churn <= book.churn /\ book.margin <= book.margin
    BY <1>2
  <2> HIDE DEF d, e
  <2>3. LET p == LowestCash(Trajectory(book, d, HiringPlan, h))
            q == LowestCash(Trajectory(book, e, HiringPlan, h))
        IN  p \in Int /\ q \in Int /\ p >= q
    BY <1>2, <1>3, <1>4, <1>5, <1>8, <2>1, <2>2, AheadByDials
  <2> QED
    BY <1>6, <2>3 DEF Raises, d, e
<1> QED
  BY <1>9, <1>10, <1>11

(***************************************************************************)
(* A step that is swept.                                                   *)
(***************************************************************************)
LEMMA AheadBySteps ==
    ASSUME NEW book \in Books, OrdinaryBook(book), NEW h \in Nat \ {0},
           NEW a, NEW b, StepsOK(a), StepsOK(b), \A i \in 1..h : StepsAhead(a, b, i)
    PROVE  LET p == LowestCash(Trajectory(book, BaseDials(book), a, h))
               q == LowestCash(Trajectory(book, BaseDials(book), b, h))
           IN  p \in Int /\ q \in Int /\ p >= q
<1> DEFINE d == BaseDials(book)
<1>1. LikeBase(d, book, book.churn, book.margin, 320)
  BY BaseIsLikeBase
<1>2. book.churn \in Int /\ book.margin \in Int
  BY PlanAssumption
<1>3. 0 <= book.churn /\ book.churn <= 1000 /\ 0 <= book.margin
  BY DEF OrdinaryBook
<1>4. book.churn <= book.churn /\ book.margin <= book.margin /\ 320 \in Int /\ 320 <= 320
  BY <1>2
<1> HIDE DEF d
<1>5. LET p == LowestCash(Trajectory(book, d, a, h))
          q == LowestCash(Trajectory(book, d, b, h))
      IN  p \in Int /\ q \in Int /\ p >= q
  BY <1>1, <1>2, <1>3, <1>4, AheadByDials
<1> QED
  BY <1>5 DEF d

\* Late hires cost less.
LEMMA LateHiresMove ==
    ASSUME NEW book \in Books, OrdinaryBook(book), NEW h \in Nat \ {0}, NEW v \in Nat, NEW w \in Nat, v <= w
    PROVE  Raises("hiring_start", v, w, book, h)
<1> DEFINE a == Delayed(HiringPlan, w)
           b == Delayed(HiringPlan, v)
<1>1. \A x : /\ Swept("hiring_start", x, book).dials = BaseDials(book)
             /\ Swept("hiring_start", x, book).steps = Delayed(HiringPlan, x)
  BY DEF Swept
<1>2. \A x : LowestOf("hiring_start", x, book, h)
                 = LowestCash(Trajectory(book, BaseDials(book), Delayed(HiringPlan, x), h))
  BY <1>1 DEF LowestOf
<1>3. /\ StepsOK(a) /\ DOMAIN a = 1..3 /\ \A k \in 1..3 : Later(a[k], HiringPlan[k], w)
      /\ StepsOK(b) /\ DOMAIN b = 1..3 /\ \A k \in 1..3 : Later(b[k], HiringPlan[k], v)
  BY DelayedIs
<1> HIDE DEF a, b
<1>4. ASSUME NEW i \in 1..h, NEW k \in 1..3 PROVE StepAhead(a[k], b[k], i)
  <2> DEFINE s == a[k]
             r == b[k]
  <2>1. IsHire(s) /\ IsHire(r) /\ i \in Nat
    BY <1>3 DEF Later
  <2>2. CostOf(s, i) <= CostOf(r, i)
    <3>1. IsHire(HiringPlan[k]) /\ Later(s, HiringPlan[k], w) /\ Later(r, HiringPlan[k], v)
      BY <1>3, HiringIs
    <3> HIDE DEF s, r
    <3> QED
      BY <2>1, <3>1, CostsLater
  <2>3. FlowOf(s, i) = 0 /\ FlowOf(r, i) = 0
    <3> HIDE DEF s, r
    <3> QED
      BY <2>1, FlowIs DEF IsHire
  <2>4. OnceOf(s, i) = 0 /\ OnceOf(r, i) = 0 /\ Inflow(s, i) = 0 /\ Inflow(r, i) = 0
    <3> HIDE DEF s, r
    <3> QED
      BY <2>1, OnceIs, InflowIs DEF IsHire
  <2> HIDE DEF s, r
  <2>5. StepAhead(s, r, i)
    BY <2>2, <2>3, <2>4 DEF StepAhead
  <2> QED
    BY <2>5 DEF s, r
<1>5. \A i \in 1..h : StepsAhead(a, b, i)
  <2> SUFFICES ASSUME NEW i \in 1..h PROVE StepsAhead(a, b, i)
    OBVIOUS
  <2>1. i \in Nat /\ DOMAIN a = DOMAIN b /\ \A k \in DOMAIN a : StepAhead(a[k], b[k], i)
    BY <1>3, <1>4
  <2> QED
    BY <1>3, <2>1, StepByStep
<1>6. LET p == LowestCash(Trajectory(book, BaseDials(book), a, h))
          q == LowestCash(Trajectory(book, BaseDials(book), b, h))
      IN  p \in Int /\ q \in Int /\ p >= q
  BY <1>3, <1>5, AheadBySteps
<1> QED
  BY <1>2, <1>6 DEF Raises, a, b

\* More savings save more.
LEMMA SavingsMove ==
    ASSUME NEW book \in Books, OrdinaryBook(book), NEW h \in Nat \ {0}, NEW v \in Nat, NEW w \in Nat, v <= w
    PROVE  Raises("vendor_savings", v, w, book, h)
<1> DEFINE saving(x) == Step("vendor_savings", 2, x)
           with(x) == Append(HiringPlan, saving(x))
           a == with(w)
           b == with(v)
           s == saving(w)
           r == saving(v)
<1>1. \A x : /\ Swept("vendor_savings", x, book).dials = BaseDials(book)
             /\ Swept("vendor_savings", x, book).steps = with(x)
  BY DEF Swept
<1>2. \A x : LowestOf("vendor_savings", x, book, h) = LowestCash(Trajectory(book, BaseDials(book), with(x), h))
  BY <1>1 DEF LowestOf
<1>3. StepOK(s) /\ StepOK(r)
  BY DEF StepOK, Step, Kinds
<1>4. \A i \in 1..h : StepAhead(s, r, i)
  <2> SUFFICES ASSUME NEW i \in 1..h PROVE StepAhead(s, r, i)
    OBVIOUS
  <2>1. /\ s.kind = "vendor_savings" /\ s.start = 2 /\ s.cost = w /\ s.ramp = 1
        /\ s.oneTime = 0 /\ s.finance = 0
        /\ r.kind = "vendor_savings" /\ r.start = 2 /\ r.cost = v /\ r.ramp = 1
        /\ r.oneTime = 0 /\ r.finance = 0
    BY DEF Step
  <2>2. i \in Nat
    OBVIOUS
  <2> HIDE DEF s, r
  <2>3. FlowOf(s, i) = 0 /\ FlowOf(r, i) = 0
    BY <1>3, <2>1, <2>2, FlowIs
  <2>4. OnceOf(s, i) = 0 /\ OnceOf(r, i) = 0 /\ Inflow(s, i) = 0 /\ Inflow(r, i) = 0
    BY <1>3, <2>1, OnceIs, InflowIs
  <2>5. CostOf(s, i) <= CostOf(r, i)
    BY <2>1, <2>2 DEF CostOf, OpexDelta, RampFraction
  <2> QED
    BY <2>3, <2>4, <2>5 DEF StepAhead
<1>5. WithStep(a, s) /\ WithStep(b, r)
  <2> HIDE DEF saving
  <2> QED
    BY <1>3, OneStepMore
<1> HIDE DEF saving, with, a, b, s, r
<1>6. ASSUME NEW i \in 1..h PROVE StepsAhead(a, b, i)
  <2>1. StepsOK(a) /\ StepsOK(b) /\ DOMAIN a = 1..4 /\ DOMAIN b = 1..4 /\ i \in Nat
    BY <1>5 DEF WithStep
  <2>2. ASSUME NEW k \in 1..4 PROVE StepAhead(a[k], b[k], i)
    <3>1. CASE k = 4
      BY <1>4, <1>5, <3>1 DEF WithStep
    <3>2. CASE k \in 1..3
      <4>1. a[k] = HiringPlan[k] /\ b[k] = HiringPlan[k] /\ StepOK(HiringPlan[k])
        BY <1>5, <3>2, HiringIs DEF WithStep, IsHire
      <4> QED
        BY <2>1, <4>1, SameStepAhead
    <3> QED
      BY <3>1, <3>2
  <2> QED
    BY <2>1, <2>2, StepByStep
<1>7. LET p == LowestCash(Trajectory(book, BaseDials(book), a, h))
          q == LowestCash(Trajectory(book, BaseDials(book), b, h))
      IN  p \in Int /\ q \in Int /\ p >= q
  <2>1. StepsOK(a) /\ StepsOK(b)
    BY <1>5 DEF WithStep
  <2> QED
    BY <1>6, <2>1, AheadBySteps
<1> QED
  BY <1>2, <1>7 DEF Raises, a, b

(***************************************************************************)
(* A raise that closes later.                                              *)
(***************************************************************************)
\* The base plan with a raise of f that closes in month v.
WithRaise(a, v, f) == WithStep(a, Raise(v, f)) /\ StepOK(Raise(v, f)) /\ v \in Nat \ {0} /\ f \in Nat

LEMMA RaiseIs ==
    ASSUME NEW v \in Nat \ {0}, NEW f \in Nat
    PROVE  WithRaise(Append(HiringPlan, Raise(v, f)), v, f)
<1> DEFINE x == Raise(v, f)
<1>1. StepOK(x)
  BY DEF Raise, Step, StepOK, Kinds
<1> HIDE DEF x
<1>2. WithStep(Append(HiringPlan, x), x)
  BY <1>1, OneStepMore
<1> QED
  BY <1>1, <1>2 DEF WithRaise, x

\* It costs nothing and brings in nothing but what is raised, when it closes.
LEMMA RaiseDoes ==
    ASSUME NEW v \in Nat \ {0}, NEW f \in Nat, StepOK(Raise(v, f)), NEW i \in Nat
    PROVE  /\ FlowOf(Raise(v, f), i) = 0 /\ CostOf(Raise(v, f), i) = 0 /\ OnceOf(Raise(v, f), i) = 0
           /\ Inflow(Raise(v, f), i) = IF v = i THEN f ELSE 0
<1> DEFINE x == Raise(v, f)
<1>1. x.kind = "financing" /\ x.start = v /\ x.finance = f /\ x.oneTime = 0 /\ StepOK(x)
  BY DEF Raise, Step
<1> HIDE DEF x
<1>2. FlowOf(x, i) = 0
  BY <1>1, FlowIs
<1>3. CostOf(x, i) = 0
  BY <1>1, CostOfIs
<1>4. OnceOf(x, i) = 0
  BY <1>1, OnceIs
<1>5. Inflow(x, i) = IF v = i THEN f ELSE 0
  BY <1>1, InflowIs
<1> QED
  BY <1>2, <1>3, <1>4, <1>5 DEF x

LEMMA RaisedOnce ==
    ASSUME NEW a, NEW v, NEW f, WithRaise(a, v, f), NEW i \in Nat
    PROVE  RaisedIn(a, i) = IF v = i THEN f ELSE 0
<1> DEFINE g == RaisedBy(a, i)
<1>1. StepsOK(a) /\ DOMAIN a = 1..4 /\ \A k \in 1..3 : a[k] = HiringPlan[k] /\ IsHire(a[k])
  BY HiringIs DEF WithRaise, WithStep
<1>2. a[4] = Raise(v, f) /\ StepOK(Raise(v, f)) /\ v \in Nat \ {0} /\ f \in Nat
  BY DEF WithRaise, WithStep
<1>3. \A k \in 1..4 : g[k] = Inflow(a[k], i)
  BY <1>1 DEF RaisedBy
<1>4. \A k \in 1..3 : g[k] = 0
  <2> SUFFICES ASSUME NEW k \in 1..3 PROVE Inflow(a[k], i) = 0
    BY <1>3
  <2> QED
    BY <1>1, InflowIs DEF IsHire
<1>5. g[4] = IF v = i THEN f ELSE 0
  BY <1>2, <1>3, RaiseDoes
<1>6. RaisedIn(a, i) = Part(g, 1..4)
  BY <1>1, AreParts
<1>7. \A k \in 1..4 : g[k] \in Int
  BY <1>1, InEachStep
<1> HIDE DEF g
<1>8. Part(g, 1..4) = g[4] + Part(g, (1..4) \ {4})
  <2>1. IsFiniteSet(1..4)
    <3>1. \A n \in Nat : IsFiniteSet(1..n)
      BY FS_Interval
    <3> QED
      BY <3>1
  <2>2. 4 \in 1..4
    OBVIOUS
  <2> QED
    BY <1>7, <2>1, <2>2, PartWithout
<1>9. Part(g, (1..4) \ {4}) = 0
  <2>1. (1..4) \ {4} = 1..3
    OBVIOUS
  <2>2. g[1] = 0 /\ g[2] = 0 /\ g[3] = 0
    BY <1>4
  <2>3. Part(g, 1..3) = g[1] + g[2] + g[3]
    BY <2>2, SumsOfFew
  <2> QED
    BY <2>1, <2>2, <2>3
<1>10. g[4] \in Int
  BY <1>7
<1> QED
  BY <1>5, <1>6, <1>8, <1>9, <1>10

LEMMA OnlyTheClose ==
    ASSUME NEW a, NEW b, NEW v, NEW w, NEW f, WithRaise(a, v, f), WithRaise(b, w, f), NEW i \in Nat
    PROVE  EarnedIn(a, i) = EarnedIn(b, i) /\ SpentIn(a, i) = SpentIn(b, i) /\ PaidIn(a, i) = PaidIn(b, i)
<1>1. /\ DOMAIN a = 1..4 /\ DOMAIN b = 1..4 /\ \A k \in 1..3 : a[k] = b[k]
      /\ a[4] = Raise(v, f) /\ b[4] = Raise(w, f)
  BY DEF WithRaise, WithStep
<1>2. \A k \in 1..4 : /\ FlowOf(a[k], i) = FlowOf(b[k], i) /\ CostOf(a[k], i) = CostOf(b[k], i)
                      /\ OnceOf(a[k], i) = OnceOf(b[k], i)
  <2> SUFFICES ASSUME NEW k \in 1..4
               PROVE  /\ FlowOf(a[k], i) = FlowOf(b[k], i) /\ CostOf(a[k], i) = CostOf(b[k], i)
                      /\ OnceOf(a[k], i) = OnceOf(b[k], i)
    OBVIOUS
  <2>1. CASE k \in 1..3
    BY <1>1, <2>1
  <2>2. CASE k = 4
    <3>1. FlowOf(a[4], i) = 0 /\ CostOf(a[4], i) = 0 /\ OnceOf(a[4], i) = 0
      BY <1>1, RaiseDoes DEF WithRaise
    <3>2. FlowOf(b[4], i) = 0 /\ CostOf(b[4], i) = 0 /\ OnceOf(b[4], i) = 0
      BY <1>1, RaiseDoes DEF WithRaise
    <3> QED
      BY <2>2, <3>1, <3>2
  <2> QED
    BY <2>1, <2>2
<1>3. EarnedBy(a, i) = EarnedBy(b, i) /\ SpentBy(a, i) = SpentBy(b, i) /\ PaidBy(a, i) = PaidBy(b, i)
  BY <1>1, <1>2 DEF EarnedBy, SpentBy, PaidBy
<1> QED
  BY <1>3 DEF EarnedIn, SpentIn, PaidIn

\* What the earlier raise has more in month i.
Lead(v, w, f, i) == IF v <= i /\ i < w THEN f ELSE 0

LEMMA EarlierCash ==
    ASSUME NEW book, BookOK(book), NEW d, DialsOK(d), NEW h \in Nat, NEW a, NEW b, NEW v, NEW w, NEW f,
           WithRaise(a, v, f), WithRaise(b, w, f), v <= w, NEW p, NEW q,
           Projects(p, book, d, a, h), Projects(q, book, d, b, h)
    PROVE  \A i \in 1..h : p[i].cash = q[i].cash + Lead(v, w, f, i)
<1>1. v \in Nat /\ v >= 1 /\ w \in Nat /\ f \in Nat /\ StepsOK(a) /\ StepsOK(b)
  BY DEF WithRaise, WithStep
<1>2. \A i \in 1..h : /\ EarnedIn(a, i) = EarnedIn(b, i) /\ SpentIn(a, i) = SpentIn(b, i)
                      /\ PaidIn(a, i) = PaidIn(b, i)
                      /\ SpentIn(a, i) \in Int
                      /\ RaisedIn(a, i) = (IF v = i THEN f ELSE 0)
                      /\ RaisedIn(b, i) = (IF w = i THEN f ELSE 0)
  <2> SUFFICES ASSUME NEW i \in 1..h
               PROVE  /\ EarnedIn(a, i) = EarnedIn(b, i) /\ SpentIn(a, i) = SpentIn(b, i)
                      /\ PaidIn(a, i) = PaidIn(b, i)
                      /\ SpentIn(a, i) \in Int
                      /\ RaisedIn(a, i) = (IF v = i THEN f ELSE 0)
                      /\ RaisedIn(b, i) = (IF w = i THEN f ELSE 0)
    OBVIOUS
  <2>1. i \in Nat
    OBVIOUS
  <2>2. SpentIn(a, i) \in Int
    BY <1>1, <2>1, InAllSteps
  <2>3. EarnedIn(a, i) = EarnedIn(b, i) /\ SpentIn(a, i) = SpentIn(b, i) /\ PaidIn(a, i) = PaidIn(b, i)
    BY <2>1, OnlyTheClose
  <2>4. RaisedIn(a, i) = (IF v = i THEN f ELSE 0) /\ RaisedIn(b, i) = (IF w = i THEN f ELSE 0)
    BY <2>1, RaisedOnce
  <2> QED
    BY <2>2, <2>3, <2>4
<1>3. /\ TwoProjections(p, q, book, d, a, b, h) /\ EarnsTheSame(a, b, h) /\ CostsNoMore(a, b, h)
      /\ TwoProjections(q, p, book, d, b, a, h) /\ EarnsTheSame(b, a, h) /\ CostsNoMore(b, a, h)
  BY <1>1, <1>2 DEF TwoProjections, EarnsTheSame, CostsNoMore
<1>4. \A i \in 1..h : p[i].net <= q[i].net
  BY <1>3, LessCost
<1>5. \A i \in 1..h : q[i].net <= p[i].net
  BY <1>3, LessCost
<1>6. \A i \in 1..h : WholeMonth(p[i]) /\ Balance(StartsFrom(p, book, i))
  BY <1>1, MonthsAreWhole
<1>7. \A i \in 1..h : WholeMonth(q[i]) /\ Balance(StartsFrom(q, book, i))
  BY <1>1, MonthsAreWhole
<1>8. \A i \in 1..h : p[i].net = q[i].net
  <2>1. \A i \in 1..h : p[i].net \in Int /\ q[i].net \in Int
    BY <1>6, <1>7 DEF WholeMonth
  <2> QED
    BY <1>4, <1>5, <2>1
<1> DEFINE K == {k \in 1..h : p[k].cash # q[k].cash + Lead(v, w, f, k)}
<1>9. SUFFICES ASSUME K # {} PROVE FALSE
  OBVIOUS
<1>10. PICK k \in K : \A j \in K : k <= j
  <2>1. K \in SUBSET Nat
    OBVIOUS
  <2> HIDE DEF K
  <2> QED
    BY <1>9, <2>1, LeastExists
<1>11. k \in 1..h /\ p[k].cash # q[k].cash + Lead(v, w, f, k)
  BY <1>10
<1> DEFINE s == StartsFrom(p, book, k)
           t == StartsFrom(q, book, k)
<1>12. s.cash \in Int /\ t.cash \in Int
  BY <1>6, <1>7, <1>11 DEF Balance
<1>13. s.cash = t.cash + Lead(v, w, f, k - 1)
  <2>1. CASE k = 1
    <3>1. s = t
      BY <2>1 DEF StartsFrom
    <3>2. Lead(v, w, f, k - 1) = 0
      BY <1>1, <2>1 DEF Lead
    <3> HIDE DEF s, t
    <3> QED
      BY <1>12, <3>1, <3>2
  <2>2. CASE k # 1
    <3>1. k - 1 \in 1..h /\ k - 1 \notin K
      BY <1>10, <1>11, <2>2
    <3> QED
      BY <2>2, <3>1 DEF StartsFrom
  <2> QED
    BY <2>1, <2>2
<1>14. MonthOf(p[k], book, d, a, s, k) /\ MonthOf(q[k], book, d, b, t, k)
  BY <1>11 DEF Projects
<1>15. p[k].net = q[k].net /\ p[k].net \in Int /\ p[k].once \in Int /\ p[k].once = q[k].once
  BY <1>2, <1>6, <1>8, <1>11, <1>14 DEF MonthOf, WholeMonth
<1>16. p[k].inflow = (IF v = k THEN f ELSE 0) /\ q[k].inflow = (IF w = k THEN f ELSE 0)
  BY <1>2, <1>11, <1>14 DEF MonthOf
<1> HIDE DEF K, s, t
<1>17. p[k].cash = s.cash - p[k].net - p[k].once + p[k].inflow
  BY <1>14 DEF MonthOf
<1>18. q[k].cash = t.cash - q[k].net - q[k].once + q[k].inflow
  BY <1>14 DEF MonthOf
<1>19. Lead(v, w, f, k - 1) + (IF v = k THEN f ELSE 0) = Lead(v, w, f, k) + (IF w = k THEN f ELSE 0)
  BY <1>1, <1>11 DEF Lead
<1>20. Lead(v, w, f, k - 1) \in Int /\ Lead(v, w, f, k) \in Int
  BY <1>1 DEF Lead
<1> DEFINE x == Lead(v, w, f, k - 1)
           y == Lead(v, w, f, k)
           m == p[k].net
           n == p[k].once
           i == p[k].inflow
           j == q[k].inflow
<1>21. /\ x \in Int /\ y \in Int /\ m \in Int /\ n \in Int /\ i \in Int /\ j \in Int /\ x + i = y + j
  BY <1>1, <1>15, <1>16, <1>19, <1>20
<1>22. p[k].cash = s.cash - m - n + i /\ q[k].cash = t.cash - m - n + j /\ s.cash = t.cash + x
  BY <1>13, <1>15, <1>17, <1>18
<1> HIDE DEF x, y, m, n, i, j
<1>23. p[k].cash = q[k].cash + y
  BY <1>12, <1>21, <1>22
<1> QED
  BY <1>11, <1>23 DEF y

\* A raise that closes later leaves less.
LEMMA LateRaisesMove ==
    ASSUME NEW book \in Books, NEW h \in Nat \ {0}, NEW v \in Nat \ {0}, NEW w \in Nat \ {0}, v <= w
    PROVE  Lowers("financing_close", v, w, book, h)
<1> DEFINE f == 3000000
           d == BaseDials(book)
           with(x) == Append(HiringPlan, Raise(x, f))
           a == with(v)
           b == with(w)
           p == Trajectory(book, d, a, h)
           q == Trajectory(book, d, b, h)
<1>1. \A x : /\ Swept("financing_close", x, book).dials = d
             /\ Swept("financing_close", x, book).steps = with(x)
  BY SMT DEF Swept
<1>2. f \in Nat
  BY SMT
<1> HIDE DEF f
<1>3. LowestOf("financing_close", v, book, h) = LowestCash(p)
      /\ LowestOf("financing_close", w, book, h) = LowestCash(q)
  BY <1>1 DEF LowestOf
<1>4. WithRaise(a, v, f) /\ WithRaise(b, w, f)
  BY <1>2, RaiseIs
<1>5. BookOK(book) /\ DialsOK(d) /\ StepsOK(a) /\ StepsOK(b)
  BY <1>4, BooksAreOK, DialsAreOK DEF WithRaise, WithStep
<1> HIDE DEF d, with, a, b
<1>6. Projects(p, book, d, a, h) /\ Projects(q, book, d, b, h)
  BY TrajectoryIs
<1> HIDE DEF p, q
<1>7. \A i \in 1..h : p[i].cash = q[i].cash + Lead(v, w, f, i)
  BY <1>4, <1>5, <1>6, EarlierCash
<1>8. IsProjection(book, d, a, h, p) /\ IsProjection(book, d, b, h, q)
  BY <1>5, <1>6 DEF IsProjection
<1>9. \A i \in 1..h : p[i].cash >= q[i].cash
  <2> SUFFICES ASSUME NEW i \in 1..h PROVE p[i].cash >= q[i].cash
    OBVIOUS
  <2>1. q[i].cash \in Int
    BY <1>5, <1>6, MonthsAreWhole DEF WholeMonth
  <2>2. Lead(v, w, f, i) \in Nat
    BY <1>2 DEF Lead
  <2> QED
    BY <1>7, <2>1, <2>2
<1>10. LowestCash(p) \in Int /\ LowestCash(q) \in Int /\ LowestCash(p) >= LowestCash(q)
  BY <1>8, <1>9, MoreGetsBy
<1> QED
  BY <1>3, <1>10 DEF Lowers

(***************************************************************************)
(* What a sweep says.                                                      *)
(***************************************************************************)
SweptNames == {"churn", "conversion", "margin", "hiring_start", "vendor_savings", "financing_close"}

\* Five values that grow, and what they are values of.
Grows(variable, s) ==
    /\ DOMAIN s = 1..5 /\ \A k \in 1..5 : s[k] \in Nat
    /\ \A k \in 1..4 : s[k] <= s[k + 1]
    /\ variable = "churn" => \A k \in 1..5 : s[k] <= 1000
    /\ variable = "financing_close" => \A k \in 1..5 : s[k] >= 1

LEMMA FiveThatGrow ==
    ASSUME NEW a \in Nat, NEW b \in Nat, NEW c \in Nat, NEW d \in Nat, NEW e \in Nat,
           a <= b, b <= c, c <= d, d <= e, NEW variable, variable = "churn" => e <= 1000,
           variable = "financing_close" => a >= 1
    PROVE  Grows(variable, <<a, b, c, d, e>>)
<1> DEFINE s == <<a, b, c, d, e>>
<1>1. DOMAIN s = 1..5 /\ s[1] = a /\ s[2] = b /\ s[3] = c /\ s[4] = d /\ s[5] = e
  OBVIOUS
<1> HIDE DEF s
<1>2. \A k \in 1..5 : k = 1 \/ k = 2 \/ k = 3 \/ k = 4 \/ k = 5
  OBVIOUS
<1>3. \A k \in 1..4 : (k = 1 /\ k + 1 = 2) \/ (k = 2 /\ k + 1 = 3) \/ (k = 3 /\ k + 1 = 4) \/ (k = 4 /\ k + 1 = 5)
  OBVIOUS
<1>4. \A k \in 1..5 : s[k] \in Nat /\ a <= s[k] /\ s[k] <= e
  BY <1>1, <1>2
<1>5. \A k \in 1..4 : s[k] <= s[k + 1]
  BY <1>1, <1>3
<1>6. variable = "churn" => \A k \in 1..5 : s[k] <= 1000
  <2>1. 1000 \in Int
    BY SMT
  <2> QED
    BY <1>4, <2>1
<1>7. variable = "financing_close" => \A k \in 1..5 : s[k] >= 1
  BY <1>4
<1>8. Grows(variable, s)
  BY <1>1, <1>4, <1>5, <1>6, <1>7 DEF Grows
<1> QED
  BY <1>8 DEF s

LEMMA SweepsAre ==
    DOMAIN SWEEPS = SweptNames /\ \A variable \in SweptNames : Grows(variable, SWEEPS[variable])
<1>1. DOMAIN SWEEPS = SweptNames
  BY DEF SWEEPS, SweptNames
<1>2. Grows("churn", <<10, 18, 25, 35, 50>>)
  BY FiveThatGrow
<1>3. Grows("conversion", <<200, 260, 320, 400, 500>>)
  BY FiveThatGrow, SMT
<1>4. Grows("margin", <<700, 740, 780, 820, 860>>)
  BY FiveThatGrow, SMT
<1>5. Grows("hiring_start", <<0, 1, 2, 3, 4>>)
  BY FiveThatGrow
<1>6. Grows("vendor_savings", <<0, 3000, 6000, 9000, 12000>>)
  BY FiveThatGrow, SMT
<1>7. Grows("financing_close", <<2, 4, 6, 8, 10>>)
  BY FiveThatGrow
<1>8. /\ SWEEPS["churn"] = <<10, 18, 25, 35, 50>> /\ SWEEPS["conversion"] = <<200, 260, 320, 400, 500>>
      /\ SWEEPS["margin"] = <<700, 740, 780, 820, 860>> /\ SWEEPS["hiring_start"] = <<0, 1, 2, 3, 4>>
      /\ SWEEPS["vendor_savings"] = <<0, 3000, 6000, 9000, 12000>>
      /\ SWEEPS["financing_close"] = <<2, 4, 6, 8, 10>>
  BY SMT DEF SWEEPS
<1>9. ASSUME NEW variable \in SweptNames PROVE Grows(variable, SWEEPS[variable])
  <2>1. CASE variable = "churn"
    BY <1>2, <1>8, <2>1
  <2>2. CASE variable = "conversion"
    BY <1>3, <1>8, <2>2
  <2>3. CASE variable = "margin"
    BY <1>4, <1>8, <2>3
  <2>4. CASE variable = "hiring_start"
    BY <1>5, <1>8, <2>4
  <2>5. CASE variable = "vendor_savings"
    BY <1>6, <1>8, <2>5
  <2>6. CASE variable = "financing_close"
    BY <1>7, <1>8, <2>6
  <2> QED
    BY <2>1, <2>2, <2>3, <2>4, <2>5, <2>6 DEF SweptNames
<1> QED
  BY <1>1, <1>9

\* Five outputs, which rise or fall as expected.
Moves(variable, o) ==
    /\ IsList(o) /\ Len(o) = 5 /\ DOMAIN o = 1..5 /\ \A k \in 1..5 : o[k] \in Int
    /\ \A k \in 1..4 : IF variable \in {"churn", "financing_close"} THEN o[k + 1] <= o[k] ELSE o[k + 1] >= o[k]
TrueSweep(r) == r.done /\ r.swing # 0 => r.direction = Expected(r.variable)

LEMMA StillDoesNotSwing ==
    ASSUME NEW o, DOMAIN o = 1..5, \A k \in 1..5 : o[k] \in Int, \A k \in 1..4 : o[k + 1] = o[k]
    PROVE  Swing(o) = 0
<1> DEFINE x == o[1]
<1>1. o[2] = o[1] /\ o[3] = o[2] /\ o[4] = o[3] /\ o[5] = o[4] /\ x \in Int
  <2>1. o[1 + 1] = o[1] /\ o[2 + 1] = o[2] /\ o[3 + 1] = o[3] /\ o[4 + 1] = o[4]
    OBVIOUS
  <2> QED
    BY <2>1
<1>2. \A k \in 1..5 : o[k] = x
  <2>1. \A k \in 1..5 : k = 1 \/ k = 2 \/ k = 3 \/ k = 4 \/ k = 5
    OBVIOUS
  <2> QED
    BY <1>1, <2>1
<1>3. Range(o) = {x}
  BY <1>2 DEF Range
<1> HIDE DEF x
<1>4. IsFiniteSet({x}) /\ WholeNumbers({x})
  BY <1>1, FS_Singleton DEF WholeNumbers
<1>5. Max({x}) = x /\ Min({x}) = x
  BY <1>4, HighestIs, LowestIs
<1> QED
  BY <1>1, <1>3, <1>5 DEF Swing

LEMMA DirectionIs ==
    ASSUME NEW variable, NEW o, Moves(variable, o)
    PROVE  TrueSweep(Sweep(variable, o))
<1> DEFINE up == \A k \in 1..(Len(o) - 1) : o[k + 1] >= o[k]
           down == \A k \in 1..(Len(o) - 1) : o[k + 1] <= o[k]
           r == Sweep(variable, o)
<1>1. r.swing = Swing(o) /\ r.direction = Direction(o) /\ r.variable = variable
  BY DEF Sweep
<1>2. Direction(o) = IF up THEN "increases" ELSE IF down THEN "decreases" ELSE "non-monotonic"
  BY DEF Direction
<1>3. Len(o) - 1 = 4
  BY DEF Moves
<1> HIDE DEF r
<1>4. CASE variable \notin {"churn", "financing_close"}
  <2>1. up
    BY <1>3, <1>4 DEF Moves
  <2> QED
    BY <1>1, <1>2, <1>4, <2>1 DEF TrueSweep, Expected, r
<1>5. CASE variable \in {"churn", "financing_close"}
  <2>1. down
    BY <1>3, <1>5 DEF Moves
  <2>2. up => Swing(o) = 0
    <3> SUFFICES ASSUME up PROVE Swing(o) = 0
      OBVIOUS
    <3>1. \A k \in 1..5 : o[k] \in Int
      BY DEF Moves
    <3>2. \A k \in 1..4 : o[k + 1] <= o[k]
      BY <1>3, <2>1
    <3>3. \A k \in 1..4 : o[k + 1] >= o[k]
      BY <1>3
    <3>4. \A k \in 1..4 : k \in 1..5 /\ k + 1 \in 1..5
      OBVIOUS
    <3>5. \A k \in 1..4 : o[k + 1] = o[k]
      BY <3>1, <3>2, <3>3, <3>4
    <3> QED
      BY <3>1, <3>5, StillDoesNotSwing DEF Moves
  <2> HIDE DEF up, down
  <2> QED
    BY <1>1, <1>2, <1>5, <2>1, <2>2 DEF TrueSweep, Expected, r
<1> QED
  BY <1>4, <1>5

\* Of an ordinary book the lowest cash moves as expected.
LEMMA SweptMove ==
    ASSUME NEW variable \in SweptNames, NEW book \in Books, OrdinaryBook(book), NEW h \in Horizons
    PROVE  Moves(variable, [k \in 1..5 |-> LowestOf(variable, SWEEPS[variable][k], book, h)])
<1> DEFINE s == SWEEPS[variable]
           low(v) == LowestOf(variable, v, book, h)
           o == [k \in 1..5 |-> low(s[k])]
           falls == variable \in {"churn", "financing_close"}
<1>1. Grows(variable, s)
  BY SweepsAre
<1>2. h \in Nat \ {0}
  BY PlanAssumption
<1> HIDE DEF s
<1>3. ASSUME NEW k \in 1..4
      PROVE  /\ low(s[k]) \in Int /\ low(s[k + 1]) \in Int
             /\ IF falls THEN low(s[k + 1]) <= low(s[k]) ELSE low(s[k + 1]) >= low(s[k])
  <2>1. k \in 1..5 /\ k + 1 \in 1..5 /\ s[k] \in Nat /\ s[k + 1] \in Nat /\ s[k] <= s[k + 1]
    BY <1>1 DEF Grows
  <2>2. CASE variable = "churn"
    <3>1. s[k + 1] <= 1000
      BY <1>1, <2>1, <2>2 DEF Grows
    <3>2. Lowers("churn", s[k], s[k + 1], book, h)
      BY <1>2, <2>1, <3>1, DialsMove
    <3> QED
      BY <2>2, <3>2 DEF Lowers
  <2>3. CASE variable = "margin"
    <3>1. Raises("margin", s[k], s[k + 1], book, h)
      BY <1>2, <2>1, DialsMove
    <3> QED
      BY <2>3, <3>1 DEF Raises
  <2>4. CASE variable = "conversion"
    <3>1. Raises("conversion", s[k], s[k + 1], book, h)
      BY <1>2, <2>1, DialsMove
    <3> QED
      BY <2>4, <3>1 DEF Raises
  <2>5. CASE variable = "hiring_start"
    <3>1. Raises("hiring_start", s[k], s[k + 1], book, h)
      BY <1>2, <2>1, LateHiresMove
    <3> QED
      BY <2>5, <3>1 DEF Raises
  <2>6. CASE variable = "vendor_savings"
    <3>1. Raises("vendor_savings", s[k], s[k + 1], book, h)
      BY <1>2, <2>1, SavingsMove
    <3> QED
      BY <2>6, <3>1 DEF Raises
  <2>7. CASE variable = "financing_close"
    <3>1. s[k] >= 1 /\ s[k + 1] >= 1
      BY <1>1, <2>1, <2>7 DEF Grows
    <3>2. s[k] \in Nat \ {0} /\ s[k + 1] \in Nat \ {0}
      BY <2>1, <3>1
    <3>3. Lowers("financing_close", s[k], s[k + 1], book, h)
      BY <1>2, <2>1, <3>2, LateRaisesMove
    <3> QED
      BY <2>7, <3>3 DEF Lowers
  <2> QED
    BY <2>2, <2>3, <2>4, <2>5, <2>6, <2>7 DEF SweptNames
<1> HIDE DEF low
<1>4. ASSUME NEW k \in 1..5 PROVE o[k] \in Int
  <2>1. k \in 1..4 \/ (k = 5 /\ 4 \in 1..4 /\ 4 + 1 = 5)
    OBVIOUS
  <2>2. CASE k \in 1..4
    BY <1>3, <2>2
  <2>3. CASE k = 5
    <3>1. low(s[4 + 1]) \in Int
      BY <1>3
    <3> QED
      BY <2>3, <3>1
  <2> QED
    BY <2>1, <2>2, <2>3
<1>5. \A k \in 1..4 : IF falls THEN o[k + 1] <= o[k] ELSE o[k + 1] >= o[k]
  <2> SUFFICES ASSUME NEW k \in 1..4 PROVE IF falls THEN o[k + 1] <= o[k] ELSE o[k + 1] >= o[k]
    OBVIOUS
  <2>1. o[k] = low(s[k]) /\ o[k + 1] = low(s[k + 1])
    OBVIOUS
  <2> HIDE DEF o, falls
  <2> QED
    BY <1>3, <2>1
<1>6. DOMAIN o = 1..5 /\ o = [k \in 1..5 |-> o[k]]
  OBVIOUS
<1> HIDE DEF o
<1>7. IsList(o) /\ Len(o) = 5
  <2>1. 5 \in Nat
    OBVIOUS
  <2> QED
    BY <1>6, <2>1, ListOfAll
<1>8. Moves(variable, o)
  BY <1>4, <1>5, <1>6, <1>7 DEF Moves
<1> QED
  BY <1>8 DEF o, low, s

(***************************************************************************)
(* What is said of the plans of a book, always.                            *)
(***************************************************************************)
SoundComparison(c) == c.done => NotBeaten(c) /\ AChoice(c)
ComparisonInv == SoundComparison(portfolio)
SweepInv == TrueSweep(sweep)

LEMMA ComparisonStarts == PortfolioInit => ComparisonInv /\ SweepInv
  BY DEF PortfolioInit, Nothing, ComparisonInv, SoundComparison, SweepInv, TrueSweep

LEMMA ComparePlaybooksKeeps == ASSUME ComparePlaybooks PROVE ComparisonInv'
<1>1. PICK ids \in Requests, book \in Books, h \in Horizons : portfolio' = Compared(ids, book, h)
  BY DEF ComparePlaybooks
<1> DEFINE c == Compared(ids, book, h)
<1>2. NotBeaten(c) /\ AChoice(c)
  BY ComparedIs
<1> HIDE DEF c
<1>3. SoundComparison(c)
  BY <1>2 DEF SoundComparison
<1>4. portfolio' = c
  BY <1>1 DEF c
<1> QED
  BY <1>3, <1>4 DEF ComparisonInv

LEMMA RunSensitivityKeeps == ASSUME OrdinaryBooks, RunSensitivity PROVE SweepInv'
<1>1. PICK variable \in DOMAIN SWEEPS, book \in Books, h \in Horizons :
          LET LowestCashOf(p) == Summary(Trajectory(book, p.dials, p.steps, h)).minCash
          IN  sweep' = Sweep(variable, Each([k \in DOMAIN SWEEPS[variable] |->
                                                 LowestCashOf(Swept(variable, SWEEPS[variable][k], book))]))
  BY DEF RunSensitivity
<1> DEFINE o == [k \in 1..5 |-> LowestOf(variable, SWEEPS[variable][k], book, h)]
<1>2. variable \in SweptNames /\ DOMAIN SWEEPS[variable] = 1..5
  BY SweepsAre DEF Grows
<1>3. Moves(variable, o)
  BY <1>2, SweptMove DEF OrdinaryBooks
<1>4. sweep' = Sweep(variable, Each(o))
  BY <1>1, <1>2 DEF LowestOf, LowestCash
<1>5. DOMAIN o = 1..5 /\ o = [k \in 1..5 |-> o[k]]
  OBVIOUS
<1> HIDE DEF o
<1>6. Each(o) = o
  <2>1. 5 \in Nat
    OBVIOUS
  <2> QED
    BY <1>5, <2>1, ListOfAll
<1>7. TrueSweep(Sweep(variable, o))
  BY <1>3, DirectionIs
<1>8. sweep' = Sweep(variable, o)
  BY <1>4, <1>6
<1> DEFINE r == Sweep(variable, o)
<1> HIDE DEF r
<1>9. sweep' = r /\ TrueSweep(r)
  BY <1>7, <1>8 DEF r
<1> QED
  BY <1>9 DEF SweepInv

\* These say what the properties say.
LEMMA ChosenWell == ComparisonInv => TheBestIsNotBeaten /\ ThePortfolioIsAChoice
<1>1. ComparisonInv => TheBestIsNotBeaten
  BY DEF ComparisonInv, SoundComparison, NotBeaten, TheBestIsNotBeaten
<1>2. ComparisonInv => ThePortfolioIsAChoice
  BY DEF ComparisonInv, SoundComparison, AChoice, IsChoice, ThePortfolioIsAChoice
<1> QED
  BY <1>1, <1>2

LEMMA SweptTruly == SweepInv => SweepsKnowTheirDirection
  BY DEF SweepInv, TrueSweep, SweepsKnowTheirDirection

\* Whatever is compared, from whatever books: a playbook that is at least as good as
\* another on every criterion scores at least as much and is ranked accordingly; the
\* portfolio is a choice among what was compared, no playbook twice, its weights a
\* whole, with a stabilizer whenever one was compared that could steady a best that
\* breaches a guardrail (compare_playbooks).
THEOREM ComparisonsChooseWell == PortfolioSpec => [](TheBestIsNotBeaten /\ ThePortfolioIsAChoice)
<1>1. PortfolioInit => ComparisonInv
  BY ComparisonStarts
<1>2. ComparisonInv /\ [PortfolioNext]_<<portfolio, sweep>> => ComparisonInv'
  <2> SUFFICES ASSUME ComparisonInv, [PortfolioNext]_<<portfolio, sweep>> PROVE ComparisonInv'
    OBVIOUS
  <2>1. CASE ComparePlaybooks
    BY <2>1, ComparePlaybooksKeeps
  <2>2. CASE RunSensitivity
    BY <2>2 DEF RunSensitivity, ComparisonInv
  <2>3. CASE UNCHANGED <<portfolio, sweep>>
    BY <2>3 DEF ComparisonInv
  <2> QED
    BY <2>1, <2>2, <2>3 DEF PortfolioNext
<1>3. ComparisonInv => TheBestIsNotBeaten /\ ThePortfolioIsAChoice
  BY ChosenWell
<1> QED
  BY <1>1, <1>2, <1>3, PTL DEF PortfolioSpec

\* And of ordinary books, in which no amount runs the wrong way, a sweep that moves
\* the lowest cash moves it the way the lever works, in every plan of any length:
\* all of ComparisonsAreTrue (compare_playbooks, run_sensitivity).
THEOREM ComparisonsAreAlwaysTrue == ASSUME OrdinaryBooks PROVE PortfolioSpec => []ComparisonsAreTrue
<1>1. PortfolioInit => SweepInv
  BY ComparisonStarts
<1>2. SweepInv /\ [PortfolioNext]_<<portfolio, sweep>> => SweepInv'
  <2> SUFFICES ASSUME SweepInv, [PortfolioNext]_<<portfolio, sweep>> PROVE SweepInv'
    OBVIOUS
  <2>1. CASE ComparePlaybooks
    BY <2>1 DEF ComparePlaybooks, SweepInv
  <2>2. CASE RunSensitivity
    BY <2>2, RunSensitivityKeeps
  <2>3. CASE UNCHANGED <<portfolio, sweep>>
    BY <2>3 DEF SweepInv
  <2> QED
    BY <2>1, <2>2, <2>3 DEF PortfolioNext
<1>3. PortfolioSpec => []SweepInv
  BY <1>1, <1>2, PTL DEF PortfolioSpec
<1>4. SweepInv => SweepsKnowTheirDirection
  BY SweptTruly
<1>5. TheBestIsNotBeaten /\ ThePortfolioIsAChoice /\ SweepsKnowTheirDirection => ComparisonsAreTrue
  BY DEF ComparisonsAreTrue
<1> QED
  BY <1>3, <1>4, <1>5, ComparisonsChooseWell, PTL
=============================================================================
