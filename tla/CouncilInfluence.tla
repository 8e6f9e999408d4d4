-------------------------- MODULE CouncilInfluence --------------------------
(***************************************************************************)
(* The influence of the analysts on the CFO's ruling                       *)
(* (agent/src/council_influence.py), with the scorers that feed it         *)
(* (agent/src/agent.py) and the roles a model may name.                    *)
(*                                                                         *)
(* A debate gives every analyst signals; signals, the rolling prior and    *)
(* the type of the decision give a baseline; a model may assign weights of *)
(* its own, which are blended with it; caps for the under-grounded and a   *)
(* normalisation follow.  After the ruling the audit's scores and the      *)
(* influence itself are blended into the prior, for the next debate.       *)
(*                                                                         *)
(* Python's floats are exact here: a score is an integer, a sum with       *)
(* weights of two decimals is kept in hundredths, and a division is        *)
(* rounded half to even, as round() does.  Rationales are left out.        *)
(*                                                                         *)
(* Definitions marked "Mutation:" are plausible bugs in the definition     *)
(* that follows them.                                                      *)
(***************************************************************************)
EXTENDS Amounts, Sequences

CONSTANTS
    DecisionTypes, \* types of decision that are put to the council
    Citations,     \* numbers of metrics an analyst may cite
    Priors,        \* priors the analysts may start with
    Audits,        \* reliability scores an audit may give
    ModelWeights,  \* weights the influence model may assign to the seats
    MaxDebates     \* bound of the model: debates in a row

ANALYSTS == <<"treasury", "fpna", "risk", "procurement">>
Seats == DOMAIN ANALYSTS

ASSUME BoundsAssumption ==
    /\ MaxDebates \in Nat
    /\ Citations \subseteq Nat
    /\ Priors \subseteq 0..100 /\ Audits \subseteq 0..100
    /\ ModelWeights \subseteq [Seats -> 0..100]

VARIABLES
    stage,   \* "open", "weighed" or "ruled"
    prior,   \* reliability_history: a score for each seat
    cited,   \* metrics each analyst has cited
    path,    \* how the weights were assigned: "baseline" or "model"
    shares,  \* the influence of each seat
    debates  \* debates finished

influenceVars == <<stage, prior, cited, path, shares, debates>>

(***************************************************************************)
(* Arithmetic.                                                             *)
(***************************************************************************)
Clamp(x) == Greatest(0, Least(100, x))

Total(f) == f[1] + f[2] + f[3] + f[4]

(***************************************************************************)
(* The signals of a debate.                                                *)
(***************************************************************************)
\* _fast_challenge_report: the score of a position by its citations.
GroundingScore(n) == Least(100, 42 + 14 * n)

\* The finding's score, 12 lower without citations, then at least what the
\* position's own citations are worth.
GroundingSignal(n) ==
    LET finding == IF n > 0 THEN GroundingScore(n) ELSE Greatest(35, GroundingScore(n) - 12)
    IN  Greatest(Clamp(finding), GroundingScore(n))

\* One round of the table: an analyst challenges the next, who loses less than
\* a challenger gains.
DebateSignal(challenges, challenged) ==
    Greatest(20, Least(100, 50 + 8 * challenges) - 5 * challenged)

\* type_bias.
TypeBias(type, seat) ==
    LET biases == [vendor_renewal |-> <<4, 0, 0, 10>>, hiring_plan |-> <<6, 10, 0, 0>>,
                   capital_allocation |-> <<8, 8, 0, 0>>, security_blocker |-> <<0, 0, 12, 4>>,
                   pricing_change |-> <<0, 10, 0, 4>>, financing_scenario |-> <<12, 6, 0, 0>>]
    IN  IF type \in DOMAIN biases THEN biases[type][seat] ELSE 0

(***************************************************************************)
(* The weights.                                                            *)
(***************************************************************************)
\* Mutation: the last seat is rounded like the others.
NormalizedEach(w) ==
    LET at(i) == Greatest(1, w[i])
        sum == at(1) + at(2) + at(3) + at(4)
    IN  [i \in Seats |-> Greatest(5, Rounded(100 * at(i), sum))]

\* normalize_analyst_weights, of a weight for each seat: what rounding and the
\* minimum of 5 leave is the last seat's.
Normalized(w) ==
    LET at(i) == Greatest(1, w[i])
        sum == at(1) + at(2) + at(3) + at(4)
        share(i) == Greatest(5, Rounded(100 * at(i), sum))
    IN  [i \in Seats |-> IF i < 4 THEN share(i)
                         ELSE Greatest(5, 100 - share(1) - share(2) - share(3))]

\* compute_baseline_influence; raw scores in hundredths.
Baseline(type, p, n, challenges, challenged) ==
    LET raw == [i \in Seats |-> 40 * p[i] + 35 * GroundingSignal(n[i])
                    + 25 * DebateSignal(challenges[i], challenged[i]) + 100 * TypeBias(type, i)]
    IN  Normalized([i \in Seats |-> Greatest(5, Rounded(100 * raw[i], Total(raw)))])

Cap(grounding) ==
    IF grounding < 42 THEN 12 ELSE IF grounding < 52 THEN 18
    ELSE IF grounding < 62 THEN 28 ELSE 100

\* apply_signal_floors.
Floored(w, n) == Normalized([i \in Seats |-> Least(w[i], Cap(GroundingSignal(n[i])))])

\* reconcile_with_baseline: 65 % the model's, 35 % the baseline's.
Reconciled(m, base) == [i \in Seats |-> Rounded(65 * m[i] + 35 * base[i], 100)]

\* influence_report_payload: what is reported, and kept, is normalised once more.
Reported(w) == Normalized(w)

(***************************************************************************)
(* The history.                                                            *)
(***************************************************************************)
\* update_historical_reliability, for one seat.
Blended(p, reliability, share) ==
    LET observed == Rounded(62 * reliability + 38 * Least(100, 4 * share), 100)
    IN  Clamp(Rounded(65 * p + 35 * observed, 100))

(***************************************************************************)
(* The specification.                                                      *)
(***************************************************************************)
InfluenceInit ==
    /\ stage = "open"
    /\ prior \in [Seats -> Priors]
    /\ cited = [i \in Seats |-> 0]
    /\ path = "baseline"
    /\ shares = [i \in Seats |-> 25]
    /\ debates = 0

\* Who challenged whom: nobody, or each analyst the next.
Tables == {[made |-> <<0, 0, 0, 0>>, met |-> <<0, 0, 0, 0>>],
           [made |-> <<1, 1, 1, 1>>, met |-> <<1, 1, 1, 1>>],
           [made |-> <<0, 0, 0, 3>>, met |-> <<3, 0, 0, 0>>]}

\* influence_node: the fast path, or a model that did not answer.
WeighByBaseline ==
    /\ stage = "open"
    /\ \E type \in DecisionTypes, n \in [Seats -> Citations], x \in Tables :
          /\ cited' = n
          /\ shares' = Reported(Floored(Baseline(type, prior, n, x.made, x.met), n))
    /\ path' = "baseline"
    /\ stage' = "weighed"
    /\ UNCHANGED <<prior, debates>>

\* influence_node: the model has assigned weights to the four seats.
WeighByModel ==
    /\ stage = "open"
    /\ \E type \in DecisionTypes, n \in [Seats -> Citations], m \in ModelWeights :
          /\ cited' = n
          /\ LET base == Baseline(type, prior, n, <<0, 0, 0, 0>>, <<0, 0, 0, 0>>)
             IN  shares' = Reported(Floored(Reconciled(m, base), n))
    /\ path' = "model"
    /\ stage' = "weighed"
    /\ UNCHANGED <<prior, debates>>

\* The audit after the ruling.
Audit ==
    /\ stage = "weighed"
    /\ debates < MaxDebates
    /\ \E score \in [Seats -> Audits] :
          prior' = [i \in Seats |-> Blended(prior[i], score[i], shares[i])]
    /\ debates' = debates + 1
    /\ stage' = "open"
    /\ UNCHANGED <<cited, path, shares>>

InfluenceNext == WeighByBaseline \/ WeighByModel \/ Audit

InfluenceSpec == InfluenceInit /\ [][InfluenceNext]_influenceVars

(***************************************************************************)
(* Properties.                                                             *)
(***************************************************************************)
WeakLeads ==
    \E i \in Seats :
        /\ cited[i] = 0
        /\ \A j \in Seats \ {i} : shares[i] > shares[j] + 1
        /\ \E j \in Seats : cited[j] >= 2

\* "Analyst influence shares sum to 100 with a sensible minimum per seat", whatever
\* the priors have become and however the shares were capped; the minimum holds on
\* both paths (normalize_analyst_weights).  And "cap under-grounded analysts so
\* weak ideas cannot dominate the CFO ruling": an analyst who cited nothing does
\* not lead the council, up to the point that rounding moves, when another cited
\* two metrics or more (apply_signal_floors).
SharesAreFair ==
    /\ path = "baseline" => Total(shares) = 100
    /\ \A i \in Seats : shares[i] >= 5
    /\ stage = "weighed" /\ path = "baseline" => ~WeakLeads

\* "Cap under-grounded analysts", of weights that a model assigned.
WeakNeverLeadsTheModel == stage = "weighed" /\ path = "model" => ~WeakLeads

\* "Ensure analyst influence shares sum to 100", of weights a model assigned.
ModelSharesSumTo100 == stage = "weighed" /\ path = "model" => Total(shares) = 100
=============================================================================
