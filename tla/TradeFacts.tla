----------------------------- MODULE TradeFacts -----------------------------
(***************************************************************************)
(* An intent with its facts, what the rules of each profile make of them   *)
(* (trade_gate/context.py and scoring.py), and what is asked of a verdict  *)
(* and of its replay (see TradeVerdict).                                   *)
(*                                                                         *)
(* What is not known is Unknown. Ratios are quarters: 4 stands for 1.0. An *)
(* AI judgement is given with its confidence already taken into account.   *)
(***************************************************************************)
EXTENDS Integers, FiniteSetsExt, Functions

CONSTANT Unknown  \* a fact nobody has given

VARIABLES
  case,       \* the intent and its facts
  evaluation, \* what the engine said, or Unknown
  replay      \* what a replay of it said, or Unknown

FomoThreshold == 8

-----------------------------------------------------------------------------
(* The facts as the context builder hands them over: what the candidate    *)
(* says when there is one, what the overlay says when there is one.        *)

Market(f)    == IF f.candidate = Unknown THEN Unknown ELSE f.candidate.market
SignalOf(f)  == IF f.candidate = Unknown THEN Unknown ELSE f.candidate.signal
Qualified(f) == IF f.candidate = Unknown THEN <<>> ELSE f.candidate.qualified

Today(f, field) == IF f.overlay = Unknown THEN Unknown ELSE f.overlay[field]

Known(x) == x # Unknown
When(condition, ratio) == IF condition THEN ratio ELSE Unknown
Yes(condition) == IF condition THEN 4 ELSE 0

Clamp(q) == IF q < 0 THEN 0 ELSE IF q > 4 THEN 4 ELSE q

Best(percentiles) ==
  IF percentiles = {} THEN Unknown ELSE Max(percentiles)

-----------------------------------------------------------------------------
(* scoring.py: the ratio of each dimension, Unknown when it has none. *)

Rules(f) ==
  LET sector == Today(f, "sector")
      stock  == Today(f, "stock")
      bench  == Today(f, "benchmark")
      confirmed == Today(f, "confirmed")
      volume == IF Known(f.volume) THEN f.volume ELSE Today(f, "volume")
      named(S) == Best({f.percentile[s] : s \in S \cap DOMAIN f.percentile})
  IN CASE f.profile = "EVENT" ->
       [sector_strength |-> When(Known(sector) /\ Known(bench), Yes(sector > bench)),
        relative_strength |->
          When(Known(stock) /\ Known(sector),
               IF sector > 0 THEN Clamp((4 * stock) \div sector)
               ELSE Yes(stock > sector)),
        price_confirmation |-> When(Known(confirmed), Yes(confirmed)),
        risk_plan |-> Yes(f.invalidation)]
     [] f.profile = "SWING" ->
       [fundamental_support |->
          IF Qualified(f) # <<>> THEN Best(Range(Qualified(f)))
          ELSE Best(Range(f.percentile)),
        sector_trend |->
          When(Known(Market(f)),
               CASE Market(f) = "CONFIRMED" -> 4
                 [] Market(f) = "NEUTRAL" -> 2
                 [] Market(f) = "CONTRADICTED" -> 0),
        stock_trend |-> When(Known(f.ret20) /\ Known(f.ret60),
                             (Yes(f.ret20 > 0) + Yes(f.ret60 > 0)) \div 2),
        key_level |-> When(Known(confirmed), Yes(confirmed)),
        volume_confirmation |-> When(Known(volume), Clamp(volume)),
        relative_strength |-> When(Known(f.strength60), Yes(f.strength60 > 0)),
        risk_reward |-> When(Known(f.reward) /\ f.reward > 0,
                             (4 * f.reward) \div (f.reward + f.loss))]
     [] f.profile = "POSITION" ->
       [financial_quality |-> named({"quality"}),
        earnings_growth |-> named({"growth", "garp"}),
        valuation |-> named({"value", "garp"}),
        long_term_trend |-> When(Known(f.ret60), Yes(f.ret60 > 0)),
        execution |-> Yes(f.invalidation)]

-----------------------------------------------------------------------------
(* The properties. *)

(* Every input the profile weighs has been given: by the rules' sources    *)
(* and, where the profile listens to it, by the AI.                        *)
Complete(f) ==
  LET all(fields) == \A x \in fields : Known(Today(f, x))
      ranked(S) == S \cap DOMAIN f.percentile # {}
      spoken(S) == S \subseteq DOMAIN f.audit \cup DOMAIN f.independent
  IN CASE f.profile = "EVENT" ->
            /\ all({"stock", "sector", "benchmark", "confirmed"})
            /\ spoken({"catalyst_quality", "expectation_gap", "directness"})
       [] f.profile = "SWING" ->
            /\ all({"confirmed"}) /\ Known(Market(f))
            /\ Known(f.ret20) /\ Known(f.ret60) /\ Known(f.strength60)
            /\ Known(f.volume) \/ Known(Today(f, "volume"))
            /\ f.percentile # <<>> \/ Qualified(f) # <<>>
            /\ Known(f.reward) /\ f.reward > 0
       [] f.profile = "POSITION" ->
            /\ ranked({"quality"}) /\ ranked({"growth", "garp"})
            /\ ranked({"value", "garp"}) /\ Known(f.ret60)
            /\ spoken({"industry_trend", "competitiveness", "risk_resilience"})

Forbidden(f) ==
  ~f.invalidation \/ f.losingAdd
  \/ Market(f) = "CONTRADICTED" \/ SignalOf(f) = "BREAKDOWN"

(* PASS is earned by the facts themselves: through the scoring, the list   *)
(* of enabled vetoes and the thresholds no forbidden, unconfirmed or       *)
(* overheated intent gets through.                                         *)
PassIsEarned ==
  evaluation # Unknown /\ evaluation.decision = "PASS" =>
    /\ ~Forbidden(case)
    /\ case.fomo < FomoThreshold
    /\ case.profile \in {"EVENT", "SWING"} => Today(case, "confirmed") = TRUE
    /\ case.profile = "EVENT" =>
         ~case.pricedIn /\ (Today(case, "sector") > 0 => Today(case, "stock") > 0)

(* Unknown data never counts as neutral: an intent with a fact missing is  *)
(* not passed, and it is refused only for a fact that is known.            *)
UnknownIsNeverNeutral ==
  evaluation # Unknown /\ ~Complete(case) =>
    evaluation.decision = IF Forbidden(case) THEN "NO_TRADE" ELSE "WAIT"

(* What a rule computes the AI cannot change, and what a rule cannot       *)
(* compute the AI cannot fill in.                                          *)
RulesOutrankAi ==
  evaluation # Unknown =>
    \A d \in DOMAIN Rules(case) :
      IF Known(Rules(case)[d])
      THEN evaluation.ratios[d] = Clamp(Rules(case)[d])
      ELSE d \notin DOMAIN evaluation.ratios

(* A score lies within 0..100, so the thresholds mean what they say: the   *)
(* engine's, and that of a replay whose profile knows every stored         *)
(* dimension. One it has dropped keeps its weight beside a hundred, and    *)
(* the replayed score may pass it (replay_evaluation).                     *)
ScoreInRange ==
  /\ evaluation # Unknown => evaluation.score \in 0 .. 400
  /\ replay # Unknown /\ DOMAIN evaluation.ratios \subseteq DOMAIN replay.weights
       => replay.score \in 0 .. 400

(* A replay passes only what had no veto and nothing missing.              *)
ReplayPassIsEarned ==
  replay # Unknown /\ replay.decision = "PASS" =>
    evaluation.vetoes = {} /\ evaluation.missing = {}

(* What the engine says is earned by the facts, and its score means what   *)
(* it says; a replay passes nothing the engine had something against, and  *)
(* its score means as much while no dimension was dropped.                 *)
VerdictIsEarned ==
  /\ PassIsEarned
  /\ UnknownIsNeverNeutral
  /\ RulesOutrankAi
  /\ ScoreInRange
  /\ ReplayPassIsEarned

(* The rules replayed on the stored context give the stored decision while *)
(* the profile is the same.                                                *)
ReplayAgrees ==
  replay # Unknown /\ replay.weights = evaluation.weights
    => replay.decision = evaluation.decision
=============================================================================
