---------------------------- MODULE TradeVerdict ----------------------------
(***************************************************************************)
(* The trade gate's verdict on one intent: trade_gate/scoring.py, veto.py, *)
(* engine.py and replay.py, with the profiles of configs/trade_gate.       *)
(*                                                                         *)
(* A behaviour takes one intent with its facts, evaluates it and replays   *)
(* the evaluation under a profile, unchanged or revised. The facts and     *)
(* what the rules make of them are in TradeFacts. Ratios are quarters, so  *)
(* a score is compared with four times its threshold.                      *)
(*                                                                         *)
(* Left out: evidence, reasons, ids and times, and what the market overlay *)
(* and the AI audit are made from.                                         *)
(*                                                                         *)
(* A definition whose name ends in an underscore and a word is a plausible *)
(* slip in the definition after it. No action uses one; each shows that a  *)
(* property would notice it.                                               *)
(***************************************************************************)
EXTENDS TradeFacts, FiniteSets

CONSTANTS
  Cases,     \* the intents with their facts
  Revisions  \* [profile -> what its weights may be changed to]

(* An intent is of one of three profiles, and what is known of it is a     *)
(* number; a stop is below the entry (models.py:43), and a FOMO score that *)
(* is not within 0..10 is refused (veto.py:67). A profile's weights are    *)
(* none below zero and add up to 100 (profiles.py:26-39).                  *)
VerdictAssumption ==
  /\ Unknown \notin Int
  /\ \A f \in Cases :
       /\ f.profile \in {"EVENT", "SWING", "POSITION"}
       /\ Market(f) \in {"CONFIRMED", "NEUTRAL", "CONTRADICTED", Unknown}
       /\ \A x \in {"sector", "stock", "benchmark", "volume"} :
            Known(Today(f, x)) => Today(f, x) \in Int
       /\ \A x \in {f.ret20, f.ret60, f.strength60, f.volume, f.reward} :
            Known(x) => x \in Int
       /\ f.loss \in Int /\ f.loss > 0
       /\ f.fomo \in 0 .. 10
       /\ \A known \in {f.percentile, Qualified(f), f.audit, f.independent} :
            /\ IsFiniteSet(DOMAIN known)
            /\ \A x \in DOMAIN known : known[x] \in Int
  /\ \A p \in {"EVENT", "SWING", "POSITION"} : \A weights \in Revisions[p] :
       /\ IsFiniteSet(DOMAIN weights)
       /\ weights \in [DOMAIN weights -> Nat]
       /\ SumFunction(weights) = 100

(* configs/trade_gate/{event,swing,position}.yaml *)
Weights ==
  [EVENT    |-> [catalyst_quality |-> 20, expectation_gap |-> 20,
                 directness |-> 15, sector_strength |-> 15,
                 relative_strength |-> 15, price_confirmation |-> 10,
                 risk_plan |-> 5],
   SWING    |-> [fundamental_support |-> 15, sector_trend |-> 15,
                 stock_trend |-> 20, key_level |-> 20,
                 volume_confirmation |-> 10, relative_strength |-> 10,
                 risk_reward |-> 10],
   POSITION |-> [industry_trend |-> 20, competitiveness |-> 20,
                 financial_quality |-> 15, earnings_growth |-> 15,
                 valuation |-> 15, long_term_trend |-> 5,
                 risk_resilience |-> 5, execution |-> 5]]

HardVeto == {"NO_INVALIDATION", "UPSTREAM_MARKET_CONTRADICTED",
             "UPSTREAM_BREAKDOWN", "AVERAGING_DOWN_WITHOUT_SIGNAL"}

Enabled ==
  [EVENT    |-> HardVeto \cup {"RELATIVE_WEAKNESS", "NO_PRICE_CONFIRMATION",
                               "EXTREME_FOMO", "EXPECTATION_ALREADY_PRICED"},
   SWING    |-> HardVeto \cup {"NO_PRICE_CONFIRMATION", "EXTREME_FOMO"},
   POSITION |-> HardVeto \cup {"EXTREME_FOMO"}]

PassScore == 4 * 80
WaitScore == 4 * 70

vars == <<case, evaluation, replay>>

-----------------------------------------------------------------------------
(* What one says of the dimensions, and the other where it does not.       *)
Outranking(one, other) ==
  [d \in DOMAIN one \cup DOMAIN other |-> IF d \in DOMAIN one THEN one[d] ELSE other[d]]

(* The audit of the thesis outranks the independent assessment.            *)
Judged(f) == Outranking(f.audit, f.independent)

(* A rule outranks what the AI says of the same dimension, also when the   *)
(* rule has nothing to say; the swing profile does not listen to the AI.   *)
Ratios(f) == IF f.profile = "SWING" THEN Rules(f) ELSE Outranking(Rules(f), Judged(f))

(* The dimensions of the profile that have a ratio. *)
Scored(f) ==
  [d \in {d \in DOMAIN Weights[f.profile] \cap DOMAIN Ratios(f) :
            Known(Ratios(f)[d])} |-> Clamp(Ratios(f)[d])]

Total(ratios, weights) ==
  SumFunction([d \in DOMAIN ratios |-> weights[d] * ratios[d]])

-----------------------------------------------------------------------------
(* veto.py: the vetoes that hit, of those the profile has enabled. *)

Hits(f) ==
  {v \in Enabled[f.profile] :
     \/ v = "NO_INVALIDATION" /\ ~f.invalidation
     \/ v = "UPSTREAM_MARKET_CONTRADICTED" /\ Market(f) = "CONTRADICTED"
     \/ v = "UPSTREAM_BREAKDOWN" /\ SignalOf(f) = "BREAKDOWN"
     \/ v = "AVERAGING_DOWN_WITHOUT_SIGNAL" /\ f.losingAdd
     \/ /\ v = "RELATIVE_WEAKNESS"
        /\ Known(Today(f, "sector")) /\ Known(Today(f, "stock"))
        /\ Today(f, "sector") > 0 /\ Today(f, "stock") <= 0
     \/ v = "NO_PRICE_CONFIRMATION" /\ Today(f, "confirmed") # TRUE
     \/ v = "EXTREME_FOMO" /\ f.fomo >= FomoThreshold
     \/ v = "EXPECTATION_ALREADY_PRICED" /\ f.pricedIn}

-----------------------------------------------------------------------------
(* engine.py *)

(* Dimensions without a ratio, and inputs the profile insists on.          *)
Missing(f) ==
  (DOMAIN Weights[f.profile] \ DOMAIN Scored(f))
  \cup (IF f.profile = "EVENT"
        THEN {x \in {"stock", "sector", "benchmark", "confirmed"} :
                ~Known(Today(f, x))}
        ELSE {})
  \cup (IF f.profile = "SWING" /\ ~Known(f.reward) THEN {"target"} ELSE {})

Decide_ScoreFirst(vetoes, missing, score) ==
  IF vetoes \cap HardVeto # {} THEN "NO_TRADE"
  ELSE IF missing # {} THEN "WAIT"
  ELSE IF score >= PassScore THEN "PASS"
  ELSE IF vetoes # {} \/ score >= WaitScore THEN "WAIT"
  ELSE "NO_TRADE"

Decide(vetoes, missing, score) ==
  CASE vetoes \cap HardVeto # {} -> "NO_TRADE"
    [] vetoes \cap HardVeto = {} /\ missing # {} -> "WAIT"
    [] vetoes \cap HardVeto = {} /\ missing = {} ->
         IF vetoes # {} THEN "WAIT"
         ELSE IF score >= PassScore THEN "PASS"
         ELSE IF score >= WaitScore THEN "WAIT"
         ELSE "NO_TRADE"

Evaluation(f) ==
  LET score == Total(Scored(f), Weights[f.profile])
  IN  [ratios   |-> Scored(f),
       weights  |-> Weights[f.profile],
       score    |-> score,
       vetoes   |-> Hits(f),
       missing  |-> Missing(f),
       decision |-> Decide(Hits(f), Missing(f), score)]

Evaluate ==
  /\ evaluation = Unknown
  /\ evaluation' = Evaluation(case)
  /\ UNCHANGED <<case, replay>>

(* replay.py: the stored ratios under the weights of a profile. A          *)
(* dimension the profile does not have keeps the weight it had.            *)
Reweighted(weights) ==
  [d \in DOMAIN evaluation.ratios |->
     IF d \in DOMAIN weights THEN weights[d] ELSE evaluation.weights[d]]

DecideAgain(vetoes, missing, score) ==
  IF vetoes \cap HardVeto # {} \/ score < WaitScore THEN "NO_TRADE"
  ELSE IF vetoes \ HardVeto # {} \/ score < PassScore \/ missing # {} THEN "WAIT"
  ELSE "PASS"

Replay(weights) ==
  /\ evaluation # Unknown /\ replay = Unknown
  /\ LET score == Total(evaluation.ratios, Reweighted(weights))
     IN replay' = [evaluation EXCEPT
                     !.weights = weights, !.score = score,
                     !.decision = DecideAgain(evaluation.vetoes,
                                              evaluation.missing, score)]
  /\ UNCHANGED <<case, evaluation>>

Init == case \in Cases /\ evaluation = Unknown /\ replay = Unknown

Next ==
  \/ Evaluate
  \/ \E weights \in {Weights[case.profile]} \cup Revisions[case.profile] : Replay(weights)

Spec == Init /\ [][Next]_vars

=============================================================================
