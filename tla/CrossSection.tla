---------------------------- MODULE CrossSection ----------------------------
(***************************************************************************)
(* One day's cross-section: who is in the universe, how the strategies     *)
(* rank the members, who qualifies, and who becomes a candidate. Pure      *)
(* functions of a market, which is a record of what NORMALIZE and          *)
(* COMPUTE_FACTORS leave behind:                                           *)
(*                                                                         *)
(*   listing   sequence of profiles of the securities file                 *)
(*   bars      symbol -> sequence of [day, volume]                         *)
(*   factors   symbol -> factor -> number, or None for every other status  *)
(*   industry  symbol -> industry, None when it is in no industry          *)
(*   benchmark sequence of [day, close], <<>> when none could be read      *)
(*   breadth   percent of symbols above their average, None                *)
(*                                                                         *)
(* Returns and ratios are in percent, amounts in units of ten million.     *)
(* A percentile is a number of parts of Whole, which every population      *)
(* divides twice over, so that no rounding occurs.                         *)
(*                                                                         *)
(* A definition whose name ends in an underscore and a word is a plausible *)
(* slip in the definition after it, used by nothing else.                  *)
(***************************************************************************)
EXTENDS Integers, Sequences, FiniteSets, SequencesExt, FiniteSetsExt

CONSTANTS
  Symbol,      \* numbers: symbols are ordered
  Strategy,    \* numbers: strategies are ordered by their id
  AsOf,        \* the day the run is about
  Config,      \* configs/universe.yaml
  Weights,     \* strategy -> required factor -> weight, signed
  Thresholds,  \* strategy -> factor -> [min, max], None for an open bound
  Whole,       \* the percentile 1.0
  Floor,       \* TOP_TEN_PERCENT_FLOOR
  Reserve,     \* soft reserve of a strategy
  MaxCandidates,
  None

(* validated_weights asks for numbers.                                     *)
ASSUME WeightsAssumption ==
  \A x \in Strategy :
    /\ IsFiniteSet(DOMAIN Weights[x])
    /\ \A f \in DOMAIN Weights[x] : Weights[x][f] \in Int

ASSUME SelectionAssumption ==
  /\ Symbol \subseteq Nat
  /\ IsFiniteSet(Symbol)
  /\ Strategy \subseteq Nat
  /\ IsFiniteSet(Strategy)
  /\ Reserve \in Nat \ {0}
  /\ MaxCandidates \in Nat

Liquidity == "avg_amount_20d"

FactorName ==
  {Liquidity, "ret_20d", "ret_60d", "proximity_52w_high", "dividend_yield_ttm"}
    \cup UNION {DOMAIN Weights[x] \cup DOMAIN Thresholds[x] : x \in Strategy}

(***************************************************************************)
(* The universe.                                                           *)
(***************************************************************************)

OffExchange(profile) == profile.exchange \notin Config.exchanges
SpecialTreatment(profile) == Config.exclude_st /\ profile.is_st
OnDelistingBoard(profile) == Config.exclude_delisting_board /\ profile.is_delisting_board

(* Silent while no day count was reviewed or none is reported.             *)
LongSuspended(profile) ==
  /\ Config.exclude_long_suspension
  /\ Config.long_suspension_days # None
  /\ profile.suspended_trading_days # None
  /\ profile.suspended_trading_days >= Config.long_suspension_days

ShortListed(profile) == profile.age < Config.min_listing_days

(* A day without a bar of anybody stands for the last one with some.       *)
TargetDay(market) ==
  LET days == {d \in UNION {{bar.day : bar \in Range(market.bars[s])} : s \in Symbol} : d <= AsOf}
  IN  IF days = {} THEN AsOf ELSE Max(days)

Traded(market) ==
  {s \in Symbol : \E bar \in Range(market.bars[s]) : bar.day = TargetDay(market)}

Measure(factors, s) == factors[s][Liquidity]

Excluded_MeasuredOnly(s, profile, market, factors) ==  \* no measure, no objection
  \/ OffExchange(profile)
  \/ SpecialTreatment(profile)
  \/ OnDelistingBoard(profile)
  \/ ShortListed(profile)
  \/ Config.require_valid_market_data /\ s \notin Traded(market)
  \/ Measure(factors, s) # None
       /\ Measure(factors, s) < Config.min_average_turnover_20d
Excluded_NoFloor(s, profile, market, factors) ==  \* any measure will do
  \/ OffExchange(profile)
  \/ SpecialTreatment(profile)
  \/ OnDelistingBoard(profile)
  \/ ShortListed(profile)
  \/ Config.require_valid_market_data
       /\ (s \notin Traded(market) \/ Measure(factors, s) = None)

Excluded(s, profile, market, factors) ==
  \/ OffExchange(profile)
  \/ SpecialTreatment(profile)
  \/ OnDelistingBoard(profile)
  \/ LongSuspended(profile)
  \/ ShortListed(profile)
  \/ Config.require_valid_market_data
       /\ (s \notin Traded(market) \/ Measure(factors, s) = None)
  \/ Measure(factors, s) # None
       /\ Measure(factors, s) < Config.min_average_turnover_20d

(* Of the profiles of one instrument only the first counts.                *)
FirstProfile(listing, s) ==
  listing[Min({i \in DOMAIN listing : listing[i].symbol = s})]

Listed(listing) == {profile.symbol : profile \in Range(listing)}

Universe(market, factors) ==
  {s \in Listed(market.listing) :
     ~Excluded(s, FirstProfile(market.listing, s), market, factors)}

(* What the listing alone lets through, one verdict per profile.           *)
Prefiltered(listing) ==
  {profile.symbol : profile \in
     {p \in Range(listing) : /\ ~OffExchange(p)
                             /\ ~SpecialTreatment(p)
                             /\ ~OnDelistingBoard(p)
                             /\ ~ShortListed(p)}}

(***************************************************************************)
(* Strategies: percentiles within the eligible members, blended by weight. *)
(***************************************************************************)

(* Ties share the average of the places they occupy.                       *)
PercentileRank(values, s) ==
  LET less == {t \in DOMAIN values : values[t] < values[s]}
      same == {t \in DOMAIN values : values[t] = values[s]}
  IN  (2 * Cardinality(less) + Cardinality(same) + 1)
        * (Whole \div (2 * Cardinality(DOMAIN values)))

Eligible(strategy, members, factors) ==
  {s \in members : \A f \in DOMAIN Weights[strategy] : factors[s][f] # None}

Magnitude(weight) == IF weight > 0 THEN weight ELSE -weight

Blend_Unsigned(strategy, population, factors) ==  \* more is better, always
  LET weights == Weights[strategy]
      Rank(s, f) == PercentileRank([t \in population |-> factors[t][f]], s)
  IN  [s \in population |->
        SumFunction([f \in DOMAIN weights |-> Magnitude(weights[f]) * Rank(s, f)])]

(* A negative weight turns its factor around.                              *)
Oriented(strategy, population, factors, f) ==
  [s \in population |-> IF Weights[strategy][f] > 0 THEN factors[s][f] ELSE -factors[s][f]]

(* What each factor contributes to the score of a member. The division by  *)
(* the total weight, the same for everybody, is left out.                  *)
Shares(strategy, population, factors, s) ==
  [f \in DOMAIN Weights[strategy] |->
     Magnitude(Weights[strategy][f])
       * PercentileRank(Oriented(strategy, population, factors, f), s)]

Blend(strategy, population, factors) ==
  [s \in population |-> SumFunction(Shares(strategy, population, factors, s))]

(* One member alone has nobody to be ranked against.                       *)
Scored(strategy, members, factors) ==
  LET population == Eligible(strategy, members, factors)
      blends == Blend(strategy, population, factors)
  IN  [s \in members |->
        [eligible |-> s \in population,
         rank |-> IF s \in population /\ Cardinality(population) > 1
                  THEN PercentileRank(blends, s) ELSE None]]

StrategyResults(members, factors) ==
  [strategy \in Strategy |-> Scored(strategy, members, factors)]

(***************************************************************************)
(* Qualification: near the top, and within every absolute bound.           *)
(***************************************************************************)

WithinBounds(strategy, own) ==
  \A f \in DOMAIN Thresholds[strategy] :
    LET bound == Thresholds[strategy][f]
    IN  /\ own[f] # None
        /\ bound.min # None => own[f] >= bound.min
        /\ bound.max # None => own[f] <= bound.max

(* The strategies a member qualifies for, with its rank in each.           *)
Qualifications(results, members, factors) ==
  [s \in members |->
    {[strategy |-> strategy, rank |-> results[strategy][s].rank] :
       strategy \in {x \in Strategy : /\ results[x][s].rank # None
                                      /\ results[x][s].rank >= Floor
                                      /\ WithinBounds(x, factors[s])}}]

(* Highest rank, and of equals the first strategy.                         *)
PrimaryStrategy(qualified) ==
  LET best == Max({q.rank : q \in qualified})
  IN  Min({q.strategy : q \in {x \in qualified : x.rank = best}})

(***************************************************************************)
(* The two entrances to the same chain.                                    *)
(***************************************************************************)

(* run_analysis, and the stages of the daily run.                          *)
Analysis(market) ==
  LET members == Universe(market, market.factors)
  IN  [universe |-> members, results |-> StrategyResults(members, market.factors)]

(* run_research_analysis measures the research population only, then       *)
(* builds the universe again from what it measured.                        *)
ResearchPopulation(market) == Universe(market, market.factors)

ResearchAnalysis(market) ==
  LET population == ResearchPopulation(market)
      unmeasured == [f \in FactorName |-> None]
      narrowed == [s \in Symbol |-> IF s \in population THEN market.factors[s] ELSE unmeasured]
      members == Universe(market, narrowed)
  IN  [universe |-> members, results |-> StrategyResults(members, narrowed)]

(***************************************************************************)
(* The candidates (RepresentativeCandidatePolicy.select). Evidence is a    *)
(* function from each symbol that has a qualified strategy to              *)
(*   [qualified: {[strategy, rank]}, market: a validation, signal].        *)
(* Sorting and slicing appear as what they select: the first n of a set    *)
(* under a strict order are the members with fewer than n before them.     *)
(***************************************************************************)

FirstOf(set, n, Before(_, _)) ==
  {x \in set : Cardinality({y \in set : Before(y, x)}) < n}

Vetoed(item) == item.market = "CONTRADICTED" \/ item.signal = "BREAKDOWN"

Considered_Everybody(evidence) == DOMAIN evidence  \* vetoes are forgotten

Considered(evidence) == {s \in DOMAIN evidence : ~Vetoed(evidence[s])}

(***************************************************************************)
(* The soft reserve of a strategy: its best by its own rank, then by name. *)
(***************************************************************************)

QualifiedFor(evidence, strategy) ==
  {s \in Considered(evidence) : \E q \in evidence[s].qualified : q.strategy = strategy}

RankIn(evidence, s, strategy) ==
  (CHOOSE q \in evidence[s].qualified : q.strategy = strategy).rank

AheadIn(evidence, strategy, s, t) ==
  \/ RankIn(evidence, s, strategy) > RankIn(evidence, t, strategy)
  \/ RankIn(evidence, s, strategy) = RankIn(evidence, t, strategy) /\ s < t

ReserveOf_ByName(evidence, strategy) ==  \* the sort key is lost
  FirstOf(QualifiedFor(evidence, strategy), Reserve, LAMBDA s, t : s < t)

ReserveOf(evidence, strategy) ==
  FirstOf(QualifiedFor(evidence, strategy), Reserve,
          LAMBDA s, t : AheadIn(evidence, strategy, s, t))

SoftReserve(evidence) == UNION {ReserveOf(evidence, x) : x \in Strategy}

(***************************************************************************)
(* The global priority: best rank, number of strategies, confirmed, name.  *)
(***************************************************************************)

BestRank(evidence, s) ==
  (CHOOSE q \in evidence[s].qualified :
     \A p \in evidence[s].qualified : p.rank <= q.rank).rank

Confirmed(evidence, s) == IF evidence[s].market = "CONFIRMED" THEN 1 ELSE 0

Before(evidence, s, t) ==
  LET bs == BestRank(evidence, s)
      bt == BestRank(evidence, t)
      ns == Cardinality(evidence[s].qualified)
      nt == Cardinality(evidence[t].qualified)
      cs == Confirmed(evidence, s)
      ct == Confirmed(evidence, t)
  IN  \/ bs > bt
      \/ bs = bt /\ ns > nt
      \/ bs = bt /\ ns = nt /\ cs > ct
      \/ bs = bt /\ ns = nt /\ cs = ct /\ s < t

(* The reserve is never cut; what capacity it leaves is filled by priority.*)
Fill(evidence) ==
  LET rest == Considered(evidence) \ SoftReserve(evidence)
  IN  FirstOf(rest, MaxCandidates - Cardinality(SoftReserve(evidence)),
              LAMBDA s, t : Before(evidence, s, t))

Select(evidence) == SoftReserve(evidence) \cup Fill(evidence)

-----------------------------------------------------------------------------
(* What a selection promises. *)

(* No symbol the market contradicts or that breaks down is selected.       *)
NobodyVetoed(evidence, selected) ==
  \A s \in selected : s \in DOMAIN evidence /\ ~Vetoed(evidence[s])

(* The best of every strategy is selected, however full the day is.        *)
BestOfEach(evidence, selected) ==
  \A x \in Strategy : \A s \in QualifiedFor(evidence, x) :
    (\A t \in QualifiedFor(evidence, x) \ {s} : AheadIn(evidence, x, s, t)) => s \in selected

(* A symbol is left out for want of capacity only, and never in favour of  *)
(* a filled one that comes after it.                                       *)
LeftOutFairly(evidence, selected) ==
  \A s \in Considered(evidence) \ selected :
    /\ Cardinality(selected) >= MaxCandidates
    /\ \A t \in selected \ SoftReserve(evidence) : Before(evidence, t, s)
=============================================================================
