----------------------------- MODULE Screening ------------------------------
(***************************************************************************)
(* What the stages of one daily run compute: from the market as NORMALIZE  *)
(* left it to the candidates of the day. DailyPipeline models when a stage *)
(* runs and what it leaves on disk; here a run is alone and the market is  *)
(* the one it read. The first stage to raise ends the run.                 *)
(*                                                                         *)
(* Left out: the legacy path of CandidateBuilder, which no stage takes,    *)
(* the texts of reasons and risks, and the lineage.                        *)
(***************************************************************************)
EXTENDS MarketView, Discovery

CONSTANT Markets  \* the markets a run may find

ASSUME ScreeningAssumption ==
  /\ Whole \in Nat
  /\ None \notin Int
  /\ \A m \in Markets :
       /\ m.listing \in Seq(Range(m.listing))
       /\ Listed(m.listing) \subseteq Symbol
       /\ \A s \in Symbol, f \in FactorName : m.factors[s][f] \in Int \cup {None}

VARIABLES
  market,
  stage,       \* the stage to run next, DONE, or FAILED
  universe,    \* its included symbols
  results,     \* strategy -> member -> [eligible, rank]
  benchmark,   \* state.benchmark_evidence
  regime,
  qualified,   \* member -> its qualified strategies, with its rank in each
  validation,  \* qualified symbol -> verdict of the market
  signal,      \* qualified symbol -> technical signal
  candidates   \* symbol -> candidate

vars == <<market, stage, universe, results, benchmark, regime, qualified,
          validation, signal, candidates>>

Stage == {"BUILD_UNIVERSE", "RUN_STRATEGIES", "DETECT_REGIME", "MARKET_VALIDATE",
          "RUN_SIGNALS", "BUILD_CANDIDATES", "DONE", "FAILED"}

Init ==
  /\ market \in Markets
  /\ stage = "BUILD_UNIVERSE"
  /\ universe = None
  /\ results = None
  /\ benchmark = None
  /\ regime = None
  /\ qualified = None
  /\ validation = None
  /\ signal = None
  /\ candidates = None

Runs(name) == stage = name
Proceed(next) == stage' = next
Fail == stage' = "FAILED"

BuildUniverse ==
  /\ Runs("BUILD_UNIVERSE")
  /\ universe' = Universe(market, market.factors)
  /\ Proceed("RUN_STRATEGIES")
  /\ UNCHANGED <<market, results, benchmark, regime, qualified, validation, signal, candidates>>

RunStrategies ==
  /\ Runs("RUN_STRATEGIES")
  /\ results' = StrategyResults(universe, market.factors)
  /\ Proceed("DETECT_REGIME")
  /\ UNCHANGED <<market, universe, benchmark, regime, qualified, validation, signal, candidates>>

(* Without breadth nothing else is looked at; without a trend the evidence *)
(* is missing, too. Either way the stage raises.                           *)
DetectRegime ==
  /\ Runs("DETECT_REGIME")
  /\ LET evidence == BenchmarkEvidence(market.benchmark)
     IN  IF market.breadth = None \/ evidence = None
         THEN Fail /\ UNCHANGED <<benchmark, regime>>
         ELSE /\ benchmark' = evidence
              /\ regime' = RegimeOf(market.breadth, evidence.trend)
              /\ Proceed("MARKET_VALIDATE")
  /\ UNCHANGED <<market, universe, results, qualified, validation, signal, candidates>>

Qualified(quals) == {s \in DOMAIN quals : quals[s] # {}}

(* Every qualified symbol is judged for its primary strategy. One symbol   *)
(* whose evidence is incomplete fails the stage for all.                   *)
MarketValidate ==
  /\ Runs("MARKET_VALIDATE")
  /\ qualified' = Qualifications(results, universe, market.factors)
  /\ LET symbols == Qualified(qualified')
         Strategy_(s) == PrimaryStrategy(qualified'[s])
         Readings(s) == Evidence(market, benchmark, s)
     IN  IF \E s \in symbols : Incomplete(Strategy_(s), Readings(s))
         THEN Fail /\ UNCHANGED validation
         ELSE /\ validation' = [s \in symbols |-> Validated(Strategy_(s), Readings(s))]
              /\ Proceed("RUN_SIGNALS")
  /\ UNCHANGED <<market, universe, results, benchmark, regime, signal, candidates>>

RunSignals ==
  /\ Runs("RUN_SIGNALS")
  /\ signal' = [s \in Qualified(qualified) |->
                  SignalOf(PrimaryStrategy(qualified[s]), market.factors[s])]
  /\ Proceed("BUILD_CANDIDATES")
  /\ UNCHANGED <<market, universe, results, benchmark, regime, qualified, validation, candidates>>

EvidenceOf(s) ==
  [qualified |-> qualified[s], market |-> validation[s], signal |-> signal[s]]

DayEvidence == [s \in Qualified(qualified) |-> EvidenceOf(s)]

(* A candidate is to be watched, whatever its signal.                      *)
Candidate(s) ==
  [primary |-> PrimaryStrategy(qualified[s]),
   strategies |-> {q.strategy : q \in qualified[s]},
   market |-> validation[s],
   signal |-> signal[s]]

BuildCandidates ==
  /\ Runs("BUILD_CANDIDATES")
  /\ candidates' = [s \in Select(DayEvidence) |-> Candidate(s)]
  /\ Proceed("DONE")
  /\ UNCHANGED <<market, universe, results, benchmark, regime, qualified, validation, signal>>

Next ==
  \/ BuildUniverse
  \/ RunStrategies
  \/ DetectRegime
  \/ MarketValidate
  \/ RunSignals
  \/ BuildCandidates

Spec == Init /\ [][Next]_vars
-----------------------------------------------------------------------------
TypeOK ==
  /\ stage \in Stage
  /\ universe # None => universe \subseteq Symbol
  /\ regime \in Regime \cup {None}
  /\ validation # None => \A s \in DOMAIN validation : validation[s] \in Validation
  /\ signal # None => \A s \in DOMAIN signal : signal[s] \in Signal
  /\ candidates # None => DOMAIN candidates \subseteq Symbol

(* A member at least as good as another in all that a strategy weighs, the *)
(* turned around factors included, ranks no lower                          *)
(* (WeightedPercentileScorer.score_cross_section).                         *)
BetterRanksNoLower ==
  results # None =>
    \A x \in Strategy, s, t \in universe :
      LET own(f) == market.factors[s][f]
          other(f) == market.factors[t][f]
      IN  /\ results[x][s].rank # None
          /\ results[x][t].rank # None
          /\ \A f \in DOMAIN Weights[x] :
               IF Weights[x][f] > 0 THEN own(f) >= other(f) ELSE own(f) <= other(f)
          => results[x][s].rank >= results[x][t].rank

(* Calibration looks through run_research_analysis, the daily run through  *)
(* its stages: both rank the same members alike, and what the listing      *)
(* alone drops (prefilter_listing) is in neither universe.                 *)
EntrancesAgree ==
  results # None =>
    /\ ResearchAnalysis(market) = [universe |-> universe, results |-> results]
    /\ universe \subseteq Prefiltered(market.listing)

(* A candidate is a member the market does not contradict, and every       *)
(* strategy it is named for ranks it near the top, judges all it needs and *)
(* finds it within its bounds.                                             *)
CandidatesVouched ==
  candidates # None =>
    /\ NobodyVetoed(DayEvidence, DOMAIN candidates)
    /\ \A s \in DOMAIN candidates :
         /\ s \in universe
         /\ candidates[s].primary \in candidates[s].strategies
         /\ \A x \in candidates[s].strategies :
              /\ results[x][s].rank >= Floor
              /\ \A f \in DOMAIN Weights[x] \cup DOMAIN Thresholds[x] :
                   market.factors[s][f] # None
         /\ ~Incomplete(candidates[s].primary, Evidence(market, benchmark, s))

(* The best of every strategy is a candidate, however full the day is      *)
(* (the soft reserve of select).                                           *)
ReserveKept == candidates # None => BestOfEach(DayEvidence, DOMAIN candidates)

(* No qualified symbol is forgotten, and capacity goes by priority.        *)
NoneForgotten == candidates # None => LeftOutFairly(DayEvidence, DOMAIN candidates)

(* The selection of a day accounts for everybody: for who is in it, and    *)
(* for who is not (CandidateSelector.select).                              *)
SelectionAccounts == CandidatesVouched /\ NoneForgotten

(* Both tabs of a strategy tell one story: the qualified stocks are those  *)
(* the run qualified, nobody more and nobody less, and they come in the    *)
(* order the ranking has them. The overview counts every candidate once in *)
(* each breakdown, and the best rank it shows of one is its rank in the    *)
(* strategy it is named after (screen_strategy, screen_qualified,          *)
(* build_today_overview, screen_candidates).                               *)
InTheOrderOf(part, whole) ==
  \A i, j \in DOMAIN part :
    i < j => \E k, l \in DOMAIN whole : k < l /\ whole[k] = part[i] /\ whole[l] = part[j]

StrategyTold(x) ==
  LET everybody == Cardinality(Symbol)
      ranking == ScreenStrategy(results, [strategy |-> x, eligible_only |-> TRUE,
                                          min |-> Floor, limit |-> everybody])
      told == ScreenQualified(results, market.factors, x, everybody)
      named == {s \in DOMAIN qualified : \E q \in qualified[s] : q.strategy = x}
  IN  /\ InTheOrderOf(told.items, ranking.items)
      /\ Range(told.items) = named
      /\ Len(told.items) = Cardinality(named)
      /\ told.coverage.ranked = SummarizeStrategies(results)[x].ranked

DayTold ==
  LET order == StoredOrder(DayEvidence, DOMAIN candidates)
      primary == [s \in DOMAIN candidates |-> candidates[s].primary]
      today == TodayOverview(DayEvidence, order, primary, Len(order))
      AddsUp(counts) == SumFunction(counts) = Cardinality(DOMAIN candidates)
  IN  /\ AddsUp(today.by_strategy)
      /\ AddsUp(today.by_market)
      /\ AddsUp(today.by_signal)
      /\ \A i \in DOMAIN today.top :
           LET item == today.top[i]
           IN  item.best = results[candidates[item.symbol].primary][item.symbol].rank

QueriesAgree == candidates # None => DayTold /\ \A x \in Strategy : StrategyTold(x)

(* The validator says that CONFIRMED asks for an average amount of 150     *)
(* million, which it never compares: the floor of the universe sees to it. *)
(* Nor does a confirmed stock carry a signal of weakness, which another    *)
(* module reads from the same factors.                                     *)
ConfirmedIsSound ==
  signal # None =>
    \A s \in DOMAIN validation :
      validation[s] = "CONFIRMED" =>
        /\ market.factors[s][Liquidity] >= 15
        /\ signal[s] \notin {"BREAKDOWN", "TREND_WEAKEN"}
=============================================================================
