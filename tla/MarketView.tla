----------------------------- MODULE MarketView -----------------------------
(***************************************************************************)
(* What the market says of a day and of a stock: regime, benchmark,        *)
(* industry and volume evidence, the five-dimension verdict and the        *)
(* technical signal. Pure functions of the market of CrossSection.         *)
(***************************************************************************)
EXTENDS CrossSection

CONSTANTS
  Long, Short,             \* the 60 and the 20 bars of the benchmark
  VolumeLong, VolumeShort, \* the 20 and the 5 bars of a volume ratio
  Momentum,                \* the strategy judged by its high
  Yielding                 \* the strategies supported by a dividend

Regime == {"BULL", "RANGE_UP", "RANGE", "RANGE_DOWN", "BEAR"}
Signal == {"BREAKDOWN", "TREND_WEAKEN", "BREAKOUT", "PULLBACK", "TREND_CONTINUE",
           "DIVIDEND_SUPPORT", "VALUE_CONTRARIAN", "NO_SIGNAL"}
Validation == {"CONFIRMED", "NEUTRAL", "CONTRADICTED"}

ByDay(bars) == SortSeq(bars, LAMBDA b, c : b.day < c.day)
Newest(bars, n) == SubSeq(bars, Len(bars) - n + 1, Len(bars))
Sum(bars, Field(_)) == FoldLeft(LAMBDA total, bar : total + Field(bar), 0, bars)

Return(first, last) == (100 * (last - first)) \div first

(***************************************************************************)
(* The benchmark and the regime.                                           *)
(***************************************************************************)

ValidBenchmark(bars) ==
  ByDay(SelectSeq(bars, LAMBDA b : b.day <= AsOf /\ b.close # None /\ b.close > 0))

(* None when fewer than Long bars are valid. The trend is the ratio of the *)
(* short to the long moving average.                                       *)
BenchmarkEvidence(bars) ==
  LET valid == ValidBenchmark(bars)
      recent == Newest(valid, Long)
      Closes(window) == Sum(window, LAMBDA b : b.close)
  IN  IF Len(valid) < Long THEN None
      ELSE [ret_60d |-> Return(recent[1].close, recent[Long].close),
            trend |-> (100 * Closes(Newest(valid, Short)) * Long)
                        \div (Closes(recent) * Short)]

(* A trend above a half is a ratio, any other a change.                    *)
TrendUp(trend) == IF trend > 50 THEN trend > 100 ELSE trend > 0
TrendDown(trend) == IF trend > 50 THEN trend < 100 ELSE trend < 0

RegimeOf(breadth, trend) ==
  IF breadth > 55 THEN IF TrendUp(trend) THEN "BULL" ELSE "RANGE_UP"
  ELSE IF breadth >= 40 THEN "RANGE"
  ELSE IF TrendDown(trend) THEN "BEAR" ELSE "RANGE_DOWN"

(***************************************************************************)
(* Evidence on one stock; None wherever something it needs is missing.     *)
(***************************************************************************)

VolumeRatio(bars) ==
  LET valid == ByDay(SelectSeq(bars, LAMBDA b : b.day <= AsOf /\ b.volume # None /\ b.volume > 0))
      Volume(n) == Sum(Newest(valid, n), LAMBDA b : b.volume)
  IN  IF Len(valid) < VolumeLong THEN None
      ELSE (100 * Volume(VolumeShort) * VolumeLong) \div (Volume(VolumeLong) * VolumeShort)

RelativeStrength(own, evidence) ==
  IF evidence = None \/ own["ret_60d"] = None THEN None
  ELSE own["ret_60d"] - evidence.ret_60d

(* From the first valid bar there is to the last.                          *)
BenchmarkReturn20(bars) ==
  LET valid == ValidBenchmark(bars)
  IN  IF Len(valid) < Short THEN None
      ELSE Return(valid[1].close, valid[Len(valid)].close)

(* The mean return of the industry's members over the benchmark's.         *)
IndustryExcess(market, s) ==
  LET benchmark == BenchmarkReturn20(market.benchmark)
      measured == {t \in Symbol : /\ market.industry[t] = market.industry[s]
                                  /\ market.factors[t]["ret_20d"] # None}
      total == MapThenSumSet(LAMBDA t : market.factors[t]["ret_20d"], measured)
  IN  IF market.industry[s] = None \/ benchmark = None \/ measured = {} THEN None
      ELSE (total \div Cardinality(measured)) - benchmark

(***************************************************************************)
(* The verdict and the signal of a stock for the strategy it stands for.   *)
(***************************************************************************)

(* The six readings, and whether one a strategy needs is missing.          *)
Evidence(market, evidence, s) ==
  LET own == market.factors[s]
  IN  [ret |-> own["ret_20d"], proximity |-> own["proximity_52w_high"],
       amount |-> own[Liquidity], industry |-> IndustryExcess(market, s),
       strength |-> RelativeStrength(own, evidence),
       volume |-> VolumeRatio(market.bars[s])]

Incomplete(strategy, e) ==
  \E reading \in DOMAIN e :
    e[reading] = None /\ (reading = "proximity" => strategy = Momentum)

Illiquid(e) == e.amount < 10

TrendPositive(strategy, e) ==
  IF strategy = Momentum THEN e.ret * 10 > 64 /\ e.proximity > 85 ELSE e.ret > 0

TrendNegative(strategy, e) ==
  IF strategy = Momentum THEN e.ret < 0 \/ e.proximity < 80 ELSE e.ret < -15

Negatives(strategy, e) ==
  Cardinality({d \in 1 .. 5 : \/ d = 1 /\ TrendNegative(strategy, e)
                              \/ d = 2 /\ e.industry < -5
                              \/ d = 3 /\ e.strength < -15
                              \/ d = 4 /\ e.volume < 70
                              \/ d = 5 /\ Illiquid(e)})

Validated(strategy, e) ==
  IF Illiquid(e) \/ Negatives(strategy, e) >= 2 THEN "CONTRADICTED"
  ELSE IF TrendPositive(strategy, e) /\ Negatives(strategy, e) = 0 THEN "CONFIRMED"
  ELSE "NEUTRAL"

(* A reading that is missing satisfies no comparison.                      *)
AtLeast(reading, bound) == reading # None /\ reading >= bound
Below(reading, bound) == reading # None /\ reading < bound

SignalOf(strategy, own) ==
  LET ret20 == own["ret_20d"]
      ret60 == own["ret_60d"]
      high == own["proximity_52w_high"]
  IN  IF Below(ret20, -15) THEN "BREAKDOWN"
      ELSE IF AtLeast(ret60, 16) /\ Below(ret20, -5) THEN "TREND_WEAKEN"
      ELSE IF strategy = Momentum
      THEN IF AtLeast(high, 95) THEN "BREAKOUT"
           ELSE IF AtLeast(ret60, 20) /\ AtLeast(ret20, 0) /\ Below(ret20, 6) THEN "PULLBACK"
           ELSE IF AtLeast(ret20, 7) /\ AtLeast(high, 85) THEN "TREND_CONTINUE"
           ELSE "NO_SIGNAL"
      ELSE IF strategy \in Yielding
      THEN IF AtLeast(own["dividend_yield_ttm"], 3) /\ AtLeast(ret20, -4)
           THEN "DIVIDEND_SUPPORT"
           ELSE IF AtLeast(ret20, -5) /\ Below(ret20, 3) THEN "VALUE_CONTRARIAN"
           ELSE "NO_SIGNAL"
      ELSE "NO_SIGNAL"
=============================================================================
