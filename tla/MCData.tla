------------------------------- MODULE MCData -------------------------------
(***************************************************************************)
(* The data of the market, from the source to the candidates. The modules  *)
(* meet in files only, and each is checked on all the files it may find,   *)
(* so a behaviour is about one of them, and `scene` tells which:           *)
(*   landing    a sync of a market of two beside backfills (RawLanding)    *)
(*   gaps       rounds over three fetch days (GapFilling)                  *)
(*   history    one instrument, landings in any order (PointInTime)        *)
(*   screening  the stages of a run on every market (Screening)            *)
(* What a scene is not about never starts.                                 *)
(***************************************************************************)
EXTENDS Screening, RawFiles, BlockFiles, PastFiles

CONSTANTS
  s1, s2, v1, v2, \* of RawFiles and BlockFiles
  Periods         \* of PointInTime

VARIABLE scene \* never changes

Landing == INSTANCE RawLanding

Gaps == INSTANCE GapFilling

-----------------------------------------------------------------------------
(* Markets of three symbols, each one of a dozen kinds of stock, in every  *)
(* mood. Two strategies stand for the six: momentum with all its factors,  *)
(* value with one factor of either sign. The windows of 60 and 20 bars are *)
(* three and two, and as one in ten of three is nobody, the floor of ranks *)
(* is one half.                                                            *)

MCConfig ==
  [exchanges |-> {"SSE", "SZSE"}, exclude_st |-> TRUE, exclude_delisting_board |-> TRUE,
   exclude_long_suspension |-> TRUE, long_suspension_days |-> None, min_listing_days |-> 120,
   min_average_turnover_20d |-> 15, require_valid_market_data |-> TRUE]

MCWeights ==
  <<("ret_20d" :> 1) @@ ("ret_60d" :> 1) @@ ("proximity_52w_high" :> 1),
    ("pe_ttm" :> -1) @@ ("roe_ttm" :> 1)>>

MCThresholds ==
  <<("proximity_52w_high" :> [min |-> 80, max |-> None]),
    ("pe_ttm" :> [min |-> None, max |-> 25]) @@ ("roe_ttm" :> [min |-> 5, max |-> None])>>

Clean == [exchange |-> "SSE", is_st |-> FALSE, is_delisting_board |-> FALSE,
          suspended_trading_days |-> None, age |-> 500]

Profiles(s, list) == [i \in DOMAIN list |-> ("symbol" :> s) @@ list[i]]

Figures(amount, ret20, ret60, proximity, pe, roe, yield) ==
  (Liquidity :> amount) @@ ("ret_20d" :> ret20) @@ ("ret_60d" :> ret60)
    @@ ("proximity_52w_high" :> proximity) @@ ("pe_ttm" :> pe) @@ ("roe_ttm" :> roe)
    @@ ("dividend_yield_ttm" :> yield)

Bars(volumes) == [i \in DOMAIN volumes |-> [day |-> i, volume |-> volumes[i]]]

Stock(list, volumes, figures, industry) ==
  [list |-> list, bars |-> Bars(volumes), figures |-> figures, industry |-> industry]

Strong == Figures(20, 8, 25, 96, 20, 10, 1)
Steady == Figures(16, 1, 17, 82, 8, 12, 4)

Stocks ==
  {Stock(<<Clean>>, <<2, 3, 9>>, Strong, "banks"),
   Stock(<<Clean>>, <<3, 1, 1>>, Strong, "banks"),
   Stock(<<Clean>>, <<3, 3>>, Steady, "power"),
   Stock(<<Clean>>, <<3, 3>>, Figures(30, -20, -10, 85, 6, 15, 5), "power"),
   Stock(<<Clean>>, <<2, 2>>, Figures(20, -6, 20, 85, 10, 8, 2), "banks"),
   Stock(<<Clean>>, <<2, 2>>, Figures(20, 10, 12, 90, None, 6, None), "banks"),
   Stock(<<Clean>>, <<2, 2>>, Figures(12, 12, 40, 99, 5, 20, 5), "banks"),
   Stock(<<Clean>>, <<2, 2>>, Figures(20, 2, None, None, 6, 20, 3), "power"),
   Stock(<<Clean>>, <<2>>, Steady, "power"),
   Stock(<<>>, <<2, 2>>, Strong, "power"),
   Stock(<<Clean, [Clean EXCEPT !.is_st = TRUE]>>, <<2, 2>>, Strong, "power"),
   Stock(<<[Clean EXCEPT !.is_delisting_board = TRUE], Clean>>, <<2, 2>>, Strong, None),
   Stock(<<[Clean EXCEPT !.age = 100, !.exchange = "BSE"]>>, <<>>,
         Figures(None, None, None, None, 6, 20, 3), "power")}

Benchmark(closes) == [i \in DOMAIN closes |-> [day |-> i - 2, close |-> closes[i]]]

(* Flat, up, down with a day to come, a hole, too short.                   *)
Moods ==
  {[benchmark |-> Benchmark(<<19, 20, 20, 20>>), breadth |-> 60],
   [benchmark |-> Benchmark(<<10, 20, 21, 22>>), breadth |-> 60],
   [benchmark |-> Benchmark(<<10, 30, 26, 25, 40>>), breadth |-> 30],
   [benchmark |-> Benchmark(<<10, 20, None, 19>>), breadth |-> 50],
   [benchmark |-> Benchmark(<<10, 20, 21>>), breadth |-> None]}

MCMarkets ==
  {[listing |-> Profiles(3, stock[3].list) \o Profiles(1, stock[1].list)
                  \o Profiles(2, stock[2].list),
    bars |-> [s \in 1 .. 3 |-> stock[s].bars],
    factors |-> [s \in 1 .. 3 |-> stock[s].figures],
    industry |-> [s \in 1 .. 3 |-> stock[s].industry],
    benchmark |-> mood.benchmark,
    breadth |-> mood.breadth] :
     stock \in [1 .. 3 -> Stocks], mood \in Moods}

-----------------------------------------------------------------------------
(* What a source may answer about one instrument, with cells of every kind.*)

SomeBars == {<<1, 1, 1>>, <<3, Blank, 1>>, <<Blank, 1, Garbled>>, <<2, 2, -1>>}

Rising(days) ==
  [i \in DOMAIN days |-> [day |-> days[i], close |-> 2 * days[i], amount |-> 1, volume |-> 1]]

SomeBackfills == {<<>>, Rising(<<1, 2>>), Rising(<<1, 2, 1, 2>>)}

SomeStatements == {<<1, 2>>, <<2, Blank>>, <<1, 0>>, <<Garbled, 1>>}

SomeBlocks(d) ==
  {[table |-> {[day |-> row[1], cell |-> row[2]] : row \in rows}, header |-> header] :
     rows \in {{}, {<<d, 2>>}, {<<1, 0>>, <<d, Blank>>}, {<<Garbled, 2>>}},
     header \in {1, Blank}}

SomeDividends(d) ==
  {<<>>} \cup
  {<<[announced |-> a, ex |-> d, status |-> s, cash |-> 1],
     [announced |-> 1, ex |-> 1, status |-> "implemented", cash |-> c]>> :
     <<a, s, c>> \in {d, Blank} \X {Blank, "plan"} \X {2, Blank}}

Past == INSTANCE PointInTime
          WITH BarCells <- SomeBars, StatementCells <- SomeStatements,
               Earlier <- SomeBackfills, ValuationBlocks <- SomeBlocks,
               DividendRows <- SomeDividends

ASSUME RoundsAssumption /\ Past!PastAssumption

-----------------------------------------------------------------------------
(* Versions and instruments are interchangeable. *)
Interchangeable == Permutations(Version) \cup Permutations(Instrument)

screeningVars == <<market, stage, universe, results, benchmark, regime, qualified,
                   validation, signal, candidates>>

AnyMarket == CHOOSE m \in Markets : TRUE

(* Nothing is in the histories but in their scene. *)
NoHistory == today = 1 /\ source = "bars" /\ history = <<>>

MCInit ==
  /\ scene \in {"landing", "gaps", "history", "screening"}
  /\ IF scene = "screening" THEN TRUE ELSE market = AnyMarket
  /\ IF scene = "gaps" THEN TRUE ELSE kind = "valuation"
  /\ IF scene = "history" THEN TRUE ELSE NoHistory
  /\ Landing!Init
  /\ Gaps!Init
  /\ Past!Init
  /\ Init

MCNext ==
  /\ \/ scene = "landing" /\ Landing!Next /\ UNCHANGED <<gapVars, pastVars, screeningVars>>
     \/ scene = "gaps" /\ Gaps!Next /\ UNCHANGED <<landingVars, pastVars, screeningVars>>
     \/ scene = "history" /\ Past!Next /\ UNCHANGED <<landingVars, gapVars, screeningVars>>
     \/ scene = "screening" /\ Next /\ UNCHANGED <<landingVars, gapVars, pastVars>>
  /\ UNCHANGED scene

MCSpec == MCInit /\ [][MCNext]_<<scene, landingVars, gapVars, pastVars, screeningVars>>

(* Every state is well typed: in particular no round goes beyond the last  *)
(* of --max-rounds.                                                        *)
Typed == /\ scene = "landing" => Landing!TypeOK
         /\ scene = "gaps" => Gaps!TypeOK
         /\ scene = "history" => Past!TypeOK
         /\ scene = "screening" => TypeOK
=============================================================================
