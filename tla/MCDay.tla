-------------------------------- MODULE MCDay --------------------------------
(***************************************************************************)
(* A day's records and what is decided upon them: the daily pipeline, the  *)
(* stores it writes to with their migration, and the trade gate's verdict. *)
(* They have no variable in common, so a behaviour is about one of them,   *)
(* and `scene` tells which:                                                *)
(*   pipeline  one process started twice, with or without a sync, crashing *)
(*             anywhere, over inputs that are landed again at any moment   *)
(*   stores    two processes beside a migration that is run twice          *)
(*   verdict   every combination of the facts each profile looks at        *)
(***************************************************************************)
EXTENDS DailyPipeline, StorePlaces, TradeFacts

CONSTANTS v1, v2

VARIABLE
  scene \* never changes

Moved == INSTANCE Stores WITH
           Labels <- {"a", "b"}, Versions <- {1, 2}, MaxWrites <- 2, MaxMigrations <- 2

ASSUME Moved!StoresAssumption

-----------------------------------------------------------------------------
(* The intents the verdict is checked for, one set per profile. Facts a    *)
(* profile does not look at have one value.                                *)

Candidates(markets, signals, qualifieds) ==
  {Unknown} \cup [market : markets, signal : signals, qualified : qualifieds]

Overlays(sectors, stocks, benchmarks, confirmations, volumes) ==
  {Unknown} \cup [sector : sectors, stock : stocks, benchmark : benchmarks,
                  confirmed : confirmations, volume : volumes]

(* Judgements on each of the dimensions, on all but one, or none.          *)
Judgements(dimensions, ratios) ==
  UNION {[D -> ratios] :
           D \in {dimensions} \cup {dimensions \ {d} : d \in dimensions}}

(* Each percentile low or high, or only some of them known and those high.  *)
Percentiles(strategies) ==
  [strategies -> {2, 4}] \cup UNION {[D -> {4}] : D \in SUBSET strategies}

EventCases ==
  [profile : {"EVENT"},
   candidate : Candidates({"CONFIRMED", "CONTRADICTED"},
                          {"BREAKDOWN", "TREND"}, {<<>>}),
   overlay : Overlays({-1, 2, Unknown}, {-2, 1, 2, Unknown}, {0, Unknown},
                      {TRUE, FALSE, Unknown}, {Unknown}),
   independent : {<<>>, [price_confirmation |-> 4, sector_strength |-> 4]},
   audit : Judgements({"catalyst_quality", "expectation_gap", "directness"},
                      {2, 4}),
   pricedIn : BOOLEAN, invalidation : BOOLEAN, fomo : {7, 8},
   losingAdd : {FALSE}, percentile : {<<>>}, ret20 : {Unknown},
   ret60 : {Unknown}, volume : {Unknown}, strength60 : {Unknown},
   reward : {Unknown}, loss : {1}]

SwingCases ==
  [profile : {"SWING"},
   candidate : Candidates({"CONFIRMED", "NEUTRAL", "CONTRADICTED"}, {"TREND"},
                          {<<>>, [value |-> 4]}),
   overlay : Overlays({Unknown}, {Unknown}, {Unknown},
                      {TRUE, FALSE, Unknown}, {3, Unknown}),
   independent : {[risk_reward |-> 4]}, audit : {<<>>}, pricedIn : {FALSE},
   invalidation : {TRUE}, fomo : {7, 8}, losingAdd : BOOLEAN,
   percentile : {<<>>, [growth |-> 3]},
   ret20 : {-1, 1, Unknown}, ret60 : {1, Unknown}, volume : {0, 6, Unknown},
   strength60 : {-1, 1, Unknown}, reward : {-1, 1, 3, Unknown}, loss : {1}]

PositionCases ==
  [profile : {"POSITION"},
   candidate : Candidates({"NEUTRAL", "CONTRADICTED"}, {"BREAKDOWN", "TREND"}, {<<>>}),
   overlay : {Unknown}, independent : {<<>>, [competitiveness |-> 3]},
   audit : Judgements({"industry_trend", "competitiveness", "risk_resilience"},
                      {2, 4}),
   pricedIn : {FALSE}, invalidation : BOOLEAN, fomo : {7, 8},
   losingAdd : {FALSE},
   percentile : Percentiles({"quality", "growth", "value", "garp"}),
   ret20 : {Unknown}, ret60 : {-1, 1, Unknown}, volume : {Unknown},
   strength60 : {Unknown}, reward : {Unknown}, loss : {1}]

AllCases == EventCases \cup SwingCases \cup PositionCases

(* A profile is replayed as it is, with other weights on its dimensions,   *)
(* or with all the weight on one of them.                                  *)
Revised ==
  [EVENT |-> {[catalyst_quality |-> 100],
              [catalyst_quality |-> 0, expectation_gap |-> 40, directness |-> 15,
               sector_strength |-> 15, relative_strength |-> 15,
               price_confirmation |-> 0, risk_plan |-> 15]},
   SWING |-> {[stock_trend |-> 100],
              [fundamental_support |-> 0, sector_trend |-> 30, stock_trend |-> 5,
               key_level |-> 20, volume_confirmation |-> 10,
               relative_strength |-> 25, risk_reward |-> 10]},
   POSITION |-> {[valuation |-> 100],
                 [industry_trend |-> 0, competitiveness |-> 40, financial_quality |-> 0,
                  earnings_growth |-> 30, valuation |-> 15, long_term_trend |-> 5,
                  risk_resilience |-> 5, execution |-> 5]}]

Verdict == INSTANCE TradeVerdict WITH Cases <- AllCases, Revisions <- Revised

ASSUME Verdict!VerdictAssumption

-----------------------------------------------------------------------------

(* The second version of the bars is too short for a market breadth. *)
UnfitRegime == {<<"DETECT_REGIME", v2>>}

pipelineVars == <<raw, snapshots, manifest, at, step, read, verdict, seen, starts>>
verdictVars  == <<case, evaluation, replay>>

MCInit ==
  /\ scene \in {"pipeline", "stores", "verdict"}
  /\ Init
  /\ scene # "pipeline" => raw = [i \in Input |-> v1]
  /\ Moved!Init
  /\ scene # "stores" => backend = "json"
  /\ IF scene = "verdict" THEN Verdict!Init
     ELSE case = Unknown /\ evaluation = Unknown /\ replay = Unknown

MCNext ==
  /\ \/ scene = "pipeline" /\ Next /\ UNCHANGED <<svars, verdictVars>>
     \/ scene = "stores" /\ Moved!Next /\ UNCHANGED <<pipelineVars, verdictVars>>
     \/ scene = "verdict" /\ Verdict!Next /\ UNCHANGED <<pipelineVars, svars>>
  /\ UNCHANGED scene

MCSpec == MCInit /\ [][MCNext]_<<scene, pipelineVars, svars, verdictVars>>

(* Every state is well typed, and the manifest reads as an execution order.*)
Typed == IF scene = "stores" THEN Moved!TypeOK ELSE TypeOK /\ ManifestReadable
=============================================================================
