----------------------------- MODULE PastFiles ------------------------------
(***************************************************************************)
(* The raw files of one instrument over days of landings, what a run as of *)
(* any day computes from them, and what is asked of it. Any past day may   *)
(* be computed again at any time, so what it finds must not depend on what *)
(* lands about later days, nor on the order in which the days land.        *)
(***************************************************************************)
EXTENDS Factors

VARIABLES
  today,
  source,          \* what this operator syncs: never changes
  history,         \* rows of daily_bars.csv
  statements,      \* rows of the statement file
  valuationFiles,  \* fetch day -> block, NoValue
  dividendFiles    \* fetch day -> rows, NoValue

pastVars == <<today, source, history, statements, valuationFiles, dividendFiles>>

-----------------------------------------------------------------------------
(* A run as of a day, over the files it reads. *)

Files == [bars |-> history, statements |-> statements,
          valuations |-> valuationFiles, dividends |-> dividendFiles]

FactorsAsOf(files, asOf) ==
  LET gated == GatedBars(files.bars)
      reported == UsableObservations(files.statements, asOf)
      valued == ValuationObservations(files.valuations, asOf)
  IN  [avg_amount |-> AverageAmount(gated, asOf),
       ret |-> TrailingReturn(gated, asOf),
       proximity |-> ProximityToHigh(gated, asOf),
       ocf_to_net_profit |-> FundamentalRatio(reported, asOf),
       net_profit |-> MetricPassthrough(reported, asOf),
       pe_ttm |-> ValuationFactor(valued, "pe_ttm", asOf),
       ps_ttm |-> ValuationFactor(valued, "ps_ttm", asOf),
       dividend_yield_ttm |-> DividendYieldTTM(DividendEvents(files.dividends, asOf), gated, asOf)]

(* Whether the instrument stands above its moving average, as the breadth  *)
(* of the market counts it: by the last rows of the file, whatever the day *)
(* the run is about.                                                       *)
BreadthAsOf(files, asOf) ==
  LET gated == GatedBars(files.bars)
      window == SubSeq(gated, Len(gated) - Window + 1, Len(gated))
  IN  IF Len(gated) < Window THEN NoValue
      ELSE gated[Len(gated)].close * Window > Total(window, LAMBDA bar : bar.close)

-----------------------------------------------------------------------------
(* The properties. *)

Rows(file) == {file[i] : i \in DOMAIN file}

(* What this step lands is not about day d or before: the row it appends   *)
(* is of a later day or of none, and so is the file it writes.             *)
LandsLater(d) ==
  /\ history' # history => Last(history').day \notin 1 .. d
  /\ statements' # statements => Last(statements').announced \notin 1 .. d
  /\ \A f \in Date : f <= d => /\ valuationFiles'[f] = valuationFiles[f]
                             /\ dividendFiles'[f] = dividendFiles[f]

(* It replaces a statement that was out by then, as a restatement does.    *)
Restates(d) ==
  \E row \in Rows(statements) \ Rows(statements') : row.announced \in 1 .. d

(* Nothing that lands about later days changes a factor of a day: not      *)
(* through the trailing windows, nor as the newest statement, nor as the   *)
(* newest file, nor by the rows it replaces (_trailing, _latest,           *)
(* latest_neodata_file, FinancialStatementNormalizer, _merge_into_file).   *)
(* Restatements are left out.                                              *)
NoLookAhead ==
  [][\A d \in Date : LandsLater(d) /\ ~Restates(d)
                     => FactorsAsOf(Files', d) = FactorsAsOf(Files, d)]_pastVars

(* The README says that a report announced after the day a factor is about *)
(* is invisible to it. A restatement announced later, too, would leave the *)
(* factors of that day alone (_merge_into_file).                           *)
RestatementsStayUnseen ==
  [][\A d \in Date :
       statements' # statements /\ Last(statements').announced \in Date \ (1 .. d)
       => FactorsAsOf(Files', d) = FactorsAsOf(Files, d)]_statements

(* A backfill lands old days behind new ones; no factor depends on the     *)
(* order of the rows in a file (_trailing sorts).                          *)
OrderIsForgotten ==
  LET dated  == Kept(history, {i \in DOMAIN history : history[i].day \in Date})
      sorted == [Files EXCEPT !.bars = Ordered(dated, "day"),
                              !.statements = Ordered(statements, "period")]
  IN  \A d \in Date : FactorsAsOf(Files, d) = FactorsAsOf(sorted, d)

(* A report without a value never hides the measurement the market already *)
(* had: be it of a new period, or in the place of one that had no value    *)
(* either (_latest).                                                       *)
BlankHidesNothing ==
  [][(\A row \in (Rows(statements) \ Rows(statements')) \cup (Rows(statements') \ Rows(statements)) :
        Number(row.net_profit_parent_ttm) = NoValue)
     => \A d \in Date :
          LET before == FactorsAsOf(Files, d).net_profit
          IN  before.status = "VALUE" => FactorsAsOf(Files', d).net_profit = before]_statements

(* The next-stage plan says that no computation consumes data of the       *)
(* future: what the breadth of a day counts, too, does not come from bars  *)
(* of later days (_detect_regime).                                         *)
BreadthKeepsToItsDay ==
  [][\A d \in Date : LandsLater(d) => BreadthAsOf(Files', d) = BreadthAsOf(Files, d)]_pastVars
=============================================================================
