---------------------------- MODULE PointInTime -----------------------------
(***************************************************************************)
(* How the files of PastFiles come about: one instrument, days of landings *)
(* in any order, of one kind of file in each behaviour.                    *)
(***************************************************************************)
EXTENDS PastFiles

CONSTANTS BarCells,        \* <<close, amount, volume>> a source may answer for a day
          StatementCells,  \* <<operating cash flow, net profit>>
          Periods,         \* report periods
          Earlier,         \* files of bars earlier commands may have left
          ValuationBlocks(_), \* blocks a source may answer on a day
          DividendRows(_)  \* sequences of dividends a source may list on a day

(* What earlier commands left is a list of dated rows, doubled ones where  *)
(* a symbol was named twice; a period is a date.                           *)
PastAssumption ==
  /\ \A file \in Earlier : /\ file \in Seq(Range(file))
                               /\ \A i \in DOMAIN file : file[i].day \in Date
  /\ Periods \subseteq Nat

Source == {"bars", "statements", "valuations", "dividends"}

Init ==
  /\ today \in Date
  /\ source \in Source
  /\ history \in {file \in Earlier : \A i \in DOMAIN file : file[i].day <= today}
  /\ statements = <<>>
  /\ valuationFiles = [f \in Date |-> NoValue]
  /\ dividendFiles = [f \in Date |-> NoValue]

NextDay ==
  /\ today + 1 \in Date
  /\ today' = today + 1
  /\ UNCHANGED <<source, history, statements, valuationFiles, dividendFiles>>

(* A sync or a backfill brings the bar of any day so far, in any order.    *)
LandBar(day, cells) ==
  /\ source = "bars"
  /\ day \in 1 .. today \cup {Garbled}
  /\ history' = MergedFile(history, <<[day |-> day, close |-> cells[1], amount |-> cells[2],
                                       volume |-> cells[3]]>>, "day")
  /\ UNCHANGED <<today, source, statements, valuationFiles, dividendFiles>>

(* A statement is landed on the day of its announcement or later; one that *)
(* was restated replaces the row of its period.                            *)
LandStatement(period, announced, cells) ==
  /\ source = "statements"
  /\ announced \in 1 .. today \cup {Blank}
  /\ statements' =
       MergedFile(statements,
                  <<[period |-> period, announced |-> announced,
                     net_operating_cashflow_ttm |-> cells[1],
                     net_profit_parent_ttm |-> cells[2]]>>, "period")
  /\ UNCHANGED <<today, source, history, valuationFiles, dividendFiles>>

LandValuations(block) ==
  /\ source = "valuations"
  /\ valuationFiles' = [valuationFiles EXCEPT ![today] = block]
  /\ UNCHANGED <<today, source, history, statements, dividendFiles>>

LandDividends(rows) ==
  /\ source = "dividends"
  /\ dividendFiles' = [dividendFiles EXCEPT ![today] = rows]
  /\ UNCHANGED <<today, source, history, statements, valuationFiles>>

Next ==
  \/ NextDay
  \/ \E day \in Date \cup {Garbled}, cells \in BarCells : LandBar(day, cells)
  \/ \E period \in Periods, announced \in Date \cup {Blank}, cells \in StatementCells :
       LandStatement(period, announced, cells)
  \/ \E block \in ValuationBlocks(today) : LandValuations(block)
  \/ \E rows \in DividendRows(today) : LandDividends(rows)

Spec == Init /\ [][Next]_pastVars

-----------------------------------------------------------------------------
TypeOK ==
  /\ today \in Date
  /\ source \in Source
  /\ \A i \in DOMAIN history : history[i].day \in Date \cup {Garbled}
  /\ \A i \in DOMAIN statements : statements[i].announced \in Date \cup {Blank}
  /\ DOMAIN valuationFiles = Date
  /\ DOMAIN dividendFiles = Date
=============================================================================
