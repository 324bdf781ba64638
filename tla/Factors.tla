------------------------------ MODULE Factors -------------------------------
(***************************************************************************)
(* From the raw files of one instrument to its factors at a point in time: *)
(* what CsvNormalizedRepository.read lets through, normalized and gated,   *)
(* and what is computed from that. Every record is keyed by its            *)
(* instrument, so instruments never meet here.                             *)
(*                                                                         *)
(* A cell is a number, Blank (one of the spelled-out absences) or Garbled  *)
(* (text that is no number). The columns the checks do not tell apart are  *)
(* left out: a bar keeps its close, amount and volume, a statement two of  *)
(* its metrics. The three statements are one file. A point in time is a    *)
(* day at its close, when that day's own announcements are out. A factor   *)
(* is a status with a number; a status other than VALUE carries none.      *)
(* Numbers are whole: a ratio is kept in percent.                          *)
(*                                                                         *)
(* A definition whose name ends in an underscore and a word is a plausible *)
(* slip in the definition after it, used by nothing else.                  *)
(***************************************************************************)
EXTENDS Integers, Sequences, FiniteSets, SequencesExt

CONSTANTS
  Date,        \* trading days, 1 .. the last one
  Blank,       \* a cell that says "no value"
  Garbled,     \* a cell that cannot be read
  NoValue,     \* None
  Window,      \* trading days a trailing factor looks back
  StaleAfter,  \* the reviewed age limit, NoValue when there is none
  Year         \* days in the trailing year of dividends

ASSUME DateAssumption == \A d \in Date : d \in Nat \ {0} /\ 1 .. d \subseteq Date

Status == {"VALUE", "NULL", "NOT_APPLICABLE", "STALE"}

ASSUME FactorAssumption ==
  /\ Window \in Nat \ {0}
  /\ StaleAfter \in (Nat \ {0}) \cup {NoValue}
  /\ Year \in Nat
  /\ NoValue \notin Status

Metric == {"net_operating_cashflow_ttm", "net_profit_parent_ttm"}

Number(cell) == IF cell \in {Blank, Garbled} THEN NoValue ELSE cell

(* The rows at some places of a file, in the order of the file.            *)
Kept(file, places) ==
  [k \in 1 .. Cardinality(places) |->
     file[CHOOSE i \in places : Cardinality({j \in places : j <= i}) = k]]

(* The rows of a file in the order of a column, equals in that of the file.*)
Ordered(file, column) ==
  LET NotAfter(j, i) == \/ file[j][column] < file[i][column]
                        \/ file[j][column] = file[i][column] /\ j <= i
  IN  [k \in DOMAIN file |->
         file[CHOOSE i \in DOMAIN file :
                Cardinality({j \in DOMAIN file : NotAfter(j, i)}) = k]]

(* Rewriting a file with what arrived: rows of a key that arrived again    *)
(* make place, and the incoming rows follow the kept ones unsorted.        *)
MergedFile(file, incoming, key) ==
  Kept(file, {i \in DOMAIN file : \A j \in DOMAIN incoming : incoming[j][key] # file[i][key]})
    \o incoming

(***************************************************************************)
(* Daily bars.                                                             *)
(***************************************************************************)

(* A row without a date it can be keyed by is rejected; a number that      *)
(* cannot be read leaves its field empty.                                  *)
NormalizedBars(rows) ==
  LET keyed == Kept(rows, {i \in DOMAIN rows : rows[i].day \in Date})
  IN  [i \in DOMAIN keyed |->
        [day |-> keyed[i].day, close |-> Number(keyed[i].close),
         amount |-> Number(keyed[i].amount), volume |-> Number(keyed[i].volume)]]

Flagged(bars, i) ==
  \/ bars[i].close = NoValue
  \/ bars[i].close <= 0
  \/ bars[i].volume # NoValue /\ bars[i].volume < 0
  \/ \E j \in DOMAIN bars \ {i} : bars[j].day = bars[i].day

(* A key with one flagged bar loses all its bars.                          *)
ValidBars(bars) ==
  Kept(bars, {i \in DOMAIN bars :
                \A j \in DOMAIN bars : bars[j].day = bars[i].day => ~Flagged(bars, j)})

GatedBars(file) == ValidBars(NormalizedBars(file))

(***************************************************************************)
(* Financial statements. A row speaks of a period and was announced on a   *)
(* day; without a day it has no place in time.                             *)
(***************************************************************************)

Dated(row) == row.announced \in Date

(* What a row states readably; a measure without a value stays.            *)
Stated(row) ==
  {[metric |-> metric, period |-> row.period, available |-> row.announced,
    value |-> Number(row[metric])] : metric \in {m \in Metric : row[m] # Garbled}}

(* What two visible rows state of one period is no evidence.               *)
UsableObservations(rows, asOf) ==
  LET visible == {i \in DOMAIN rows : Dated(rows[i]) /\ rows[i].announced <= asOf}
      alone   == {i \in visible : \A j \in visible \ {i} : rows[j].period # rows[i].period}
  IN  UNION {Stated(rows[i]) : i \in alone}

(***************************************************************************)
(* Valuations and dividends come in one file per day they were fetched.    *)
(* files[f] is the content of the file of day f, NoValue when there is none.*)
(***************************************************************************)

LatestFile(files, asOf) ==
  LET visible == {f \in Date : files[f] # NoValue /\ f <= asOf}
  IN  IF visible = {} THEN NoValue ELSE CHOOSE f \in visible : \A g \in visible : g <= f

(* A block of valuations has a table with a row per day and a header that  *)
(* names the latest value of another metric without a day: it is dated by  *)
(* the table's last day and, where there is no table, by the day asked.    *)
HeaderDay(block, asOf) ==
  LET days == {row.day : row \in block.table} \cap Date
  IN  IF days = {} THEN asOf ELSE CHOOSE d \in days : \A e \in days : e <= d

ValuationObservations(files, asOf) ==
  LET f == LatestFile(files, asOf)
  IN  IF f = NoValue THEN {}
      ELSE LET block == files[f]
           IN  {[metric |-> "pe_ttm", day |-> HeaderDay(block, asOf),
                 value |-> Number(block.header)]}
               \cup {[metric |-> "ps_ttm", day |-> row.day, value |-> Number(row.cell)] :
                       row \in {r \in block.table : r.day \in Date}}

(* A dividend without a stated progress counts as implemented when it has  *)
(* an ex-day and an amount; one without an announcement day is available   *)
(* from the day asked.                                                     *)
DividendEvents(files, asOf) ==
  LET f == LatestFile(files, asOf)
      Event(row) ==
        [available |-> IF row.announced \in Date THEN row.announced ELSE asOf,
         ex |-> row.ex,
         status |-> IF row.status = Blank /\ row.ex # Blank /\ row.cash # Blank
                    THEN "implemented" ELSE row.status,
         cash |-> Number(row.cash)]
  IN  IF f = NoValue THEN <<>> ELSE [i \in DOMAIN files[f] |-> Event(files[f][i])]

(***************************************************************************)
(* The factors.                                                            *)
(***************************************************************************)

Missing(status) == [status |-> status, value |-> NoValue]
Value(number) == [status |-> "VALUE", value |-> number]

Percent(a, b) == (100 * a) \div b

Total(seq, Field(_)) == FoldLeft(LAMBDA sum, x : sum + Field(x), 0, seq)

(***************************************************************************)
(* Trailing factors over the bars.                                         *)
(***************************************************************************)

UsableBars_OfAnyDay(bars, asOf) == Ordered(bars, "day")
UsableBars_InFileOrder(bars, asOf) == Kept(bars, {i \in DOMAIN bars : bars[i].day <= asOf})

UsableBars(bars, asOf) ==
  Ordered(Kept(bars, {i \in DOMAIN bars : bars[i].day <= asOf}), "day")

(* The newest `size` bars of the point in time; a shorter history is never *)
(* made to fit.                                                            *)
Trailing(bars, asOf, size) ==
  LET usable == UsableBars(bars, asOf)
  IN  IF Len(usable) < size THEN NoValue
      ELSE SubSeq(usable, Len(usable) - size + 1, Len(usable))

AverageAmount(bars, asOf) ==
  LET window == Trailing(bars, asOf, Window)
  IN  IF window = NoValue \/ \E i \in 1 .. Window : window[i].amount = NoValue
      THEN Missing("NULL")
      ELSE Value(Total(window, LAMBDA bar : bar.amount) \div Window)

TrailingReturn(bars, asOf) ==
  LET window == Trailing(bars, asOf, Window + 1)
  IN  IF \/ window = NoValue
         \/ \E i \in 1 .. Window + 1 : window[i].close = NoValue
         \/ window[1].close = 0
      THEN Missing("NULL")
      ELSE Value(Percent(window[Window + 1].close, window[1].close) - 100)

(* The bars of the model have no high of their own: the close stands in.   *)
ProximityToHigh(bars, asOf) ==
  LET window == Trailing(bars, asOf, Window)
  IN  IF window = NoValue \/ \E i \in 1 .. Window : window[i].close = NoValue
      THEN Missing("NULL")
      ELSE LET closes == {window[i].close : i \in 1 .. Window}
               peak == CHOOSE c \in closes : \A d \in closes : d <= c
           IN  IF peak <= 0 THEN Missing("NULL")
               ELSE Value(Percent(window[Window].close, peak))

(***************************************************************************)
(* Fundamental factors over the statements.                                *)
(***************************************************************************)

Newer(o, p) == \/ o.period > p.period
               \/ o.period = p.period /\ o.available > p.available

(* The newest measurement with a value, and only where none has a value    *)
(* the newest one without.                                                 *)
LatestObservation_EvenBlank(observations, metric, asOf) ==
  LET pool == {o \in observations : o.metric = metric /\ o.available <= asOf}
  IN  IF pool = {} THEN NoValue
      ELSE CHOOSE o \in pool : \A p \in pool \ {o} : Newer(o, p)

LatestObservation(observations, metric, asOf) ==
  LET available == {o \in observations : o.metric = metric /\ o.available <= asOf}
      valued == {o \in available : o.value # NoValue}
      pool == IF valued # {} THEN valued ELSE available
  IN  IF pool = {} THEN NoValue
      ELSE CHOOSE o \in pool : \A p \in pool \ {o} : Newer(o, p)

(* Not reported at all or not yet (the first metric missing tells which),  *)
(* without a value, too old: in this order.                                *)
BlockingStatus(observations, metrics, asOf) ==
  LET Latest(m) == LatestObservation(observations, m, asOf)
      absent == {i \in DOMAIN metrics : Latest(metrics[i]) = NoValue}
      present == Range(metrics)
  IN  IF absent # {}
      THEN IF \E o \in observations : o.metric = metrics[Min(absent)]
           THEN "NULL" ELSE "NOT_APPLICABLE"
      ELSE IF \E m \in present : Latest(m).value = NoValue THEN "NULL"
      ELSE IF StaleAfter # NoValue /\ \E m \in present : asOf - Latest(m).available > StaleAfter
      THEN "STALE"
      ELSE NoValue

(* ocf_to_net_profit, a numerator and a divisor. *)
Ratio == <<"net_operating_cashflow_ttm", "net_profit_parent_ttm">>

FundamentalRatio(observations, asOf) ==
  LET blocked == BlockingStatus(observations, Ratio, asOf)
      Latest(m) == LatestObservation(observations, m, asOf).value
  IN  IF blocked # NoValue THEN Missing(blocked)
      ELSE IF Latest("net_profit_parent_ttm") <= 0 THEN Missing("NOT_APPLICABLE")
      ELSE Value(Percent(Latest("net_operating_cashflow_ttm"), Latest("net_profit_parent_ttm")))

MetricPassthrough(observations, asOf) ==
  LET blocked == BlockingStatus(observations, <<"net_profit_parent_ttm">>, asOf)
  IN  IF blocked # NoValue THEN Missing(blocked)
      ELSE Value(LatestObservation(observations, "net_profit_parent_ttm", asOf).value)

(***************************************************************************)
(* Valuation factors and the dividend yield.                               *)
(***************************************************************************)

LatestValuation(mine, asOf) ==
  LET available == {o \in mine : o.day <= asOf}
      valued == {o \in available : o.value # NoValue}
      pool == IF valued # {} THEN valued ELSE available
  IN  IF pool = {} THEN NoValue ELSE CHOOSE o \in pool : \A p \in pool : p.day <= o.day

ValuationFactor(observations, metric, asOf) ==
  LET mine == {o \in observations : o.metric = metric}
      latest == LatestValuation(mine, asOf)
  IN  IF mine = {} THEN Missing("NOT_APPLICABLE")
      ELSE IF latest = NoValue \/ latest.value = NoValue THEN Missing("NULL")
      ELSE IF StaleAfter # NoValue /\ asOf - latest.day > StaleAfter THEN Missing("STALE")
      ELSE IF latest.value <= 0 THEN Missing("NOT_APPLICABLE")
      ELSE Value(latest.value)

(* Cash of a year of implemented dividends by their ex-day, over the close *)
(* of the latest bar; nothing paid in that year is a yield of zero.        *)
DividendYieldTTM(events, bars, asOf) ==
  LET usable == UsableBars(bars, asOf)
      close == usable[Len(usable)].close
      Counts(e) == /\ e.available <= asOf
                   /\ e.ex \in (asOf - Year) .. asOf
                   /\ e.status = "implemented"
                   /\ e.cash # NoValue
                   /\ e.cash > 0
  IN  IF events = <<>> THEN Missing("NOT_APPLICABLE")
      ELSE IF usable = <<>> THEN Missing("NULL")
      ELSE IF close = NoValue \/ close <= 0 THEN Missing("NULL")
      ELSE Value(Percent(Total(SelectSeq(events, Counts), LAMBDA e : e.cash), close))
=============================================================================
