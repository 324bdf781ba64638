------------------------------ MODULE Reading -------------------------------
(***************************************************************************)
(* What a reader sees of the stored snapshots while a daily run writes     *)
(* them: the routes of api/app.py, which the pages under web/src ask, and  *)
(* the queries of cli/discovery_commands.py.                               *)
(*                                                                         *)
(* A route reads one kind after the other, and the run may write between   *)
(* two reads. Script lists the reads of a route, one line each:            *)
(*   need      read the records; there must be some (_read)                *)
(*   demand    the day must be listed for the kind                         *)
(*   consult   pass over the next line unless the day is listed            *)
(*             (_read_optional)                                            *)
(*   read      read the records; no snapshot is no records                 *)
(*                                                                         *)
(* The run publishes the kinds of the newest day in the order of           *)
(* DailyPipeline, each in two steps as the JSON store does, and may be     *)
(* killed in between: what it was filling stays torn and is unreadable.    *)
(*                                                                         *)
(* A page asks again whenever the day it shows changes; a change of the    *)
(* symbol or the strategy in its address is the same to it as one of the   *)
(* day. The server may answer in any order, and any answer may get lost.   *)
(* fetch() has no timeout; that every request is answered or fails in the  *)
(* end is assumed of the network (Fairness).                               *)
(*                                                                         *)
(* Left out: what the records say (Discovery computes the lists), the      *)
(* watchlist and ledger routes, and the filters of a page.                 *)
(*                                                                         *)
(* A definition whose name ends in an underscore and a word is a plausible *)
(* slip in the definition after it, used by nothing else.                  *)
(***************************************************************************)
EXTENDS Naturals, Sequences, PageState

CONSTANTS
  LastDay,  \* the days are 1 .. LastDay; the run publishes the last
  Readers,  \* the pages and queries a behaviour may be about
  MaxAsks,  \* bound: how often a page asks
  None      \* no snapshot, no day, no answer

Dates == 1 .. LastDay

PublishOrder == <<"FACTOR", "UNIVERSE", "STRATEGY", "MARKET_REGIME", "CANDIDATE">>
Kind    == {PublishOrder[i] : i \in 1 .. 5}
Content == {"rows", "empty"}

Unguarded == {"today page", "candidates page"}
Pages     == Guarded \cup Unguarded
Tab       == {"ranking", "qualified"}

Optional(kind) == <<[op |-> "consult", kind |-> kind], [op |-> "read", kind |-> kind]>>
Listed(kind)   == <<[op |-> "demand", kind |-> kind], [op |-> "read", kind |-> kind]>>
Needed(kind)   == <<[op |-> "need", kind |-> kind]>>
Plain(kind)    == <<[op |-> "read", kind |-> kind]>>

(* The routes of the API.                                                  *)
OverviewRoute_RegimeFirst == Optional("MARKET_REGIME") \o Listed("CANDIDATE")

OverviewRoute   == Listed("CANDIDATE") \o Optional("MARKET_REGIME")
CandidatesRoute == Needed("CANDIDATE")
ProfileRoute    == Needed("UNIVERSE") \o Optional("FACTOR") \o Optional("STRATEGY")
                     \o Optional("CANDIDATE")
RankingRoute    == Needed("STRATEGY")
QualifiedRoute  == Needed("FACTOR") \o Needed("STRATEGY")

(* The queries of the command line. stock also asks whether the day is     *)
(* listed, which only words its answer; today ends early when there are no *)
(* candidates; qualified reads both kinds before it misses either. None of *)
(* that changes what is seen.                                              *)
TodayQuery      == Listed("CANDIDATE") \o Plain("MARKET_REGIME")
CandidatesQuery == Listed("CANDIDATE")
StockQuery      == Needed("UNIVERSE") \o Plain("FACTOR") \o Plain("STRATEGY")
                     \o Plain("CANDIDATE")
ScreenQuery     == Needed("STRATEGY")
QualifiedQuery  == Needed("FACTOR") \o Needed("STRATEGY")

Route == {"/today", "/candidates", "/stocks", "/strategies", "/qualifications",
          "today", "candidates", "stock", "screen", "qualified"}

Script ==
  [r \in Route |->
    CASE r = "/today"          -> OverviewRoute
      [] r = "/candidates"     -> CandidatesRoute
      [] r = "/stocks"         -> ProfileRoute
      [] r = "/strategies"     -> RankingRoute
      [] r = "/qualifications" -> QualifiedRoute
      [] r = "today"           -> TodayQuery
      [] r = "candidates"      -> CandidatesQuery
      [] r = "stock"           -> StockQuery
      [] r = "screen"          -> ScreenQuery
      [] r = "qualified"       -> QualifiedQuery]

ReadingAssumption ==
  /\ LastDay \in Nat \ {0}
  /\ Readers \subseteq Pages \cup Route
  /\ None \notin Content \cup {"torn"}

(* What a reader asks. Who names the day itself, a query of the command    *)
(* line or a client of the API that is no page, asks one route.            *)
RouteOf(who, which) ==
  CASE who = "today page"      -> "/today"
    [] who = "candidates page" -> "/candidates"
    [] who = "stock page"      -> "/stocks"
    [] who = "strategy page"   -> IF which = "ranking" THEN "/strategies"
                                  ELSE "/qualifications"
    [] OTHER                   -> who

Whole(first, last) == [k \in Kind |-> CASE k = "CANDIDATE" -> last
                                        [] k = "STRATEGY" -> first
                                        [] OTHER -> "rows"]

Init ==
  /\ \E first, last \in Content :
       /\ first = "empty" => last = "empty"
       /\ snapshots = [d \in Dates |-> IF d = LastDay THEN [k \in Kind |-> None]
                                     ELSE Whole(first, last)]
  /\ publishing = TRUE
  /\ reader \in Readers
  /\ dates = {}
  /\ dating = "loading"
  /\ asOf = None
  /\ tab = "ranking"
  /\ shown = [t \in Tab |-> None]
  /\ loading = FALSE
  /\ error = FALSE
  /\ calls = {}

(***************************************************************************)
(* The run that publishes the last day.                                    *)
(***************************************************************************)

Filled(kind) == snapshots[LastDay][kind] \in Content

CreateFile(i) ==
  /\ publishing
  /\ snapshots[LastDay][PublishOrder[i]] = None
  /\ \A j \in 1 .. (i - 1) : Filled(PublishOrder[j])
  /\ snapshots' = [snapshots EXCEPT ![LastDay][PublishOrder[i]] = "torn"]
  /\ UNCHANGED <<publishing, reader, pageVars, calls>>

FillFile(kind) ==
  /\ publishing
  /\ snapshots[LastDay][kind] = "torn"
  /\ \E content \in Content :
       /\ content = "empty" => kind \in {"STRATEGY", "CANDIDATE"}
       /\ kind = "CANDIDATE" /\ content = "rows" => snapshots[LastDay]["STRATEGY"] = "rows"
       /\ snapshots' = [snapshots EXCEPT ![LastDay][kind] = content]
  /\ UNCHANGED <<publishing, reader, pageVars, calls>>

KillRun ==
  /\ publishing
  /\ publishing' = FALSE
  /\ UNCHANGED <<snapshots, reader, pageVars, calls>>

(***************************************************************************)
(* The routes.                                                             *)
(***************************************************************************)

Nothing == [k \in Kind |-> None]

Call(day, which) ==
  [id |-> Latest + 1, route |-> RouteOf(reader, which), day |-> day, tab |-> which,
   at |-> 1, seen |-> Nothing, outcome |-> "open", heard |-> FALSE]

(* One line of a route: how many lines it advances, what it saw, how the   *)
(* request ends if it ends here.                                           *)
Advance(call, lines, seen) ==
  LET next == call.at + lines
  IN  [call EXCEPT !.at = next,
                   !.seen = seen,
                   !.outcome = IF next > Len(Script[call.route]) THEN "ok" ELSE "open"]

EndWith(call, outcome) == [call EXCEPT !.outcome = outcome, !.seen = Nothing, !.at = 1]

Served(call) ==
  LET line  == Script[call.route][call.at]
      value == snapshots[call.day][line.kind]
      noted == [call.seen EXCEPT ![line.kind] = value]
  IN  CASE line.op = "demand" /\ value = None -> EndWith(call, "missing")
        [] line.op = "demand" /\ value # None -> Advance(call, 1, call.seen)
        [] line.op = "consult"                -> Advance(call, IF value = None THEN 2 ELSE 1,
                                                         call.seen)
        [] line.op \in {"need", "read"} /\ value = "torn" -> EndWith(call, "broken")
        [] line.op = "need" /\ value \in {None, "empty"}  -> EndWith(call, "missing")
        [] OTHER -> Advance(call, 1, noted)

Serve(call) ==
  /\ call.outcome = "open"
  /\ calls' = (calls \ {call}) \cup {Served(call)}
  /\ UNCHANGED <<snapshots, publishing, reader, pageVars>>

Lose(call) ==
  /\ reader \in Pages
  /\ call.outcome = "open"
  /\ calls' = (calls \ {call}) \cup {EndWith(call, "lost")}
  /\ UNCHANGED <<snapshots, publishing, reader, pageVars>>

(***************************************************************************)
(* Who names the day asks once, be the day published or not.               *)
(***************************************************************************)

Query(day) ==
  /\ reader \notin Pages
  /\ calls = {}
  /\ calls' = calls \cup {Call(day, tab)}
  /\ UNCHANGED <<snapshots, publishing, reader, pageVars>>

(***************************************************************************)
(* The pages.                                                              *)
(***************************************************************************)

Published == {d \in Dates : snapshots[d]["CANDIDATE"] # None}

Fetch(day, which) ==
  /\ Latest < MaxAsks
  /\ loading' = TRUE
  /\ error' = FALSE
  /\ calls' = calls \cup {Call(day, which)}

Newest(days) == CHOOSE d \in days : \A e \in days : e <= d

(* The latest day is selected as soon as the days are known.               *)
HearDates ==
  /\ reader \in Pages
  /\ dating = "loading"
  /\ dating' = "ready"
  /\ dates' = Published
  /\ IF Published = {}
     THEN UNCHANGED <<asOf, loading, error, calls>>
     ELSE asOf' = Newest(Published) /\ Fetch(Newest(Published), tab)
  /\ UNCHANGED <<snapshots, publishing, reader, tab, shown>>

LoseDates ==
  /\ reader \in Pages
  /\ dating = "loading"
  /\ dating' = "failed"
  /\ UNCHANGED <<snapshots, publishing, reader, dates, asOf, tab, shown, loading, error, calls>>

SelectDay(day) ==
  /\ reader \in Pages
  /\ dating = "ready"
  /\ day \in dates \ {asOf}
  /\ asOf' = day
  /\ Fetch(day, tab)
  /\ UNCHANGED <<snapshots, publishing, reader, dates, dating, tab, shown>>

SelectTab(which) ==
  /\ reader = "strategy page"
  /\ asOf # None
  /\ which # tab
  /\ tab' = which
  /\ Fetch(asOf, which)
  /\ UNCHANGED <<snapshots, publishing, reader, dates, dating, asOf, shown>>

Panel ==
  CASE dating = "loading" \/ loading  -> "loading"
    [] dating # "loading" /\ asOf = None -> "no day"
    [] ~loading /\ error              -> "error"
    [] OTHER                          -> "data"

Retry ==
  /\ reader \in Pages
  /\ asOf # None
  /\ Panel = "error"
  /\ Fetch(asOf, tab)
  /\ UNCHANGED <<snapshots, publishing, reader, dates, dating, asOf, tab, shown>>

Heeds_Anybody(call) == TRUE  \* no page numbers its requests

(* A guarded page ignores every answer but the latest one's.               *)
Heeds(call) == reader \in Guarded => call.id = Latest

Held(call) == IF call.outcome = "ok" THEN [id |-> call.id, day |-> call.day] ELSE None

Settle_OnSuccess(call) ==  \* the flag is cleared where the data is set
  /\ shown' = [shown EXCEPT ![call.tab] = Held(call)]
  /\ error' = (error \/ call.outcome # "ok")
  /\ loading' = (loading /\ call.outcome # "ok")

(* Data are shown as answered, an error clears them, and either way the    *)
(* page stops waiting. Only Fetch takes an error back.                     *)
Settle(call) ==
  /\ shown' = [shown EXCEPT ![call.tab] = Held(call)]
  /\ error' = (error \/ call.outcome # "ok")
  /\ loading' = FALSE

Hear(call) ==
  /\ reader \in Pages
  /\ call.outcome # "open"
  /\ ~call.heard
  /\ calls' = (calls \ {call}) \cup {[EndWith(call, call.outcome) EXCEPT !.heard = TRUE]}
  /\ IF Heeds(call) THEN Settle(call) ELSE UNCHANGED <<shown, loading, error>>
  /\ UNCHANGED <<snapshots, publishing, reader, dates, dating, asOf, tab>>

Answer == \E call \in calls : Serve(call) \/ Lose(call) \/ Hear(call)

Next ==
  \/ \E i \in 1 .. 5 : CreateFile(i)
  \/ \E kind \in Kind : FillFile(kind)
  \/ KillRun
  \/ Answer
  \/ \E day \in Dates : Query(day)
  \/ HearDates
  \/ LoseDates
  \/ \E day \in Dates : SelectDay(day)
  \/ \E which \in Tab : SelectTab(which)
  \/ Retry

Spec == Init /\ [][Next]_rvars

(* Requests end, one way or the other.                                     *)
Fairness == WF_rvars(Answer) /\ WF_rvars(HearDates \/ LoseDates)

FairSpec == Spec /\ Fairness
-----------------------------------------------------------------------------
TypeOK ==
  /\ \A d \in Dates, k \in Kind : snapshots[d][k] \in Content \cup {None, "torn"}
  /\ dates \subseteq Dates
  /\ dating \in {"loading", "ready", "failed"}
  /\ asOf \in dates \cup {None}
  /\ \A call \in calls : /\ call.route \in Route
                         /\ call.outcome \in {"open", "ok", "missing", "broken", "lost"}
                         /\ call.id \in 1 .. Latest

(* No page waits for ever (fetchData, fetchProfile, fetchResults).         *)
PageSettles == <>[](reader \in Pages => Panel # "loading")

(* Data on a page are of the day selected, whatever was asked before.      *)
NoStaleData ==
  reader \in Pages /\ Panel = "data" /\ shown[tab] # None => shown[tab].day = asOf
=============================================================================
