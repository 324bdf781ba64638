------------------------------ MODULE PageState ------------------------------
(***************************************************************************)
(* What a page and the routes keep (see Reading), and what is asked of it. *)
(***************************************************************************)
EXTENDS FiniteSets

VARIABLES
  snapshots,  \* day -> kind -> None, "torn", or its content
  publishing, \* is the run that publishes the last day alive?
  reader,     \* who reads; never changes
  dates,      \* DateContext: the days the selector offers,
  dating,     \*   "loading", "ready" or "failed",
  asOf,       \*   the day selected
  tab,        \* the tab of the strategy page
  shown,      \* tab -> the answer a page holds for it
  loading,    \* the page waits for an answer
  error,      \* the page has an error to tell
  calls       \* every request made so far, with how far its route is

rvars == <<snapshots, publishing, reader, dates, dating, asOf, tab, shown, loading, error, calls>>
pageVars == <<dates, dating, asOf, tab, shown, loading, error>>

Guarded   == {"stock page", "strategy page"}      \* they number their requests

Latest == Cardinality(calls)

-----------------------------------------------------------------------------
(* The properties. *)

(* Once it stops waiting, a page that numbers its requests tells what the  *)
(* latest of them brought, for the day and the tab that are selected, and  *)
(* nothing an older request brings later changes that (StockProfilePage,   *)
(* StrategyPage).                                                          *)
GuardedTellSelection ==
  reader \in Guarded /\ ~loading =>
    \A call \in calls :
      call.id = Latest =>
        /\ call.heard
        /\ call.day = asOf
        /\ call.tab = tab
        /\ error = (call.outcome # "ok")
        /\ call.outcome = "ok" => shown[tab].id = call.id

(* A day that has candidates has a regime in every overview of it, and a   *)
(* profile has the factors of its day: what is read first was written      *)
(* last (today_overview, today; stock_profile, stock).                     *)
AnswersAreWhole ==
  \A call \in calls :
    call.outcome = "ok" /\ ~call.heard =>
      /\ /\ call.route \in {"/today", "today"}
         /\ call.seen["CANDIDATE"] = "rows"
         => call.seen["MARKET_REGIME"] = "rows"
      /\ call.route \in {"/stocks", "stock"} => call.seen["FACTOR"] = "rows"
=============================================================================
