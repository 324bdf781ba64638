----------------------------- MODULE MCProgress ------------------------------
(***************************************************************************)
(* What has to come to an end: the cold start (BootstrapScheduler, and     *)
(* BootstrapHistory, which knows the scheduler by its promise only), a     *)
(* fetch of a provider, and a page or a query that reads snapshots. A      *)
(* behaviour is about one of them, and `scene` tells which:                *)
(*   workers    three calls over two workers, processes or threads         *)
(*   faults     every kind of failure, partial answers, a batch source     *)
(*   crashes    no failed calls, three starts, and sources with a usable   *)
(*              bar in every step back                                     *)
(*   providers  any request to any of the four                             *)
(*   readers    a page, a query or a client beside a run that publishes    *)
(* The process may crash anywhere in the second and the third.             *)
(***************************************************************************)
EXTENDS BootstrapHistory, FetchCall, FetchReport, PageState

CONSTANTS LastDay, Readers, MaxAsks  \* see Reading

VARIABLE
  scene \* never changes

Pool == INSTANCE BootstrapScheduler

Fetch == INSTANCE Providers WITH
           Symbols <- {"a", "b", "c", "odd"}, NoSuffix <- {"odd"},
           BatchSize <- 2, Attempts <- 2,
           Requests <- {<<>>, <<"a">>, <<"a", "b">>, <<"a", "b", "a">>,
                        <<"b", "c", "a">>, <<"a", "odd">>}

ASSUME Fetch!ProvidersAssumption

Read == INSTANCE Reading

ASSUME Read!ReadingAssumption

-----------------------------------------------------------------------------
(* Sources of a cold start: two required bars at two calendar days per     *)
(* bar, so the windows end 4, 8 and 12 days back, and the days on which a  *)
(* window's edge can fall are the only ones worth having.                  *)

MCDay == {0, 4, 8, 12}

Calendar(usable, blank) ==
  [d \in MCDay |-> IF d \in usable THEN "bar"
                   ELSE IF d \in blank THEN "blank" ELSE "none"]

(* A symbol whose turnover is blank on the edge of the first window, and   *)
(* one that never traded.                                                  *)
Patchy == Calendar({0, 8}, {4})
Dead   == Calendar({}, {})

MixedSources == [Symbol -> {Patchy, Dead}]

(* Each step back into a source of this kind finds a usable bar for as     *)
(* long as there is one left.                                              *)
SteadySources ==
  [Symbol -> {Patchy, Dead, Calendar({0}, {4}), Calendar({4, 8, 12}, {0}),
              Calendar({}, {0, 4})}]

-----------------------------------------------------------------------------
historyVars == <<source, troubled, parts, manifest, canonical, entries, unflushed, stage,
                 window, short, gaps, silent, staged, counts, failed, starts>>

MCInit ==
  /\ scene \in {"workers", "faults", "crashes", "providers", "readers"}
  /\ Init
  /\ troubled <=> scene # "crashes"
  /\ source \in CASE scene = "faults"  -> MixedSources
                  [] scene = "crashes" -> SteadySources
                  [] OTHER -> {[s \in Symbol |-> Dead]}
  /\ Pool!Init
  /\ scene # "workers" => processIsolated
  /\ Fetch!Init
  /\ Read!Init
  /\ scene # "readers" => reader = "today page"
  /\ reader \in Read!Pages =>  \* the day to come may still be empty
       \A d \in 1 .. (LastDay - 1) : snapshots[d]["STRATEGY"] = "rows"
  /\ scene # "readers" =>
       \A d \in 1 .. (LastDay - 1) : snapshots[d]["CANDIDATE"] = "rows"

Elsewhere(v1, v2, v3) == UNCHANGED <<scene, v1, v2, v3>>

MCNext ==
  \/ scene = "workers" /\ Pool!Next /\ Elsewhere(historyVars, pvars, rvars)
  \/ scene = "faults" /\ Next /\ starts' <= 2 /\ Elsewhere(callVars, pvars, rvars)
  \/ scene = "crashes" /\ Next /\ Elsewhere(callVars, pvars, rvars)
  \/ scene = "providers" /\ Fetch!Next /\ Elsewhere(historyVars, callVars, rvars)
  \/ scene = "readers" /\ Read!Next /\ Elsewhere(historyVars, callVars, pvars)

MCVars == <<scene, historyVars, callVars, pvars, rvars>>

(* The fairness of each, see there, scene by scene.                        *)
MCFairness ==
  /\ WF_historyVars(scene = "faults" /\ Run)
  /\ WF_callVars(scene = "workers" /\ Pool!Scheduler /\ UNCHANGED processIsolated)
  /\ \A s \in Called :
       WF_callVars(/\ scene = "workers" /\ Pool!DeadlinePasses(s)
                   /\ UNCHANGED processIsolated)
  /\ WF_pvars(scene = "providers" /\ Fetch!Timed)
  /\ WF_rvars(scene = "readers" /\ Read!Answer)
  /\ WF_rvars(scene = "readers" /\ (Read!HearDates \/ Read!LoseDates))

MCSpec == MCInit /\ [][MCNext]_MCVars /\ MCFairness

(* Every state is well typed.                                              *)
Typed ==
  CASE scene = "workers"   -> Pool!TypeOK
    [] scene \in {"faults", "crashes"} -> TypeOK
    [] scene = "providers" -> Fetch!TypeOK
    [] scene = "readers"   -> Read!TypeOK

(* However many workers hang, the call returns, and every run that is not  *)
(* interrupted comes to its end.                                           *)
RunsEnd ==
  /\ scene = "workers" => Pool!AlwaysReturns
  /\ scene = "faults" => RunEnds

(* A fetch that was begun returns, unless it waits for AkShare.            *)
FetchReturns == Fetch!FetchReturns

(* No page waits for ever.                                                 *)
PageSettles == scene = "readers" => Read!PageSettles
=============================================================================
