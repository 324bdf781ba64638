----------------------------- MODULE Discovery ------------------------------
(***************************************************************************)
(* The lists that are computed from stored snapshots when somebody asks:   *)
(* screen_strategy, summarize_strategies, screen_qualified,                *)
(* screen_candidates and build_today_overview (discovery/), which the API  *)
(* and the command line share. None of them reads a market or a raw file.  *)
(*                                                                         *)
(* Of one strategy, equal ranks are equal scores, and a member is scored   *)
(* if and only if it is eligible: so the order of scores among equal ranks *)
(* is left out, and among members without a rank it is the eligible first. *)
(***************************************************************************)
EXTENDS CrossSection

Take(seq, limit) == SubSeq(seq, 1, IF limit < Len(seq) THEN limit ELSE Len(seq))

Coverage(scored) ==
  LET eligible == {s \in DOMAIN scored : scored[s].eligible}
  IN  [total |-> Cardinality(DOMAIN scored),
       eligible |-> Cardinality(eligible),
       scored |-> Cardinality(eligible),
       ranked |-> Cardinality({s \in DOMAIN scored : scored[s].rank # None})]

(* A missing percentile is never a zero: it comes after all that are there.*)
ListedBefore(scored, s, t) ==
  LET rs == scored[s].rank
      rt == scored[t].rank
  IN  \/ rs # None /\ rt = None
      \/ rs # None /\ rt # None /\ rs > rt
      \/ rs = rt /\ scored[s].eligible /\ ~scored[t].eligible
      \/ rs = rt /\ scored[s].eligible = scored[t].eligible /\ s < t

(* A set as the list that keeps to an order. *)
Listing(set, Precedes(_, _)) ==
  CHOOSE list \in SetToSeqs(set) :
    \A i, j \in DOMAIN list : i < j => Precedes(list[i], list[j])

InOrder(scored, members) == Listing(members, LAMBDA s, t : ListedBefore(scored, s, t))

(* What a strategy thinks of its members, with the filters of a query.     *)
ScreenStrategy(results, query) ==
  LET scored == results[query.strategy]
      kept == {s \in DOMAIN scored :
                 /\ query.eligible_only => scored[s].eligible
                 /\ query.min # None => scored[s].rank # None /\ scored[s].rank >= query.min}
  IN  [coverage |-> Coverage(scored), items |-> Take(InOrder(scored, kept), query.limit)]

SummarizeStrategies(results) == [x \in Strategy |-> Coverage(results[x])]

(* Who passes both gates, judged again from the stored factors and ranks.  *)
Judged(scored) == {s \in DOMAIN scored : scored[s].eligible /\ scored[s].rank # None}

Passing_EitherGate(near, within) == near \cup within

Passing(near, within) == near \cap within

ScreenQualified(results, factors, strategy, limit) ==
  LET scored == results[strategy]
      near   == {s \in Judged(scored) : scored[s].rank >= Floor}
      within == {s \in Judged(scored) : WithinBounds(strategy, factors[s])}
      both   == Passing(near, within)
  IN  [coverage |-> [eligible |-> Coverage(scored).eligible,
                     ranked |-> Coverage(scored).ranked,
                     percentile_pass |-> Cardinality(near),
                     absolute_pass |-> Cardinality(within),
                     qualified |-> Cardinality(both)],
       items |-> Take(InOrder(scored, both), limit),
       warned |-> both = {}]

(* The candidates in the order they are stored in, which is the order of   *)
(* priority: no query sorts them again.                                    *)
StoredOrder(evidence, selected) == Listing(selected, LAMBDA s, t : Before(evidence, s, t))

CandidateItem(evidence, order, i) ==
  [rank |-> i,
   symbol |-> order[i],
   strategies |-> {q.strategy : q \in evidence[order[i]].qualified},
   best |-> BestRank(evidence, order[i])]

ScreenCandidates(evidence, order, limit) ==
  [i \in 1 .. Len(Take(order, limit)) |-> CandidateItem(evidence, order, i)]

(* How many of the order are in each group; `group` tells the group of a   *)
(* symbol.                                                                 *)
CountBy(order, group) ==
  [g \in {group[order[i]] : i \in DOMAIN order} |->
     Cardinality({i \in DOMAIN order : group[order[i]] = g})]

TodayOverview(evidence, order, primary, limit) ==
  [candidate_count |-> Len(order),
   by_strategy |-> CountBy(order, primary),
   by_market |-> CountBy(order, [s \in DOMAIN evidence |-> evidence[s].market]),
   by_signal |-> CountBy(order, [s \in DOMAIN evidence |-> evidence[s].signal]),
   top |-> ScreenCandidates(evidence, order, limit)]
=============================================================================
