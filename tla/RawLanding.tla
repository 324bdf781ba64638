----------------------------- MODULE RawLanding -----------------------------
(***************************************************************************)
(* `astock sync` (data/sync.py, land_raw): the listing of the exchange and *)
(* the bars of whoever has none of a day are fetched and merged into two   *)
(* CSV files. The request for bars names no dates, so AkShare answers with *)
(* the history of each symbol, once for every time it is named: all of     *)
(* them, or none. The files are written by truncating and filling them; a  *)
(* process killed in between leaves a part of the rows. The bootstrap      *)
(* merges its parts into the same bars, but swaps the file                 *)
(* (write_merged_atomic). Commands are given one at a time.                *)
(*                                                                         *)
(* The files are those of RawFiles. A row cut off in its middle counts as  *)
(* lost. The calls of one request about one symbol are answered alike.     *)
(*                                                                         *)
(* A definition whose name ends in an underscore and a word is a plausible *)
(* slip in the definition after it; no action uses one.                    *)
(***************************************************************************)
EXTENDS FiniteSets, RawFiles

Steps == {"idle", "listing", "truncate listing", "fill listing",
          "ask", "bars", "truncate bars", "fill bars", "replace"}

(* How often the bars of each symbol are asked for.                        *)
Wishes == [Instrument -> 0 .. MaxNamed]
Nothing == [s \in Instrument |-> 0]
Asked(w) == {s \in Instrument : w[s] > 0}

(* No symbols on the command line are None, not an empty list of symbols.  *)
Named == (Wishes \ {Nothing}) \cup {Unset}

TypeOK ==
  /\ listing \subseteq Security /\ bars \subseteq Bar
  /\ step \in Steps
  /\ day \in Day \cup {Unset}
  /\ named \in Named
  /\ wanted \in Wishes
  /\ draft \subseteq Security \cup Bar

Init ==
  /\ listing = {} /\ bars = {}
  /\ step = "idle" /\ day = Unset /\ named = Unset
  /\ wanted = Nothing /\ draft = {}

-----------------------------------------------------------------------------
(* _merge_into_file: rows whose key comes in again are replaced. *)

Merged_Appended(old, new) == old \cup new

Merged(old, new) == {r \in old : ~\E s \in new : SameKey(r, s)} \cup new

(* One row for each of the symbols S. *)
Listings(S) == {{[symbol |-> s, says |-> v[s]] : s \in S} : v \in [S -> Version]}

(* What a source says of some days of one symbol. *)
History == UNION {[D -> Version] : D \in (SUBSET TradeDay) \ {{}}}

(* The rows of a history that came n times. *)
Bars(s, said, n) ==
  {[symbol |-> s, day |-> d, says |-> said[d], times |-> n] : d \in DOMAIN said}

Leave ==
  /\ step' = "idle" /\ day' = Unset /\ named' = Unset
  /\ wanted' = Nothing /\ draft' = {}

-----------------------------------------------------------------------------
(* The sync. *)

Sync ==
  /\ step = "idle"
  /\ day' \in Day
  /\ named' \in Named
  /\ step' = "listing"
  /\ UNCHANGED <<listing, bars, wanted, draft>>

(* When no symbols are named, the listing decides. *)
Wanted(S) ==
  IF named = Unset THEN [s \in Instrument |-> IF s \in S THEN 1 ELSE 0] ELSE named

(* The source fails, or its answer is empty: nothing is written. *)
ListingFails ==
  /\ step = "listing"
  /\ wanted' = Wanted({}) /\ named' = Unset
  /\ step' = "ask"
  /\ UNCHANGED <<listing, bars, day, draft>>

ListingArrives ==
  /\ step = "listing"
  /\ \E S \in (SUBSET Instrument) \ {{}} :
       /\ \E rows \in Listings(S) : draft' = Merged(listing, rows)
       /\ wanted' = Wanted(S) /\ named' = Unset
  /\ step' = "truncate listing"
  /\ UNCHANGED <<listing, bars, day>>

TruncateListing ==
  /\ step = "truncate listing"
  /\ listing' = {}
  /\ step' = "fill listing"
  /\ UNCHANGED <<bars, day, named, wanted, draft>>

FillListing ==
  /\ step = "fill listing"
  /\ listing' = draft /\ draft' = {}
  /\ step' = "ask"
  /\ UNCHANGED <<bars, day, named, wanted>>

Landed_Never(d) == {}
Landed(d) == {r.symbol : r \in {s \in bars : s.day = d}}

(* Nothing to fetch: the exchange is closed, or all have the day already.  *)
NothingToAsk ==
  /\ step = "ask"
  /\ day \notin TradeDay \/ Asked(wanted) \subseteq Landed(day)
  /\ Leave
  /\ UNCHANGED <<listing, bars>>

Ask ==
  /\ step = "ask"
  /\ day \in TradeDay /\ ~(Asked(wanted) \subseteq Landed(day))
  /\ wanted' = [s \in Instrument |-> IF s \in Landed(day) THEN 0 ELSE wanted[s]]
  /\ step' = "bars"
  /\ UNCHANGED <<listing, bars, day, named, draft>>

BarsFail ==
  /\ step = "bars"
  /\ Leave
  /\ UNCHANGED <<listing, bars>>

(* Every symbol asked for is answered, on some days or all: the day of the *)
(* sync need not be one of them.                                           *)
BarsArrive ==
  /\ step = "bars"
  /\ \E answer \in [Asked(wanted) -> History] :
       draft' = Merged(bars, UNION {Bars(s, answer[s], wanted[s]) : s \in Asked(wanted)})
  /\ wanted' = Nothing
  /\ step' = "truncate bars"
  /\ UNCHANGED <<listing, bars, day, named>>

TruncateBars ==
  /\ step = "truncate bars"
  /\ bars' = {}
  /\ step' = "fill bars"
  /\ UNCHANGED <<listing, day, named, wanted, draft>>

FillBars ==
  /\ step = "fill bars"
  /\ bars' = draft
  /\ Leave
  /\ UNCHANGED listing

-----------------------------------------------------------------------------
(* The bootstrap. *)

(* Its parts hold the bars of a symbol on several days. *)
Compact ==
  /\ step = "idle"
  /\ \E s \in Instrument, said \in History : draft' = Merged(bars, Bars(s, said, 1))
  /\ step' = "replace"
  /\ UNCHANGED <<listing, bars, day, named, wanted>>

Replace ==
  /\ step = "replace"
  /\ bars' = draft
  /\ Leave
  /\ UNCHANGED listing

(* A part of some bars: of a row that was there twice, one may be left.    *)
Part(rows) ==
  {{[r EXCEPT !.times = left[r]] : r \in {q \in rows : left[q] > 0}} :
     left \in {f \in [rows -> 0 .. MaxNamed] : \A r \in rows : f[r] <= r.times}}

(* What was being filled keeps a part of its rows. *)
Crash ==
  /\ step # "idle"
  /\ IF step = "fill listing" THEN listing' \in SUBSET draft ELSE listing' = listing
  /\ IF step = "fill bars" THEN bars' \in Part(draft) ELSE bars' = bars
  /\ Leave

Next ==
  \/ Sync \/ ListingFails \/ ListingArrives \/ TruncateListing \/ FillListing
  \/ NothingToAsk \/ Ask \/ BarsFail \/ BarsArrive \/ TruncateBars \/ FillBars
  \/ Compact \/ Replace \/ Crash

Spec == Init /\ [][Next]_landingVars
=============================================================================
