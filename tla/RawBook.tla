------------------------------ MODULE RawBook ------------------------------
(***************************************************************************)
(* What the raw files of the market promise whoever reads them. A sync     *)
(* renews the listing, and the bars, of any day, of symbols without a bar  *)
(* of the day it is about; a backfill renews bars of any symbol. Neither   *)
(* loses another row, unless a sync is killed: then it may lose any.       *)
(***************************************************************************)
CONSTANTS Symbol, Day, Version,
          None \* no sync is on

VARIABLES
  listing, \* the instruments, as known
  bars,    \* the daily bars, as known
  syncing  \* the day of the sync that is on

Listed == [symbol : Symbol, says : Version]
Bar    == [symbol : Symbol, day : Day, says : Version]

Init == listing = {} /\ bars = {} /\ syncing = None

Begin(d) == syncing = None /\ syncing' = d /\ UNCHANGED <<listing, bars>>
End == syncing # None /\ syncing' = None /\ UNCHANGED <<listing, bars>>

(* A row that goes is replaced by another version of itself. *)
Relist ==
  /\ syncing # None
  /\ listing' \subseteq Listed
  /\ \A r \in listing \ listing' : \E s \in listing' : s.symbol = r.symbol
  /\ UNCHANGED <<bars, syncing>>

Same(r, s) == r.symbol = s.symbol /\ r.day = s.day

Of(symbols, file) == {r \in file : r.symbol \in symbols}

Add ==
  /\ syncing # None
  /\ bars' \subseteq Bar
  /\ \A r \in bars \ bars' : \E s \in bars' : Same(r, s)
  /\ LET upToDate == {r.symbol : r \in {s \in bars : s.day = syncing}}
     IN  Of(upToDate, bars') = Of(upToDate, bars)
  /\ UNCHANGED <<listing, syncing>>

Backfill ==
  /\ syncing = None
  /\ bars' \subseteq Bar
  /\ \A r \in bars \ bars' : \E s \in bars' : Same(r, s)
  /\ UNCHANGED <<listing, syncing>>

Killed ==
  /\ syncing # None /\ syncing' = None
  /\ listing' \subseteq listing /\ bars' \subseteq bars

Next == (\E d \in Day : Begin(d)) \/ End \/ Relist \/ Add \/ Backfill \/ Killed

Spec == Init /\ [][Next]_<<listing, bars, syncing>>
=============================================================================
