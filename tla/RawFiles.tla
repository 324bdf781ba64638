------------------------------ MODULE RawFiles ------------------------------
(***************************************************************************)
(* The raw files of the market, the command that lands into them, and what *)
(* is asked of both. A file is the set of its rows; one that is missing,   *)
(* empty or only truncated reads as no rows. `says` stands for the columns *)
(* that are no keys, and a bar tells how many `times` it is in the file: a *)
(* symbol may be named more than once.                                     *)
(***************************************************************************)
EXTENDS Naturals

CONSTANTS
  Instrument, \* symbols
  Version,    \* what a source may say of one and the same row
  Day,        \* days one may sync
  TradeDay,   \* those of them the exchange is open
  MaxNamed,   \* how often one symbol may be named
  Unset       \* no day; no symbols named

ASSUME LandingAssumption ==
  TradeDay \subseteq Day /\ Unset \notin Day /\ MaxNamed \in Nat \ {0}

VARIABLES
  listing, \* securities.csv
  bars,    \* daily_bars.csv
  step,    \* where the command is
  day,     \* the day it syncs
  named,   \* how often each symbol was given
  wanted,  \* how often it still asks for the bars of each
  draft    \* the rows it is about to write

landingVars == <<listing, bars, step, day, named, wanted, draft>>

Security == [symbol : Instrument, says : Version]
Bar == [symbol : Instrument, day : TradeDay, says : Version, times : 1 .. MaxNamed]

SameKey(r, s) == r.symbol = s.symbol /\ ("day" \in DOMAIN r => r.day = s.day)

-----------------------------------------------------------------------------
(* The properties. *)

(* "Any row whose key the file already holds is replaced rather than       *)
(* appended": whatever is landed twice, revised, or landed again after a   *)
(* crash, no file says two things of one key. It may say one thing twice:  *)
(* the rows that arrive are not compared with one another, and a symbol    *)
(* named twice comes twice (_merge_into_file).                             *)
OneAnswerPerKey ==
  \A file \in {listing, bars} : \A r, s \in file : SameKey(r, s) => r = s

(* A row by its content, however often it is there. *)
Plain(file) == {[symbol |-> r.symbol, day |-> r.day, says |-> r.says] : r \in file}

(* A file that is being filled is what it is about to be. *)
Book == INSTANCE RawBook WITH
          Symbol  <- Instrument,
          listing <- IF step = "fill listing" THEN draft ELSE listing,
          bars    <- IF step = "fill bars" THEN Plain(draft) ELSE Plain(bars),
          syncing <- day,
          None    <- Unset

(* The landing keeps the promise of RawBook: only a killed write loses     *)
(* rows, and who has a bar of the day is left alone (land_raw).            *)
ImplementsRawBook == Book!Spec
=============================================================================
