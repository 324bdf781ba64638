----------------------------- MODULE FetchRound -----------------------------
(***************************************************************************)
(* What one call of fetch_symbols_bounded promises the code that calls it, *)
(* with workers, messages and deadlines left out.                          *)
(*                                                                         *)
(* A round is opened for a set of symbols.  Each of them is reported to    *)
(* the caller at most once, as answered or as timed out, and the round may *)
(* close with symbols nobody reported only when a full width of calls in   *)
(* flight has timed out with no answer in between: the source has stopped  *)
(* responding, and the symbols that were never submitted are left to the   *)
(* caller's next round.                                                    *)
(***************************************************************************)
EXTENDS Naturals

CONSTANTS Symbol,      \* the symbols a caller may ask for
          MaxInflight  \* how many calls may be in flight at once

VARIABLES waiting,  \* the symbols of the round that were not reported yet
          silent,   \* calls that timed out since the last answer
          open      \* the call has not returned

vars == <<waiting, silent, open>>

TypeOK ==
  /\ waiting \subseteq Symbol
  /\ silent \in Nat
  /\ open \in BOOLEAN

Init ==
  /\ waiting \subseteq Symbol
  /\ silent = 0
  /\ open = TRUE

Report(s) ==
  /\ open
  /\ s \in waiting
  /\ waiting' = waiting \ {s}
  /\ UNCHANGED open

Answered(s) == Report(s) /\ silent' = 0

TimedOut(s) == Report(s) /\ silent' = silent + 1

SourceIsSilent == silent >= MaxInflight

Close ==
  /\ open
  /\ waiting = {} \/ SourceIsSilent
  /\ open' = FALSE
  /\ UNCHANGED <<waiting, silent>>

Next ==
  \/ \E s \in Symbol : Answered(s) \/ TimedOut(s)
  \/ Close

Spec == Init /\ [][Next]_vars
=============================================================================
