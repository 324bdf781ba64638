----------------------------- MODULE BlockFiles -----------------------------
(***************************************************************************)
(* The files of valuations or of dividends, one for each fetch day, the    *)
(* command that fills them, and what is asked of what it lands. A file is  *)
(* the set of the symbols it covers.                                       *)
(***************************************************************************)
EXTENDS Naturals, FiniteSets

CONSTANTS
  Instruments, \* the symbols asked about
  FetchDay,    \* fetch days, numbers
  MaxRounds,   \* --max-rounds, positive
  Absent       \* no file, no day, no reason

RoundsAssumption ==
  /\ FetchDay \subseteq Nat
  /\ MaxRounds \in Nat \ {0}
  /\ \A S \in SUBSET Instruments : S # Absent

VARIABLES
  kind,     \* what the files are about; never changes
  blocks,   \* the files, by day
  where,    \* where the command is
  fetchDay, \* the day it fetches for
  round,    \* its round; 0 when it asks only once
  asked,    \* the symbols it asks for
  filling,  \* the file it is about to swap in
  seen,     \* every symbol it has found covered so far
  stopped   \* why its rounds stopped

gapVars == <<kind, blocks, where, fetchDay, round, asked, filling, seen, stopped>>

Content(d) == IF blocks[d] = Absent THEN {} ELSE blocks[d]

Visible(d) == {e \in FetchDay : e <= d /\ blocks[e] # Absent}

(* The newest file shadows the older ones. *)
Latest(d) ==
  IF Visible(d) = {} THEN {}
  ELSE blocks[CHOOSE e \in Visible(d) : \A f \in Visible(d) : f <= e]

-----------------------------------------------------------------------------
(* The properties. *)

(* The docstring of land_neodata_blocks: a later round never washes away   *)
(* what an earlier one landed on the same day. Content goes only when its  *)
(* symbol is asked for again by name and answered without values.          *)
LaterRoundKeeps ==
  \A d \in FetchDay : Content(d) \ Content(d)' \subseteq (IF round = 0 THEN asked ELSE {})

(* latest_neodata_file: "today cannot see tomorrow's answer". Whatever is  *)
(* landed for a day, a reader as of an earlier day finds what it found.    *)
TodayBlindToTomorrow == \A d \in FetchDay : Latest(d) # Latest(d)' => fetchDay <= d

(* What lands has its place: it takes nothing from the rounds before it,   *)
(* and nothing from the days before it (land_neodata_blocks,               *)
(* latest_neodata_file).                                                   *)
LandingKeepsItsPlace == [][LaterRoundKeeps /\ TodayBlindToTomorrow]_gapVars
=============================================================================
