----------------------------- MODULE GapFilling -----------------------------
(***************************************************************************)
(* `astock sync-valuation` and `astock sync-dividends`                     *)
(* (cli/data_commands.py): rounds that ask the source only for the symbols *)
(* still missing, and merge what comes into the file of the fetch day      *)
(* (data/sync.py, land_neodata_blocks), which is swapped whole. `astock    *)
(* sync --valuation` asks once, for the symbols it is given. Commands are  *)
(* given one at a time.                                                    *)
(*                                                                         *)
(* Valuations and dividends have files of their own and the same rounds;   *)
(* the module is about one of them. A file is the set of the symbols it    *)
(* covers: those whose block has values, or names them as a dividend.      *)
(*                                                                         *)
(* A definition whose name ends in an underscore and a word is a plausible *)
(* slip in the definition after it; no action uses one.                    *)
(***************************************************************************)
EXTENDS BlockFiles

TypeOK ==
  /\ kind \in {"valuation", "dividend_history"}
  /\ blocks \in [FetchDay -> (SUBSET Instruments) \cup {Absent}]
  /\ where \in {"idle", "look", "fetch", "replace", "count", "report"}
  /\ fetchDay \in FetchDay \cup {Absent}
  /\ round \in 0 .. MaxRounds
  /\ asked \subseteq Instruments /\ filling \subseteq Instruments /\ seen \subseteq Instruments
  /\ stopped \in {"covered", "no_progress", "max_rounds", Absent}

Init ==
  /\ kind \in {"valuation", "dividend_history"}
  /\ blocks = [d \in FetchDay |-> Absent]
  /\ where = "idle" /\ fetchDay = Absent /\ round = 0
  /\ asked = {} /\ filling = {} /\ seen = {} /\ stopped = Absent

-----------------------------------------------------------------------------
(* What is covered. *)

(* The rounds count valuations as a scan reads them, from the newest file, *)
(* and dividends from the file of the day.                                 *)
Covered(d) == IF kind = "valuation" THEN Latest(d) ELSE Content(d)

Missing == Instruments \ Covered(fetchDay)

-----------------------------------------------------------------------------
(* The commands. *)

SyncGaps ==
  /\ where = "idle"
  /\ fetchDay' \in FetchDay
  /\ round' = 1
  /\ where' = "look"
  /\ UNCHANGED <<kind, blocks, asked, filling, seen, stopped>>

SyncNamed ==
  /\ where = "idle" /\ kind = "valuation"
  /\ fetchDay' \in FetchDay
  /\ asked' \in (SUBSET Instruments) \ {{}}
  /\ where' = "fetch"
  /\ UNCHANGED <<kind, blocks, round, filling, seen, stopped>>

Leave ==
  /\ where' = "idle" /\ fetchDay' = Absent /\ round' = 0
  /\ asked' = {} /\ filling' = {} /\ seen' = {} /\ stopped' = Absent

Look ==
  /\ where = "look"
  /\ seen' = seen \cup Covered(fetchDay)
  /\ asked' = Missing
  /\ IF Missing = {} THEN where' = "report" /\ stopped' = "covered"
                     ELSE where' = "fetch" /\ stopped' = stopped
  /\ UNCHANGED <<kind, blocks, fetchDay, round, filling>>

(* A command that asks once is done; one with rounds counts. *)
Proceed ==
  \/ /\ round = 0
     /\ Leave
  \/ /\ round > 0
     /\ where' = "count"
     /\ UNCHANGED <<fetchDay, round, asked, filling, seen, stopped>>

FetchFails ==
  /\ where = "fetch"
  /\ Proceed
  /\ UNCHANGED <<kind, blocks>>

(* A new block replaces the old one about the same symbol; `void` are the  *)
(* symbols whose new block has no values.                                  *)
Merged_Afresh(valued, void) == valued
Merged(valued, void) == (Content(fetchDay) \ void) \cup valued

(* The answer may be about some of the symbols only, or none of them.      *)
FetchArrives ==
  /\ where = "fetch"
  /\ \E valued \in SUBSET asked :
       \E void \in IF kind = "valuation" THEN SUBSET (asked \ valued) ELSE {{}} :
         filling' = Merged(valued, void)
  /\ where' = "replace"
  /\ UNCHANGED <<kind, blocks, fetchDay, round, asked, seen, stopped>>

Replace ==
  /\ where = "replace"
  /\ blocks' = [blocks EXCEPT ![fetchDay] = filling]
  /\ Proceed
  /\ UNCHANGED kind

MoreRounds_OneMore == round <= MaxRounds
MoreRounds == round < MaxRounds

(* A round that brought nothing is the last. *)
Count ==
  /\ where = "count"
  /\ \/ /\ asked \cap Covered(fetchDay) = {}
        /\ where' = "report" /\ stopped' = "no_progress"
        /\ UNCHANGED round
     \/ /\ asked \cap Covered(fetchDay) # {} /\ ~MoreRounds
        /\ where' = "report" /\ stopped' = "max_rounds"
        /\ UNCHANGED round
     \/ /\ asked \cap Covered(fetchDay) # {} /\ MoreRounds
        /\ round' = round + 1 /\ where' = "look"
        /\ UNCHANGED stopped
  /\ UNCHANGED <<kind, blocks, fetchDay, asked, filling, seen>>

(* What is missing is listed, and makes the exit code 1. *)
Report ==
  /\ where = "report"
  /\ Leave
  /\ UNCHANGED <<kind, blocks>>

(* The process dies; a file is swapped or not. *)
Crash ==
  /\ where # "idle"
  /\ Leave
  /\ UNCHANGED <<kind, blocks>>

Next ==
  \/ SyncGaps \/ SyncNamed \/ Look \/ FetchFails \/ FetchArrives
  \/ Replace \/ Count \/ Report \/ Crash

Spec == Init /\ [][Next]_gapVars

-----------------------------------------------------------------------------
(* What is asked of a landing is in BlockFiles; besides: *)

(* The docstring of sync_valuation: "each round requests only what is      *)
(* still missing, the covered are not asked again". The code counts the    *)
(* newest file only, and the first round on a new day makes a new newest   *)
(* file.                                                                   *)
CoveredIsNotAsked ==
  [][round > 0 /\ where' = "fetch" => seen' \cap asked' = {}]_gapVars
=============================================================================
