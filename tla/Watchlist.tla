------------------------------ MODULE Watchlist ------------------------------
(***************************************************************************)
(* `astock watch SYMBOL ...` (cli/lifecycle_commands.py) over the JSON     *)
(* watchlist (watchlist/store.py, state_machine.py). Every symbol has a    *)
(* file of its own and commands on different symbols do not meet, so the   *)
(* module is about one symbol and every command given for it.              *)
(*                                                                         *)
(* A command notes the time, reads the entry, makes its new version, and   *)
(* writes it: the file is truncated and then filled. Processes may         *)
(* interleave anywhere and die anywhere. Of two that filled one truncated  *)
(* file the shorter leaves a tail of the longer behind it, or does not.    *)
(*                                                                         *)
(* The thesis stands for the four texts a command may edit. A definition   *)
(* whose name ends in an underscore and a word is a plausible slip in the  *)
(* definition after it; no action uses one.                                *)
(***************************************************************************)
EXTENDS WatchEntry

Steps == {"idle", "read", "truncate", "fill"}

TypeOK ==
  /\ entry \in Entry \cup {Nothing, Empty, Mangled}
  /\ clock \in Time
  /\ doing \in [Shell -> Steps]
  /\ at \in [Shell -> Time]
  /\ draft \in [Shell -> Entry \cup {Nothing}]
  /\ single \in BOOLEAN

Init ==
  /\ entry = Nothing
  /\ clock = 0
  /\ doing = [p \in Shell |-> "idle"]
  /\ at = [p \in Shell |-> 0]
  /\ draft = [p \in Shell |-> Nothing]
  /\ single \in BOOLEAN

-----------------------------------------------------------------------------
(* The state machine. *)

Opened(t, thesis) ==
  [state |-> "DISCOVERED", updated |-> t, thesis |-> thesis,
   timeline |-> <<[at |-> t, from |-> Nothing, to |-> "DISCOVERED"]>>]

Edited(e, t, thesis) ==
  IF thesis = Nothing THEN e
  ELSE [state |-> e.state, updated |-> t, thesis |-> thesis, timeline |-> e.timeline]

Allowed_Forward(state) == {Path[i] : i \in {j \in DOMAIN Path :
                             \E k \in DOMAIN Path : Path[k] = state /\ k < j}}
Allowed(state) == {Path[i + 1] : i \in {j \in 1 .. Len(Path) - 1 : Path[j] = state}}

InTime(e, t) == t >= e.updated

MayMove_ToReserved(e, to, t) ==
  InTime(e, t) /\ to \in Allowed(e.state) \cup Reserved

MayMove(e, to, t) == InTime(e, t) /\ to \notin Reserved /\ to \in Allowed(e.state)

Moved(e, to, t) ==
  [state |-> to, updated |-> t, thesis |-> e.thesis,
   timeline |-> Append(e.timeline, [at |-> t, from |-> e.state, to |-> to])]

-----------------------------------------------------------------------------
(* The command. *)

Tick ==
  /\ clock < MaxClock
  /\ clock' = clock + 1
  /\ UNCHANGED <<entry, doing, at, draft>>

Ask(p) ==
  /\ doing[p] = "idle"
  /\ single => \A q \in Shell : doing[q] = "idle"
  /\ at' = [at EXCEPT ![p] = clock]
  /\ doing' = [doing EXCEPT ![p] = "read"]
  /\ UNCHANGED <<entry, clock, draft>>

(* The process ends, and what it knew with it. *)
Leave(p) ==
  /\ doing' = [doing EXCEPT ![p] = "idle"]
  /\ at' = [at EXCEPT ![p] = 0]
  /\ draft' = [draft EXCEPT ![p] = Nothing]

Legible_OrNone == Readable \/ entry \in {Nothing, Empty}
Legible == Readable \/ entry = Nothing

Found_Anew(p, thesis) ==
  IF Readable /\ thesis = Nothing THEN entry ELSE Opened(at[p], thesis)

Found(p, thesis) ==
  IF Readable THEN Edited(entry, at[p], thesis) ELSE Opened(at[p], thesis)

(* A refused move ends the command, the edit it came with included.        *)
Read(p) ==
  /\ doing[p] = "read"
  /\ Legible
  /\ \E thesis \in Thesis \cup {Nothing}, to \in State \cup {Nothing} :
       LET e == Found(p, thesis)
       IN \/ /\ to = Nothing
             /\ draft' = [draft EXCEPT ![p] = e]
             /\ doing' = [doing EXCEPT ![p] = "truncate"]
             /\ UNCHANGED at
          \/ /\ to # Nothing /\ MayMove(e, to, at[p])
             /\ draft' = [draft EXCEPT ![p] = Moved(e, to, at[p])]
             /\ doing' = [doing EXCEPT ![p] = "truncate"]
             /\ UNCHANGED at
          \/ /\ to # Nothing /\ ~MayMove(e, to, at[p])
             /\ Leave(p)
  /\ UNCHANGED <<entry, clock>>

(* A file that does not parse raises. *)
ReadFails(p) ==
  /\ doing[p] = "read"
  /\ ~Legible
  /\ Leave(p)
  /\ UNCHANGED <<entry, clock>>

Truncate(p) ==
  /\ doing[p] = "truncate"
  /\ entry' = Empty
  /\ doing' = [doing EXCEPT ![p] = "fill"]
  /\ UNCHANGED <<clock, at, draft>>

Fill(p) ==
  /\ doing[p] = "fill"
  /\ entry' \in IF entry = Empty THEN {draft[p]} ELSE {draft[p], Mangled}
  /\ Leave(p)
  /\ UNCHANGED clock

(* The process dies; of what it was writing nothing or a part is there.    *)
Crash(p) ==
  /\ doing[p] # "idle"
  /\ entry' \in IF doing[p] = "fill" THEN {entry, Mangled} ELSE {entry}
  /\ Leave(p)
  /\ UNCHANGED clock

Step(p) == Ask(p) \/ Read(p) \/ ReadFails(p) \/ Truncate(p) \/ Fill(p) \/ Crash(p)

Next == (Tick \/ \E p \in Shell : Step(p)) /\ UNCHANGED single

Spec == Init /\ [][Next]_watchVars

(* What is asked of the entry is in WatchEntry.                            *)
=============================================================================
