----------------------------- MODULE WatchEntry -----------------------------
(***************************************************************************)
(* An entry of the watchlist (watchlist/models.py), what a file may hold   *)
(* instead of one, the state of the commands on it, and what is asked of   *)
(* them. The thesis stands for the four texts a command may edit.          *)
(***************************************************************************)
EXTENDS Naturals, Sequences

CONSTANTS
  Shell,    \* the processes that run commands
  Thesis,   \* what a command may say
  Nothing,  \* not said; no file
  Empty,    \* a file truncated and not filled
  Mangled,  \* a file that holds parts of entries
  MaxClock  \* bound: the last time a command is given at

Path == <<"DISCOVERED", "WATCH", "DEEP_RESEARCH", "TRACK_SIGNAL">>
Active == {Path[i] : i \in DOMAIN Path}
Reserved == {"READY", "HOLDING", "EXITED", "ARCHIVED"}
State == Active \cup Reserved

Time  == 0 .. MaxClock
Event == [at : Time, from : Active \cup {Nothing}, to : Active]
Entry == [state : Active, updated : Time, thesis : Thesis \cup {Nothing},
          timeline : Seq(Event)]

ASSUME ClockIsBounded == MaxClock \in Nat
ASSUME MarksDistinct ==
  /\ Nothing # Empty /\ Nothing # Mangled /\ Empty # Mangled
  /\ {Nothing, Empty, Mangled} \cap Entry = {}
  /\ Nothing \notin Thesis \cup State

VARIABLES
  entry,  \* the symbol's file
  clock,  \* the time
  doing,  \* where a process is in its command
  at,     \* the time it noted
  draft,  \* the entry it is going to write
  single  \* whether commands are given one at a time; never changes

watchVars == <<entry, clock, doing, at, draft, single>>

Readable == entry \in Entry

-----------------------------------------------------------------------------
(* The properties. *)

(* The timeline of e is the confirmed path as far as e has come, without a *)
(* skipped, repeated or backward move.                                     *)
FollowsPath(e) ==
  /\ Len(e.timeline) \in DOMAIN Path
  /\ e.state = Path[Len(e.timeline)]
  /\ \A i \in DOMAIN e.timeline :
       /\ e.timeline[i].to = Path[i]
       /\ e.timeline[i].from = IF i = 1 THEN Nothing ELSE Path[i - 1]

(* Whatever races and crashes happened, an entry that can be read tells in *)
(* its timeline how it came to its state (state_machine.py). Reserved      *)
(* states are never there.                                                 *)
TimelineTellsState == Readable => FollowsPath(entry)

Abandoned ==
  /\ entry \in {Empty, Mangled}
  /\ \A p \in Shell : doing[p] \notin {"truncate", "fill"}

(* A record that cannot be read, and that nobody is writing, is never      *)
(* taken for an untracked symbol: no command gets as far as replacing it   *)
(* (store.py).                                                             *)
WreckStays == [][Abandoned => Abandoned']_watchVars

(* The entry d has every recorded state change of e. *)
Extends(d, e) ==
  /\ Len(e.timeline) <= Len(d.timeline)
  /\ \A i \in DOMAIN e.timeline : d.timeline[i] = e.timeline[i]

(* While commands are given one at a time, whoever replaces an entry is    *)
(* about to write one that has all its recorded state changes              *)
(* (lifecycle_commands.py).                                                *)
ChangesAreKept ==
  [][single => \A p \in Shell :
       Readable /\ doing[p] = "truncate" /\ doing'[p] = "fill"
         => Extends(draft[p], entry)]_watchVars
=============================================================================
