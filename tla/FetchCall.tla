----------------------------- MODULE FetchCall ------------------------------
(***************************************************************************)
(* The state of one call of fetch_symbols_bounded                          *)
(* (data/bootstrap_scheduler.py), and what is asked of it.                 *)
(***************************************************************************)
EXTENDS Naturals, FiniteSets

CONSTANTS Called,       \* the symbols it is called with
          MaxInflight,  \* max_inflight
          Nobody        \* "no symbol"

ASSUME MaxInflightPositive == MaxInflight \in Nat \ {0}
ASSUME CalledFinite == IsFiniteSet(Called)
ASSUME NobodyIsNone == Nobody \notin Called

VARIABLES
  processIsolated, \* the workers are processes, which can be terminated
  phase,           \* where the scheduler's own loop is
  pending,         \* symbols not submitted
  active,          \* the table of calls in flight
  unpolled,        \* what this poll still has to visit
  looking,         \* found no message of it, its deadline is checked next;
                   \* or Nobody
  roundCompleted,  \* this poll consumed an answer
  roundTimedOut,   \* this poll gave up on a call
  draining,        \* nothing is submitted until an answer comes
  exhausted,       \* nothing is submitted any more
  running,         \* symbols whose worker is executing the source call
  mailbox,         \* the message in each symbol's result queue
  expired,         \* calls whose deadline has passed
  verdict,         \* what on_result was told about each symbol
  submitted, completed, timedOut, sourceErrors, maxObserved
                   \* the counters of SchedulerStats

(* Ghost of the model, read by no guard: timeouts since the last answer. *)
VARIABLE unheard

stats      == <<submitted, completed, timedOut, sourceErrors, maxObserved>>
loopVars   == <<phase, pending, active, unpolled, looking, roundCompleted,
                roundTimedOut, draining, exhausted, verdict, stats, unheard>>
workerVars == <<running, mailbox, expired>>
callVars   == <<processIsolated, loopVars, workerVars>>

Messages == {"value", "no_value", "error"}
Nothing  == "none"
Timeout  == "timeout"

-----------------------------------------------------------------------------
(* The properties. *)

Reported(s) == verdict[s] # Nothing

(* At most MaxInflight calls are ever in the table, the number the         *)
(* heartbeat is told never exceeds it, and with process isolation no       *)
(* source call outlives its deadline: whatever still executes is in the    *)
(* table, so at most MaxInflight processes exist.                          *)
InflightBounded ==
  /\ Cardinality(active) <= MaxInflight
  /\ maxObserved <= MaxInflight
  /\ processIsolated => running \subseteq active

(* Every symbol is in exactly one place: not submitted, in flight, or      *)
(* reported. None is lost by a poll and none is reported while in flight.  *)
NoSymbolLost ==
  \A s \in Called :
    /\ Reported(s) <=> s \notin pending \cup active
    /\ s \notin pending \cap active

(* When the call returns its counters describe exactly what the caller was *)
(* told.                                                                   *)
StatsHonest ==
  phase = "done" =>
    /\ submitted = completed
    /\ completed = Cardinality({s \in Called : Reported(s)})
    /\ timedOut = Cardinality({s \in Called : verdict[s] = Timeout})
    /\ sourceErrors
         = Cardinality({s \in Called : verdict[s] \in {"error", Timeout}})

(* The books of a call balance: places, widths and counters.               *)
BooksBalance == NoSymbolLost /\ InflightBounded /\ StatsHonest

(* The scheduler keeps the promise of FetchRound. *)
Promise == INSTANCE FetchRound WITH
             Symbol <- Called,
             waiting <- {s \in Called : ~Reported(s)},
             silent <- unheard,
             open <- phase # "done"

ImplementsFetchRound == Promise!Spec
=============================================================================
