------------------------------ MODULE DayRecord ------------------------------
(***************************************************************************)
(* What the daily pipeline promises the readers of a day's snapshots, with *)
(* stages, runs, files and the job manifest left out.                      *)
(*                                                                         *)
(* The record of a day is written at most once per kind and never changed. *)
(* A kind is published only on top of the kinds before it, and everything  *)
(* published for the day was computed from the same inputs.                *)
(***************************************************************************)
EXTENDS Naturals

CONSTANTS Kind,    \* the kinds of snapshot
          Before,  \* Before[k]: the kinds that k is computed after
          Content, \* what a snapshot may say, by the inputs it was computed from
          None     \* "nothing published"

VARIABLE record  \* record[k]: what was published

Published(k) == record[k] # None

(* Two snapshots agree when no input was one thing for the first and       *)
(* another for the second.                                                 *)
Agree(c, d) == \A input \in DOMAIN c \cap DOMAIN d : c[input] = d[input]

TypeOK == record \in [Kind -> Content \cup {None}]

Init == record = [k \in Kind |-> None]

Publish(k, c) ==
  /\ ~Published(k)
  /\ \A j \in Before[k] : Published(j)
  /\ \A j \in Kind : Published(j) => Agree(record[j], c)
  /\ record' = [record EXCEPT ![k] = c]

Next ==
  \E k \in Kind : record'[k] # record[k] /\ \E c \in Content : Publish(k, c)

Spec == Init /\ [][Next]_record
=============================================================================
