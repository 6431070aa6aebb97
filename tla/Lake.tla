-------------------------------- MODULE Lake --------------------------------
(***************************************************************************)
(* What the three layers promise when all runs are of the schedule, day by *)
(* day and without runs, tasks, attempts or files.  A day is extracted     *)
(* once and for all.  Its Silver partition is only ever made of its own    *)
(* extraction, and no more once the day has been aggregated.  Its Gold     *)
(* partition counts the latest Silver partition there is, or nothing.      *)
(* A partition may be missing while it is overwritten.                     *)
(***************************************************************************)
EXTENDS Aggregation

CONSTANTS
  Days,    \* integers
  RowSets  \* what an extraction may yield

VARIABLES bronze, silver, gold  \* from the days that are there to their data

With(layer, d, data) ==
  [e \in DOMAIN layer \union {d} |-> IF e = d THEN data ELSE layer[e]]
Without(layer, d) == [e \in DOMAIN layer \ {d} |-> layer[e]]

Init == bronze = <<>> /\ silver = <<>> /\ gold = <<>>

Extract(d) ==
  /\ d \notin DOMAIN bronze
  /\ DOMAIN bronze' = DOMAIN bronze \union {d}
  /\ bronze'[d] \in RowSets
  /\ \A e \in DOMAIN bronze : bronze'[e] = bronze[e]
  /\ UNCHANGED <<silver, gold>>

Transform(d) ==
  /\ d \in DOMAIN bronze \ DOMAIN gold
  /\ silver' = With(silver, d, bronze[d])
  /\ UNCHANGED <<bronze, gold>>

DropSilver(d) ==
  /\ d \notin DOMAIN gold
  /\ silver' = Without(silver, d)
  /\ UNCHANGED <<bronze, gold>>

(* Nothing is counted when the latest date could not be determined.        *)
Aggregate(d) ==
  /\ d \in DOMAIN silver
  /\ \E latest \in {LatestDate(silver), {}} :
       gold' = With(gold, d, get_aggregate(FilterRows(silver, latest)))
  /\ UNCHANGED <<bronze, silver>>

DropGold(d) ==
  /\ gold' = Without(gold, d)
  /\ UNCHANGED <<bronze, silver>>

Next == \E d \in Days : \/ Extract(d) \/ Transform(d) \/ DropSilver(d)
                        \/ Aggregate(d) \/ DropGold(d)

Spec == Init /\ [][Next]_<<bronze, silver, gold>>
=============================================================================
