--------------------------- MODULE MCRescreening ---------------------------
(***************************************************************************)
(* Two lists: nobody is on the first, everybody is blocked by the second.  *)
(***************************************************************************)
EXTENDS Rescreening

Block2 == <<[r \in Records |-> "ALLOW"], [r \in Records |-> "BLOCK"]>>

SecondRecord == \E r \in Denied : Retained(file[r])

\* A second record costs one of the interventions; while a backup is kept,
\* the interventions are a deletion and the restore.
Bounded ==
  /\ SecondRecord => faults + work < MaxWork
  /\ backup # NoCase => ~SecondRecord /\ faults = 0 /\ review = NoCase /\ check = NoJob /\ ~lease
=============================================================================
