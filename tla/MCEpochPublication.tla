------------------------- MODULE MCEpochPublication -------------------------
(***************************************************************************)
(* Publishing an epoch, and in behaviours of their own the replay of the   *)
(* source chain a publication starts from: chains of three blocks in       *)
(* chunks of two, three forks, and nodes that change their chain or their  *)
(* finality four times.                                                    *)
(***************************************************************************)
EXTENDS EpochPublication, SourceReplay, TLC

CONSTANTS s1, s2, r1, r2, hub1, issuer1

MCSubjects == {s1}
MCReplicas == {r1, r2}
ReplicaSymmetry == Permutations(MCReplicas)

Issued == [emitter |-> hub1, sig |-> "KeyedMarkIssued", wf |-> TRUE, subject |-> s1,
           attrs |-> 1, claims |-> 1, issuer |-> issuer1, keyEpoch |-> 1]

MCBlocks == {<< >>, <<Issued>>}
MCWindow == [a \in {1} |-> <<0, 1>>]

VARIABLE replaying   \* the behaviour is one of the replay

MCInit ==
  /\ Init /\ ReplayInit /\ view["roster"] = view["header"]
  /\ replaying \in BOOLEAN
  /\ replaying \/ view = [n \in Nodes |-> [chain |-> <<<< >>, << >>, << >>>>, final |-> 2]]

MCNext ==
  /\ \/ ~replaying /\ Next /\ UNCHANGED replayVars
     \/ replaying /\ ReplayNext /\ UNCHANGED vars
  /\ UNCHANGED replaying

MCSpec == MCInit /\ [][MCNext]_<<vars, replayVars, replaying>>

Forks == {<<<<Issued>>, << >>, << >>>>, <<<< >>, << >>, << >>>>, <<<< >>, <<Issued>>, << >>>>}

Bounds ==
  /\ Cardinality(snapshots) <= 1
  /\ \A n \in Nodes : view[n].chain \in Forks /\ view[n].final >= 2
=============================================================================
