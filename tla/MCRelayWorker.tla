--------------------------- MODULE MCRelayWorker ---------------------------
(***************************************************************************)
(* Two source transactions through the relay worker, and the faults that   *)
(* are met together.                                                       *)
(***************************************************************************)
EXTENDS RelayWorker

\* Of the process, of the two chains, and the recovery from a copy.
SafetyMixes ==
  {{"fault", "crash"}, {"crash", "reorg"}, {"crash", "restore"},
   {"other", "fork"}, {"fork", "drop"}, {"fork", "rollback"}}
LivenessMixes == {{"crash", "fork", "drop"}}

\* With a copy at hand only a crash, and as after a rollback, one job at a time
\* and no retries.
SimpleRecovery ==
  /\ backup # EmptyState => trouble \subseteq {"crash", "restore"}
  /\ backup # EmptyState \/ "rollback" \in trouble =>
       Cardinality(Running) <= 1 /\ \A t \in Jobs(data) : data.jobs[t].attempts = 0
=============================================================================
