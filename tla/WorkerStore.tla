---------------------------- MODULE WorkerStore ----------------------------
(***************************************************************************)
(* The relay worker's durable state (worker/store.ts) as a record, and its *)
(* operations as functions of that record.  A commit writes a temporary    *)
(* file, syncs it and renames it, so the file holds either the old record  *)
(* or the new one; module RelayWorker decides which when a write fails.    *)
(***************************************************************************)
EXTENDS Integers, Sequences, FiniteSets

CONSTANTS
  Txs,           \* source transactions with watched events: numbers, in source order
  NoRelay,       \* no envelope is stored
  NoHash,        \* no hub transaction was signed for the job
  NoBlock,       \* no hub block was observed
  MaxAttempts    \* cfg.maxAttempts

ASSUME TxsAssumption == Txs \subseteq Nat \ {0}

Terminal == {"done", "dead", "skipped"}

\* A job freshly found in the source block with this hash.
Discovered(hash) ==
  [blockHash |-> hash, state |-> "discovered", attempts |-> 0, ascTxHash |-> NoHash,
   history |-> << >>, skip |-> NoBlock]

\* After worker:init-state: the signer's baseline is nonce 0 and nothing is known.
EmptyState ==
  [jobs |-> [t \in {} |-> Discovered(0)], relay |-> NoRelay, sourceHold |-> FALSE, hubHold |-> FALSE]

Jobs(d) == DOMAIN d.jobs

\* The owner of the unresolved nonce.
Owner(d) == IF d.relay = NoRelay THEN 0 ELSE d.relay.source

Pending(d) == {t \in Jobs(d) : d.jobs[t].state \notin Terminal}

HoldSource(d) == [d EXCEPT !.sourceHold = TRUE]

HoldHub(d) == [d EXCEPT !.hubHold = TRUE]

\* commitSourceRange for a range with one new transaction.
CommitSourceRange(d, t, hash) ==
  [d EXCEPT !.jobs = [u \in Jobs(d) \cup {t} |-> IF u \in Jobs(d) THEN d.jobs[u] ELSE Discovered(hash)]]

\* A job somebody may have paid for on the hub.
Relayed(job) ==
  job.ascTxHash # NoHash \/ job.history # << >> \/ job.state \in {"submitted", "done", "skipped"}

\* rewindUnsignedSource, to the checkpoint before the affected jobs.
RewindUnsignedSource(d, affected) ==
  IF \E t \in affected : Relayed(d.jobs[t])
  THEN HoldSource(d)
  ELSE [d EXCEPT !.jobs = [t \in Jobs(d) \ affected |-> d.jobs[t]]]

\* The conditions under which reserveRelay does not throw.
MayReserve(d, e) ==
  /\ ~d.sourceHold /\ ~d.hubHold
  /\ d.relay = NoRelay
  /\ e.source \in Pending(d)

ReserveRelay(d, e) ==
  [d EXCEPT !.relay = e,
            !.jobs[e.source].state = "submitted", !.jobs[e.source].ascTxHash = e.hash]

\* finishRelay, with the block the receipt was seen in and its status.
FinishRelay(d, block, success) ==
  [d EXCEPT !.relay = NoRelay,
            !.jobs[d.relay.source].state = IF success THEN "done" ELSE "dead",
            !.jobs[d.relay.source].history =
               Append(@, [hash |-> d.relay.hash, nonce |-> d.relay.nonce, success |-> success,
                          block |-> block])]

Attested(d, t) == [d EXCEPT !.jobs[t].state = "attested"]

Skipped(d, t, block) == [d EXCEPT !.jobs[t].state = "skipped", !.jobs[t].skip = block]

\* The end of processReserved: an attempt failed and no envelope of the job is stored.
Failed(d, t) ==
  LET attempts == d.jobs[t].attempts + 1 IN
  [d EXCEPT !.jobs[t].attempts = attempts,
            !.jobs[t].state = IF attempts >= MaxAttempts THEN "dead" ELSE @]

\* jobsReadyForDispatch: the pending jobs that are not running, the nonce's owner
\* first and then in source order, as many as there is room for.
Before(d, t, u) == IF Owner(d) \in {t, u} THEN t = Owner(d) ELSE t < u

JobsReadyForDispatch(d, running, available) ==
  LET ready == Pending(d) \ running IN
  {t \in ready : Cardinality({u \in ready \ {t} : Before(d, u, t)}) < available}

-----------------------------------------------------------------------------
\* recovery.ts, evidenceIdentity: what an audit of the signer's history is about.
Evidence(d) ==
  [relay |-> d.relay, hubHold |-> d.hubHold,
   terminal |-> [t \in Jobs(d) \ Pending(d) |->
                   [state |-> d.jobs[t].state, ascTxHash |-> d.jobs[t].ascTxHash,
                    history |-> d.jobs[t].history, skip |-> d.jobs[t].skip]]]

\* Jobs that consumed a nonce of the signer.
Consumers(evidence) ==
  {t \in DOMAIN evidence.terminal : evidence.terminal[t].state \in {"done", "dead"}}

\* The checks an audit makes on the stored history alone: every finished job has
\* one hub transaction, and their nonces are consecutive from the baseline.
HistoryIsConsistent(d) ==
  LET evidence == Evidence(d)
      spent == Consumers(evidence)
  IN /\ \A t \in spent : Len(d.jobs[t].history) = 1 /\ d.jobs[t].ascTxHash # NoHash
     /\ \A t \in Jobs(d) \ spent : d.jobs[t].history = << >>
     /\ {d.jobs[t].history[1].nonce : t \in spent} = 0 .. Cardinality(spent) - 1
=============================================================================
