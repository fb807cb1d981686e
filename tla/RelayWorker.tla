---------------------------- MODULE RelayWorker ----------------------------
(***************************************************************************)
(* The relay worker: a poll loop that audits the signer's history, scans   *)
(* the source and dispatches jobs to a bounded pool; tasks that wait for   *)
(* attestation, fetch a proof and hand it to one sender; and the sender,   *)
(* which owns at most one unresolved signer nonce.  Every await is a point *)
(* where the chains and the other tasks may move, so an action runs from   *)
(* one await to the next.                                                  *)
(***************************************************************************)
EXTENDS WorkerStore, RelayHub

CONSTANTS
  Capacity         \* cfg.concurrency

\* The signer's transactions: the source transaction relayed, the nonce and the hash.
Envelopes == [source : Txs, nonce : Nat, hash : Nat]

ASSUME RelayAssumption == NoRelay \notin Envelopes

VARIABLES
  data,            \* the state file; memory agrees with it whenever a task runs
  task,            \* where each job's task is
  sender,          \* RelaySender.step in progress: [owner, pc, envelope, seen]
  audit,           \* reconcileHubRecovery in progress, by the poll loop or before signing
  loop, stopping,
  sourceHash,      \* hash of the block that holds each source transaction
  attestedHeight,
  backup           \* a copy of the state file

chainVars  == <<sourceHash, attestedHeight>>
localVars  == <<task, sender, audit, loop, stopping>>
workerVars == <<data, localVars, chainVars, backup>>
allVars    == <<workerVars, hubVars, trouble>>

NoSender == [owner |-> 0, pc |-> "idle", envelope |-> NoRelay, seen |-> NoBlock]
NoAudit == [pc |-> "idle", evidence |-> NoRelay, latest |-> -1, pending |-> -1]

Running == {t \in Txs : task[t] # "idle"}

WorkerInit ==
  /\ HubInit
  /\ data = EmptyState /\ backup = EmptyState
  /\ task = [t \in Txs |-> "idle"]
  /\ sender = NoSender
  /\ audit = [w \in {"poll", "sign"} |-> NoAudit]
  /\ loop = "down" /\ stopping = FALSE
  /\ sourceHash = [t \in Txs |-> 0] /\ attestedHeight = 0

(***************************************************************************)
(* Store.commit, and how a task ends.                                      *)
(***************************************************************************)
Commit(next) == data' = next /\ UNCHANGED trouble

\* The write fails: the rename may have happened, and the file is read again.
CommitFails(next) ==
  /\ Meets({"fault"})
  /\ data' \in {data, next}

Keep == UNCHANGED <<data, trouble>>

Release(t) == sender' = IF sender.owner = t THEN NoSender ELSE sender

Goto(t, pc) == task' = [task EXCEPT ![t] = pc]

Leave(t, pc) == Goto(t, pc) /\ Release(t) /\ UNCHANGED stopping

\* StoreWriteError or SourceSafetyError: the pool reports it and the worker stops.
Fatal(t) == Goto(t, "idle") /\ Release(t) /\ stopping' = TRUE

SourceMoved(t) == data.jobs[t].blockHash # sourceHash[t]

\* The ways out of assertCanonicalJob (and the sender's guardSource) that throw.
SourceGuardThrows(t) ==
  \/ /\ data.sourceHold \/ (SourceMoved(t) /\ data.jobs[t].ascTxHash = NoHash)
     /\ Keep /\ Fatal(t)
  \/ /\ ~data.sourceHold /\ SourceMoved(t) /\ data.jobs[t].ascTxHash # NoHash
     /\ Commit(HoldSource(data)) \/ CommitFails(HoldSource(data))
     /\ Fatal(t)
  \/ /\ ~data.sourceHold /\ ~SourceMoved(t) /\ stopping
     /\ Keep /\ Leave(t, "idle")

SourceGuardPasses(t) == ~data.sourceHold /\ ~SourceMoved(t) /\ ~stopping

TaskFrame == UNCHANGED <<loop, audit, chainVars, backup, hubVars>>

(***************************************************************************)
(* ProofmarkWorker.process, for one job.                                   *)
(***************************************************************************)
StartTask(t) ==
  /\ task[t] = "start"
  /\ IF stopping \/ data.jobs[t].state \in Terminal \/ Owner(data) \notin {0, t}
     THEN Goto(t, "idle")
     ELSE Goto(t, IF Owner(data) = t THEN "enter"
                  ELSE IF data.jobs[t].ascTxHash # NoHash THEN "error" ELSE "canonical")
  /\ Keep /\ UNCHANGED <<sender, stopping>> /\ TaskFrame

CheckCanonical(t) ==
  /\ task[t] = "canonical"
  /\ \/ SourceGuardThrows(t)
     \/ /\ SourceGuardPasses(t)
        /\ Goto(t, IF data.jobs[t].state = "discovered" THEN "attestation" ELSE "proof")
        /\ Keep /\ UNCHANGED <<sender, stopping>>
  /\ TaskFrame

\* AttestationWatcher.waitFor absorbs failing polls and ends only with the height or a stop.
WaitForAttestation(t) ==
  /\ task[t] = "attestation"
  /\ attestedHeight >= t \/ stopping
  /\ Goto(t, IF stopping THEN "idle" ELSE "attested")
  /\ Keep /\ UNCHANGED <<sender, stopping>> /\ TaskFrame

SaveAttested(t) ==
  /\ task[t] = "attested"
  /\ \/ SourceGuardThrows(t)
     \/ /\ SourceGuardPasses(t)
        /\ \/ Commit(Attested(data, t)) /\ Goto(t, "proof") /\ UNCHANGED <<sender, stopping>>
           \/ CommitFails(Attested(data, t)) /\ Fatal(t)
  /\ TaskFrame

\* fetchProof and estimateGas; a proof of a transaction that moved is refused.
FetchProof(t) ==
  /\ task[t] = "proof"
  /\ \/ Goto(t, "enter") /\ UNCHANGED <<sender, stopping>>
     \/ SourceMoved(t) /\ (Fatal(t) \/ Leave(t, "error"))
  /\ Keep /\ TaskFrame

\* The start of RelaySender.step.
EnterSender(t) ==
  /\ task[t] = "enter"
  /\ IF stopping \/ sender.owner # 0 \/ Owner(data) \notin {0, t} THEN Leave(t, "idle")
     ELSE IF data.sourceHold THEN Fatal(t)
     ELSE IF data.hubHold THEN Leave(t, "error")
     ELSE /\ Goto(t, "sending")
          /\ sender' = [NoSender EXCEPT !.owner = t,
                                        !.pc = IF Owner(data) = t THEN "receipt" ELSE "audit"]
          /\ UNCHANGED stopping
  /\ Keep /\ TaskFrame

\* The catch of processReserved for errors that do not stop the worker: the owner
\* of the nonce only notes the error, any other job counts an attempt.
HandleError(t) ==
  /\ task[t] = "error"
  /\ LET next == IF Owner(data) = t THEN data ELSE Failed(data, t) IN
     IF stopping THEN Keep /\ Leave(t, "idle")
     ELSE \/ Commit(next) /\ Leave(t, "idle")
          \/ CommitFails(next) /\ Fatal(t)
  /\ TaskFrame

\* guardSource between two awaits of the sender, and where it leads.
Guards == [guardSkip |-> "recheck", guardSign |-> "sign", guardReserve |-> "reserve",
           guardSend |-> "broadcast", guardFinish |-> "confirm"]

ReadsSource(t) ==
  task[t] \in {"canonical", "attested"} \/ (sender.owner = t /\ sender.pc \in DOMAIN Guards)

\* An RPC call of the task, the sender or its audit fails; an answer that leaves
\* the job's finality unconfirmed is a SourceSafetyError.
RpcFails(t) ==
  /\ Meets({"fault"})
  /\ task[t] \in {"canonical", "attested", "proof", "sending"}
  /\ Leave(t, "error") \/ (ReadsSource(t) /\ Fatal(t))
  /\ audit' = IF sender.owner = t THEN [audit EXCEPT !["sign"] = NoAudit] ELSE audit
  /\ UNCHANGED <<data, loop, chainVars, backup, hubVars>>

TaskNext ==
  \E t \in Txs :
     \/ StartTask(t) \/ CheckCanonical(t) \/ WaitForAttestation(t) \/ SaveAttested(t)
     \/ FetchProof(t) \/ EnterSender(t) \/ HandleError(t) \/ RpcFails(t)

(***************************************************************************)
(* reconcileHubRecovery: the signer's stored history against the hub.  The *)
(* verdict is about the evidence stored when the audit began.              *)
(***************************************************************************)
\* The audit throws a HubSafetyError: the poll loop stops, a task only fails.
AuditThrows(w) ==
  /\ audit' = [audit EXCEPT ![w] = NoAudit]
  /\ IF w = "poll"
     THEN loop' = "drain" /\ stopping' = TRUE /\ UNCHANGED <<task, sender>>
     ELSE Leave(sender.owner, "error") /\ UNCHANGED loop

\* holdHub; when the hold cannot be saved the worker stops in either case.
AuditHolds(w) ==
  \/ Commit(HoldHub(data)) /\ AuditThrows(w)
  \/ /\ CommitFails(HoldHub(data))
     /\ audit' = [audit EXCEPT ![w] = NoAudit]
     /\ IF w = "poll"
        THEN loop' = "drain" /\ stopping' = TRUE /\ UNCHANGED <<task, sender>>
        ELSE Fatal(sender.owner) /\ UNCHANGED loop

AuditFrame == UNCHANGED <<chainVars, backup, hubVars>>

AuditBegin(w) ==
  /\ audit[w].pc = "idle"
  /\ IF w = "poll" THEN loop = "audit" ELSE sender.pc = "audit"
  /\ IF data.hubHold THEN Keep /\ AuditThrows(w)
     ELSE IF ~HistoryIsConsistent(data) THEN AuditHolds(w)
     ELSE /\ audit' = [audit EXCEPT ![w].pc = "receipts", ![w].evidence = Evidence(data)]
          /\ Keep /\ UNCHANGED <<task, sender, loop, stopping>>
  /\ AuditFrame

\* Every finished job's hub transaction, and every skipped job's observation, is
\* still where it was seen and deep enough.
EvidenceIsCanonical(evidence) ==
  \A t \in DOMAIN evidence.terminal :
     LET job == evidence.terminal[t] IN
     IF t \in Consumers(evidence)
     THEN LET h == job.history[1] IN
          /\ IsCanonical(h.block) /\ h.block[1] <= settled
          /\ blocks[h.block[1]].hash = h.hash /\ blocks[h.block[1]].success = h.success
          /\ h.success => Processed(t, h.block[1])
     ELSE IsCanonical(job.skip) /\ job.skip[1] <= settled /\ Processed(t, job.skip[1])

AuditReceipts(w) ==
  /\ audit[w].pc = "receipts"
  /\ IF EvidenceIsCanonical(audit[w].evidence)
     THEN /\ audit' = [audit EXCEPT ![w].pc = "counts"]
          /\ Keep /\ UNCHANGED <<task, sender, loop, stopping>>
     ELSE AuditHolds(w)
  /\ AuditFrame

\* The two nonces come from two requests, answered in either order.
AuditCount(w) ==
  /\ audit[w].pc = "counts"
  /\ \/ audit[w].latest = -1 /\ audit' = [audit EXCEPT ![w].latest = LatestNonce]
     \/ audit[w].pending = -1 /\ audit' = [audit EXCEPT ![w].pending = PendingNonce]
  /\ Keep /\ UNCHANGED <<task, sender, loop, stopping>> /\ AuditFrame

\* Faulty variant: pending transactions of the signer are not counted.
DivergedLatestOnly(evidence, latest, pending) ==
  LET expected == Cardinality(Consumers(evidence)) IN
  IF evidence.relay = NoRelay THEN latest # expected
  ELSE evidence.relay.nonce # expected \/ latest \notin {expected, expected + 1}

Diverged(evidence, latest, pending) ==
  LET expected == Cardinality(Consumers(evidence)) IN
  IF evidence.relay = NoRelay THEN latest # expected \/ pending # expected
  ELSE \/ evidence.relay.nonce # expected
       \/ ~({latest, pending} \subseteq {expected, expected + 1})

AuditPasses(w) ==
  /\ audit' = [audit EXCEPT ![w] = NoAudit]
  /\ Keep
  /\ IF w = "poll" THEN loop' = "scan" /\ UNCHANGED <<task, sender, stopping>>
     ELSE /\ IF stopping THEN Leave(sender.owner, "idle")
             ELSE IF data.hubHold THEN Leave(sender.owner, "error")
             ELSE sender' = [sender EXCEPT !.pc = "observe"] /\ UNCHANGED <<task, stopping>>
          /\ UNCHANGED loop

\* Faulty variant: the verdict is applied to whatever is stored by now.
AuditEndOnMixedSample(w) ==
  LET a == audit[w] IN
  /\ a.pc = "counts" /\ a.latest # -1 /\ a.pending # -1
  /\ IF a.pending < a.latest THEN Keep /\ AuditThrows(w)
     ELSE IF Diverged(a.evidence, a.latest, a.pending) THEN AuditHolds(w)
     ELSE AuditPasses(w)
  /\ AuditFrame

AuditEnd(w) ==
  LET a == audit[w] IN
  /\ a.pc = "counts" /\ a.latest # -1 /\ a.pending # -1
  /\ IF a.pending < a.latest THEN Keep /\ AuditThrows(w)
     ELSE IF Evidence(data) = a.evidence /\ Diverged(a.evidence, a.latest, a.pending)
     THEN AuditHolds(w)
     ELSE AuditPasses(w)
  /\ AuditFrame

AuditStep(w) == AuditBegin(w) \/ AuditReceipts(w) \/ AuditCount(w) \/ AuditEnd(w)

AuditNext == \E w \in {"poll", "sign"} : AuditStep(w)

(***************************************************************************)
(* RelaySender.step, after its audit.                                      *)
(***************************************************************************)
At(pc) == sender.pc = pc

Advance(pc, envelope, seen) ==
  /\ sender' = [sender EXCEPT !.pc = pc, !.envelope = envelope, !.seen = seen]
  /\ UNCHANGED <<task, stopping>>

Return == Leave(sender.owner, "idle")

\* observeProcessed: what the hub says of the query at its head and at depth.
Observe ==
  /\ At("observe")
  /\ IF ~Processed(sender.owner, Len(blocks)) THEN Advance("guardSign", NoRelay, NoBlock)
     ELSE IF Processed(sender.owner, settled) THEN Advance("guardSkip", NoRelay, BlockId(settled))
     ELSE Return
  /\ Keep /\ TaskFrame

Guard ==
  /\ sender.pc \in DOMAIN Guards
  /\ \/ SourceGuardThrows(sender.owner)
     \/ /\ SourceGuardPasses(sender.owner)
        /\ Keep /\ Advance(Guards[sender.pc], sender.envelope, sender.seen)
  /\ TaskFrame

\* The second observation, at the block of the first, and update to skipped.
Recheck ==
  /\ At("recheck")
  /\ LET next == Skipped(data, sender.owner, sender.seen) IN
     IF settled < sender.seen[1] THEN Keep /\ Return
     ELSE IF ~IsCanonical(sender.seen) THEN Keep /\ Leave(sender.owner, "error")
     ELSE IF stopping THEN Keep /\ Return
     ELSE IF data.sourceHold THEN Keep /\ Fatal(sender.owner)
     ELSE \/ Commit(next) /\ Return
          \/ CommitFails(next) /\ Fatal(sender.owner)
  /\ TaskFrame

\* prepare: sign with the pending nonce.
Sign ==
  /\ At("sign")
  /\ Advance("guardReserve",
             [source |-> sender.owner, nonce |-> PendingNonce, hash |-> Cardinality(sent) + 1],
             NoBlock)
  /\ Keep /\ TaskFrame

\* Faulty variant: the signature is broadcast before it is saved.
ReserveAfterBroadcast ==
  /\ At("reserve")
  /\ LET next == ReserveRelay(data, sender.envelope) IN
     /\ MayReserve(data, sender.envelope)
     /\ \/ Commit(next) /\ Advance("receipt", NoRelay, NoBlock)
        \/ CommitFails(next) /\ Fatal(sender.owner)
  /\ Deliver(sender.envelope)
  /\ UNCHANGED <<loop, audit, chainVars, backup>>

\* reserveRelay: the signature is saved before anything is broadcast.
Reserve ==
  /\ At("reserve")
  /\ LET next == ReserveRelay(data, sender.envelope) IN
     IF MayReserve(data, sender.envelope)
     THEN \/ Commit(next) /\ Advance("receipt", NoRelay, NoBlock)
          \/ CommitFails(next) /\ Fatal(sender.owner)
     ELSE IF data.sourceHold THEN Keep /\ Fatal(sender.owner)
     ELSE Keep /\ Leave(sender.owner, "error")
  /\ TaskFrame

\* Faulty variant: a receipt counts as soon as there is one.
ReceiptAtHead == LET i == MinedIn(data.relay.hash) IN IF i # 0 THEN BlockId(i) ELSE NoBlock

\* receipt: only a transaction in a deep enough block counts.
Receipt == LET i == MinedIn(data.relay.hash) IN IF i \in 1 .. settled THEN BlockId(i) ELSE NoBlock

ReadReceipt ==
  /\ sender.pc \in {"receipt", "receiptAgain"}
  /\ IF Receipt # NoBlock THEN Advance("guardFinish", NoRelay, Receipt)
     ELSE IF At("receipt") THEN Advance("guardSend", NoRelay, NoBlock)
     ELSE Return
  /\ Keep /\ TaskFrame

\* A failing broadcast is only noted in the file: the bytes may or may not have
\* arrived.
Broadcast ==
  /\ At("broadcast")
  /\ IF data.sourceHold THEN Keep /\ Fatal(sender.owner) /\ UNCHANGED hubVars
     ELSE /\ \/ Commit(data) /\ Advance("receiptAgain", NoRelay, NoBlock)
             \/ CommitFails(data) /\ Fatal(sender.owner)
          /\ Deliver(data.relay) \/ UNCHANGED hubVars
  /\ UNCHANGED <<loop, audit, chainVars, backup>>

\* processed at the receipt's block, for a successful receipt.
Confirm ==
  /\ At("confirm")
  /\ IF sender.seen[3] /\ ~Processed(sender.owner, sender.seen[1])
     THEN Leave(sender.owner, "error")
     ELSE Advance("lastReceipt", NoRelay, sender.seen)
  /\ Keep /\ TaskFrame

ReadLastReceipt ==
  /\ At("lastReceipt")
  /\ IF Receipt = sender.seen THEN Advance("finish", NoRelay, sender.seen) ELSE Return
  /\ Keep /\ TaskFrame

Finish ==
  /\ At("finish")
  /\ LET next == FinishRelay(data, sender.seen, sender.seen[3]) IN
     IF stopping THEN Keep /\ Return
     ELSE IF data.sourceHold THEN Keep /\ Fatal(sender.owner)
     ELSE IF data.hubHold THEN Keep /\ Leave(sender.owner, "error")
     ELSE \/ Commit(next) /\ Return
          \/ CommitFails(next) /\ Fatal(sender.owner)
  /\ TaskFrame

SenderNext ==
  \/ Observe \/ Guard \/ Recheck \/ Sign \/ Reserve
  \/ ReadReceipt \/ Broadcast \/ Confirm \/ ReadLastReceipt \/ Finish

(***************************************************************************)
(* ProofmarkWorker.run: the poll loop, and the pool it fills.              *)
(***************************************************************************)
Dispatched(d) ==
  LET ready == IF stopping THEN {}
               ELSE JobsReadyForDispatch(d, Running, Capacity - Cardinality(Running))
  IN [t \in Txs |-> IF t \in ready THEN "start" ELSE task[t]]

LoopFrame == UNCHANGED <<sender, audit, chainVars, backup, hubVars>>

\* run, with the lease in hand: load the file and begin with an audit.
Start ==
  /\ loop = "down"
  /\ loop' = "audit" /\ stopping' = FALSE
  /\ Keep /\ UNCHANGED task /\ LoopFrame

Poll ==
  /\ loop = "sleep"
  /\ loop' = IF stopping THEN "drain" ELSE "audit"
  /\ Keep /\ UNCHANGED <<task, stopping>> /\ LoopFrame

StopLoop == loop' = "drain" /\ stopping' = TRUE /\ UNCHANGED task

\* A commit of the scan, after which the loop goes on or stops.
ScanCommits(next) ==
  \/ /\ Commit(next)
     /\ IF next.sourceHold THEN StopLoop
        ELSE task' = Dispatched(next) /\ UNCHANGED <<loop, stopping>>
  \/ CommitFails(next) /\ StopLoop

\* Scanned jobs whose block is no longer part of the source chain.
Orphans == {t \in Jobs(data) : SourceMoved(t)}

Unscanned == Txs \ Jobs(data)

\* Faulty variant: the pool is filled only when the scan found something.
ScanWithoutRequeue ==
  /\ loop = "scan"
  /\ IF stopping THEN Keep /\ loop' = "drain" /\ UNCHANGED <<task, stopping>>
     ELSE IF data.sourceHold \/ data.hubHold THEN Keep /\ StopLoop
     ELSE IF Unscanned # {}
     THEN LET t == CHOOSE u \in Unscanned : \A v \in Unscanned : u <= v IN
          ScanCommits(CommitSourceRange(data, t, sourceHash[t]))
     ELSE Keep /\ loop' = "sleep" /\ UNCHANGED <<task, stopping>>
  /\ LoopFrame

\* scan: a fork is rewound when no task is running, else the next block with
\* watched events is saved, else the pool is filled and the loop sleeps.
Scan ==
  /\ loop = "scan"
  /\ IF stopping THEN Keep /\ loop' = "drain" /\ UNCHANGED <<task, stopping>>
     ELSE IF data.sourceHold \/ data.hubHold \/ (Orphans # {} /\ Running # {})
     THEN Keep /\ StopLoop
     ELSE IF Orphans # {} THEN ScanCommits(RewindUnsignedSource(data, Orphans))
     ELSE IF Unscanned # {}
     THEN LET t == CHOOSE u \in Unscanned : \A v \in Unscanned : u <= v IN
          ScanCommits(CommitSourceRange(data, t, sourceHash[t]))
     ELSE Keep /\ loop' = "sleep" /\ task' = Dispatched(data) /\ UNCHANGED stopping
  /\ LoopFrame

\* An RPC call of the loop fails: the pool is filled all the same.  A failure in
\* the first round ends run, and so does an answer that leaves the source range or
\* the signer's history unconfirmed (SourceSafetyError, HubSafetyError).
LoopRpcFails ==
  /\ Meets({"fault"})
  /\ loop \in {"audit", "scan"}
  /\ \/ loop' = "sleep" /\ task' = Dispatched(data) /\ UNCHANGED stopping
     \/ StopLoop
  /\ audit' = [audit EXCEPT !["poll"] = NoAudit]
  /\ UNCHANGED <<data, sender, chainVars, backup, hubVars>>

\* run ends when the pool is empty.
Drain ==
  /\ loop = "drain" /\ Running = {}
  /\ loop' = "down"
  /\ Keep /\ UNCHANGED <<task, stopping>> /\ LoopFrame

LoopNext == Start \/ Poll \/ Scan \/ LoopRpcFails \/ Drain

(***************************************************************************)
(* The environment.                                                        *)
(***************************************************************************)
\* SIGTERM.
Stop ==
  /\ loop # "down" /\ ~stopping /\ Meets({"crash"})
  /\ stopping' = TRUE
  /\ UNCHANGED <<data, task, sender, audit, loop, chainVars, backup, hubVars>>

Crash ==
  /\ loop # "down" /\ Meets({"crash"})
  /\ loop' = "down" /\ task' = [t \in Txs |-> "idle"] /\ sender' = NoSender
  /\ audit' = [w \in DOMAIN audit |-> NoAudit]
  /\ stopping' = FALSE
  /\ UNCHANGED <<data, chainVars, backup, hubVars>>

\* A copy of the state file is made at any time, and put back while the worker is down.
Backup ==
  /\ backup = EmptyState /\ \E m \in Mixes : trouble \cup {"restore"} \subseteq m
  /\ backup' = data
  /\ UNCHANGED <<data, localVars, chainVars, trouble, hubVars>>

Restore ==
  /\ loop = "down" /\ Meets({"restore"})
  /\ data' = backup
  /\ UNCHANGED <<localVars, chainVars, backup, hubVars>>

Attest ==
  /\ \E t \in Txs : attestedHeight < t
  /\ attestedHeight' = attestedHeight + 1
  /\ UNCHANGED <<data, localVars, sourceHash, backup, trouble, hubVars>>

\* The source chain forks below t: t and every later transaction get new blocks.
SourceReorg(t) ==
  /\ Meets({"reorg"})
  /\ sourceHash' = [u \in Txs |-> IF u >= t THEN sourceHash[u] + 1 ELSE sourceHash[u]]
  /\ UNCHANGED <<data, localVars, attestedHeight, backup, hubVars>>

Environment ==
  \/ Stop \/ Crash \/ Backup \/ Restore \/ Attest
  \/ \E t \in Txs : SourceReorg(t)
  \/ HubNext /\ UNCHANGED workerVars

WorkerNext == TaskNext \/ AuditNext \/ SenderNext \/ LoopNext \/ Environment

WorkerSpec == WorkerInit /\ [][WorkerNext]_allVars

(***************************************************************************)
(* Fairness: the process is scheduled and restarted, the chains make       *)
(* progress.  Faults, crashes and forks are not fair.                      *)
(***************************************************************************)
WorkerFairness ==
  /\ WF_allVars(Start \/ Poll \/ Scan \/ Drain)
  /\ \A w \in {"poll", "sign"} : WF_allVars(AuditStep(w))
  /\ WF_allVars(SenderNext)
  /\ \A t \in Txs :
       WF_allVars(\/ StartTask(t) \/ CheckCanonical(t) \/ WaitForAttestation(t)
                                  \/ SaveAttested(t) \/ FetchProof(t) \/ EnterSender(t)
                                  \/ HandleError(t))
  /\ SF_allVars(Broadcast /\ data.relay \in mempool')
  /\ WF_allVars(Attest)
  /\ WF_allVars((\E e \in mempool : MineRelay(e)) /\ UNCHANGED workerVars)
  /\ WF_allVars(Settle /\ UNCHANGED workerVars)

FairWorkerSpec == WorkerSpec /\ WorkerFairness

(***************************************************************************)
(* Properties.                                                             *)
(***************************************************************************)
\* The type invariant; and what Store.load insists on when the worker starts.
WorkerTypeOK ==
  /\ Jobs(data) \subseteq Txs
  /\ \A t \in Jobs(data) :
       /\ data.jobs[t].blockHash \in Nat /\ data.jobs[t].attempts \in 0 .. MaxAttempts
       /\ data.jobs[t].state \in {"discovered", "attested", "submitted"} \cup Terminal
       /\ data.jobs[t].state = "submitted" <=> Owner(data) = t
  /\ data.relay # NoRelay =>
       /\ Owner(data) \in Jobs(data)
       /\ data.jobs[Owner(data)].ascTxHash = data.relay.hash
  /\ Cardinality(Running) <= Capacity
  /\ {t \in Txs : task[t] = "sending"} = {sender.owner} \ {0}

\* A nonce is spent on one transaction and a source transaction is signed for
\* once: not again after a crash between signing, saving and broadcasting, after
\* a failing write, or after an old copy of the state file was put back.
SignedOnce ==
  \A e, f \in sent : e.nonce = f.nonce \/ e.source = f.source => e = f

\* Whatever reached the hub is on record: as the unresolved envelope, or in the
\* history of its job.  So no fork, crash or failing job hides a spent nonce.
EvidenceKept ==
  "restore" \notin trouble =>
    \A e \in sent :
       \/ data.relay = e
       \/ /\ e.source \in Jobs(data)
          /\ \E n \in DOMAIN data.jobs[e.source].history :
               /\ data.jobs[e.source].history[n].hash = e.hash
               /\ data.jobs[e.source].history[n].nonce = e.nonce

\* A job is closed only on deep evidence: done and skipped jobs were executed on
\* the hub, a job with a failed transaction was refused there.
OutcomeIsOnHub ==
  "rollback" \notin trouble =>
    \A t \in Jobs(data) :
       /\ data.jobs[t].state \in {"done", "skipped"} => Processed(t, settled)
       /\ data.jobs[t].state = "dead" /\ data.jobs[t].history # << >> =>
            \E i \in 1 .. settled : blocks[i].hash = data.jobs[t].ascTxHash /\ ~blocks[i].success

\* The audit runs beside the sender and reads the hub in several requests, and
\* still never mistakes the worker's own progress for a divergence: it holds the
\* worker only for a job that was given up unsigned, a fork below the trusted
\* depth, or a state file that was put back.
HubHeldForCause ==
  data.hubHold =>
    \/ trouble \cap {"rollback", "restore"} # {}
    \/ \E t \in Jobs(data) : data.jobs[t].state = "dead" /\ data.jobs[t].history = << >>

\* Every job the scanner saved is closed in the end, unless a hold asks for an
\* operator or a fork of the source removed it.
EveryJobCloses ==
  \A t \in Txs :
     t \in Jobs(data) ~>
       \/ t \notin Jobs(data) \/ data.sourceHold \/ data.hubHold
       \/ data.jobs[t].state \in Terminal
=============================================================================
