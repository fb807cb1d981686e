-------------------------- MODULE RelayWorkerProof --------------------------
(***************************************************************************)
(* The relay worker under faults, crashes, forks, rollbacks and restores,  *)
(* proved: what reached the hub is on record, and a job is closed only on  *)
(* deep evidence.  For any number of source transactions, any capacity and *)
(* every mix of faults.  And of its monitor, watching from outside: a      *)
(* complete staging window hides no outage.                                *)
(***************************************************************************)
EXTENDS RelayWorker, ServiceMonitor, FiniteSetTheorems, SequenceTheorems, WellFoundedInduction, TLAPS

-----------------------------------------------------------------------------
(***************************************************************************)
(* The inductive invariant.                                                *)
(***************************************************************************)
BlockIds == Nat \X BOOLEAN \X BOOLEAN

Outcomes == [hash : Nat, nonce : Nat, success : BOOLEAN, block : BlockIds]

JobStates == {"discovered", "attested", "submitted"} \cup Terminal

JobRecords ==
  [blockHash : Nat, state : JobStates, attempts : Nat, ascTxHash : Nat \cup {NoHash},
   history : Seq(Outcomes), skip : BlockIds \cup {NoBlock}]

RelayBlocks ==
  [source : Txs \cup Relayable, hash : Nat \cup {NoSignature}, nonce : Nat, success : BOOLEAN,
   fork : BOOLEAN]

\* The chains, and what of the signer's is there.
ChainsFit ==
  /\ blocks \in Seq(RelayBlocks) /\ settled \in Nat /\ settled <= Len(blocks)
  /\ mempool \subseteq Envelopes /\ sent \subseteq Envelopes /\ IsFiniteSet(sent)
  /\ sourceHash \in [Txs -> Nat]

\* A state file: only the owner's job is submitted, under the envelope's hash, and
\* only a job with a finished transaction has a history.
StateFits(d) ==
  /\ d = [jobs |-> d.jobs, relay |-> d.relay, sourceHold |-> d.sourceHold, hubHold |-> d.hubHold]
  /\ Jobs(d) \subseteq Txs /\ d.jobs \in [Jobs(d) -> JobRecords]
  /\ d.relay \in Envelopes \cup {NoRelay}
  /\ d.relay # NoRelay => /\ d.relay.source \in Jobs(d)
                          /\ d.jobs[d.relay.source].ascTxHash = d.relay.hash
  /\ \A t \in Jobs(d) :
       /\ d.jobs[t].state = "submitted" <=> d.relay # NoRelay /\ d.relay.source = t
       /\ d.jobs[t].history # << >> => d.jobs[t].state \in {"done", "dead"}

OnRecord(d, e) ==
  \/ d.relay = e
  \/ /\ e.source \in Jobs(d)
     /\ \E n \in DOMAIN d.jobs[e.source].history :
          /\ d.jobs[e.source].history[n].hash = e.hash
          /\ d.jobs[e.source].history[n].nonce = e.nonce

\* The evidence a closed job rests on.
Backed(t, job) ==
  /\ job.state \in {"done", "skipped"} => Processed(t, settled)
  /\ job.state = "dead" /\ job.history # << >> =>
       \E i \in 1 .. settled : blocks[i].hash = job.ascTxHash /\ ~blocks[i].success

AllBacked(d) == \A t \in Jobs(d) : Backed(t, d.jobs[t])

FilesFit ==
  /\ StateFits(data) /\ StateFits(backup)
  /\ "rollback" \notin trouble => AllBacked(data) /\ AllBacked(backup)
  /\ "restore" \notin trouble => \A e \in sent : OnRecord(data, e)

\* A running task is of a pending job, only the sender's owner is sending, and a
\* task on its way to the sender is not of the nonce's owner.
Early == {"canonical", "attestation", "attested", "proof"}
TaskSteps == {"idle", "start", "enter", "sending", "error"} \cup Early

TasksFit ==
  /\ task \in [Txs -> TaskSteps]
  /\ \A t \in Txs :
       /\ task[t] # "idle" => t \in Pending(data) /\ loop # "down"
       /\ task[t] = "sending" <=> sender.owner = t
       /\ task[t] \in Early => Owner(data) # t

\* Before the sender's signature is saved no envelope is stored, and from then on
\* the stored one is its owner's.
Unsigned == {"audit", "observe", "guardSkip", "recheck", "guardSign", "sign", "guardReserve", "reserve"}
Finishing == {"guardFinish", "confirm", "lastReceipt", "finish"}
Signed == {"receipt", "guardSend", "broadcast", "receiptAgain"} \cup Finishing

SenderFits ==
  /\ sender \in [owner : Txs \cup {0}, pc : {"idle"} \cup Unsigned \cup Signed,
                 envelope : Envelopes \cup {NoRelay}, seen : BlockIds \cup {NoBlock}]
  /\ sender.owner = 0 <=> sender.pc = "idle"
  /\ sender.pc \in Unsigned => data.relay = NoRelay
  /\ sender.pc \in Signed => data.relay # NoRelay /\ data.relay.source = sender.owner
  /\ sender.pc \in {"guardReserve", "reserve"} =>
       sender.envelope \in Envelopes /\ sender.envelope.source = sender.owner
  /\ sender.pc \in Finishing => sender.seen \in BlockIds

\* What the sender read of the hub is still so, unless a trusted block went.
StillMined ==
  LET i == sender.seen[1] IN
  i \in 1 .. settled /\ sender.seen = BlockId(i) /\ blocks[i].hash = data.relay.hash

SenderSees ==
  "rollback" \notin trouble =>
    /\ sender.pc \in {"guardSkip", "recheck"} => Processed(sender.owner, settled)
    /\ sender.pc \in Finishing => StillMined
    /\ sender.pc \in {"lastReceipt", "finish"} /\ sender.seen[3] =>
         Processed(sender.owner, sender.seen[1])

AuditsFit ==
  /\ DOMAIN audit = {"poll", "sign"} /\ audit = [w \in {"poll", "sign"} |-> audit[w]]
  /\ audit["sign"].pc # "idle" => sender.pc = "audit"

RelayInv == ChainsFit /\ FilesFit /\ TasksFit /\ SenderFits /\ SenderSees /\ AuditsFit

-----------------------------------------------------------------------------
(***************************************************************************)
(* What the operations on the state file keep.                             *)
(***************************************************************************)
\* A commit other than reserveRelay and finishRelay: the envelope stays, the jobs but
\* for `gone' stay pending, and neither a record nor the evidence of a job is lost.
Succeeds(d, next, gone) ==
  /\ StateFits(next) /\ next.relay = d.relay
  /\ Pending(d) \ gone \subseteq Pending(next)
  /\ \A e \in Envelopes : OnRecord(d, e) => OnRecord(next, e)
  /\ "rollback" \notin trouble /\ AllBacked(d) => AllBacked(next)

LEMMA SameSucceeds ==
  ASSUME NEW d, StateFits(d), NEW gone PROVE Succeeds(d, d, gone)
BY DEF Succeeds

\* The typing of a state file that keeps all its jobs but for a change of one.
LEMMA HoldsSucceed ==
  ASSUME NEW d, StateFits(d), NEW gone
  PROVE  Succeeds(d, HoldSource(d), gone) /\ Succeeds(d, HoldHub(d), gone)
<1>1. ASSUME NEW n, n \in {HoldSource(d), HoldHub(d)}
      PROVE  Succeeds(d, n, gone)
  <2>1. n = [jobs |-> d.jobs, relay |-> d.relay, sourceHold |-> n.sourceHold,
             hubHold |-> n.hubHold]
    BY <1>1 DEF StateFits, HoldSource, HoldHub
  <2>2. n.jobs = d.jobs /\ n.relay = d.relay
    BY <2>1
  <2>3. StateFits(n)
    BY <2>1, <2>2 DEF StateFits, Jobs
  <2>4. Pending(d) = Pending(n)
    BY <2>2 DEF Pending, Jobs
  <2>5. \A e \in Envelopes : OnRecord(d, e) => OnRecord(n, e)
    BY <2>2 DEF OnRecord, Jobs
  <2>6. AllBacked(d) => AllBacked(n)
    BY <2>2 DEF AllBacked, Jobs
  <2> QED BY <2>2, <2>3, <2>4, <2>5, <2>6 DEF Succeeds
<1> QED BY <1>1

\* A pending job that does not own the nonce is changed, its history left alone.
LEMMA JobSucceeds ==
  ASSUME NEW d, StateFits(d), NEW t \in Pending(d), Owner(d) # t, NEW job \in JobRecords,
         job.state # "submitted", job.history = d.jobs[t].history,
         d.relay # NoRelay => d.relay.source # t,
         "rollback" \notin trouble /\ job.state \in {"done", "skipped"} => Processed(t, settled)
  PROVE  LET next == [d EXCEPT !.jobs[t] = job] IN
         Succeeds(d, next, {t}) /\ (job.state \notin Terminal => Succeeds(d, next, {}))
<1> DEFINE next == [d EXCEPT !.jobs[t] = job]
<1>1. t \in Jobs(d) /\ d.jobs[t].history = << >>
  BY DEF Pending, StateFits, Terminal
<1>2. /\ next = [jobs |-> next.jobs, relay |-> d.relay, sourceHold |-> d.sourceHold, hubHold |-> d.hubHold]
      /\ next.jobs = [d.jobs EXCEPT ![t] = job] /\ next.relay = d.relay
      /\ next.sourceHold = d.sourceHold /\ next.hubHold = d.hubHold
  BY DEF StateFits
<1>3. /\ Jobs(next) = Jobs(d)
      /\ \A u \in Jobs(d) : next.jobs[u] = IF u = t THEN job ELSE d.jobs[u]
      /\ next.jobs \in [Jobs(d) -> JobRecords]
  BY <1>1, <1>2 DEF StateFits, Jobs
<1> HIDE DEF next
<1>4. StateFits(next)
  <2>1. \A u \in Jobs(next) :
          /\ next.jobs[u].state = "submitted" <=> next.relay # NoRelay /\ next.relay.source = u
          /\ next.jobs[u].history # << >> => next.jobs[u].state \in {"done", "dead"}
    BY <1>1, <1>2, <1>3 DEF StateFits
  <2>2. next.relay # NoRelay => /\ next.relay.source \in Jobs(next)
                                /\ next.jobs[next.relay.source].ascTxHash = next.relay.hash
    BY <1>1, <1>2, <1>3 DEF StateFits
  <2> QED BY <1>2, <1>3, <2>1, <2>2 DEF StateFits
<1>5. Pending(d) \ {t} \subseteq Pending(next) /\ (job.state \notin Terminal => t \in Pending(next))
  BY <1>1, <1>3 DEF Pending
<1>6. \A e \in Envelopes : OnRecord(d, e) => OnRecord(next, e)
  BY <1>1, <1>2, <1>3 DEF OnRecord
<1>7. "rollback" \notin trouble /\ AllBacked(d) => AllBacked(next)
  BY <1>1, <1>3 DEF AllBacked, Backed
<1> QED BY <1>2, <1>4, <1>5, <1>6, <1>7 DEF Succeeds, next

LEMMA AttestedSucceeds ==
  ASSUME NEW d, StateFits(d), NEW t \in Pending(d), Owner(d) # t
  PROVE  Succeeds(d, Attested(d, t), {})
<1> DEFINE job == [d.jobs[t] EXCEPT !.state = "attested"]
<1>1. t \in Jobs(d) /\ d.jobs[t] \in JobRecords
  BY DEF Pending, StateFits
<1>2. /\ job \in JobRecords /\ job.state = "attested" /\ job.history = d.jobs[t].history
  BY <1>1 DEF JobRecords, JobStates
<1>3. d.relay # NoRelay => d.relay.source # t
  BY DEF Owner
<1>4. Attested(d, t) = [d EXCEPT !.jobs[t] = job]
  BY <1>1 DEF Attested, StateFits
<1>5. job.state \notin Terminal \cup {"submitted"}
  BY <1>2 DEF Terminal
<1> HIDE DEF job
<1>6. Succeeds(d, [d EXCEPT !.jobs[t] = job], {})
  BY <1>2, <1>3, <1>5, JobSucceeds DEF Terminal
<1> QED BY <1>4, <1>6

LEMMA FailedSucceeds ==
  ASSUME NEW d, StateFits(d), NEW t \in Pending(d), Owner(d) # t
  PROVE  Succeeds(d, Failed(d, t), {t})
<1> DEFINE attempts == d.jobs[t].attempts + 1
           state == IF attempts >= MaxAttempts THEN "dead" ELSE d.jobs[t].state
           job == [d.jobs[t] EXCEPT !.attempts = attempts, !.state = state]
<1>1. t \in Jobs(d) /\ d.jobs[t] \in JobRecords
  BY DEF Pending, StateFits
<1>2. /\ job \in JobRecords /\ job.state \in {"dead", d.jobs[t].state}
      /\ job.history = d.jobs[t].history
  <2>1. attempts \in Nat
    BY <1>1 DEF JobRecords
  <2>2. state \in {"dead", d.jobs[t].state} /\ state \in JobStates
    BY <1>1 DEF JobRecords, JobStates, Terminal
  <2> HIDE DEF attempts, state
  <2> QED BY <1>1, <2>1, <2>2 DEF JobRecords
<1>3. d.relay # NoRelay => d.relay.source # t
  BY DEF Owner
<1>4. d.jobs[t].state \notin Terminal \cup {"submitted"}
  BY <1>1, <1>3 DEF Pending, StateFits
<1>5. Failed(d, t) = [d EXCEPT !.jobs[t] = job]
  BY <1>1 DEF Failed, StateFits
<1> HIDE DEF job
<1> QED BY <1>2, <1>3, <1>4, <1>5, JobSucceeds DEF Terminal

LEMMA SkippedSucceeds ==
  ASSUME NEW d, StateFits(d), NEW t \in Pending(d), d.relay = NoRelay,
         "rollback" \notin trouble => Processed(t, settled),
         NEW observed \in BlockIds \cup {NoBlock}, t # 0
  PROVE  Succeeds(d, Skipped(d, t, observed), {t})
<1> DEFINE job == [d.jobs[t] EXCEPT !.state = "skipped", !.skip = observed]
<1>1. t \in Jobs(d) /\ d.jobs[t] \in JobRecords
  BY DEF Pending, StateFits
<1>2. /\ job \in JobRecords /\ job.state = "skipped" /\ job.history = d.jobs[t].history
  BY <1>1 DEF JobRecords, JobStates, Terminal
<1>3. Owner(d) # t
  BY DEF Owner
<1>4. Skipped(d, t, observed) = [d EXCEPT !.jobs[t] = job]
  BY <1>1 DEF Skipped, StateFits
<1> HIDE DEF job
<1> QED BY <1>2, <1>3, <1>4, JobSucceeds

LEMMA FoundSucceeds ==
  ASSUME NEW d, StateFits(d), NEW t \in Txs \ Jobs(d), NEW hash \in Nat
  PROVE  Succeeds(d, CommitSourceRange(d, t, hash), {})
<1> DEFINE next == CommitSourceRange(d, t, hash)
<1>1. Discovered(hash) \in JobRecords
  <2>1. << >> \in Seq(Outcomes)
    OBVIOUS
  <2> QED BY <2>1 DEF Discovered, JobRecords, JobStates
<1>2. /\ Discovered(hash).history = << >> /\ Discovered(hash).state = "discovered"
  BY DEF Discovered
<1>3. /\ next = [jobs |-> next.jobs, relay |-> d.relay, sourceHold |-> d.sourceHold, hubHold |-> d.hubHold]
      /\ next.jobs = [u \in Jobs(d) \cup {t} |-> IF u \in Jobs(d) THEN d.jobs[u] ELSE Discovered(hash)]
      /\ next.relay = d.relay /\ next.sourceHold = d.sourceHold /\ next.hubHold = d.hubHold
  BY DEF StateFits, CommitSourceRange
<1>4. /\ Jobs(next) = Jobs(d) \cup {t}
      /\ \A u \in Jobs(d) : next.jobs[u] = d.jobs[u]
      /\ next.jobs[t] = Discovered(hash)
      /\ next.jobs \in [Jobs(next) -> JobRecords]
  BY <1>1, <1>3 DEF StateFits, Jobs
<1> HIDE DEF next
<1>5. StateFits(next)
  <2>1. \A u \in Jobs(next) :
          /\ next.jobs[u].state = "submitted" <=> next.relay # NoRelay /\ next.relay.source = u
          /\ next.jobs[u].history # << >> => next.jobs[u].state \in {"done", "dead"}
    BY <1>2, <1>3, <1>4 DEF StateFits
  <2>2. next.relay # NoRelay => /\ next.relay.source \in Jobs(next)
                                /\ next.jobs[next.relay.source].ascTxHash = next.relay.hash
    BY <1>3, <1>4 DEF StateFits
  <2> QED BY <1>3, <1>4, <2>1, <2>2 DEF StateFits
<1>6. Pending(d) \subseteq Pending(next)
  BY <1>4 DEF Pending
<1>7. \A e \in Envelopes : OnRecord(d, e) => OnRecord(next, e)
  BY <1>3, <1>4 DEF OnRecord
<1>8. AllBacked(d) => AllBacked(next)
  BY <1>2, <1>4 DEF AllBacked, Backed
<1> QED BY <1>3, <1>5, <1>6, <1>7, <1>8 DEF Succeeds, next

\* Only jobs nobody may have paid for are dropped.
LEMMA RewindSucceeds ==
  ASSUME NEW d, StateFits(d), NEW affected \in SUBSET Jobs(d)
  PROVE  Succeeds(d, RewindUnsignedSource(d, affected), affected)
<1>1. CASE \E t \in affected : Relayed(d.jobs[t])
  BY <1>1, HoldsSucceed DEF RewindUnsignedSource
<1>2. CASE ~ \E t \in affected : Relayed(d.jobs[t])
  <2> DEFINE next == RewindUnsignedSource(d, affected)
  <2>1. /\ next = [jobs |-> next.jobs, relay |-> d.relay, sourceHold |-> d.sourceHold, hubHold |-> d.hubHold]
        /\ next.jobs = [t \in Jobs(d) \ affected |-> d.jobs[t]]
        /\ next.relay = d.relay /\ next.sourceHold = d.sourceHold /\ next.hubHold = d.hubHold
    BY <1>2 DEF StateFits, RewindUnsignedSource
  <2>2. /\ Jobs(next) = Jobs(d) \ affected
        /\ \A u \in Jobs(next) : next.jobs[u] = d.jobs[u]
        /\ next.jobs \in [Jobs(next) -> JobRecords]
    BY <2>1 DEF StateFits, Jobs
  <2> HIDE DEF next
  <2>3. \A u \in affected : d.jobs[u].history = << >> /\ d.jobs[u].state # "submitted"
    BY <1>2 DEF Relayed
  <2>4. StateFits(next)
    <3>1. \A u \in Jobs(next) :
            /\ next.jobs[u].state = "submitted" <=> next.relay # NoRelay /\ next.relay.source = u
            /\ next.jobs[u].history # << >> => next.jobs[u].state \in {"done", "dead"}
      BY <2>1, <2>2 DEF StateFits
    <3>2. next.relay # NoRelay => /\ next.relay.source \in Jobs(next)
                                  /\ next.jobs[next.relay.source].ascTxHash = next.relay.hash
      BY <2>1, <2>2, <2>3 DEF StateFits
    <3> QED BY <2>1, <2>2, <3>1, <3>2 DEF StateFits
  <2>5. Pending(d) \ affected \subseteq Pending(next)
    BY <2>2 DEF Pending
  <2>6. \A e \in Envelopes : OnRecord(d, e) => OnRecord(next, e)
    BY <2>1, <2>2, <2>3 DEF OnRecord
  <2>7. AllBacked(d) => AllBacked(next)
    BY <2>2 DEF AllBacked
  <2> QED BY <2>1, <2>4, <2>5, <2>6, <2>7 DEF Succeeds, next
<1> QED BY <1>1, <1>2

\* reserveRelay: the envelope is stored, and nothing on record is lost.
LEMMA ReserveKeeps ==
  ASSUME NEW d, StateFits(d), NEW e \in Envelopes, MayReserve(d, e)
  PROVE  LET next == ReserveRelay(d, e) IN
         /\ StateFits(next) /\ next.relay = e /\ Pending(d) \subseteq Pending(next)
         /\ \A f \in Envelopes : OnRecord(d, f) => OnRecord(next, f)
         /\ AllBacked(d) => AllBacked(next)
<1> DEFINE t == e.source
           next == ReserveRelay(d, e)
           job == [d.jobs[t] EXCEPT !.state = "submitted", !.ascTxHash = e.hash]
<1>1. /\ t \in Jobs(d) /\ t \in Txs /\ d.jobs[t] \in JobRecords /\ d.relay = NoRelay
      /\ d.jobs[t].history = << >> /\ d.jobs[t].state \notin Terminal /\ e # NoRelay
      /\ e.hash \in Nat
  BY RelayAssumption DEF MayReserve, Pending, StateFits, Envelopes, Terminal
<1>2. job \in JobRecords /\ job.state = "submitted" /\ job.ascTxHash = e.hash /\ job.history = << >>
  BY <1>1 DEF JobRecords, JobStates
<1>3. /\ next = [jobs |-> next.jobs, relay |-> e, sourceHold |-> d.sourceHold, hubHold |-> d.hubHold]
      /\ next.jobs = [d.jobs EXCEPT ![t] = job] /\ next.relay = e
      /\ next.sourceHold = d.sourceHold /\ next.hubHold = d.hubHold
  <2> DEFINE staged == [d.jobs EXCEPT ![t].state = "submitted"]
             saved == [staged EXCEPT ![t].ascTxHash = e.hash]
  <2>1. next = [jobs |-> saved, relay |-> e, sourceHold |-> d.sourceHold, hubHold |-> d.hubHold]
    <3> DEFINE d1 == [d EXCEPT !.relay = e]
               d2 == [d1 EXCEPT !.jobs[t].state = "submitted"]
    <3>1. next = [d2 EXCEPT !.jobs[t].ascTxHash = e.hash]
      BY DEF ReserveRelay
    <3>2. /\ d1.jobs = d.jobs
          /\ d1 = [jobs |-> d.jobs, relay |-> e, sourceHold |-> d.sourceHold, hubHold |-> d.hubHold]
      BY DEF StateFits
    <3>3. /\ d2.jobs = staged
          /\ d2 = [jobs |-> staged, relay |-> e, sourceHold |-> d.sourceHold, hubHold |-> d.hubHold]
      <4> HIDE DEF d1
      <4> QED BY <3>2
    <3> HIDE DEF d1, d2, staged
    <3> QED BY <3>1, <3>3
  <2>2. saved = [d.jobs EXCEPT ![t] = job]
    <3>1. staged = [d.jobs EXCEPT ![t] = [d.jobs[t] EXCEPT !.state = "submitted"]]
      OBVIOUS
    <3>2. staged[t] = [d.jobs[t] EXCEPT !.state = "submitted"]
      BY <1>1, <3>1 DEF StateFits
    <3>3. saved = [staged EXCEPT ![t] = job]
      BY <3>2
    <3> HIDE DEF staged, saved, job
    <3> QED BY <1>1, <3>1, <3>3 DEF StateFits
  <2> QED BY <2>1, <2>2
<1> HIDE DEF job
<1>4. /\ Jobs(next) = Jobs(d)
      /\ \A u \in Jobs(d) : next.jobs[u] = IF u = t THEN job ELSE d.jobs[u]
      /\ next.jobs \in [Jobs(next) -> JobRecords]
  BY <1>1, <1>2, <1>3 DEF StateFits, Jobs
<1> HIDE DEF next, t
<1>5. StateFits(next)
  <2>1. \A u \in Jobs(next) :
          /\ next.jobs[u].state = "submitted" <=> next.relay # NoRelay /\ next.relay.source = u
          /\ next.jobs[u].history # << >> => next.jobs[u].state \in {"done", "dead"}
    BY <1>1, <1>2, <1>3, <1>4 DEF StateFits, t
  <2>2. next.relay # NoRelay => /\ next.relay.source \in Jobs(next)
                                /\ next.jobs[next.relay.source].ascTxHash = next.relay.hash
    BY <1>1, <1>2, <1>3, <1>4 DEF StateFits, t
  <2> QED BY <1>3, <1>4, <2>1, <2>2 DEF StateFits
<1>6. Pending(d) \subseteq Pending(next)
  BY <1>1, <1>2, <1>4 DEF Pending, Terminal
<1>7. \A f \in Envelopes : OnRecord(d, f) => OnRecord(next, f)
  BY <1>1, <1>3, <1>4, RelayAssumption DEF OnRecord
<1>8. AllBacked(d) => AllBacked(next)
  BY <1>2, <1>4 DEF AllBacked, Backed
<1> QED BY <1>3, <1>5, <1>6, <1>7, <1>8 DEF next

\* finishRelay: the envelope moves to its job's history, with the block it was seen in.
LEMMA FinishKeeps ==
  ASSUME NEW d, StateFits(d), d.relay # NoRelay, NEW block \in BlockIds, NEW success \in BOOLEAN
  PROVE  LET next == FinishRelay(d, block, success) IN
         /\ StateFits(next) /\ next.relay = NoRelay
         /\ Pending(d) \ {d.relay.source} \subseteq Pending(next)
         /\ \A f \in Envelopes : OnRecord(d, f) => OnRecord(next, f)
         /\ AllBacked(d) /\ (\E i \in 1 .. settled : /\ blocks[i].hash = d.relay.hash
                                                     /\ blocks[i].success = success)
              /\ (success => Processed(d.relay.source, settled))
            => AllBacked(next)
<1> DEFINE t == d.relay.source
           next == FinishRelay(d, block, success)
           outcome == [hash |-> d.relay.hash, nonce |-> d.relay.nonce, success |-> success,
                       block |-> block]
           state == IF success THEN "done" ELSE "dead"
           job == [d.jobs[t] EXCEPT !.state = state, !.history = Append(d.jobs[t].history, outcome)]
<1>1. /\ t \in Jobs(d) /\ t \in Txs /\ d.jobs[t] \in JobRecords /\ d.relay \in Envelopes
      /\ d.jobs[t].state = "submitted" /\ d.jobs[t].history = << >>
      /\ d.jobs[t].ascTxHash = d.relay.hash
  BY DEF StateFits
<1>2. outcome \in Outcomes /\ state \in JobStates
  BY <1>1 DEF Outcomes, Envelopes, JobStates, Terminal
<1>3. Append(d.jobs[t].history, outcome) = <<outcome>>
  BY <1>1
<1>4. <<outcome>> \in Seq(Outcomes) /\ <<outcome>> # << >> /\ DOMAIN <<outcome>> = {1}
      /\ <<outcome>>[1] = outcome
  BY <1>2
<1>5. /\ job \in JobRecords /\ job.state = state /\ job.ascTxHash = d.relay.hash
      /\ job.history = <<outcome>>
  <2> HIDE DEF outcome, state
  <2> QED BY <1>1, <1>2, <1>3, <1>4 DEF JobRecords
<1>6. /\ next = [jobs |-> next.jobs, relay |-> NoRelay, sourceHold |-> d.sourceHold, hubHold |-> d.hubHold]
      /\ next.jobs = [d.jobs EXCEPT ![t] = job] /\ next.relay = NoRelay
      /\ next.sourceHold = d.sourceHold /\ next.hubHold = d.hubHold
  <2> DEFINE closed == [d.jobs EXCEPT ![t].state = state]
             saved == [closed EXCEPT ![t].history = Append(@, outcome)]
  <2>1. next = [jobs |-> saved, relay |-> NoRelay, sourceHold |-> d.sourceHold, hubHold |-> d.hubHold]
    <3> DEFINE d1 == [d EXCEPT !.relay = NoRelay]
               d2 == [d1 EXCEPT !.jobs[t].state = state]
    <3>1. next = [d2 EXCEPT !.jobs[t].history = Append(@, outcome)]
      BY DEF FinishRelay
    <3>2. /\ d1.jobs = d.jobs
          /\ d1 = [jobs |-> d.jobs, relay |-> NoRelay, sourceHold |-> d.sourceHold, hubHold |-> d.hubHold]
      BY DEF StateFits
    <3>3. /\ d2.jobs = closed
          /\ d2 = [jobs |-> closed, relay |-> NoRelay, sourceHold |-> d.sourceHold, hubHold |-> d.hubHold]
      <4> HIDE DEF d1
      <4> QED BY <3>2
    <3> HIDE DEF d1, d2, closed
    <3> QED BY <3>1, <3>3
  <2>2. saved = [d.jobs EXCEPT ![t] = job]
    <3>1. closed = [d.jobs EXCEPT ![t] = [d.jobs[t] EXCEPT !.state = state]]
      OBVIOUS
    <3>2. /\ closed[t] = [d.jobs[t] EXCEPT !.state = state]
          /\ closed[t].history = d.jobs[t].history
      BY <1>1, <3>1 DEF StateFits, JobRecords
    <3>3. saved = [closed EXCEPT ![t] = job]
      BY <3>2
    <3> HIDE DEF closed, saved, job
    <3> QED BY <1>1, <3>1, <3>3 DEF StateFits
  <2> QED BY <2>1, <2>2
<1> HIDE DEF job
<1>7. /\ Jobs(next) = Jobs(d)
      /\ \A u \in Jobs(d) : next.jobs[u] = IF u = t THEN job ELSE d.jobs[u]
      /\ next.jobs \in [Jobs(next) -> JobRecords]
  BY <1>1, <1>5, <1>6 DEF StateFits, Jobs
<1>8. outcome.hash = d.relay.hash /\ outcome.nonce = d.relay.nonce
  OBVIOUS
<1>9. state \in {"done", "dead"} /\ (state = "done" => success) /\ (state = "dead" => ~success)
  OBVIOUS
<1> HIDE DEF next, t, outcome, state
<1>10. StateFits(next)
  <2>1. \A u \in Jobs(next) :
          /\ next.jobs[u].state = "submitted" <=> next.relay # NoRelay /\ next.relay.source = u
          /\ next.jobs[u].history # << >> => next.jobs[u].state \in {"done", "dead"}
    BY <1>1, <1>5, <1>6, <1>7, <1>9 DEF StateFits, t
  <2> QED BY <1>6, <1>7, <2>1 DEF StateFits
<1>11. Pending(d) \ {t} \subseteq Pending(next)
  BY <1>7 DEF Pending
<1>12. \A f \in Envelopes : OnRecord(d, f) => OnRecord(next, f)
  <2> SUFFICES ASSUME NEW f \in Envelopes, OnRecord(d, f) PROVE OnRecord(next, f)
    OBVIOUS
  <2>1. CASE d.relay = f
    <3>1. f.source \in Jobs(next) /\ next.jobs[f.source].history = <<outcome>>
      BY <1>1, <1>5, <1>7, <2>1 DEF t
    <3> QED BY <1>4, <1>8, <2>1, <3>1 DEF OnRecord
  <2>2. CASE d.relay # f
    <3>1. f.source # t
      BY <1>1, <2>2 DEF OnRecord
    <3> QED BY <1>7, <2>2, <3>1 DEF OnRecord
  <2> QED BY <2>1, <2>2
<1>13. ASSUME AllBacked(d), success => Processed(t, settled),
              \E i \in 1 .. settled : blocks[i].hash = d.relay.hash /\ blocks[i].success = success
       PROVE  AllBacked(next)
  <2>1. Backed(t, job)
    BY <1>5, <1>9, <1>13 DEF Backed
  <2> QED BY <1>7, <1>13, <2>1 DEF AllBacked
<1> QED BY <1>6, <1>10, <1>11, <1>12, <1>13 DEF next, t

-----------------------------------------------------------------------------
(***************************************************************************)
(* The hub.                                                                *)
(***************************************************************************)
\* The trusted blocks stay, and there may be more of them.
Deepens ==
  settled <= settled' /\ \A i \in 1 .. settled : i <= Len(blocks') /\ blocks'[i] = blocks[i]

LEMMA DeeperEvidence ==
  ASSUME RelayInv, Deepens, settled' \in Nat
  PROVE  /\ \A t, n : n \in 0 .. settled /\ Processed(t, n) => Processed(t, n)'
         /\ \A t : Processed(t, settled) => Processed(t, settled)'
         /\ \A t, job : Backed(t, job) => Backed(t, job)'
<1>1. settled \in Nat
  BY DEF RelayInv, ChainsFit
<1>2. \A t, n : n \in 0 .. settled /\ Processed(t, n) => Processed(t, n)'
  BY <1>1 DEF Deepens, Processed
<1>3. \A t : Processed(t, settled) => Processed(t, settled)'
  BY <1>1 DEF Deepens, Processed
<1>4. \A t, job : Backed(t, job) => Backed(t, job)'
  BY <1>1, <1>3 DEF Deepens, Backed
<1> QED BY <1>2, <1>3, <1>4

LEMMA DeeperFiles ==
  ASSUME RelayInv, settled' \in Nat, UNCHANGED <<data, backup, sender, sent>>,
         trouble \subseteq trouble', "rollback" \notin trouble' => Deepens
  PROVE  FilesFit' /\ SenderSees'
<1>1. StateFits(data)' /\ StateFits(backup)'
  BY DEF RelayInv, FilesFit, StateFits, Jobs
<1>2. ("restore" \notin trouble => \A e \in sent : OnRecord(data, e))'
  BY DEF RelayInv, FilesFit, OnRecord, Jobs
<1>3. ASSUME "rollback" \notin trouble'
      PROVE  AllBacked(data)' /\ AllBacked(backup)'
  <2>1. AllBacked(data) /\ AllBacked(backup)
    BY <1>3 DEF RelayInv, FilesFit
  <2>2. Deepens
    BY <1>3
  <2>3. \A t : Processed(t, settled) => Processed(t, settled)'
    BY <2>2, DeeperEvidence
  <2>4. settled \in Nat
    BY DEF RelayInv, ChainsFit
  <2>5. ASSUME NEW t \in Jobs(data), Backed(t, data.jobs[t])
        PROVE  Backed(t, data.jobs[t])'
    BY <2>2, <2>3, <2>4, <2>5 DEF Deepens, Backed
  <2>6. ASSUME NEW t \in Jobs(backup), Backed(t, backup.jobs[t])
        PROVE  Backed(t, backup.jobs[t])'
    BY <2>2, <2>3, <2>4, <2>6 DEF Deepens, Backed
  <2> QED BY <2>1, <2>5, <2>6 DEF AllBacked, Jobs
<1>4. SenderSees'
  <2> SUFFICES ASSUME "rollback" \notin trouble'
               PROVE  /\ (sender.pc \in {"guardSkip", "recheck"} => Processed(sender.owner, settled))'
                      /\ (sender.pc \in Finishing => StillMined)'
                      /\ (sender.pc \in {"lastReceipt", "finish"} /\ sender.seen[3] =>
                           Processed(sender.owner, sender.seen[1]))'
    BY DEF SenderSees
  <2>1. Deepens /\ SenderSees /\ "rollback" \notin trouble /\ settled \in Nat
    BY DEF RelayInv, ChainsFit
  <2>2. (sender.pc \in {"guardSkip", "recheck"} => Processed(sender.owner, settled))'
    <3>1. Processed(sender.owner, settled) => Processed(sender.owner, settled)'
      BY <2>1, DeeperEvidence DEF Processed
    <3> QED BY <2>1, <3>1 DEF SenderSees
  <2>3. (sender.pc \in Finishing => StillMined)'
    <3> SUFFICES ASSUME sender.pc \in Finishing PROVE StillMined'
      OBVIOUS
    <3>1. StillMined
      BY <2>1 DEF SenderSees
    <3> QED BY <2>1, <3>1 DEF StillMined, Deepens, BlockId
  <2>4. (sender.pc \in {"lastReceipt", "finish"} /\ sender.seen[3] =>
          Processed(sender.owner, sender.seen[1]))'
    <3> SUFFICES ASSUME sender.pc \in {"lastReceipt", "finish"}, sender.seen[3]
                 PROVE  Processed(sender.owner, sender.seen[1])'
      OBVIOUS
    <3>1. StillMined /\ Processed(sender.owner, sender.seen[1])
      BY <2>1 DEF SenderSees, Finishing
    <3>2. sender.seen[1] \in 0 .. settled
      BY <2>1, <3>1 DEF StillMined
    <3> QED BY <2>1, <3>1, <3>2, DeeperEvidence DEF Processed
  <2> QED BY <2>2, <2>3, <2>4
<1> QED BY <1>1, <1>2, <1>3, <1>4 DEF FilesFit

LEMMA AppendDeepens ==
  ASSUME ChainsFit, NEW b \in RelayBlocks, blocks' = Append(blocks, b),
         UNCHANGED <<settled, sent, sourceHash>>, mempool' \subseteq mempool
  PROVE  ChainsFit' /\ Deepens
<1>1. blocks \in Seq(RelayBlocks) /\ settled \in Nat /\ settled <= Len(blocks)
  BY DEF ChainsFit
<1>2. /\ blocks' \in Seq(RelayBlocks) /\ Len(blocks') = Len(blocks) + 1
      /\ \A i \in 1 .. Len(blocks) : blocks'[i] = blocks[i]
  BY <1>1
<1> QED BY <1>1, <1>2 DEF ChainsFit, Deepens

LEMMA NoncesAreNumbers ==
  ASSUME ChainsFit PROVE LatestNonce \in Nat /\ PendingNonce \in Nat
<1>1. IsFiniteSet({i \in DOMAIN blocks : blocks[i].hash # NoSignature})
  <2>1. DOMAIN blocks = 1 .. Len(blocks) /\ Len(blocks) \in Nat
    BY DEF ChainsFit
  <2>2. IsFiniteSet(1 .. Len(blocks))
    BY <2>1, FS_Interval
  <2> QED BY <2>1, <2>2, FS_Subset
<1>2. LatestNonce \in Nat
  BY <1>1, FS_CardinalityType DEF LatestNonce
<1> QED BY <1>2 DEF PendingNonce

\* The rest of the invariant, when the worker does not move.
LEMMA WorkerRests ==
  ASSUME RelayInv, UNCHANGED <<data, task, sender, audit, loop>>
  PROVE  TasksFit' /\ SenderFits' /\ AuditsFit'
<1>1. TasksFit'
  BY DEF RelayInv, TasksFit, Pending, Jobs, Owner
<1>2. SenderFits'
  BY DEF RelayInv, SenderFits
<1>3. AuditsFit'
  BY DEF RelayInv, AuditsFit
<1> QED BY <1>1, <1>2, <1>3

LEMMA HubStep ==
  ASSUME RelayInv, HubNext, UNCHANGED workerVars
  PROVE  RelayInv'
<1> USE DEF workerVars, localVars, chainVars
<1>1. TasksFit' /\ SenderFits' /\ AuditsFit'
  BY WorkerRests
<1>2. trouble \subseteq trouble'
  BY DEF HubNext, MineRelay, Drop, MineOther, Settle, HubFork, Meets
<1>3. sent' = sent
  BY DEF HubNext, MineRelay, Drop, MineOther, Settle, HubFork
<1>4. ChainsFit /\ blocks \in Seq(RelayBlocks) /\ settled \in Nat /\ settled <= Len(blocks)
      /\ Len(blocks) \in Nat
  BY DEF RelayInv, ChainsFit
<1>5. ASSUME NEW e \in mempool, MineRelay(e)
      PROVE  ChainsFit' /\ Deepens
  <2>1. PICK success \in BOOLEAN :
          blocks' = Append(blocks, Block(e.source, e.hash, e.nonce, success))
    BY <1>5 DEF MineRelay
  <2>2. Block(e.source, e.hash, e.nonce, success) \in RelayBlocks
    BY <1>4 DEF ChainsFit, Envelopes, Block, RelayBlocks
  <2>3. UNCHANGED <<settled, sent, sourceHash>> /\ mempool' \subseteq mempool
    BY <1>5 DEF MineRelay
  <2> QED BY <1>4, <2>1, <2>2, <2>3, AppendDeepens
<1>6. ASSUME NEW t \in Relayable, MineOther(t)
      PROVE  ChainsFit' /\ Deepens
  <2>1. Block(t, NoSignature, 0, TRUE) \in RelayBlocks
    BY DEF Block, RelayBlocks
  <2>2. blocks' = Append(blocks, Block(t, NoSignature, 0, TRUE)) /\ UNCHANGED <<settled, mempool, sent>>
    BY <1>6 DEF MineOther
  <2> QED BY <1>4, <2>1, <2>2, AppendDeepens
<1>7. ASSUME Settle
      PROVE  ChainsFit' /\ Deepens
  <2>1. settled < Len(blocks) /\ settled' = settled + 1 /\ UNCHANGED <<blocks, mempool, sent>>
    BY <1>7 DEF Settle
  <2>2. settled' \in Nat /\ settled' <= Len(blocks)
    BY <1>4, <2>1
  <2> QED BY <1>4, <2>1, <2>2 DEF ChainsFit, Deepens
<1>8. ASSUME NEW e \in mempool, Drop(e)
      PROVE  ChainsFit' /\ Deepens
  BY <1>3, <1>4, <1>8 DEF ChainsFit, Deepens, Drop
<1>9. ASSUME HubFork
      PROVE  ChainsFit' /\ ("rollback" \notin trouble' => Deepens)
  <2>1. Len(blocks) >= 1
    BY <1>4, <1>9 DEF HubFork
  <2>2. /\ blocks' \in Seq(RelayBlocks) /\ Len(blocks') = Len(blocks) - 1
        /\ \A i \in 1 .. Len(blocks) - 1 : blocks'[i] = blocks[i]
    <3>1. blocks' = SubSeq(blocks, 1, Len(blocks) - 1)
      BY <1>9 DEF HubFork
    <3>2. /\ 1 \in Int /\ Len(blocks) - 1 \in Int
          /\ \A i \in 1 .. Len(blocks) - 1 : blocks[i] \in RelayBlocks
      BY <1>4
    <3> DEFINE n == Len(blocks)
    <3>3. /\ blocks' \in Seq(RelayBlocks)
          /\ Len(blocks') = IF 1 <= Len(blocks) - 1 THEN Len(blocks) - 1 - 1 + 1 ELSE 0
          /\ \A i \in 1 .. Len(blocks) - 1 - 1 + 1 : blocks'[i] = blocks[1 + i - 1]
      BY <3>1, <3>2, SubSeqProperties
    <3>4. Len(blocks') = Len(blocks) - 1
      <4>1. n \in Nat /\ n >= 1 /\ Len(blocks') = IF 1 <= n - 1 THEN n - 1 - 1 + 1 ELSE 0
        BY <1>4, <2>1, <3>3
      <4> HIDE DEF n
      <4>2. Len(blocks') = n - 1
        BY <4>1
      <4> QED BY <4>2 DEF n
    <3>5. ASSUME NEW i \in 1 .. Len(blocks) - 1
          PROVE  blocks'[i] = blocks[i]
      <4>1. i \in 1 .. Len(blocks) - 1 - 1 + 1 /\ 1 + i - 1 = i
        BY <1>4
      <4>2. blocks'[i] = blocks[1 + i - 1]
        BY <3>3, <4>1
      <4> QED BY <4>1, <4>2
    <3> QED BY <3>3, <3>4, <3>5
  <2>3. settled' \in Nat /\ settled' <= Len(blocks')
    BY <1>4, <1>9, <2>1, <2>2 DEF HubFork
  <2>4. mempool' \subseteq Envelopes
    BY <1>4, <1>9 DEF HubFork, ChainsFit
  <2>5. settled = Len(blocks) => "rollback" \in trouble'
    BY <1>9 DEF HubFork, Meets
  <2>6. settled # Len(blocks) => Deepens
    BY <1>4, <1>9, <2>2 DEF HubFork, Deepens
  <2> QED BY <1>3, <1>4, <2>2, <2>3, <2>4, <2>5, <2>6 DEF ChainsFit
<1>10. ChainsFit' /\ ("rollback" \notin trouble' => Deepens)
  <2>1. \/ \E e \in mempool : MineRelay(e) \/ Drop(e)
        \/ \E t \in Relayable : MineOther(t)
        \/ Settle \/ HubFork
    BY DEF HubNext
  <2>2. CASE \E e \in mempool : MineRelay(e) \/ Drop(e)
    BY <1>5, <1>8, <2>2
  <2>3. CASE \E t \in Relayable : MineOther(t)
    BY <1>6, <2>3
  <2> QED BY <1>7, <1>9, <2>1, <2>2, <2>3
<1>11. FilesFit' /\ SenderSees'
  BY <1>2, <1>3, <1>10, DeeperFiles DEF ChainsFit
<1> QED BY <1>1, <1>10, <1>11 DEF RelayInv

-----------------------------------------------------------------------------
(***************************************************************************)
(* A commit, a task that ends, one that goes on, a sender that goes on.    *)
(***************************************************************************)
\* What the worker does to the hub: nothing, or the stored envelope arrives there.
Delivers == UNCHANGED <<mempool, sent>> \/ (data.relay # NoRelay /\ Deliver(data.relay))

LEMMA FilesStand ==
  ASSUME RelayInv, NEW gone, Succeeds(data, data', gone), trouble \subseteq trouble', Delivers,
         UNCHANGED <<backup, blocks, settled, sourceHash>>
  PROVE  ChainsFit' /\ FilesFit'
<1>1. data.relay \in Envelopes \cup {NoRelay} /\ data'.relay = data.relay
  BY DEF RelayInv, FilesFit, StateFits, Succeeds
<1>2. sent' = sent \/ (sent' = sent \cup {data.relay} /\ data.relay \in Envelopes)
  BY <1>1 DEF Delivers, Deliver
<1>3. mempool' \subseteq mempool \cup (Envelopes \cap {data.relay})
  BY <1>1 DEF Delivers, Deliver
<1>4. ChainsFit'
  <2>1. IsFiniteSet(sent')
    BY <1>2, FS_AddElement DEF RelayInv, ChainsFit
  <2> QED BY <1>2, <1>3, <2>1 DEF RelayInv, ChainsFit
<1>5. StateFits(data)' /\ StateFits(backup)'
  BY DEF RelayInv, FilesFit, Succeeds
<1>6. ASSUME "rollback" \notin trouble'
      PROVE  AllBacked(data)' /\ AllBacked(backup)'
  <2>1. AllBacked(data') /\ AllBacked(backup)
    BY <1>6 DEF RelayInv, FilesFit, Succeeds
  <2> QED BY <2>1 DEF AllBacked, Backed, Processed
<1>7. ASSUME "restore" \notin trouble'
      PROVE  \A e \in sent' : OnRecord(data, e)'
  <2>1. \A e \in sent : OnRecord(data, e) /\ e \in Envelopes
    BY <1>7 DEF RelayInv, FilesFit, ChainsFit
  <2>2. \A e \in sent : OnRecord(data', e)
    BY <2>1 DEF Succeeds
  <2>3. OnRecord(data', data.relay)
    BY <1>1 DEF OnRecord
  <2> QED BY <1>2, <2>2, <2>3
<1> QED BY <1>4, <1>5, <1>6, <1>7 DEF FilesFit

LEMMA SenderStands ==
  ASSUME RelayInv, data'.relay = data.relay, sender' \in {sender, NoSender}, trouble \subseteq trouble',
         UNCHANGED <<blocks, settled>>
  PROVE  SenderFits' /\ SenderSees'
<1>1. CASE sender' = sender
  <2>1. SenderFits'
    BY <1>1 DEF RelayInv, SenderFits
  <2>2. SenderSees'
    BY <1>1 DEF RelayInv, SenderSees, StillMined, Processed, BlockId
  <2> QED BY <2>1, <2>2
<1>2. CASE sender' = NoSender
  <2>1. /\ sender' = [owner |-> 0, pc |-> "idle", envelope |-> NoRelay, seen |-> NoBlock]
        /\ sender'.pc = "idle" /\ sender'.owner = 0
    BY <1>2 DEF NoSender
  <2>2. "idle" \notin Unsigned \cup Signed \cup Finishing \cup {"guardReserve", "reserve"}
    BY DEF Unsigned, Signed, Finishing
  <2>3. SenderFits'
    BY <2>1, <2>2 DEF SenderFits
  <2>4. SenderSees'
    BY <2>1, <2>2 DEF SenderSees
  <2> QED BY <2>3, <2>4
<1> QED BY <1>1, <1>2

\* A task ends or meets an error, and lets go of the sender if it has it.
LEMMA TaskLeaves ==
  ASSUME RelayInv, NEW t \in Txs, task[t] # "idle", NEW pc \in {"idle", "error"},
         Succeeds(data, data', {t}), pc = "error" => t \in Pending(data'),
         Goto(t, pc), Release(t), trouble \subseteq trouble', Delivers,
         UNCHANGED <<loop, backup, blocks, settled, sourceHash>>,
         DOMAIN audit' = {"poll", "sign"}, audit' = [w \in {"poll", "sign"} |-> audit'[w]],
         audit'["sign"].pc # "idle" => audit["sign"].pc # "idle" /\ sender' = sender
  PROVE  RelayInv'
<1>1. ChainsFit' /\ FilesFit'
  BY FilesStand
<1>2. SenderFits' /\ SenderSees'
  BY SenderStands DEF Release, Succeeds
<1>3. AuditsFit'
  BY DEF RelayInv, AuditsFit
<1>4. task' = [task EXCEPT ![t] = pc] /\ task \in [Txs -> TaskSteps]
  BY DEF Goto, RelayInv, TasksFit
<1>5. sender' = IF sender.owner = t THEN NoSender ELSE sender
  BY DEF Release
<1>6. t # 0 /\ data'.relay = data.relay
  BY TxsAssumption DEF Succeeds
<1>7. task' \in [Txs -> TaskSteps]
  BY <1>4 DEF TaskSteps
<1>8. ASSUME NEW u \in Txs
      PROVE  /\ task'[u] # "idle" => u \in Pending(data') /\ loop' # "down"
             /\ task'[u] = "sending" <=> sender'.owner = u
             /\ task'[u] \in Early => Owner(data') # u
  <2>1. CASE u = t
    <3>1. sender'.owner # t
      BY <1>5, <1>6 DEF NoSender
    <3> QED BY <1>4, <2>1, <3>1 DEF RelayInv, TasksFit, Early
  <2>2. CASE u # t
    <3>1. task'[u] = task[u] /\ Owner(data') = Owner(data)
      BY <1>4, <1>6, <2>2 DEF Owner
    <3>2. sender'.owner = u <=> sender.owner = u
      <4>1. u # 0
        BY TxsAssumption
      <4> QED BY <1>5, <2>2, <4>1 DEF NoSender
    <3>3. u \in Pending(data) => u \in Pending(data')
      BY <2>2 DEF Succeeds
    <3> QED BY <3>1, <3>2, <3>3 DEF RelayInv, TasksFit
  <2> QED BY <2>1, <2>2
<1>9. TasksFit'
  BY <1>7, <1>8 DEF TasksFit
<1> QED BY <1>1, <1>2, <1>3, <1>9 DEF RelayInv

\* A task goes on, without the sender.
LEMMA TaskGoesOn ==
  ASSUME RelayInv, NEW t \in Txs, task[t] \notin {"idle", "sending"},
         NEW pc \in TaskSteps \ {"idle", "sending"}, pc \in Early => Owner(data) # t,
         Succeeds(data, data', {}), Goto(t, pc), trouble \subseteq trouble',
         UNCHANGED <<sender, audit, loop, backup, blocks, settled, mempool, sent, sourceHash>>
  PROVE  RelayInv'
<1>1. ChainsFit' /\ FilesFit'
  BY FilesStand DEF Delivers
<1>2. SenderFits' /\ SenderSees'
  BY SenderStands DEF Succeeds
<1>3. AuditsFit'
  BY DEF RelayInv, AuditsFit
<1>4. task' = [task EXCEPT ![t] = pc] /\ task \in [Txs -> TaskSteps]
  BY DEF Goto, RelayInv, TasksFit
<1>5. task' \in [Txs -> TaskSteps]
  BY <1>4
<1>6. Owner(data') = Owner(data) /\ Pending(data) \subseteq Pending(data')
  BY DEF Succeeds, Owner
<1>7. ASSUME NEW u \in Txs
      PROVE  /\ task'[u] # "idle" => u \in Pending(data') /\ loop' # "down"
             /\ task'[u] = "sending" <=> sender'.owner = u
             /\ task'[u] \in Early => Owner(data') # u
  BY <1>4, <1>6 DEF RelayInv, TasksFit
<1>8. TasksFit'
  BY <1>5, <1>7 DEF TasksFit
<1> QED BY <1>1, <1>2, <1>3, <1>8 DEF RelayInv

\* The sender goes on; the file stays as it is.
LEMMA SenderGoesOn ==
  ASSUME RelayInv, sender.owner # 0, NEW pc \in Unsigned \cup Signed,
         NEW envelope \in Envelopes \cup {NoRelay}, NEW observed \in BlockIds \cup {NoBlock},
         Advance(pc, envelope, observed), Keep, Delivers,
         UNCHANGED <<loop, audit, backup, blocks, settled, sourceHash>>,
         audit["sign"].pc = "idle",
         pc \in Unsigned => sender.pc \in Unsigned, pc \in Signed => sender.pc \in Signed,
         pc \in {"guardReserve", "reserve"} => envelope \in Envelopes /\ envelope.source = sender.owner,
         pc \in Finishing => observed \in BlockIds,
         SenderSees'
  PROVE  RelayInv'
<1>1. sender' = [sender EXCEPT !.pc = pc, !.envelope = envelope, !.seen = observed] /\ task' = task
  BY DEF Advance
<1>2. sender \in [owner : Txs \cup {0}, pc : {"idle"} \cup Unsigned \cup Signed,
                  envelope : Envelopes \cup {NoRelay}, seen : BlockIds \cup {NoBlock}]
  BY DEF RelayInv, SenderFits
<1>3. /\ sender'.owner = sender.owner /\ sender'.pc = pc /\ sender'.envelope = envelope
      /\ sender'.seen = observed
      /\ sender' \in [owner : Txs \cup {0}, pc : {"idle"} \cup Unsigned \cup Signed,
                      envelope : Envelopes \cup {NoRelay}, seen : BlockIds \cup {NoBlock}]
  BY <1>1, <1>2
<1>4. ChainsFit' /\ FilesFit'
  BY SameSucceeds, FilesStand DEF Keep, RelayInv, FilesFit
<1>5. pc # "idle"
  BY DEF Unsigned, Signed, Finishing
<1>6. SenderFits'
  BY <1>3, <1>5 DEF SenderFits, RelayInv, Keep
<1>7. TasksFit'
  BY <1>1, <1>3 DEF RelayInv, TasksFit, Keep
<1>8. AuditsFit'
  BY DEF RelayInv, AuditsFit
<1> QED BY <1>4, <1>6, <1>7, <1>8 DEF RelayInv

-----------------------------------------------------------------------------
(***************************************************************************)
(* The tasks.                                                              *)
(***************************************************************************)
\* The ways a task can end, while no audit of its own is in progress.
LEMMA TaskEnds ==
  ASSUME RelayInv, TaskFrame, NEW t \in Txs, task[t] # "idle",
         sender.owner = t => sender.pc # "audit",
         Succeeds(data, data', {t}), trouble \subseteq trouble',
         \/ Fatal(t) \/ Leave(t, "idle")
         \/ Leave(t, "error") /\ t \in Pending(data')
  PROVE  RelayInv'
<1>1. PICK pc \in {"idle", "error"} :
        Goto(t, pc) /\ Release(t) /\ (pc = "error" => t \in Pending(data'))
  BY DEF Fatal, Leave
<1>2. UNCHANGED <<loop, audit, backup, blocks, settled, mempool, sent, sourceHash>>
  BY DEF TaskFrame, chainVars, hubVars
<1>3. DOMAIN audit' = {"poll", "sign"} /\ audit' = [w \in {"poll", "sign"} |-> audit'[w]]
  BY <1>2 DEF RelayInv, AuditsFit
<1>4. audit'["sign"].pc # "idle" => audit["sign"].pc # "idle" /\ sender' = sender
  BY <1>1, <1>2 DEF RelayInv, AuditsFit, Release
<1> QED BY <1>1, <1>2, <1>3, <1>4, TaskLeaves DEF Delivers

\* What a commit leads to, written or not.
LEMMA Committed ==
  ASSUME NEW next, NEW gone, StateFits(data), Succeeds(data, next, gone),
         Commit(next) \/ CommitFails(next)
  PROVE  Succeeds(data, data', gone) /\ trouble \subseteq trouble'
BY SameSucceeds DEF Commit, CommitFails, Meets

LEMMA KeptAsItIs ==
  ASSUME StateFits(data), Keep, NEW gone
  PROVE  Succeeds(data, data', gone) /\ trouble \subseteq trouble'
BY SameSucceeds DEF Keep

LEMMA GuardThrows ==
  ASSUME RelayInv, TaskFrame, NEW t \in Txs, task[t] # "idle",
         sender.owner = t => sender.pc # "audit", SourceGuardThrows(t)
  PROVE  RelayInv'
<1>1. StateFits(data)
  BY DEF RelayInv, FilesFit
<1>2. /\ Keep \/ Commit(HoldSource(data)) \/ CommitFails(HoldSource(data))
      /\ Fatal(t) \/ Leave(t, "idle")
  BY DEF SourceGuardThrows
<1>3. Succeeds(data, data', {t}) /\ trouble \subseteq trouble'
  BY <1>1, <1>2, HoldsSucceed, Committed, KeptAsItIs
<1> QED BY <1>2, <1>3, TaskEnds

\* What holds of a job whose task runs.
LEMMA RunningJob ==
  ASSUME RelayInv, NEW t \in Txs, task[t] # "idle"
  PROVE  /\ StateFits(data) /\ t \in Pending(data) /\ t \in Jobs(data)
         /\ task[t] # "sending" => sender.owner # t
         /\ task[t] \in Early => Owner(data) # t
BY DEF RelayInv, FilesFit, TasksFit, Pending

LEMMA StartTaskStep ==
  ASSUME RelayInv, NEW t \in Txs, StartTask(t)
  PROVE  RelayInv'
<1>1. task[t] = "start" /\ Keep /\ TaskFrame /\ UNCHANGED <<sender, stopping>>
  BY DEF StartTask
<1>2. StateFits(data) /\ sender.owner # t /\ t \in Pending(data)
  BY <1>1, RunningJob
<1>3. Succeeds(data, data', {t}) /\ Succeeds(data, data', {}) /\ trouble \subseteq trouble'
  BY <1>1, <1>2, KeptAsItIs
<1>4. CASE Goto(t, "idle")
  <2>1. Leave(t, "idle")
    BY <1>1, <1>2, <1>4 DEF Leave, Release
  <2> QED BY <1>1, <1>2, <1>3, <2>1, TaskEnds
<1>5. CASE \E pc \in {"enter", "error"} : Goto(t, pc)
  <2>1. PICK pc \in {"enter", "error"} : Goto(t, pc)
    BY <1>5
  <2>2. pc \in TaskSteps \ {"idle", "sending"} /\ pc \notin Early
    BY DEF TaskSteps, Early
  <2> QED BY <1>1, <1>3, <2>1, <2>2, TaskGoesOn DEF TaskFrame, chainVars, hubVars
<1>6. CASE Goto(t, "canonical") /\ Owner(data) # t
  <2>1. "canonical" \in TaskSteps \ {"idle", "sending"}
    BY DEF TaskSteps, Early
  <2> QED BY <1>1, <1>3, <1>6, <2>1, TaskGoesOn DEF TaskFrame, chainVars, hubVars
<1> QED BY <1>4, <1>5, <1>6 DEF StartTask

LEMMA CheckCanonicalStep ==
  ASSUME RelayInv, NEW t \in Txs, CheckCanonical(t)
  PROVE  RelayInv'
<1>1. task[t] = "canonical" /\ TaskFrame
  BY DEF CheckCanonical
<1>2. StateFits(data) /\ sender.owner # t /\ Owner(data) # t
  BY <1>1, RunningJob DEF Early
<1>3. CASE SourceGuardThrows(t)
  BY <1>1, <1>2, <1>3, GuardThrows
<1>4. CASE Keep /\ UNCHANGED <<sender, stopping>> /\ \E pc \in {"attestation", "proof"} : Goto(t, pc)
  <2>1. PICK pc \in {"attestation", "proof"} : Goto(t, pc)
    BY <1>4
  <2>2. pc \in TaskSteps \ {"idle", "sending"}
    BY DEF TaskSteps, Early
  <2>3. Succeeds(data, data', {}) /\ trouble \subseteq trouble'
    BY <1>2, <1>4, KeptAsItIs
  <2> QED BY <1>1, <1>2, <1>4, <2>1, <2>2, <2>3, TaskGoesOn DEF TaskFrame, chainVars, hubVars
<1> QED BY <1>3, <1>4 DEF CheckCanonical

LEMMA WaitForAttestationStep ==
  ASSUME RelayInv, NEW t \in Txs, WaitForAttestation(t)
  PROVE  RelayInv'
<1>1. task[t] = "attestation" /\ Keep /\ TaskFrame /\ UNCHANGED <<sender, stopping>>
  BY DEF WaitForAttestation
<1>2. StateFits(data) /\ sender.owner # t /\ Owner(data) # t
  BY <1>1, RunningJob DEF Early
<1>3. Succeeds(data, data', {t}) /\ Succeeds(data, data', {}) /\ trouble \subseteq trouble'
  BY <1>1, <1>2, KeptAsItIs
<1>4. CASE Goto(t, "idle")
  <2>1. Leave(t, "idle")
    BY <1>1, <1>2, <1>4 DEF Leave, Release
  <2> QED BY <1>1, <1>2, <1>3, <2>1, TaskEnds
<1>5. CASE Goto(t, "attested")
  <2>1. "attested" \in TaskSteps \ {"idle", "sending"}
    BY DEF TaskSteps, Early
  <2> QED BY <1>1, <1>2, <1>3, <1>5, <2>1, TaskGoesOn DEF TaskFrame, chainVars, hubVars
<1> QED BY <1>4, <1>5 DEF WaitForAttestation

LEMMA SaveAttestedStep ==
  ASSUME RelayInv, NEW t \in Txs, SaveAttested(t)
  PROVE  RelayInv'
<1>1. task[t] = "attested" /\ TaskFrame
  BY DEF SaveAttested
<1>2. StateFits(data) /\ sender.owner # t /\ Owner(data) # t /\ t \in Pending(data)
  BY <1>1, RunningJob DEF Early
<1>3. CASE SourceGuardThrows(t)
  BY <1>1, <1>2, <1>3, GuardThrows
<1>4. Succeeds(data, Attested(data, t), {})
  BY <1>2, AttestedSucceeds
<1>5. CASE Commit(Attested(data, t)) /\ Goto(t, "proof") /\ UNCHANGED <<sender, stopping>>
  <2>1. "proof" \in TaskSteps \ {"idle", "sending"}
    BY DEF TaskSteps, Early
  <2>2. Succeeds(data, data', {}) /\ trouble \subseteq trouble'
    BY <1>2, <1>4, <1>5, Committed
  <2> QED BY <1>1, <1>2, <1>5, <2>1, <2>2, TaskGoesOn DEF TaskFrame, chainVars, hubVars
<1>6. CASE CommitFails(Attested(data, t)) /\ Fatal(t)
  <2>1. Succeeds(data, data', {}) /\ trouble \subseteq trouble'
    BY <1>2, <1>4, <1>6, Committed
  <2>2. Succeeds(data, data', {t})
    BY <2>1 DEF Succeeds
  <2> QED BY <1>1, <1>2, <1>6, <2>1, <2>2, TaskEnds
<1> QED BY <1>3, <1>5, <1>6 DEF SaveAttested

LEMMA FetchProofStep ==
  ASSUME RelayInv, NEW t \in Txs, FetchProof(t)
  PROVE  RelayInv'
<1>1. task[t] = "proof" /\ Keep /\ TaskFrame
  BY DEF FetchProof
<1>2. StateFits(data) /\ sender.owner # t /\ t \in Pending(data)
  BY <1>1, RunningJob DEF Early
<1>3. Succeeds(data, data', {t}) /\ Succeeds(data, data', {}) /\ trouble \subseteq trouble'
  BY <1>1, <1>2, KeptAsItIs
<1>4. CASE Goto(t, "enter") /\ UNCHANGED <<sender, stopping>>
  <2>1. "enter" \in TaskSteps \ {"idle", "sending"} /\ "enter" \notin Early
    BY DEF TaskSteps, Early
  <2> QED BY <1>1, <1>2, <1>3, <1>4, <2>1, TaskGoesOn DEF TaskFrame, chainVars, hubVars
<1>5. CASE Fatal(t) \/ Leave(t, "error")
  <2>1. t \in Pending(data')
    BY <1>1, <1>2 DEF Keep
  <2> QED BY <1>1, <1>2, <1>3, <1>5, <2>1, TaskEnds
<1> QED BY <1>4, <1>5 DEF FetchProof

LEMMA HandleErrorStep ==
  ASSUME RelayInv, NEW t \in Txs, HandleError(t)
  PROVE  RelayInv'
<1>1. task[t] = "error" /\ TaskFrame
  BY DEF HandleError
<1>2. StateFits(data) /\ sender.owner # t /\ t \in Pending(data)
  BY <1>1, RunningJob
<1> DEFINE next == IF Owner(data) = t THEN data ELSE Failed(data, t)
<1>3. Succeeds(data, next, {t})
  BY <1>2, SameSucceeds, FailedSucceeds
<1>4. /\ Keep \/ Commit(next) \/ CommitFails(next)
      /\ Fatal(t) \/ Leave(t, "idle")
  BY DEF HandleError
<1> HIDE DEF next
<1>5. Succeeds(data, data', {t}) /\ trouble \subseteq trouble'
  BY <1>2, <1>3, <1>4, Committed, KeptAsItIs
<1> QED BY <1>1, <1>2, <1>4, <1>5, TaskEnds

\* The owner of the sender.
LEMMA SendingJob ==
  ASSUME RelayInv, sender.pc # "idle"
  PROVE  /\ sender.owner \in Txs /\ sender.owner # 0 /\ task[sender.owner] = "sending"
         /\ sender.owner \in Pending(data) /\ sender.owner \in Jobs(data) /\ StateFits(data)
         /\ sender.pc # "audit" => audit["sign"].pc = "idle"
<1>1. sender.owner \in Txs \cup {0} /\ sender.owner # 0
  BY DEF RelayInv, SenderFits
<1> QED BY <1>1 DEF RelayInv, TasksFit, FilesFit, AuditsFit, Pending

LEMMA EnterSenderStep ==
  ASSUME RelayInv, NEW t \in Txs, EnterSender(t)
  PROVE  RelayInv'
<1>1. task[t] = "enter" /\ Keep /\ TaskFrame
  BY DEF EnterSender
<1>2. StateFits(data) /\ sender.owner # t /\ t \in Pending(data)
  BY <1>1, RunningJob
<1>3. Succeeds(data, data', {t}) /\ Succeeds(data, data', {}) /\ trouble \subseteq trouble'
  BY <1>1, <1>2, KeptAsItIs
<1>4. CASE Leave(t, "idle") \/ Fatal(t) \/ Leave(t, "error")
  <2>1. t \in Pending(data')
    BY <1>1, <1>2 DEF Keep
  <2> QED BY <1>1, <1>2, <1>3, <1>4, <2>1, TaskEnds
<1>5. CASE /\ sender.owner = 0 /\ Owner(data) \in {0, t} /\ Goto(t, "sending")
           /\ sender' = [NoSender EXCEPT !.owner = t,
                                         !.pc = IF Owner(data) = t THEN "receipt" ELSE "audit"]
  <2> DEFINE pc == IF Owner(data) = t THEN "receipt" ELSE "audit"
  <2>1. /\ sender' = [owner |-> t, pc |-> pc, envelope |-> NoRelay, seen |-> NoBlock]
        /\ sender'.owner = t /\ sender'.pc = pc
    BY <1>5 DEF NoSender
  <2>2. t # 0 /\ data' = data /\ trouble' = trouble
    BY <1>1, TxsAssumption DEF Keep
  <2>3. pc = "receipt" => data.relay # NoRelay /\ data.relay.source = t
    BY <2>2 DEF Owner
  <2>4. pc = "audit" => data.relay = NoRelay
    <3>1. data.relay # NoRelay => data.relay.source \in Txs
      BY <1>2 DEF StateFits
    <3> QED BY <1>5, <3>1, TxsAssumption DEF Owner
  <2>5. pc \in {"receipt", "audit"}
    OBVIOUS
  <2> HIDE DEF pc
  <2>6. /\ pc \in Unsigned \cup Signed /\ pc \notin Finishing \cup {"guardReserve", "reserve", "guardSkip", "recheck"}
        /\ (pc \in Unsigned => pc = "audit") /\ (pc \in Signed => pc = "receipt") /\ pc # "idle"
    BY <2>5 DEF Unsigned, Signed, Finishing
  <2>7. SenderFits'
    BY <2>1, <2>2, <2>3, <2>4, <2>6 DEF SenderFits
  <2>8. SenderSees'
    BY <2>1, <2>6 DEF SenderSees, Finishing
  <2>9. TasksFit'
    <3>1. task' = [task EXCEPT ![t] = "sending"] /\ task' \in [Txs -> TaskSteps]
      BY <1>5 DEF Goto, RelayInv, TasksFit, TaskSteps
    <3>2. loop' = loop /\ loop # "down" /\ "sending" \notin Early
      BY <1>1 DEF TaskFrame, RelayInv, TasksFit, Early
    <3>3. ASSUME NEW u \in Txs
          PROVE  /\ task'[u] # "idle" => u \in Pending(data') /\ loop' # "down"
                 /\ task'[u] = "sending" <=> sender'.owner = u
                 /\ task'[u] \in Early => Owner(data') # u
      <4>1. u # 0
        BY TxsAssumption
      <4> QED BY <1>2, <1>5, <2>1, <2>2, <3>1, <3>2, <4>1 DEF RelayInv, TasksFit
    <3> QED BY <3>1, <3>3 DEF TasksFit
  <2>10. AuditsFit'
    <3>1. sender.pc = "idle"
      BY <1>5 DEF RelayInv, SenderFits
    <3> QED BY <1>1, <3>1 DEF RelayInv, AuditsFit, TaskFrame
  <2>11. ChainsFit' /\ FilesFit'
    BY <1>1, <1>3, FilesStand DEF TaskFrame, chainVars, hubVars, Delivers
  <2> QED BY <2>7, <2>8, <2>9, <2>10, <2>11 DEF RelayInv
<1> QED BY <1>4, <1>5 DEF EnterSender

LEMMA RpcFailsStep ==
  ASSUME RelayInv, NEW t \in Txs, RpcFails(t)
  PROVE  RelayInv'
<1>1. /\ task[t] # "idle" /\ data' = data /\ trouble \subseteq trouble'
      /\ UNCHANGED <<loop, backup, blocks, settled, mempool, sent, sourceHash>>
  BY DEF RpcFails, Meets, chainVars, hubVars
<1>2. StateFits(data) /\ t \in Pending(data)
  BY <1>1, RunningJob
<1>3. Succeeds(data, data', {t})
  BY <1>1, <1>2, SameSucceeds
<1>4. PICK pc \in {"idle", "error"} : Goto(t, pc) /\ Release(t)
  BY DEF RpcFails, Fatal, Leave
<1>5. audit' = IF sender.owner = t THEN [audit EXCEPT !["sign"] = NoAudit] ELSE audit
  BY DEF RpcFails
<1>6. DOMAIN audit' = {"poll", "sign"} /\ audit' = [w \in {"poll", "sign"} |-> audit'[w]]
  BY <1>5 DEF RelayInv, AuditsFit
<1>7. audit'["sign"].pc # "idle" => audit["sign"].pc # "idle" /\ sender' = sender
  <2>1. CASE sender.owner = t
    <3>1. audit'["sign"] = NoAudit
      BY <1>5, <2>1 DEF RelayInv, AuditsFit
    <3> QED BY <3>1 DEF NoAudit
  <2>2. CASE sender.owner # t
    BY <1>4, <1>5, <2>2 DEF Release
  <2> QED BY <2>1, <2>2
<1> QED BY <1>1, <1>2, <1>3, <1>4, <1>6, <1>7, TaskLeaves DEF Delivers

-----------------------------------------------------------------------------
(***************************************************************************)
(* The audits.                                                             *)
(***************************************************************************)
\* The loop or an audit of its goes on; no task moves.
LEMMA WorkerStays ==
  ASSUME RelayInv, Succeeds(data, data', {}), trouble \subseteq trouble', AuditsFit',
         loop' # "down" \/ loop' = loop,
         UNCHANGED <<task, sender, backup, blocks, settled, mempool, sent, sourceHash>>
  PROVE  RelayInv'
<1>1. ChainsFit' /\ FilesFit'
  BY FilesStand DEF Delivers
<1>2. SenderFits' /\ SenderSees'
  BY SenderStands DEF Succeeds
<1>3. Owner(data') = Owner(data) /\ Pending(data) \subseteq Pending(data')
  BY DEF Succeeds, Owner
<1>4. TasksFit'
  BY <1>3 DEF RelayInv, TasksFit
<1> QED BY <1>1, <1>2, <1>4 DEF RelayInv

LEMMA AuditOver ==
  ASSUME RelayInv, NEW w \in {"poll", "sign"}, audit' = [audit EXCEPT ![w] = NoAudit]
  PROVE  /\ DOMAIN audit' = {"poll", "sign"} /\ audit' = [v \in {"poll", "sign"} |-> audit'[v]]
         /\ w = "sign" => audit'["sign"].pc = "idle"
         /\ w = "poll" => audit'["sign"] = audit["sign"]
<1>1. /\ DOMAIN audit' = {"poll", "sign"} /\ audit' = [v \in {"poll", "sign"} |-> audit'[v]]
      /\ audit'[w] = NoAudit /\ (w = "poll" => audit'["sign"] = audit["sign"])
  BY DEF RelayInv, AuditsFit
<1> QED BY <1>1 DEF NoAudit

\* The poll loop's audit ends, whatever it found.
LEMMA PollAuditEnds ==
  ASSUME RelayInv, Succeeds(data, data', {}), trouble \subseteq trouble', AuditFrame,
         audit' = [audit EXCEPT !["poll"] = NoAudit], loop' # "down", UNCHANGED <<task, sender>>
  PROVE  RelayInv'
<1>1. AuditsFit'
  BY AuditOver DEF AuditsFit, RelayInv
<1> QED BY <1>1, WorkerStays DEF AuditFrame, chainVars, hubVars

\* The sender's audit ends its task.
LEMMA SignAuditEnds ==
  ASSUME RelayInv, Succeeds(data, data', {}), trouble \subseteq trouble', AuditFrame,
         sender.pc = "audit", audit' = [audit EXCEPT !["sign"] = NoAudit], UNCHANGED loop,
         NEW pc \in {"idle", "error"}, Goto(sender.owner, pc), Release(sender.owner)
  PROVE  RelayInv'
<1> DEFINE t == sender.owner
<1>1. t \in Txs /\ task[t] # "idle" /\ t \in Pending(data)
  BY SendingJob
<1>2. Succeeds(data, data', {t}) /\ t \in Pending(data')
  BY <1>1 DEF Succeeds
<1>3. /\ DOMAIN audit' = {"poll", "sign"} /\ audit' = [w \in {"poll", "sign"} |-> audit'[w]]
      /\ audit'["sign"].pc = "idle"
  BY AuditOver
<1> HIDE DEF t
<1>4. Goto(t, pc) /\ Release(t)
  BY DEF t
<1> QED BY <1>1, <1>2, <1>3, <1>4, TaskLeaves DEF AuditFrame, chainVars, hubVars, Delivers

LEMMA AuditThrowsStep ==
  ASSUME RelayInv, NEW w \in {"poll", "sign"}, w = "sign" => sender.pc = "audit",
         Succeeds(data, data', {}), trouble \subseteq trouble', AuditFrame, AuditThrows(w)
  PROVE  RelayInv'
<1>1. CASE w = "poll"
  BY <1>1, PollAuditEnds DEF AuditThrows
<1>2. CASE w = "sign"
  BY <1>2, SignAuditEnds DEF AuditThrows, Leave
<1> QED BY <1>1, <1>2

LEMMA AuditHoldsStep ==
  ASSUME RelayInv, NEW w \in {"poll", "sign"}, w = "sign" => sender.pc = "audit",
         AuditFrame, AuditHolds(w)
  PROVE  RelayInv'
<1>1. Succeeds(data, data', {}) /\ trouble \subseteq trouble'
  <2>1. StateFits(data)
    BY DEF RelayInv, FilesFit
  <2> QED BY <2>1, HoldsSucceed, Committed DEF AuditHolds
<1>2. CASE AuditThrows(w)
  BY <1>1, <1>2, AuditThrowsStep
<1>3. CASE /\ audit' = [audit EXCEPT ![w] = NoAudit]
           /\ IF w = "poll"
              THEN loop' = "drain" /\ stopping' = TRUE /\ UNCHANGED <<task, sender>>
              ELSE Fatal(sender.owner) /\ UNCHANGED loop
  <2>1. CASE w = "poll"
    BY <1>1, <1>3, <2>1, PollAuditEnds
  <2>2. CASE w = "sign"
    BY <1>1, <1>3, <2>2, SignAuditEnds DEF Fatal
  <2> QED BY <2>1, <2>2
<1> QED BY <1>2, <1>3 DEF AuditHolds

\* The audit goes on to its next request.
LEMMA AuditGoesOn ==
  ASSUME RelayInv, NEW w \in {"poll", "sign"}, w = "sign" => sender.pc = "audit", AuditFrame, Keep,
         NEW a, audit' = [audit EXCEPT ![w] = a], UNCHANGED <<task, sender, loop>>
  PROVE  RelayInv'
<1>1. Succeeds(data, data', {}) /\ trouble \subseteq trouble'
  BY KeptAsItIs DEF RelayInv, FilesFit
<1>2. AuditsFit'
  BY DEF RelayInv, AuditsFit
<1> QED BY <1>1, <1>2, WorkerStays DEF AuditFrame, chainVars, hubVars

\* Only the sender that waits for it audits.
LEMMA OwnAudit ==
  ASSUME RelayInv, NEW w \in {"poll", "sign"}, audit[w].pc # "idle"
  PROVE  w = "sign" => sender.pc = "audit"
BY DEF RelayInv, AuditsFit

LEMMA AuditPassesStep ==
  ASSUME RelayInv, NEW w \in {"poll", "sign"}, w = "sign" => sender.pc = "audit", AuditFrame,
         AuditPasses(w)
  PROVE  RelayInv'
<1>1. Succeeds(data, data', {}) /\ trouble \subseteq trouble' /\ data' = data /\ trouble' = trouble
  BY KeptAsItIs DEF RelayInv, FilesFit, AuditPasses, Keep
<1>2. CASE w = "poll"
  BY <1>1, <1>2, PollAuditEnds DEF AuditPasses
<1>3. CASE w = "sign" /\ \E pc \in {"idle", "error"} : Leave(sender.owner, pc)
  BY <1>1, <1>3, SignAuditEnds DEF AuditPasses, Leave
<1>4. CASE /\ w = "sign" /\ sender' = [sender EXCEPT !.pc = "observe"]
           /\ UNCHANGED <<task, stopping>>
  <2>1. sender.owner # 0 /\ sender.pc = "audit"
    BY <1>4, SendingJob
  <2>2. /\ sender \in [owner : Txs \cup {0}, pc : {"idle"} \cup Unsigned \cup Signed,
                       envelope : Envelopes \cup {NoRelay}, seen : BlockIds \cup {NoBlock}]
        /\ sender'.pc = "observe" /\ sender'.owner = sender.owner
        /\ sender' \in [owner : Txs \cup {0}, pc : {"idle"} \cup Unsigned \cup Signed,
                        envelope : Envelopes \cup {NoRelay}, seen : BlockIds \cup {NoBlock}]
    <3>1. sender \in [owner : Txs \cup {0}, pc : {"idle"} \cup Unsigned \cup Signed,
                       envelope : Envelopes \cup {NoRelay}, seen : BlockIds \cup {NoBlock}]
      BY DEF RelayInv, SenderFits
    <3>2. "observe" \in {"idle"} \cup Unsigned \cup Signed
      BY DEF Unsigned
    <3> QED BY <1>4, <3>1, <3>2
  <2>3. "observe" \notin Signed \cup Finishing /\ "audit" \in Unsigned
    BY DEF Signed, Finishing, Unsigned
  <2>4. SenderFits'
    BY <1>1, <2>1, <2>2, <2>3 DEF SenderFits, RelayInv
  <2>5. SenderSees'
    BY <2>2, <2>3 DEF SenderSees
  <2>6. UNCHANGED <<task, loop, backup, blocks, settled, mempool, sent, sourceHash>>
    BY <1>4 DEF AuditPasses, AuditFrame, chainVars, hubVars
  <2>7. TasksFit'
    BY <1>1, <2>2, <2>6 DEF RelayInv, TasksFit
  <2>8. AuditsFit'
    BY <1>4, AuditOver DEF AuditsFit, AuditPasses
  <2>9. ChainsFit' /\ FilesFit'
    BY <1>1, <2>6, FilesStand DEF Delivers
  <2> QED BY <2>4, <2>5, <2>7, <2>8, <2>9 DEF RelayInv
<1> QED BY <1>2, <1>3, <1>4 DEF AuditPasses

LEMMA AuditStepKeeps ==
  ASSUME RelayInv, NEW w \in {"poll", "sign"}, AuditStep(w)
  PROVE  RelayInv'
<1>1. CASE AuditBegin(w)
  <2>1. (w = "sign" => sender.pc = "audit") /\ AuditFrame
    BY <1>1 DEF AuditBegin
  <2>2. CASE Keep /\ AuditThrows(w)
    BY <2>1, <2>2, KeptAsItIs, AuditThrowsStep DEF RelayInv, FilesFit
  <2>3. CASE AuditHolds(w)
    BY <2>1, <2>3, AuditHoldsStep
  <2>4. CASE /\ audit' = [audit EXCEPT ![w].pc = "receipts", ![w].evidence = Evidence(data)]
             /\ Keep /\ UNCHANGED <<task, sender, loop, stopping>>
    <3>1. audit' = [audit EXCEPT ![w] = audit'[w]]
      BY <2>4 DEF RelayInv, AuditsFit
    <3> QED BY <2>1, <2>4, <3>1, AuditGoesOn
  <2> QED BY <1>1, <2>2, <2>3, <2>4 DEF AuditBegin
<1>2. CASE AuditReceipts(w)
  <2>1. (w = "sign" => sender.pc = "audit") /\ AuditFrame
    BY <1>2, OwnAudit DEF AuditReceipts
  <2>2. CASE AuditHolds(w)
    BY <2>1, <2>2, AuditHoldsStep
  <2>3. CASE /\ audit' = [audit EXCEPT ![w].pc = "counts"]
             /\ Keep /\ UNCHANGED <<task, sender, loop, stopping>>
    <3>1. audit' = [audit EXCEPT ![w] = [audit[w] EXCEPT !.pc = "counts"]]
      BY <2>3
    <3> QED BY <2>1, <2>3, <3>1, AuditGoesOn
  <2> QED BY <1>2, <2>2, <2>3 DEF AuditReceipts
<1>3. CASE AuditCount(w)
  <2>1. (w = "sign" => sender.pc = "audit") /\ AuditFrame
    BY <1>3, OwnAudit DEF AuditCount
  <2>2. \E a : audit' = [audit EXCEPT ![w] = a]
    <3>1. CASE audit' = [audit EXCEPT ![w].latest = LatestNonce]
      <4>1. audit' = [audit EXCEPT ![w] = [audit[w] EXCEPT !.latest = LatestNonce]]
        BY <3>1
      <4> QED BY <4>1
    <3>2. CASE audit' = [audit EXCEPT ![w].pending = PendingNonce]
      <4>1. audit' = [audit EXCEPT ![w] = [audit[w] EXCEPT !.pending = PendingNonce]]
        BY <3>2
      <4> QED BY <4>1
    <3> QED BY <1>3, <3>1, <3>2 DEF AuditCount
  <2> QED BY <1>3, <2>1, <2>2, AuditGoesOn DEF AuditCount
<1>4. CASE AuditEnd(w)
  <2>1. (w = "sign" => sender.pc = "audit") /\ AuditFrame
    BY <1>4, OwnAudit DEF AuditEnd
  <2>2. (Keep /\ AuditThrows(w)) \/ AuditHolds(w) \/ AuditPasses(w)
    BY <1>4 DEF AuditEnd
  <2>3. CASE Keep /\ AuditThrows(w)
    BY <2>1, <2>3, KeptAsItIs, AuditThrowsStep DEF RelayInv, FilesFit
  <2> QED BY <2>1, <2>2, <2>3, AuditHoldsStep, AuditPassesStep
<1> QED BY <1>1, <1>2, <1>3, <1>4 DEF AuditStep

-----------------------------------------------------------------------------
(***************************************************************************)
(* The sender.                                                             *)
(***************************************************************************)
\* Its step ends, and the file stays.
LEMMA SenderReturns ==
  ASSUME RelayInv, TaskFrame, sender.pc \notin {"idle", "audit"}, Keep,
         \/ Fatal(sender.owner) \/ Leave(sender.owner, "idle") \/ Leave(sender.owner, "error")
  PROVE  RelayInv'
<1> DEFINE t == sender.owner
<1>1. t \in Txs /\ task[t] # "idle" /\ t \in Pending(data) /\ StateFits(data)
  BY SendingJob
<1>2. Succeeds(data, data', {t}) /\ trouble \subseteq trouble' /\ t \in Pending(data')
  BY <1>1, KeptAsItIs DEF Keep
<1> HIDE DEF t
<1>3. Fatal(t) \/ Leave(t, "idle") \/ (Leave(t, "error") /\ t \in Pending(data'))
  BY <1>2 DEF t
<1> QED BY <1>1, <1>2, <1>3, TaskEnds

LEMMA SenderTyped ==
  ASSUME RelayInv
  PROVE  /\ sender.owner \in Txs \cup {0} /\ sender.pc \in {"idle"} \cup Unsigned \cup Signed
         /\ sender.envelope \in Envelopes \cup {NoRelay} /\ sender.seen \in BlockIds \cup {NoBlock}
BY DEF RelayInv, SenderFits

\* A block of the chain has an identity.
LEMMA BlockIdTyped ==
  ASSUME ChainsFit, NEW i \in 1 .. Len(blocks)
  PROVE  /\ BlockId(i) \in BlockIds /\ BlockId(i)[1] = i /\ BlockId(i)[3] = blocks[i].success
         /\ blocks[i].success \in BOOLEAN
<1>1. blocks[i] \in RelayBlocks /\ i \in Nat
  BY DEF ChainsFit
<1>2. blocks[i].fork \in BOOLEAN /\ blocks[i].success \in BOOLEAN
  BY <1>1 DEF RelayBlocks
<1> QED BY <1>1, <1>2 DEF BlockId, BlockIds

LEMMA ObserveStep ==
  ASSUME RelayInv, Observe PROVE RelayInv'
<1>1. sender.pc = "observe" /\ Keep /\ TaskFrame
  BY DEF Observe, At
<1>2. sender.owner # 0 /\ audit["sign"].pc = "idle"
  BY <1>1, SendingJob
<1>3. UNCHANGED <<loop, audit, backup, blocks, settled, mempool, sent, sourceHash, data, trouble>>
  BY <1>1 DEF Keep, TaskFrame, chainVars, hubVars
<1>4. /\ "observe" \in Unsigned /\ "guardSign" \in Unsigned /\ "guardSkip" \in Unsigned
      /\ "guardSign" \notin Signed \cup Finishing /\ "guardSkip" \notin Signed \cup Finishing
  BY DEF Unsigned, Signed, Finishing
<1>5. CASE Advance("guardSign", NoRelay, NoBlock)
  <2>1. sender'.pc = "guardSign"
    BY <1>5 DEF Advance, RelayInv, SenderFits
  <2>2. SenderSees'
    BY <1>4, <2>1 DEF SenderSees
  <2> QED BY <1>1, <1>2, <1>3, <1>4, <1>5, <2>2, SenderGoesOn DEF Delivers
<1>6. CASE Processed(sender.owner, settled) /\ Advance("guardSkip", NoRelay, BlockId(settled))
  <2>1. sender'.pc = "guardSkip" /\ sender'.owner = sender.owner
    BY <1>6 DEF Advance, RelayInv, SenderFits
  <2>2. SenderSees'
    <3>1. Processed(sender.owner, settled)'
      BY <1>3, <1>6, <2>1 DEF Processed
    <3> QED BY <1>4, <2>1, <3>1 DEF SenderSees
  <2>3. BlockId(settled) \in BlockIds
    <3>1. settled \in 1 .. Len(blocks)
      BY <1>6 DEF Processed, RelayInv, ChainsFit
    <3> QED BY <3>1, BlockIdTyped DEF RelayInv
  <2> QED BY <1>1, <1>2, <1>3, <1>4, <1>6, <2>2, <2>3, SenderGoesOn DEF Delivers
<1>7. CASE Return
  BY <1>1, <1>7, SenderReturns DEF Return
<1> QED BY <1>5, <1>6, <1>7 DEF Observe

LEMMA GuardStep ==
  ASSUME RelayInv, Guard PROVE RelayInv'
<1>1. sender.pc \in {"guardSkip", "guardSign", "guardReserve", "guardSend", "guardFinish"} /\ TaskFrame
  BY DEF Guard, Guards
<1>2. /\ sender.owner \in Txs /\ sender.owner # 0 /\ task[sender.owner] # "idle"
      /\ sender.pc # "audit" /\ audit["sign"].pc = "idle"
  BY <1>1, SendingJob
<1>3. CASE SourceGuardThrows(sender.owner)
  BY <1>1, <1>2, <1>3, GuardThrows
<1>4. CASE Keep /\ Advance(Guards[sender.pc], sender.envelope, sender.seen)
  <2> DEFINE pc == Guards[sender.pc]
  <2>1. \/ sender.pc = "guardSkip" /\ pc = "recheck"
        \/ sender.pc = "guardSign" /\ pc = "sign"
        \/ sender.pc = "guardReserve" /\ pc = "reserve"
        \/ sender.pc = "guardSend" /\ pc = "broadcast"
        \/ sender.pc = "guardFinish" /\ pc = "confirm"
    BY <1>1 DEF Guards
  <2> HIDE DEF pc
  <2>2. /\ pc \in Unsigned \cup Signed /\ (pc \in Unsigned => sender.pc \in Unsigned)
        /\ (pc \in Signed => sender.pc \in Signed)
        /\ (pc \in {"guardReserve", "reserve"} => sender.pc \in {"guardReserve", "reserve"})
        /\ (pc \in Finishing => sender.pc \in Finishing)
        /\ (pc \in {"guardSkip", "recheck"} => sender.pc \in {"guardSkip", "recheck"})
        /\ pc \notin {"lastReceipt", "finish"}
    BY <2>1 DEF Unsigned, Signed, Finishing
  <2>3. sender' = [sender EXCEPT !.pc = pc, !.envelope = sender.envelope, !.seen = sender.seen]
    BY <1>4 DEF Advance, pc
  <2>4. /\ sender'.pc = pc /\ sender'.owner = sender.owner /\ sender'.seen = sender.seen
    BY <2>3 DEF RelayInv, SenderFits
  <2>5. UNCHANGED <<loop, audit, backup, blocks, settled, mempool, sent, sourceHash, data, trouble>>
    BY <1>1, <1>4 DEF Keep, TaskFrame, chainVars, hubVars
  <2>6. SenderSees'
    <3>1. StillMined => StillMined'
      BY <2>4, <2>5 DEF StillMined, BlockId
    <3>2. Processed(sender.owner, settled) => Processed(sender.owner, settled)'
      BY <2>4, <2>5 DEF Processed
    <3> QED BY <2>2, <2>4, <2>5, <3>1, <3>2 DEF RelayInv, SenderSees
  <2>7. /\ (pc \in {"guardReserve", "reserve"} =>
             sender.envelope \in Envelopes /\ sender.envelope.source = sender.owner)
        /\ (pc \in Finishing => sender.seen \in BlockIds)
    BY <2>2 DEF RelayInv, SenderFits
  <2>8. Advance(pc, sender.envelope, sender.seen)
    BY <1>4 DEF pc
  <2> QED BY <1>2, <1>4, <2>2, <2>5, <2>6, <2>7, <2>8, SenderTyped, SenderGoesOn DEF Delivers
<1> QED BY <1>3, <1>4 DEF Guard

LEMMA RecheckStep ==
  ASSUME RelayInv, Recheck PROVE RelayInv'
<1>1. sender.pc = "recheck" /\ TaskFrame
  BY DEF Recheck, At
<1> DEFINE t == sender.owner
           next == Skipped(data, t, sender.seen)
<1>2. /\ t \in Txs /\ t # 0 /\ task[t] # "idle" /\ t \in Pending(data) /\ StateFits(data)
      /\ sender.pc # "audit"
  BY <1>1, SendingJob
<1>3. CASE Keep /\ (Return \/ Leave(sender.owner, "error") \/ Fatal(sender.owner))
  BY <1>1, <1>3, SenderReturns DEF Return
<1>4. CASE ("rollback" \notin trouble => Processed(t, settled))
           /\ (Commit(next) \/ CommitFails(next)) /\ (Return \/ Fatal(sender.owner))
  <2>1. data.relay = NoRelay /\ sender.seen \in BlockIds \cup {NoBlock}
    BY <1>1, SenderTyped DEF RelayInv, SenderFits, Unsigned
  <2>2. Succeeds(data, next, {t})
    BY <1>2, <1>4, <2>1, SkippedSucceeds
  <2> HIDE DEF next
  <2>3. Succeeds(data, data', {t}) /\ trouble \subseteq trouble'
    BY <1>2, <1>4, <2>2, Committed
  <2> QED BY <1>1, <1>2, <1>4, <2>3, TaskEnds DEF Return
<1> QED BY <1>1, <1>3, <1>4 DEF Recheck, RelayInv, SenderSees

LEMMA SignStep ==
  ASSUME RelayInv, Sign PROVE RelayInv'
<1> DEFINE e == [source |-> sender.owner, nonce |-> PendingNonce, hash |-> Cardinality(sent) + 1]
<1>1. /\ sender.pc = "sign" /\ Keep /\ TaskFrame /\ Advance("guardReserve", e, NoBlock)
  BY DEF Sign, At
<1>2. sender.owner # 0 /\ sender.owner \in Txs /\ audit["sign"].pc = "idle"
  BY <1>1, SendingJob
<1>3. e \in Envelopes /\ e.source = sender.owner
  <2>1. PendingNonce \in Nat
    BY NoncesAreNumbers DEF RelayInv
  <2>2. Cardinality(sent) \in Nat
    BY FS_CardinalityType DEF RelayInv, ChainsFit
  <2> QED BY <1>2, <2>1, <2>2 DEF Envelopes
<1> HIDE DEF e
<1>4. /\ "guardReserve" \in Unsigned /\ "sign" \in Unsigned
      /\ "guardReserve" \notin Signed \cup Finishing \cup {"guardSkip", "recheck", "lastReceipt", "finish"}
  BY DEF Unsigned, Signed, Finishing
<1>5. sender'.pc = "guardReserve"
  BY <1>1 DEF Advance, RelayInv, SenderFits
<1>6. SenderSees'
  BY <1>4, <1>5 DEF SenderSees
<1>7. UNCHANGED <<loop, audit, backup, blocks, settled, mempool, sent, sourceHash>>
  BY <1>1 DEF TaskFrame, chainVars, hubVars
<1> QED BY <1>1, <1>2, <1>3, <1>4, <1>6, <1>7, SenderGoesOn DEF Delivers

\* The signature is saved, or the write failed and the worker stops.
LEMMA ReserveStep ==
  ASSUME RelayInv, Reserve PROVE RelayInv'
<1> DEFINE t == sender.owner
           next == ReserveRelay(data, sender.envelope)
<1>1. sender.pc = "reserve" /\ TaskFrame
  BY DEF Reserve, At
<1>2. /\ t \in Txs /\ t # 0 /\ task[t] = "sending" /\ t \in Pending(data) /\ StateFits(data)
      /\ audit["sign"].pc = "idle"
  BY <1>1, SendingJob
<1>3. CASE Keep /\ (Fatal(t) \/ Leave(t, "error"))
  BY <1>1, <1>3, SenderReturns
<1>4. CASE /\ MayReserve(data, sender.envelope)
           /\ \/ Commit(next) /\ Advance("receipt", NoRelay, NoBlock)
              \/ CommitFails(next) /\ Fatal(t)
  <2>1. sender.envelope \in Envelopes /\ sender.envelope.source = t /\ data.relay = NoRelay
    BY <1>1 DEF RelayInv, SenderFits, Unsigned
  <2>2. /\ StateFits(next) /\ next.relay = sender.envelope /\ Pending(data) \subseteq Pending(next)
        /\ \A f \in Envelopes : OnRecord(data, f) => OnRecord(next, f)
        /\ AllBacked(data) => AllBacked(next)
    BY <1>2, <1>4, <2>1, ReserveKeeps
  <2> HIDE DEF next
  <2>3. UNCHANGED <<loop, audit, backup, blocks, settled, mempool, sent, sourceHash>>
    BY <1>1 DEF TaskFrame, chainVars, hubVars
  <2>4. data' \in {data, next} /\ trouble \subseteq trouble'
    BY <1>4 DEF Commit, CommitFails, Meets
  <2>5. ChainsFit'
    BY <2>3 DEF RelayInv, ChainsFit
  <2>6. FilesFit'
    <3>1. StateFits(data)' /\ StateFits(backup)'
      BY <1>2, <2>2, <2>3, <2>4 DEF RelayInv, FilesFit
    <3>2. ASSUME "rollback" \notin trouble'
          PROVE  AllBacked(data)' /\ AllBacked(backup)'
      <4>1. AllBacked(data') /\ AllBacked(backup)
        BY <2>2, <2>4, <3>2 DEF RelayInv, FilesFit
      <4> QED BY <2>3, <4>1 DEF AllBacked, Backed, Processed
    <3>3. ASSUME "restore" \notin trouble'
          PROVE  \A f \in sent' : OnRecord(data, f)'
      <4>1. \A f \in sent : OnRecord(data, f) /\ f \in Envelopes
        BY <2>4, <3>3 DEF RelayInv, FilesFit, ChainsFit
      <4>2. \A f \in sent : OnRecord(data', f)
        BY <2>2, <2>4, <4>1
      <4> QED BY <2>3, <4>2
    <3> QED BY <3>1, <3>2, <3>3 DEF FilesFit
  <2>7. AuditsFit'
    BY <1>2, <2>3 DEF RelayInv, AuditsFit
  <2>8. Pending(data) \subseteq Pending(data') /\ (data'.relay # NoRelay => data'.relay.source = t)
    BY <2>1, <2>2, <2>4
  <2>9. \A u \in Txs : u # t /\ Owner(data) # u => Owner(data') # u
    BY <1>2, <2>1, <2>8, TxsAssumption DEF Owner
  <2>10. CASE Commit(next) /\ Advance("receipt", NoRelay, NoBlock)
    <3>1. /\ sender' = [sender EXCEPT !.pc = "receipt", !.envelope = NoRelay, !.seen = NoBlock]
          /\ task' = task /\ data' = next
      BY <2>10 DEF Advance, Commit
    <3>2. sender \in [owner : Txs \cup {0}, pc : {"idle"} \cup Unsigned \cup Signed,
                      envelope : Envelopes \cup {NoRelay}, seen : BlockIds \cup {NoBlock}]
      BY DEF RelayInv, SenderFits
    <3>3. /\ sender'.owner = t /\ sender'.pc = "receipt"
          /\ "receipt" \in Signed /\ "receipt" \notin Unsigned \cup Finishing
      BY <3>1, <3>2 DEF Signed, Unsigned, Finishing
    <3>4. sender' \in [owner : Txs \cup {0}, pc : {"idle"} \cup Unsigned \cup Signed,
                       envelope : Envelopes \cup {NoRelay}, seen : BlockIds \cup {NoBlock}]
      BY <3>1, <3>2, <3>3
    <3>5. data'.relay # NoRelay /\ data'.relay.source = t
      BY <2>1, <2>2, <3>1, RelayAssumption
    <3>6. SenderFits'
      BY <1>2, <3>3, <3>4, <3>5 DEF SenderFits, Unsigned
    <3>7. SenderSees'
      BY <3>3 DEF SenderSees, Finishing
    <3>8. TasksFit'
      <4>1. task' \in [Txs -> TaskSteps] /\ "sending" \notin Early
        BY <3>1 DEF RelayInv, TasksFit, Early
      <4>2. ASSUME NEW u \in Txs
            PROVE  /\ task'[u] # "idle" => u \in Pending(data') /\ loop' # "down"
                   /\ task'[u] = "sending" <=> sender'.owner = u
                   /\ task'[u] \in Early => Owner(data') # u
        BY <1>2, <2>3, <2>8, <2>9, <3>1, <3>3, <4>1 DEF RelayInv, TasksFit
      <4> QED BY <4>1, <4>2 DEF TasksFit
    <3> QED BY <2>5, <2>6, <2>7, <3>6, <3>7, <3>8 DEF RelayInv
  <2>11. CASE CommitFails(next) /\ Fatal(t)
    <3>1. task' = [task EXCEPT ![t] = "idle"] /\ sender' = NoSender
      BY <2>11 DEF Fatal, Goto, Release
    <3>2. /\ sender' = [owner |-> 0, pc |-> "idle", envelope |-> NoRelay, seen |-> NoBlock]
          /\ sender'.pc = "idle" /\ sender'.owner = 0
          /\ "idle" \notin Unsigned \cup Signed \cup Finishing \cup {"guardReserve", "reserve"}
      BY <3>1 DEF NoSender, Unsigned, Signed, Finishing
    <3>3. SenderFits' /\ SenderSees'
      BY <3>2 DEF SenderFits, SenderSees
    <3>4. TasksFit'
      <4>1. task' \in [Txs -> TaskSteps]
        BY <3>1 DEF RelayInv, TasksFit, TaskSteps
      <4>2. ASSUME NEW u \in Txs
            PROVE  /\ task'[u] # "idle" => u \in Pending(data') /\ loop' # "down"
                   /\ task'[u] = "sending" <=> sender'.owner = u
                   /\ task'[u] \in Early => Owner(data') # u
        <5>1. u # 0 /\ task \in [Txs -> TaskSteps]
          BY TxsAssumption DEF RelayInv, TasksFit
        <5>2. CASE u = t
          BY <3>1, <3>2, <5>1, <5>2 DEF Early
        <5>3. CASE u # t
          BY <1>2, <2>3, <2>8, <2>9, <3>1, <3>2, <5>1, <5>3 DEF RelayInv, TasksFit
        <5> QED BY <5>2, <5>3
      <4> QED BY <4>1, <4>2 DEF TasksFit
    <3> QED BY <2>5, <2>6, <2>7, <3>3, <3>4 DEF RelayInv
  <2> QED BY <1>4, <2>10, <2>11
<1> QED BY <1>3, <1>4 DEF Reserve

\* A receipt that counts is of a trusted block.
LEMMA ReceiptIsTrusted ==
  ASSUME ChainsFit, Receipt # NoBlock
  PROVE  \E i \in 1 .. settled :
           Receipt = BlockId(i) /\ blocks[i].hash = data.relay.hash /\ i \in 1 .. Len(blocks)
<1> DEFINE i == MinedIn(data.relay.hash)
<1>1. i \in 1 .. settled /\ Receipt = BlockId(i)
  BY DEF Receipt
<1>2. settled \in Nat /\ Len(blocks) \in Nat /\ settled <= Len(blocks)
  BY DEF ChainsFit
<1>3. blocks[i].hash = data.relay.hash
  <2>1. CASE \E n \in DOMAIN blocks : blocks[n].hash = data.relay.hash
    BY <2>1 DEF MinedIn
  <2>2. CASE ~ \E n \in DOMAIN blocks : blocks[n].hash = data.relay.hash
    BY <1>1, <1>2, <2>2 DEF MinedIn
  <2> QED BY <2>1, <2>2
<1> QED BY <1>1, <1>2, <1>3

LEMMA ReadReceiptStep ==
  ASSUME RelayInv, ReadReceipt PROVE RelayInv'
<1>1. sender.pc \in {"receipt", "receiptAgain"} /\ Keep /\ TaskFrame
  BY DEF ReadReceipt
<1>2. sender.owner # 0 /\ audit["sign"].pc = "idle"
  BY <1>1, SendingJob
<1>3. UNCHANGED <<loop, audit, backup, blocks, settled, mempool, sent, sourceHash, data, trouble>>
  BY <1>1 DEF Keep, TaskFrame, chainVars, hubVars
<1>4. /\ {"receipt", "receiptAgain", "guardSend", "guardFinish"} \subseteq Signed
      /\ {"guardSend", "guardFinish"} \cap (Unsigned \cup {"guardSkip", "recheck", "lastReceipt", "finish"}) = {}
      /\ "guardSend" \notin Finishing
  BY DEF Unsigned, Signed, Finishing
<1>5. CASE Receipt # NoBlock /\ Advance("guardFinish", NoRelay, Receipt)
  <2>1. PICK i \in 1 .. settled :
          Receipt = BlockId(i) /\ blocks[i].hash = data.relay.hash /\ i \in 1 .. Len(blocks)
    BY <1>5, ReceiptIsTrusted DEF RelayInv
  <2>2. Receipt \in BlockIds /\ Receipt[1] = i
    BY <2>1, BlockIdTyped DEF RelayInv
  <2>3. sender'.pc = "guardFinish" /\ sender'.seen = Receipt
    BY <1>5 DEF Advance, RelayInv, SenderFits
  <2>4. StillMined'
    BY <1>3, <2>1, <2>2, <2>3 DEF StillMined, BlockId
  <2>5. SenderSees'
    BY <1>4, <2>3, <2>4 DEF SenderSees
  <2> QED BY <1>1, <1>2, <1>3, <1>4, <1>5, <2>2, <2>5, SenderGoesOn DEF Delivers
<1>6. CASE Advance("guardSend", NoRelay, NoBlock)
  <2>1. sender'.pc = "guardSend"
    BY <1>6 DEF Advance, RelayInv, SenderFits
  <2>2. SenderSees'
    BY <1>4, <2>1 DEF SenderSees
  <2> QED BY <1>1, <1>2, <1>3, <1>4, <1>6, <2>2, SenderGoesOn DEF Delivers
<1>7. CASE Return
  BY <1>1, <1>7, SenderReturns DEF Return
<1> QED BY <1>5, <1>6, <1>7 DEF ReadReceipt

LEMMA ConfirmStep ==
  ASSUME RelayInv, Confirm PROVE RelayInv'
<1>1. sender.pc = "confirm" /\ Keep /\ TaskFrame
  BY DEF Confirm, At
<1>2. sender.owner # 0 /\ audit["sign"].pc = "idle"
  BY <1>1, SendingJob
<1>3. UNCHANGED <<loop, audit, backup, blocks, settled, mempool, sent, sourceHash, data, trouble>>
  BY <1>1 DEF Keep, TaskFrame, chainVars, hubVars
<1>4. /\ "confirm" \in Signed \cap Finishing /\ "lastReceipt" \in Signed \cap Finishing
      /\ "lastReceipt" \notin Unsigned \cup {"guardSkip", "recheck"}
  BY DEF Unsigned, Signed, Finishing
<1>5. CASE ~(sender.seen[3] /\ ~Processed(sender.owner, sender.seen[1]))
           /\ Advance("lastReceipt", NoRelay, sender.seen)
  <2>1. sender'.pc = "lastReceipt" /\ sender'.seen = sender.seen /\ sender'.owner = sender.owner
    BY <1>5 DEF Advance, RelayInv, SenderFits
  <2>2. sender.seen \in BlockIds
    BY <1>1, <1>4 DEF RelayInv, SenderFits
  <2>3. SenderSees'
    <3>1. StillMined => StillMined'
      BY <1>3, <2>1 DEF StillMined, BlockId
    <3>2. sender.seen[3] => Processed(sender.owner, sender.seen[1])'
      BY <1>3, <1>5, <2>1 DEF Processed
    <3> QED BY <1>1, <1>3, <1>4, <2>1, <3>1, <3>2 DEF SenderSees, RelayInv
  <2> QED BY <1>1, <1>2, <1>3, <1>4, <1>5, <2>2, <2>3, SenderGoesOn DEF Delivers
<1>6. CASE Leave(sender.owner, "error")
  BY <1>1, <1>6, SenderReturns
<1> QED BY <1>5, <1>6 DEF Confirm

LEMMA ReadLastReceiptStep ==
  ASSUME RelayInv, ReadLastReceipt PROVE RelayInv'
<1>1. sender.pc = "lastReceipt" /\ Keep /\ TaskFrame
  BY DEF ReadLastReceipt, At
<1>2. sender.owner # 0 /\ audit["sign"].pc = "idle"
  BY <1>1, SendingJob
<1>3. UNCHANGED <<loop, audit, backup, blocks, settled, mempool, sent, sourceHash, data, trouble>>
  BY <1>1 DEF Keep, TaskFrame, chainVars, hubVars
<1>4. /\ "lastReceipt" \in Signed \cap Finishing /\ "finish" \in Signed \cap Finishing
      /\ "finish" \notin Unsigned \cup {"guardSkip", "recheck"}
  BY DEF Unsigned, Signed, Finishing
<1>5. CASE Advance("finish", NoRelay, sender.seen)
  <2>1. sender'.pc = "finish" /\ sender'.seen = sender.seen /\ sender'.owner = sender.owner
    BY <1>5 DEF Advance, RelayInv, SenderFits
  <2>2. sender.seen \in BlockIds
    BY <1>1, <1>4 DEF RelayInv, SenderFits
  <2>3. SenderSees'
    <3>1. StillMined => StillMined'
      BY <1>3, <2>1 DEF StillMined, BlockId
    <3>2. Processed(sender.owner, sender.seen[1]) => Processed(sender.owner, sender.seen[1])'
      BY <1>3, <2>1 DEF Processed
    <3> QED BY <1>1, <1>3, <1>4, <2>1, <3>1, <3>2 DEF SenderSees, RelayInv
  <2> QED BY <1>1, <1>2, <1>3, <1>4, <1>5, <2>2, <2>3, SenderGoesOn DEF Delivers
<1>6. CASE Return
  BY <1>1, <1>6, SenderReturns DEF Return
<1> QED BY <1>5, <1>6 DEF ReadLastReceipt

\* The stored envelope is sent, whether or not it arrives.
LEMMA BroadcastStep ==
  ASSUME RelayInv, Broadcast PROVE RelayInv'
<1>1. /\ sender.pc = "broadcast"
      /\ UNCHANGED <<loop, audit, backup, sourceHash>>
  BY DEF Broadcast, At, chainVars
<1>2. /\ sender.owner # 0 /\ sender.owner \in Txs /\ task[sender.owner] # "idle"
      /\ sender.owner \in Pending(data) /\ StateFits(data) /\ audit["sign"].pc = "idle"
  BY <1>1, SendingJob
<1>3. /\ {"broadcast", "receiptAgain"} \subseteq Signed
      /\ "receiptAgain" \notin Unsigned \cup Finishing \cup {"guardSkip", "recheck", "lastReceipt", "finish"}
  BY DEF Unsigned, Signed, Finishing
<1>4. Delivers /\ UNCHANGED <<blocks, settled>>
  <2>1. data.relay # NoRelay
    BY <1>1, <1>3 DEF RelayInv, SenderFits
  <2> QED BY <2>1 DEF Broadcast, Delivers, Deliver, hubVars
<1>5. /\ Keep \/ CommitFails(data)
      /\ \/ Fatal(sender.owner)
         \/ Keep /\ Advance("receiptAgain", NoRelay, NoBlock)
  BY DEF Broadcast, Commit, Keep
<1>6. Succeeds(data, data', {sender.owner}) /\ trouble \subseteq trouble'
  BY <1>2, <1>5, SameSucceeds, Committed, KeptAsItIs
<1>7. CASE Fatal(sender.owner)
  <2>1. DOMAIN audit' = {"poll", "sign"} /\ audit' = [w \in {"poll", "sign"} |-> audit'[w]]
        /\ audit'["sign"].pc = "idle"
    BY <1>1, <1>2 DEF RelayInv, AuditsFit
  <2>2. Goto(sender.owner, "idle") /\ Release(sender.owner)
    BY <1>7 DEF Fatal
  <2> QED BY <1>1, <1>2, <1>4, <1>6, <2>1, <2>2, TaskLeaves
<1>8. CASE Keep /\ Advance("receiptAgain", NoRelay, NoBlock)
  <2>1. sender'.pc = "receiptAgain"
    BY <1>8 DEF Advance, RelayInv, SenderFits
  <2>2. SenderSees'
    BY <1>3, <2>1 DEF SenderSees
  <2> QED BY <1>1, <1>2, <1>3, <1>4, <1>8, <2>2, SenderGoesOn
<1> QED BY <1>5, <1>7, <1>8

\* The envelope's outcome is saved, or the write failed and the worker stops.
LEMMA FinishStep ==
  ASSUME RelayInv, Finish PROVE RelayInv'
<1> DEFINE t == sender.owner
           next == FinishRelay(data, sender.seen, sender.seen[3])
<1>1. sender.pc = "finish" /\ TaskFrame
  BY DEF Finish, At
<1>2. /\ t \in Txs /\ t # 0 /\ task[t] = "sending" /\ t \in Pending(data) /\ StateFits(data)
      /\ audit["sign"].pc = "idle"
  BY <1>1, SendingJob
<1>3. CASE Keep /\ (Return \/ Fatal(t) \/ Leave(t, "error"))
  BY <1>1, <1>3, SenderReturns DEF Return
<1>4. CASE (Commit(next) \/ CommitFails(next)) /\ (Return \/ Fatal(t))
  <2>1. /\ data.relay # NoRelay /\ data.relay.source = t /\ sender.seen \in BlockIds
        /\ sender.seen[3] \in BOOLEAN
    BY <1>1 DEF RelayInv, SenderFits, Signed, Finishing, BlockIds
  <2>2. ASSUME "rollback" \notin trouble
        PROVE  /\ \E i \in 1 .. settled :
                    blocks[i].hash = data.relay.hash /\ blocks[i].success = sender.seen[3]
               /\ sender.seen[3] => Processed(data.relay.source, settled)
    <3>1. StillMined /\ (sender.seen[3] => Processed(t, sender.seen[1]))
      BY <1>1, <2>2 DEF RelayInv, SenderSees, Finishing
    <3>2. sender.seen[1] \in 1 .. settled /\ blocks[sender.seen[1]].hash = data.relay.hash
      BY <3>1 DEF StillMined
    <3>3. settled \in Nat /\ settled <= Len(blocks) /\ Len(blocks) \in Nat
      BY DEF RelayInv, ChainsFit
    <3>4. blocks[sender.seen[1]].success = sender.seen[3]
      BY <3>1, <3>2, <3>3, BlockIdTyped DEF RelayInv, StillMined
    <3>5. sender.seen[3] => Processed(t, settled)
      BY <3>1, <3>2, <3>3 DEF Processed
    <3> QED BY <2>1, <3>2, <3>4, <3>5
  <2>3. /\ StateFits(next) /\ next.relay = NoRelay /\ Pending(data) \ {t} \subseteq Pending(next)
        /\ \A f \in Envelopes : OnRecord(data, f) => OnRecord(next, f)
        /\ "rollback" \notin trouble /\ AllBacked(data) => AllBacked(next)
    BY <1>2, <2>1, <2>2, FinishKeeps
  <2> HIDE DEF next
  <2>4. UNCHANGED <<loop, audit, backup, blocks, settled, mempool, sent, sourceHash>>
    BY <1>1 DEF TaskFrame, chainVars, hubVars
  <2>5. data' \in {data, next} /\ trouble \subseteq trouble'
    BY <1>4 DEF Commit, CommitFails, Meets
  <2>6. ChainsFit'
    BY <2>4 DEF RelayInv, ChainsFit
  <2>7. FilesFit'
    <3>1. StateFits(data)' /\ StateFits(backup)'
      BY <1>2, <2>3, <2>4, <2>5 DEF RelayInv, FilesFit
    <3>2. ASSUME "rollback" \notin trouble'
          PROVE  AllBacked(data)' /\ AllBacked(backup)'
      <4>1. AllBacked(data') /\ AllBacked(backup)
        BY <2>3, <2>5, <3>2 DEF RelayInv, FilesFit
      <4> QED BY <2>4, <4>1 DEF AllBacked, Backed, Processed
    <3>3. ASSUME "restore" \notin trouble'
          PROVE  \A f \in sent' : OnRecord(data, f)'
      <4>1. \A f \in sent : OnRecord(data, f) /\ f \in Envelopes
        BY <2>5, <3>3 DEF RelayInv, FilesFit, ChainsFit
      <4>2. \A f \in sent : OnRecord(data', f)
        BY <2>3, <2>5, <4>1
      <4> QED BY <2>4, <4>2
    <3> QED BY <3>1, <3>2, <3>3 DEF FilesFit
  <2>8. AuditsFit'
    BY <1>2, <2>4 DEF RelayInv, AuditsFit
  <2>9. Pending(data) \ {t} \subseteq Pending(data') /\ Owner(data') \in {Owner(data), 0}
    BY <2>3, <2>5 DEF Owner
  <2>10. task' = [task EXCEPT ![t] = "idle"] /\ sender' = NoSender
    BY <1>4 DEF Return, Leave, Fatal, Goto, Release
  <2>11. /\ sender' = [owner |-> 0, pc |-> "idle", envelope |-> NoRelay, seen |-> NoBlock]
         /\ sender'.pc = "idle" /\ sender'.owner = 0
         /\ "idle" \notin Unsigned \cup Signed \cup Finishing \cup {"guardReserve", "reserve"}
    BY <2>10 DEF NoSender, Unsigned, Signed, Finishing
  <2>12. SenderFits' /\ SenderSees'
    BY <2>11 DEF SenderFits, SenderSees
  <2>13. TasksFit'
    <3>1. task' \in [Txs -> TaskSteps]
      BY <2>10 DEF RelayInv, TasksFit, TaskSteps
    <3>2. ASSUME NEW u \in Txs
          PROVE  /\ task'[u] # "idle" => u \in Pending(data') /\ loop' # "down"
                 /\ task'[u] = "sending" <=> sender'.owner = u
                 /\ task'[u] \in Early => Owner(data') # u
      <4>1. u # 0 /\ task \in [Txs -> TaskSteps]
        BY TxsAssumption DEF RelayInv, TasksFit
      <4>2. CASE u = t
        BY <2>10, <2>11, <4>1, <4>2 DEF Early
      <4>3. CASE u # t
        BY <1>2, <2>4, <2>9, <2>10, <2>11, <4>1, <4>3 DEF RelayInv, TasksFit
      <4> QED BY <4>2, <4>3
    <3> QED BY <3>1, <3>2 DEF TasksFit
  <2> QED BY <2>6, <2>7, <2>8, <2>12, <2>13 DEF RelayInv
<1> QED BY <1>3, <1>4 DEF Finish

-----------------------------------------------------------------------------
(***************************************************************************)
(* The poll loop.                                                          *)
(***************************************************************************)
\* The loop goes on or stops after a commit, and may fill the pool.
LEMMA LoopGoesOn ==
  ASSUME RelayInv, NEW gone, Succeeds(data, data', gone), gone = {} \/ Running = {},
         trouble \subseteq trouble', AuditsFit', loop' # "down",
         task' \in {task, Dispatched(data')},
         UNCHANGED <<sender, backup, blocks, settled, mempool, sent, sourceHash>>
  PROVE  RelayInv'
<1>1. ChainsFit' /\ FilesFit'
  BY FilesStand DEF Delivers
<1>2. SenderFits' /\ SenderSees'
  BY SenderStands DEF Succeeds
<1>3. Owner(data') = Owner(data) /\ Pending(data) \ gone \subseteq Pending(data')
  BY DEF Succeeds, Owner
<1>4. \A u \in Txs : task[u] # "idle" => u \in Pending(data')
  BY <1>3 DEF RelayInv, TasksFit, Running
<1>5. \/ task' = task
      \/ \E ready \in SUBSET (Pending(data') \ Running) :
           task' = [t \in Txs |-> IF t \in ready THEN "start" ELSE task[t]]
  <2>1. JobsReadyForDispatch(data', Running, Capacity - Cardinality(Running))
          \subseteq Pending(data') \ Running
    BY DEF JobsReadyForDispatch
  <2> DEFINE ready == IF stopping THEN {}
                      ELSE JobsReadyForDispatch(data', Running, Capacity - Cardinality(Running))
  <2>2. ready \in SUBSET (Pending(data') \ Running)
    BY <2>1
  <2>3. Dispatched(data') = [t \in Txs |-> IF t \in ready THEN "start" ELSE task[t]]
    BY DEF Dispatched
  <2> HIDE DEF ready
  <2> QED BY <2>2, <2>3
<1>6. TasksFit'
  <2>1. CASE task' = task
    BY <1>3, <1>4, <2>1 DEF RelayInv, TasksFit
  <2>2. ASSUME NEW ready \in SUBSET (Pending(data') \ Running),
               task' = [t \in Txs |-> IF t \in ready THEN "start" ELSE task[t]]
        PROVE  TasksFit'
    <3>1. task' \in [Txs -> TaskSteps]
      BY <2>2 DEF RelayInv, TasksFit, TaskSteps
    <3>2. ASSUME NEW u \in Txs
          PROVE  /\ task'[u] # "idle" => u \in Pending(data') /\ loop' # "down"
                 /\ task'[u] = "sending" <=> sender'.owner = u
                 /\ task'[u] \in Early => Owner(data') # u
      <4>1. CASE u \in ready
        <5>1. task'[u] = "start" /\ task[u] = "idle" /\ u \in Pending(data')
          BY <2>2, <4>1 DEF Running
        <5>2. "start" \notin Early
          BY DEF Early
        <5> QED BY <5>1, <5>2 DEF RelayInv, TasksFit
      <4>2. CASE u \notin ready
        <5>1. task'[u] = task[u]
          BY <2>2, <4>2
        <5> QED BY <1>3, <1>4, <5>1 DEF RelayInv, TasksFit
      <4> QED BY <4>1, <4>2
    <3> QED BY <3>1, <3>2 DEF TasksFit
  <2> QED BY <1>5, <2>1, <2>2
<1> QED BY <1>1, <1>2, <1>6 DEF RelayInv

\* There is a first transaction among those not scanned yet.
LEMMA FirstUnscanned ==
  ASSUME Unscanned # {}
  PROVE  (CHOOSE u \in Unscanned : \A v \in Unscanned : u <= v) \in Unscanned
<1>1. Unscanned \subseteq Nat
  BY TxsAssumption DEF Unscanned
<1>2. PICK u \in Unscanned : \A v \in Unscanned : ~(<<v, u>> \in OpToRel(<, Nat))
  BY <1>1, WFMin, NatLessThanWellFounded
<1>3. \A v \in Unscanned : u <= v
  <2> SUFFICES ASSUME NEW v \in Unscanned, ~(u <= v) PROVE FALSE
    OBVIOUS
  <2>1. v \in Nat /\ u \in Nat /\ v < u
    BY <1>1
  <2>2. <<v, u>> \in {ss \in Nat \X Nat : ss[1] < ss[2]}
    BY <2>1
  <2>3. OpToRel(<, Nat) = {ss \in Nat \X Nat : ss[1] < ss[2]}
    BY DEF OpToRel
  <2> QED BY <1>2, <2>2, <2>3
<1> QED BY <1>3

LEMMA ScanStep ==
  ASSUME RelayInv, Scan PROVE RelayInv'
<1>1. /\ loop = "scan" /\ UNCHANGED <<sender, audit, backup, blocks, settled, mempool, sent, sourceHash>>
  BY DEF Scan, LoopFrame, chainVars, hubVars
<1>2. StateFits(data) /\ AuditsFit'
  BY <1>1 DEF RelayInv, FilesFit, AuditsFit
<1>3. ASSUME NEW next, NEW gone, Succeeds(data, next, gone), gone = {} \/ Running = {}, ScanCommits(next)
      PROVE  RelayInv'
  <2>1. Succeeds(data, data', gone) /\ trouble \subseteq trouble'
    BY <1>2, <1>3, Committed DEF ScanCommits
  <2>2. loop' # "down"
    BY <1>1, <1>3 DEF ScanCommits, StopLoop
  <2>3. task' \in {task, Dispatched(data')}
    BY <1>3 DEF ScanCommits, StopLoop, Commit
  <2> QED BY <1>1, <1>2, <1>3, <2>1, <2>2, <2>3, LoopGoesOn
<1>4. ASSUME Keep, loop' # "down", task' \in {task, Dispatched(data')}
      PROVE  RelayInv'
  <2>1. Succeeds(data, data', {}) /\ trouble \subseteq trouble'
    BY <1>2, <1>4, KeptAsItIs
  <2> QED BY <1>1, <1>2, <1>4, <2>1, LoopGoesOn
<1>5. CASE Orphans # {} /\ ~(Orphans # {} /\ Running # {}) /\ ScanCommits(RewindUnsignedSource(data, Orphans))
  <2>1. Orphans \in SUBSET Jobs(data)
    BY DEF Orphans
  <2> QED BY <1>2, <1>3, <1>5, <2>1, RewindSucceeds
<1>6. CASE /\ Unscanned # {}
           /\ LET t == CHOOSE u \in Unscanned : \A v \in Unscanned : u <= v IN
              ScanCommits(CommitSourceRange(data, t, sourceHash[t]))
  <2> DEFINE t == CHOOSE u \in Unscanned : \A v \in Unscanned : u <= v
  <2>1. t \in Txs \ Jobs(data)
    BY <1>6, FirstUnscanned DEF Unscanned
  <2>2. ScanCommits(CommitSourceRange(data, t, sourceHash[t]))
    BY <1>6
  <2> HIDE DEF t
  <2>3. sourceHash[t] \in Nat
    BY <2>1 DEF RelayInv, ChainsFit
  <2>4. Succeeds(data, CommitSourceRange(data, t, sourceHash[t]), {})
    BY <1>2, <2>1, <2>3, FoundSucceeds
  <2> QED BY <1>3, <2>2, <2>4
<1>7. \/ Keep /\ loop' # "down" /\ task' \in {task, Dispatched(data')}
      \/ Orphans # {} /\ ~(Orphans # {} /\ Running # {}) /\ ScanCommits(RewindUnsignedSource(data, Orphans))
      \/ /\ Unscanned # {}
         /\ LET t == CHOOSE u \in Unscanned : \A v \in Unscanned : u <= v IN
            ScanCommits(CommitSourceRange(data, t, sourceHash[t]))
  <2>1. CASE stopping
    BY <2>1 DEF Scan
  <2>2. CASE ~stopping /\ (data.sourceHold \/ data.hubHold \/ (Orphans # {} /\ Running # {}))
    BY <2>2 DEF Scan, StopLoop
  <2>3. CASE ~stopping /\ ~(data.sourceHold \/ data.hubHold \/ (Orphans # {} /\ Running # {}))
    BY <2>3 DEF Scan, Keep
  <2> QED BY <2>1, <2>2, <2>3
<1> QED BY <1>4, <1>5, <1>6, <1>7

LEMMA LoopStep ==
  ASSUME RelayInv, LoopNext PROVE RelayInv'
<1>1. StateFits(data)
  BY DEF RelayInv, FilesFit
<1>2. CASE Start \/ Poll
  <2>1. /\ Keep /\ loop' # "down" /\ task' = task
        /\ UNCHANGED <<sender, audit, backup, blocks, settled, mempool, sent, sourceHash>>
    BY <1>2 DEF Start, Poll, LoopFrame, chainVars, hubVars
  <2>2. Succeeds(data, data', {}) /\ trouble \subseteq trouble'
    BY <1>1, <2>1, KeptAsItIs
  <2>3. AuditsFit'
    BY <2>1 DEF RelayInv, AuditsFit
  <2> QED BY <2>1, <2>2, <2>3, WorkerStays
<1>3. CASE Scan
  BY <1>3, ScanStep
<1>4. CASE LoopRpcFails
  <2>1. /\ data' = data /\ loop' # "down" /\ task' \in {task, Dispatched(data)}
        /\ UNCHANGED <<sender, backup, blocks, settled, mempool, sent, sourceHash>>
        /\ trouble \subseteq trouble' /\ audit' = [audit EXCEPT !["poll"] = NoAudit]
    BY <1>4 DEF LoopRpcFails, StopLoop, Meets, chainVars, hubVars
  <2>2. Succeeds(data, data', {})
    BY <1>1, <2>1, SameSucceeds
  <2>3. AuditsFit'
    BY <2>1, AuditOver DEF RelayInv, AuditsFit
  <2>4. task' \in {task, Dispatched(data')}
    BY <2>1
  <2> QED BY <2>1, <2>2, <2>3, <2>4, LoopGoesOn
<1>5. CASE Drain
  <2>1. /\ Running = {} /\ Keep
        /\ UNCHANGED <<task, sender, audit, backup, blocks, settled, mempool, sent, sourceHash>>
    BY <1>5 DEF Drain, LoopFrame, chainVars, hubVars
  <2>2. Succeeds(data, data', {}) /\ trouble \subseteq trouble' /\ data' = data
    BY <1>1, <2>1, KeptAsItIs DEF Keep
  <2>3. ChainsFit' /\ FilesFit'
    BY <2>1, <2>2, FilesStand DEF Delivers
  <2>4. SenderFits' /\ SenderSees'
    BY <2>1, <2>2, SenderStands
  <2>5. AuditsFit'
    BY <2>1 DEF RelayInv, AuditsFit
  <2>6. TasksFit'
    BY <2>1, <2>2 DEF RelayInv, TasksFit, Running
  <2> QED BY <2>3, <2>4, <2>5, <2>6 DEF RelayInv
<1> QED BY <1>2, <1>3, <1>4, <1>5 DEF LoopNext

-----------------------------------------------------------------------------
(***************************************************************************)
(* The environment, and the theorems.                                      *)
(***************************************************************************)
LEMMA WorkerDown ==
  ASSUME RelayInv, loop = "down"
  PROVE  /\ \A u \in Txs : task[u] = "idle"
         /\ sender.owner = 0 /\ sender.pc = "idle" /\ audit["sign"].pc = "idle"
<1>1. \A u \in Txs : task[u] = "idle"
  BY DEF RelayInv, TasksFit
<1>2. sender.owner = 0 /\ sender.pc = "idle"
  BY <1>1 DEF RelayInv, TasksFit, SenderFits
<1> QED BY <1>1, <1>2 DEF RelayInv, AuditsFit

LEMMA EnvironmentStep ==
  ASSUME RelayInv, Environment PROVE RelayInv'
<1>1. StateFits(data) /\ StateFits(backup)
  BY DEF RelayInv, FilesFit
<1>2. CASE Stop
  <2>1. /\ UNCHANGED <<data, task, sender, audit, loop, backup, blocks, settled, mempool, sent, sourceHash>>
        /\ trouble \subseteq trouble'
    BY <1>2 DEF Stop, Meets, chainVars, hubVars
  <2>2. Succeeds(data, data', {}) /\ AuditsFit'
    BY <1>1, <2>1, SameSucceeds DEF RelayInv, AuditsFit
  <2> QED BY <2>1, <2>2, WorkerStays
<1>3. CASE Crash
  <2>1. /\ UNCHANGED <<data, backup, blocks, settled, mempool, sent, sourceHash>>
        /\ trouble \subseteq trouble' /\ sender' = NoSender
        /\ task' = [t \in Txs |-> "idle"] /\ audit' = [w \in DOMAIN audit |-> NoAudit]
    BY <1>3 DEF Crash, Meets, chainVars, hubVars
  <2>2. Succeeds(data, data', {})
    BY <1>1, <2>1, SameSucceeds
  <2>3. ChainsFit' /\ FilesFit'
    BY <2>1, <2>2, FilesStand DEF Delivers
  <2>4. SenderFits' /\ SenderSees'
    BY <2>1, SenderStands
  <2>5. TasksFit'
    <3>1. sender'.owner = 0 /\ "idle" \in TaskSteps /\ "idle" \notin Early
      BY <2>1 DEF NoSender, TaskSteps, Early
    <3> QED BY <2>1, <3>1, TxsAssumption DEF TasksFit
  <2>6. AuditsFit'
    BY <2>1 DEF RelayInv, AuditsFit, NoAudit
  <2> QED BY <2>3, <2>4, <2>5, <2>6 DEF RelayInv
<1>4. CASE Backup
  <2>1. /\ UNCHANGED <<data, task, sender, audit, loop, blocks, settled, mempool, sent, sourceHash, trouble>>
        /\ backup' = data
    BY <1>4 DEF Backup, localVars, chainVars, hubVars
  <2>2. TasksFit' /\ SenderFits' /\ AuditsFit'
    BY <2>1, WorkerRests
  <2>3. ChainsFit' /\ SenderSees'
    BY <2>1 DEF RelayInv, ChainsFit, SenderSees, StillMined, BlockId, Processed
  <2>4. FilesFit'
    <3>1. StateFits(data)' /\ StateFits(backup)'
      BY <1>1, <2>1
    <3>2. ASSUME "rollback" \notin trouble'
          PROVE  AllBacked(data)' /\ AllBacked(backup)'
      <4>1. AllBacked(data)
        BY <2>1, <3>2 DEF RelayInv, FilesFit
      <4> QED BY <2>1, <4>1 DEF AllBacked, Backed, Processed
    <3>3. ("restore" \notin trouble => \A f \in sent : OnRecord(data, f))'
      BY <2>1 DEF RelayInv, FilesFit, OnRecord, Jobs
    <3> QED BY <3>1, <3>2, <3>3 DEF FilesFit
  <2> QED BY <2>2, <2>3, <2>4 DEF RelayInv
<1>5. CASE Restore
  <2>1. /\ UNCHANGED <<task, sender, audit, loop, backup, blocks, settled, mempool, sent, sourceHash>>
        /\ data' = backup /\ loop = "down" /\ trouble \subseteq trouble' /\ "restore" \in trouble'
    BY <1>5 DEF Restore, Meets, localVars, chainVars, hubVars
  <2>2. /\ \A u \in Txs : task[u] = "idle"
        /\ sender.owner = 0 /\ sender.pc = "idle"
    BY <2>1, WorkerDown
  <2>3. ChainsFit' /\ AuditsFit'
    BY <2>1 DEF RelayInv, ChainsFit, AuditsFit
  <2>4. "idle" \notin Early \cup Unsigned \cup Signed \cup Finishing \cup {"guardReserve", "reserve"}
    BY DEF Early, Unsigned, Signed, Finishing
  <2>5. TasksFit'
    <3>1. \A u \in Txs : u # 0
      BY TxsAssumption
    <3> QED BY <2>1, <2>2, <2>4, <3>1 DEF RelayInv, TasksFit
  <2>6. SenderFits' /\ SenderSees'
    BY <2>1, <2>2, <2>4 DEF RelayInv, SenderFits, SenderSees
  <2>7. FilesFit'
    <3>1. StateFits(data)' /\ StateFits(backup)'
      BY <1>1, <2>1
    <3>2. ASSUME "rollback" \notin trouble'
          PROVE  AllBacked(data)' /\ AllBacked(backup)'
      <4>1. AllBacked(backup)
        BY <2>1, <3>2 DEF RelayInv, FilesFit
      <4> QED BY <2>1, <4>1 DEF AllBacked, Backed, Processed
    <3> QED BY <2>1, <3>1, <3>2 DEF FilesFit
  <2> QED BY <2>3, <2>5, <2>6, <2>7 DEF RelayInv
<1>6. CASE Attest
  <2>1. /\ UNCHANGED <<data, task, sender, audit, loop, backup, blocks, settled, mempool, sent, sourceHash>>
        /\ trouble \subseteq trouble'
    BY <1>6 DEF Attest, localVars, hubVars
  <2>2. Succeeds(data, data', {}) /\ AuditsFit'
    BY <1>1, <2>1, SameSucceeds DEF RelayInv, AuditsFit
  <2> QED BY <2>1, <2>2, WorkerStays
<1>7. ASSUME NEW t \in Txs, SourceReorg(t)
      PROVE  RelayInv'
  <2>1. /\ UNCHANGED <<data, task, sender, audit, loop, backup, blocks, settled, mempool, sent>>
        /\ trouble \subseteq trouble'
        /\ sourceHash' = [u \in Txs |-> IF u >= t THEN sourceHash[u] + 1 ELSE sourceHash[u]]
    BY <1>7 DEF SourceReorg, Meets, localVars, hubVars
  <2>2. sourceHash' \in [Txs -> Nat]
    <3>1. sourceHash \in [Txs -> Nat]
      BY DEF RelayInv, ChainsFit
    <3>2. \A u \in Txs : sourceHash[u] + 1 \in Nat /\ sourceHash[u] \in Nat
      BY <3>1
    <3> QED BY <2>1, <3>2
  <2>3. ChainsFit'
    BY <2>1, <2>2 DEF RelayInv, ChainsFit
  <2>4. TasksFit' /\ SenderFits' /\ AuditsFit'
    BY <2>1, WorkerRests
  <2>5. settled' \in Nat /\ Deepens
    <3>1. settled \in Nat /\ settled <= Len(blocks) /\ Len(blocks) \in Nat
      BY DEF RelayInv, ChainsFit
    <3> QED BY <2>1, <3>1 DEF Deepens
  <2>6. FilesFit' /\ SenderSees'
    BY <2>1, <2>5, DeeperFiles
  <2> QED BY <2>3, <2>4, <2>6 DEF RelayInv
<1>8. CASE HubNext /\ UNCHANGED workerVars
  BY <1>8, HubStep
<1> QED BY <1>2, <1>3, <1>4, <1>5, <1>6, <1>7, <1>8 DEF Environment

LEMMA EmptyStateFits == StateFits(EmptyState) /\ AllBacked(EmptyState)
<1>1. /\ EmptyState.jobs = [t \in {} |-> Discovered(0)] /\ EmptyState.relay = NoRelay
      /\ EmptyState = [jobs |-> EmptyState.jobs, relay |-> NoRelay, sourceHold |-> EmptyState.sourceHold,
                       hubHold |-> EmptyState.hubHold]
  BY DEF EmptyState
<1>2. Jobs(EmptyState) = {}
  BY <1>1 DEF Jobs
<1> QED BY <1>1, <1>2 DEF StateFits, AllBacked

LEMMA RelayInit == WorkerInit => RelayInv
<1> SUFFICES ASSUME WorkerInit PROVE RelayInv
  OBVIOUS
<1>1. ChainsFit
  BY FS_EmptySet DEF WorkerInit, HubInit, ChainsFit
<1>2. FilesFit
  BY EmptyStateFits DEF WorkerInit, HubInit, FilesFit
<1>3. sender.owner = 0 /\ sender.pc = "idle"
  BY DEF WorkerInit, NoSender
<1>4. "idle" \in TaskSteps /\ "idle" \notin Early \cup Unsigned \cup Signed \cup Finishing
                                        \cup {"guardReserve", "reserve", "guardSkip", "recheck"}
  BY DEF TaskSteps, Early, Unsigned, Signed, Finishing
<1>5. TasksFit
  BY <1>3, <1>4, TxsAssumption DEF WorkerInit, TasksFit
<1>6. SenderFits /\ SenderSees
  BY <1>3, <1>4 DEF WorkerInit, NoSender, SenderFits, SenderSees, Finishing
<1>7. AuditsFit
  BY DEF WorkerInit, AuditsFit, NoAudit
<1> QED BY <1>1, <1>2, <1>5, <1>6, <1>7 DEF RelayInv

LEMMA RelayNext == RelayInv /\ [WorkerNext]_allVars => RelayInv'
<1> SUFFICES ASSUME RelayInv, [WorkerNext]_allVars PROVE RelayInv'
  OBVIOUS
<1>1. CASE TaskNext
  BY <1>1, StartTaskStep, CheckCanonicalStep, WaitForAttestationStep, SaveAttestedStep,
     FetchProofStep, EnterSenderStep, HandleErrorStep, RpcFailsStep DEF TaskNext
<1>2. CASE AuditNext
  BY <1>2, AuditStepKeeps DEF AuditNext
<1>3. CASE SenderNext
  BY <1>3, ObserveStep, GuardStep, RecheckStep, SignStep, ReserveStep, ReadReceiptStep,
     BroadcastStep, ConfirmStep, ReadLastReceiptStep, FinishStep DEF SenderNext
<1>4. CASE LoopNext
  BY <1>4, LoopStep
<1>5. CASE Environment
  BY <1>5, EnvironmentStep
<1>6. CASE UNCHANGED allVars
  <2>1. UNCHANGED <<data, task, sender, audit, loop, backup, blocks, settled, mempool, sent, sourceHash,
                    trouble>>
    BY <1>6 DEF allVars, workerVars, localVars, chainVars, hubVars
  <2>2. Succeeds(data, data', {}) /\ AuditsFit'
    BY <2>1, SameSucceeds DEF RelayInv, FilesFit, AuditsFit
  <2> QED BY <2>1, <2>2, WorkerStays
<1> QED BY <1>1, <1>2, <1>3, <1>4, <1>5, <1>6 DEF WorkerNext

\* The state file, its backup, the tasks, the sender and the audits fit together at
\* every step of worker.ts, relay.ts, recovery.ts and store.ts, whatever the hub does.
THEOREM RelayInvHolds == WorkerSpec => []RelayInv
<1>1. WorkerInit => RelayInv
  BY RelayInit
<1>2. RelayInv /\ [WorkerNext]_allVars => RelayInv'
  BY RelayNext
<1> QED BY <1>1, <1>2, PTL DEF WorkerSpec

\* RelaySender saves a signature before it sends it and keeps it until its job has it
\* in its history: what reached the hub is on record, unless an old copy of the file
\* was put back.
THEOREM SentIsOnRecord == WorkerSpec => []EvidenceKept
<1>1. RelayInv => EvidenceKept
  BY DEF RelayInv, FilesFit, OnRecord, EvidenceKept
<1> QED BY <1>1, RelayInvHolds, PTL

\* A job is done or skipped only once its query was executed in a trusted block, and
\* given up for its transaction only once that was refused in one: through restarts,
\* failing writes, forks and a restored state file, as long as trusted blocks stay.
THEOREM ClosedOnDeepEvidence == WorkerSpec => []OutcomeIsOnHub
<1>1. RelayInv => OutcomeIsOnHub
  <2> SUFFICES ASSUME RelayInv, "rollback" \notin trouble, NEW t \in Jobs(data)
               PROVE  /\ data.jobs[t].state \in {"done", "skipped"} => Processed(t, settled)
                      /\ data.jobs[t].state = "dead" /\ data.jobs[t].history # << >> =>
                           \E i \in 1 .. settled :
                             blocks[i].hash = data.jobs[t].ascTxHash /\ ~blocks[i].success
    BY DEF OutcomeIsOnHub
  <2>1. AllBacked(data)
    BY DEF RelayInv, FilesFit
  <2> QED BY <2>1 DEF AllBacked, Backed
<1> QED BY <1>1, RelayInvHolds, PTL

-----------------------------------------------------------------------------
(***************************************************************************)
(* The monitor (ServiceMonitor): a complete window hides no outage of the  *)
(* kept aspect, whatever the runs missed and in whatever order they asked. *)
(***************************************************************************)
Parts == {"worker", "source", "hub"}

StoreShape(d) ==
  /\ d = [jobs |-> d.jobs, relay |-> d.relay, sourceHold |-> d.sourceHold, hubHold |-> d.hubHold]
  /\ Jobs(d) \subseteq Sampled

SampleShape(s) ==
  /\ s = [pc |-> s.pc, at |-> s.at, cursor |-> s.cursor, jobs |-> s.jobs,
          findings |-> s.findings, asked |-> s.asked, worst |-> s.worst]
  /\ s.at \in Nat /\ s.at <= clock /\ s.cursor \in Int /\ s.findings \in BOOLEAN
  /\ s.worst \in {"ok", "ATTENTION_REQUIRED", "UNAVAILABLE"}
  /\ s.pc \in {"idle", "file", "ask"}
  /\ s.pc = "file" => s.asked = {}

FileShape(f) ==
  /\ f = [store |-> f.store, cursor |-> f.cursor, found |-> f.found, updated |-> f.updated,
          error |-> f.error]
  /\ f.cursor \in Int /\ f.found \in [Sampled -> Nat] /\ StoreShape(f.store)

MonitorTypes ==
  /\ clock \in Nat
  /\ heads \in [source : Nat, fresh : BOOLEAN, within : BOOLEAN]
  /\ FileShape(stateFile)
  /\ SampleShape(sample)
  /\ \A r \in records : r.observedAt \in Nat /\ r.observedAt <= clock
  /\ aspect \in Aspects
  /\ seen = [last |-> seen.last, outage |-> seen.outage] /\ seen.last \in Int /\ seen.outage \in Int

\* The history is of the past, and during a run it knows whether the aspect is well.
HistoryFits ==
  /\ -1 <= seen.last /\ seen.last <= clock
  /\ seen.outage = -1 \/ (seen.outage >= 0 /\ seen.outage + Span <= clock)
  /\ sample.pc # "idle" /\ Well => seen.last = clock

\* A run of that time met a moment at which the aspect was well: it is not of an outage.
Spared(at) ==
  /\ at <= seen.last
  /\ seen.outage = -1 \/ at < seen.outage \/ seen.outage + MaxRunGap <= at

\* What the run under way can still report.  Whether the file was recent when it was
\* read shows only when the source has answered.
SawWell ==
  /\ sample.pc = "ask" /\ clock - sample.at < Timeout
  /\ \/ aspect \in Parts /\ aspect \in sample.asked /\ sample.worst = "ok"
     \/ /\ aspect = "state" /\ ~sample.findings
        /\ \/ heads.source - sample.cursor < MaxBlockLag
           \/ "source" \in sample.asked /\ sample.worst = "ok"

RunFits == SawWell => Spared(sample.at)

RecordsFit == \A r \in records : r.status = "SERVICE_OBSERVATIONS_OK" => Spared(r.observedAt)

MonitorInv == MonitorTypes /\ HistoryFits /\ RunFits /\ RecordsFit

LEMMA MonitorConstants ==
  /\ JobAge \in Nat /\ MaxBlockLag \in Nat /\ RequiredWindow \in Nat
  /\ Timeout \in Nat /\ Timeout >= 1 /\ MaxRunGap \in Nat /\ MaxRunGap >= 1
  /\ Span = MaxRunGap + Timeout - 1
BY MonitorAssumption DEF Span

\* What the history spared once, it spares for ever.
LEMMA StaysSpared ==
  ASSUME MonitorTypes, HistoryFits, Remember, clock' \in {clock, clock + 1}
  PROVE  /\ seen' = [last |-> seen'.last, outage |-> seen'.outage]
         /\ seen'.last \in Int /\ seen'.outage \in Int
         /\ -1 <= seen'.last /\ seen'.last <= clock'
         /\ seen'.outage = -1 \/ (seen'.outage >= 0 /\ seen'.outage + Span <= clock')
         /\ Well' => seen'.last = clock'
         /\ \A at \in Nat : Spared(at) => Spared(at)'
<1>1. /\ clock \in Nat /\ seen.last \in Int /\ seen.outage \in Int /\ seen.last <= clock /\ -1 <= seen.last
      /\ seen.outage = -1 \/ (seen.outage >= 0 /\ seen.outage + Span <= clock)
  BY DEF MonitorTypes, HistoryFits
<1>2. PICK last, outage :
        /\ seen' = [last |-> last, outage |-> outage]
        /\ last = IF Well' THEN clock' ELSE seen.last
        /\ outage = IF clock' # clock /\ clock - seen.last >= Span THEN clock - Span + 1
                    ELSE seen.outage
  BY DEF Remember
<1>3. seen'.last = last /\ seen'.outage = outage
  BY <1>2
<1>4. last \in Int /\ seen.last <= last /\ last <= clock' /\ (Well' => last = clock') /\ -1 <= last
  BY <1>1, <1>2
<1>5. /\ outage \in Int
      /\ outage = seen.outage \/ (outage > seen.last /\ outage = clock - Span + 1 /\ clock' = clock + 1)
  BY <1>1, <1>2, MonitorConstants
<1>6. outage = -1 \/ (outage >= 0 /\ outage + Span <= clock')
  BY <1>1, <1>5, MonitorConstants
<1>7. \A at \in Nat : Spared(at) => Spared(at)'
  BY <1>1, <1>3, <1>4, <1>5, MonitorConstants DEF Spared
<1> QED BY <1>2, <1>3, <1>4, <1>5, <1>6, <1>7

\* A moment of the run at which the aspect was well spares the run.
LEMMA WellSpares ==
  ASSUME MonitorInv, sample.pc # "idle", Well, clock - sample.at < Timeout
  PROVE  Spared(sample.at)
<1>1. seen.last = clock /\ (seen.outage = -1 \/ seen.outage + Span <= clock)
  BY DEF MonitorInv, HistoryFits
<1>2. sample.at \in Nat /\ sample.at <= clock /\ clock \in Nat /\ seen.outage \in Int
  BY DEF MonitorInv, MonitorTypes, SampleShape
<1> QED BY <1>1, <1>2, MonitorConstants DEF Spared

-----------------------------------------------------------------------------
\* The state file: nothing in it is found sooner than it is found later.
LEMMA FindingsGrow ==
  ASSUME MonitorTypes, NEW early \in Int, NEW late \in Int, early <= late, StateFindings(late) = {}
  PROVE  StateFindings(early) = {}
<1>1. \A t \in Pending(stateFile.store) : stateFile.found[t] \in Nat
  BY DEF MonitorTypes, FileShape, StoreShape, Pending
<1>2. \A t \in Pending(stateFile.store) : ~(late - stateFile.found[t] >= JobAge)
  BY DEF StateFindings
<1>3. \A t \in Pending(stateFile.store) : ~(early - stateFile.found[t] >= JobAge)
  BY <1>1, <1>2, MonitorConstants
<1> QED BY <1>3 DEF StateFindings

LEMMA FileKeepsShape ==
  ASSUME MonitorTypes, NEW next, StoreShape(next), NEW f, NEW found \in [Sampled -> Nat],
         NEW cursor \in Int, NEW updated, NEW error,
         f = [store |-> next, cursor |-> cursor, found |-> found, updated |-> updated, error |-> error]
  PROVE  FileShape(f)
BY DEF FileShape

\* A store with another job record, or other holds and another nonce.
LEMMA StoreParts ==
  ASSUME NEW jobs, DOMAIN jobs \subseteq Sampled, NEW relay, NEW s, NEW h
  PROVE  StoreShape([jobs |-> jobs, relay |-> relay, sourceHold |-> s, hubHold |-> h])
BY DEF StoreShape, Jobs

LEMMA JobChanges ==
  ASSUME NEW d, StoreShape(d), NEW jobs, DOMAIN jobs = DOMAIN d.jobs
  PROVE  StoreShape([d EXCEPT !.jobs = jobs])
<1>1. PICK j, r, s, h : d = [jobs |-> j, relay |-> r, sourceHold |-> s, hubHold |-> h]
  BY DEF StoreShape
<1>2. [d EXCEPT !.jobs = jobs] = [jobs |-> jobs, relay |-> r, sourceHold |-> s, hubHold |-> h]
  BY <1>1
<1>3. DOMAIN jobs \subseteq Sampled
  BY DEF StoreShape, Jobs
<1> QED BY <1>2, <1>3, StoreParts

LEMMA RelayChanges ==
  ASSUME NEW d, StoreShape(d), NEW e
  PROVE  StoreShape([d EXCEPT !.relay = e])
<1>1. PICK j, r, s, h : d = [jobs |-> j, relay |-> r, sourceHold |-> s, hubHold |-> h]
  BY DEF StoreShape
<1>2. [d EXCEPT !.relay = e] = [jobs |-> j, relay |-> e, sourceHold |-> s, hubHold |-> h]
  BY <1>1
<1>3. DOMAIN j \subseteq Sampled
  BY <1>1 DEF StoreShape, Jobs
<1> QED BY <1>2, <1>3, StoreParts

LEMMA HeldKeepsShape ==
  ASSUME NEW d, StoreShape(d)
  PROVE  StoreShape(HoldSource(d)) /\ StoreShape(HoldHub(d))
<1>1. ASSUME NEW n, n \in {HoldSource(d), HoldHub(d)} PROVE StoreShape(n)
  <2>1. n = [jobs |-> d.jobs, relay |-> d.relay, sourceHold |-> n.sourceHold, hubHold |-> n.hubHold]
    BY <1>1 DEF StoreShape, HoldSource, HoldHub
  <2>2. n.jobs = d.jobs /\ n.relay = d.relay
    BY <2>1
  <2> QED BY <2>1, <2>2 DEF StoreShape, Jobs
<1> QED BY <1>1

LEMMA StoreKeepsShape ==
  ASSUME NEW d, StoreShape(d), NEW t, NEW b
  PROVE  StoreShape(Attested(d, t)) /\ StoreShape(Skipped(d, t, b)) /\ StoreShape(Failed(d, t))
<1>1. d = [jobs |-> d.jobs, relay |-> d.relay, sourceHold |-> d.sourceHold, hubHold |-> d.hubHold]
  BY DEF StoreShape
<1>2. Attested(d, t) = [d EXCEPT !.jobs = [@ EXCEPT ![t].state = "attested"]]
  BY <1>1 DEF Attested
<1>3. Skipped(d, t, b) = [d EXCEPT !.jobs = [[@ EXCEPT ![t].state = "skipped"] EXCEPT ![t].skip = b]]
  BY <1>1 DEF Skipped
<1>4. PICK n, end :
        Failed(d, t) = [d EXCEPT !.jobs = [[@ EXCEPT ![t].attempts = n] EXCEPT ![t].state = end]]
  BY <1>1 DEF Failed
<1> QED BY <1>1, <1>2, <1>3, <1>4, JobChanges

LEMMA RelayKeepsShape ==
  ASSUME NEW d, StoreShape(d), NEW e, NEW b, NEW ok
  PROVE  StoreShape(ReserveRelay(d, e)) /\ StoreShape(FinishRelay(d, b, ok))
<1>1. ASSUME NEW n, n \in {ReserveRelay(d, e), FinishRelay(d, b, ok)} PROVE StoreShape(n)
  <2>1. /\ n = [jobs |-> n.jobs, relay |-> n.relay, sourceHold |-> d.sourceHold, hubHold |-> d.hubHold]
        /\ DOMAIN n.jobs = DOMAIN d.jobs
    <3>1. CASE n = ReserveRelay(d, e)
      BY <3>1 DEF StoreShape, ReserveRelay
    <3>2. CASE n = FinishRelay(d, b, ok)
      BY <3>2 DEF StoreShape, FinishRelay
    <3> QED BY <1>1, <3>1, <3>2
  <2>2. n.sourceHold = d.sourceHold /\ n.hubHold = d.hubHold
    BY <2>1
  <2> QED BY <2>1, <2>2 DEF StoreShape, Jobs
<1> QED BY <1>1

LEMMA RangeKeepsShape ==
  ASSUME NEW d, StoreShape(d), NEW t \in Sampled, NEW hash
  PROVE  StoreShape(CommitSourceRange(d, t, hash))
<1>1. d = [jobs |-> d.jobs, relay |-> d.relay, sourceHold |-> d.sourceHold, hubHold |-> d.hubHold]
      /\ DOMAIN d.jobs \subseteq Sampled
  BY DEF StoreShape, Jobs
<1> QED BY <1>1 DEF StoreShape, Jobs, CommitSourceRange

\* A field of the file is written.
LEMMA FieldKeepsShape ==
  ASSUME NEW f, FileShape(f), NEW x
  PROVE  /\ StoreShape(x) => FileShape([f EXCEPT !.store = x])
         /\ x \in Int => FileShape([f EXCEPT !.cursor = x])
         /\ FileShape([f EXCEPT !.updated = x]) /\ FileShape([f EXCEPT !.error = x])
         /\ x \in [Sampled -> Nat] => FileShape([f EXCEPT !.found = x])
<1>1. PICK s, c, fd, u, e :
        f = [store |-> s, cursor |-> c, found |-> fd, updated |-> u, error |-> e]
  BY DEF FileShape
<1>2. StoreShape(s) /\ c \in Int /\ fd \in [Sampled -> Nat]
  BY <1>1 DEF FileShape
<1>3. [f EXCEPT !.store = x] = [store |-> x, cursor |-> c, found |-> fd, updated |-> u, error |-> e]
  BY <1>1
<1>4. [f EXCEPT !.cursor = x] = [store |-> s, cursor |-> x, found |-> fd, updated |-> u, error |-> e]
  BY <1>1
<1>5. [f EXCEPT !.updated = x] = [store |-> s, cursor |-> c, found |-> fd, updated |-> x, error |-> e]
  BY <1>1
<1>6. [f EXCEPT !.error = x] = [store |-> s, cursor |-> c, found |-> fd, updated |-> u, error |-> x]
  BY <1>1
<1>7. [f EXCEPT !.found = x] = [store |-> s, cursor |-> c, found |-> x, updated |-> u, error |-> e]
  BY <1>1
<1> QED BY <1>2, <1>3, <1>4, <1>5, <1>6, <1>7 DEF FileShape

LEMMA WritesShape ==
  ASSUME MonitorTypes, NEW next, StoreShape(next)
  PROVE  /\ FileShape(Writes(next)) /\ FileShape([stateFile EXCEPT !.store = next])
         /\ \A t : FileShape([Writes(next) EXCEPT !.error = @ \cup {t}])
<1> DEFINE stored == [stateFile EXCEPT !.store = next]
<1>1. FileShape(stored)
  BY FieldKeepsShape DEF MonitorTypes
<1>2. Writes(next) = [stored EXCEPT !.updated = clock]
  BY DEF Writes
<1> HIDE DEF stored
<1>3. FileShape(Writes(next))
  <2>1. FileShape([stored EXCEPT !.updated = clock])
    BY <1>1, FieldKeepsShape
  <2> QED BY <1>2, <2>1
<1>4. ASSUME NEW t PROVE FileShape([Writes(next) EXCEPT !.error = @ \cup {t}])
  <2> DEFINE f == Writes(next)
  <2> HIDE DEF f
  <2>1. FileShape([f EXCEPT !.error = f.error \cup {t}])
    BY <1>3, FieldKeepsShape DEF f
  <2> QED BY <2>1 DEF f
<1> QED BY <1>1, <1>3, <1>4 DEF stored

LEMMA ScanKeepsShape ==
  ASSUME MonitorTypes, ScanCompletes
  PROVE  FileShape(stateFile')
<1>1. heads.source \in Int /\ clock \in Nat /\ StoreShape(stateFile.store) /\ FileShape(stateFile)
  BY DEF MonitorTypes, FileShape
<1>2. CASE stateFile' = [stateFile EXCEPT !.cursor = heads.source]
  BY <1>1, <1>2, FieldKeepsShape
<1>3. ASSUME NEW t \in Sampled,
             stateFile' = [Writes(CommitSourceRange(stateFile.store, t, 0)) EXCEPT !.cursor = heads.source,
                                                                                   !.found[t] = clock]
      PROVE  FileShape(stateFile')
  <2> DEFINE f == Writes(CommitSourceRange(stateFile.store, t, 0))
             g == [f EXCEPT !.cursor = heads.source]
  <2>1. FileShape(f)
    BY <1>1, RangeKeepsShape, WritesShape
  <2> HIDE DEF f
  <2>2. FileShape(g)
    BY <1>1, <2>1, FieldKeepsShape
  <2>3. stateFile' = [g EXCEPT !.found = [g.found EXCEPT ![t] = clock]]
    BY <1>3, <2>1 DEF f, FileShape
  <2> HIDE DEF g
  <2>4. [g.found EXCEPT ![t] = clock] \in [Sampled -> Nat]
    BY <1>1, <2>2 DEF FileShape
  <2> QED BY <2>2, <2>3, <2>4, FieldKeepsShape
<1> QED BY <1>2, <1>3 DEF ScanCompletes

LEMMA CommitKeepsShape ==
  ASSUME MonitorTypes, WorkerCommits
  PROVE  FileShape(stateFile')
<1> DEFINE d == stateFile.store
<1>1. StoreShape(d)
  BY DEF MonitorTypes, FileShape
<1>2. CASE \/ stateFile' = [stateFile EXCEPT !.store = HoldSource(d)]
           \/ stateFile' = [stateFile EXCEPT !.store = HoldHub(d)]
  BY <1>1, <1>2, HeldKeepsShape, WritesShape
<1>3. ASSUME NEW t, NEW next, StoreShape(next),
             stateFile' = Writes(next) \/ stateFile' = [Writes(next) EXCEPT !.error = @ \cup {t}]
      PROVE  FileShape(stateFile')
  <2>1. FileShape(Writes(next)) /\ FileShape([Writes(next) EXCEPT !.error = @ \cup {t}])
    BY <1>3, WritesShape
  <2> QED BY <1>3, <2>1
<1>4. ASSUME NEW t \in Pending(d),
             \/ stateFile' = Writes(Attested(d, t))
             \/ stateFile' = Writes(Skipped(d, t, 0))
             \/ stateFile' = [Writes(Failed(d, t)) EXCEPT !.error = @ \cup {t}]
             \/ stateFile' = [Writes(d) EXCEPT !.error = @ \cup {t}]
             \/ stateFile' = Writes(ReserveRelay(d, [source |-> t, hash |-> 0, nonce |-> 0]))
             \/ \E success \in BOOLEAN : stateFile' = Writes(FinishRelay(d, 0, success))
      PROVE  FileShape(stateFile')
  <2>1. /\ StoreShape(Attested(d, t)) /\ StoreShape(Skipped(d, t, 0)) /\ StoreShape(Failed(d, t))
        /\ StoreShape(ReserveRelay(d, [source |-> t, hash |-> 0, nonce |-> 0]))
        /\ \A success : StoreShape(FinishRelay(d, 0, success))
    BY <1>1, StoreKeepsShape, RelayKeepsShape
  <2> HIDE DEF d
  <2> QED BY <1>1, <1>3, <1>4, <2>1
<1> QED BY <1>2, <1>4 DEF WorkerCommits

LEMMA WorkerKeepsShape ==
  ASSUME MonitorTypes, Worker
  PROVE  FileShape(stateFile')
<1>1. CASE UNCHANGED stateFile
  BY <1>1 DEF MonitorTypes
<1> QED BY <1>1, ScanKeepsShape, CommitKeepsShape
        DEF Worker, Boot, StartRunning, Stopping, Exit, ScanFails

-----------------------------------------------------------------------------
\* Whatever moves outside the run takes nothing from what the run has seen.
LEMMA OutsideKeeps ==
  ASSUME MonitorInv, Remember, UNCHANGED <<sample, records, aspect>>, clock' \in {clock, clock + 1},
         heads' \in [source : Nat, fresh : BOOLEAN, within : BOOLEAN], heads.source <= heads'.source,
         FileShape(stateFile')
  PROVE  MonitorInv'
<1>1. MonitorTypes /\ HistoryFits /\ RunFits /\ RecordsFit
  BY DEF MonitorInv
<1>2. clock \in Nat /\ clock' \in Nat /\ clock <= clock'
  BY <1>1 DEF MonitorTypes
<1>3. SampleShape(sample)'
  BY <1>1, <1>2 DEF MonitorTypes, SampleShape
<1>4. sample.at \in Nat /\ sample.cursor \in Int /\ heads.source \in Nat /\ heads'.source \in Nat
  BY <1>1 DEF MonitorTypes, SampleShape
<1>5. \A at \in Nat : Spared(at) => Spared(at)'
  BY <1>1, StaysSpared
<1>6. MonitorTypes'
  BY <1>1, <1>2, <1>3, StaysSpared DEF MonitorTypes
<1>7. HistoryFits'
  BY <1>1, StaysSpared DEF HistoryFits
<1>8. RunFits'
  <2> SUFFICES ASSUME SawWell' PROVE Spared(sample.at)'
    BY DEF RunFits
  <2>1. SawWell
    BY <1>2, <1>4, MonitorConstants DEF SawWell
  <2> QED BY <1>1, <1>4, <1>5, <2>1 DEF RunFits
<1>9. RecordsFit'
  <2>1. \A r \in records : r.observedAt \in Nat
    BY <1>1 DEF MonitorTypes
  <2> QED BY <1>1, <1>5, <2>1 DEF RecordsFit
<1> QED BY <1>6, <1>7, <1>8, <1>9 DEF MonitorInv

\* A step of the run is right if what it claims now is spared now.
LEMMA RunKeeps ==
  ASSUME MonitorInv, Remember, UNCHANGED <<clock, heads, stateFile, aspect>>,
         SampleShape(sample'), SawWell' => Spared(sample'.at),
         \A r \in records' : /\ r.observedAt \in Nat /\ r.observedAt <= clock
                             /\ r.status = "SERVICE_OBSERVATIONS_OK" => Spared(r.observedAt)
  PROVE  MonitorInv'
<1>1. MonitorTypes /\ HistoryFits
  BY DEF MonitorInv
<1>2. \A at \in Nat : Spared(at) => Spared(at)'
  BY <1>1, StaysSpared
<1>3. SampleShape(sample)' /\ sample'.at \in Nat
  BY DEF SampleShape
<1>4. MonitorTypes'
  <2>1. \A r \in records' : r.observedAt \in Nat /\ r.observedAt <= clock'
    OBVIOUS
  <2>2. clock' \in {clock, clock + 1}
    OBVIOUS
  <2>3. seen' = [last |-> seen'.last, outage |-> seen'.outage] /\ seen'.last \in Int /\ seen'.outage \in Int
    BY <1>1, <2>2, StaysSpared
  <2> QED BY <1>1, <1>3, <2>1, <2>3 DEF MonitorTypes
<1>5. HistoryFits'
  BY <1>1, StaysSpared DEF HistoryFits
<1>6. RunFits'
  BY <1>2, <1>3 DEF RunFits
<1>7. RecordsFit'
  <2> SUFFICES ASSUME NEW r \in records', r.status = "SERVICE_OBSERVATIONS_OK"
               PROVE  Spared(r.observedAt)'
    BY DEF RecordsFit
  <2>1. r.observedAt \in Nat /\ Spared(r.observedAt)
    OBVIOUS
  <2> QED BY <1>2, <2>1
<1> QED BY <1>4, <1>5, <1>6, <1>7 DEF MonitorInv

\* The records that are there are right already.
LEMMA RecordsStand ==
  ASSUME MonitorInv
  PROVE  \A r \in records : /\ r.observedAt \in Nat /\ r.observedAt <= clock
                            /\ r.status = "SERVICE_OBSERVATIONS_OK" => Spared(r.observedAt)
BY DEF MonitorInv, MonitorTypes, RecordsFit

LEMMA RunStarts ==
  ASSUME clock \in Nat, NEW s, SampleShape(s), s.asked = {}
  PROVE  /\ SampleShape([s EXCEPT !.pc = "file", !.at = clock])
         /\ [s EXCEPT !.pc = "file", !.at = clock].pc = "file"
<1>1. PICK p, t, c, j, f, a, w :
        s = [pc |-> p, at |-> t, cursor |-> c, jobs |-> j, findings |-> f, asked |-> a, worst |-> w]
  BY DEF SampleShape
<1>2. c \in Int /\ f \in BOOLEAN /\ a = {} /\ w \in {"ok", "ATTENTION_REQUIRED", "UNAVAILABLE"}
  BY <1>1 DEF SampleShape
<1> DEFINE s1 == [pc |-> "file", at |-> t, cursor |-> c, jobs |-> j, findings |-> f, asked |-> a, worst |-> w]
           s2 == [pc |-> "file", at |-> clock, cursor |-> c, jobs |-> j, findings |-> f, asked |-> a, worst |-> w]
<1>3. [s EXCEPT !.pc = "file"] = s1
  BY <1>1
<1>4. [s1 EXCEPT !.at = clock] = s2
  OBVIOUS
<1>5. [s EXCEPT !.pc = "file", !.at = clock] = [[s EXCEPT !.pc = "file"] EXCEPT !.at = clock]
  OBVIOUS
<1>6. SampleShape(s2) /\ s2.pc = "file"
  BY <1>2 DEF SampleShape
<1> QED BY <1>3, <1>4, <1>5, <1>6

LEMMA NoRunShape ==
  ASSUME MonitorInv
  PROVE  /\ SampleShape(NoRun) /\ SampleShape([NoRun EXCEPT !.pc = "file", !.at = clock])
         /\ NoRun.pc = "idle" /\ [NoRun EXCEPT !.pc = "file", !.at = clock].pc = "file"
<1>1. clock \in Nat
  BY DEF MonitorInv, MonitorTypes
<1>2. SampleShape(NoRun) /\ NoRun.pc = "idle" /\ NoRun.asked = {}
  BY <1>1 DEF SampleShape, NoRun
<1> QED BY <1>1, <1>2, RunStarts

LEMMA BeginProbeStep ==
  ASSUME MonitorInv, Remember, UNCHANGED <<clock, heads, stateFile, aspect>>, BeginProbe
  PROVE  MonitorInv'
<1>1. SampleShape(sample') /\ ~SawWell'
  BY NoRunShape DEF BeginProbe, SawWell
<1> QED BY <1>1, RecordsStand, RunKeeps DEF BeginProbe

LEMMA ProbeDiesStep ==
  ASSUME MonitorInv, Remember, UNCHANGED <<clock, heads, stateFile, aspect>>, ProbeDies
  PROVE  MonitorInv'
<1>1. SampleShape(sample') /\ ~SawWell'
  BY NoRunShape DEF ProbeDies, SawWell
<1> QED BY <1>1, RecordsStand, RunKeeps DEF ProbeDies

LEMMA ReadStateStep ==
  ASSUME MonitorInv, Remember, UNCHANGED <<clock, heads, stateFile, aspect>>, ReadState
  PROVE  MonitorInv'
<1>1. MonitorTypes /\ SampleShape(sample)
  BY DEF MonitorInv, MonitorTypes
<1>2. CASE sample' = NoRun
  <2>1. SampleShape(sample') /\ ~SawWell'
    BY <1>2, NoRunShape DEF SawWell
  <2> QED BY <2>1, RecordsStand, RunKeeps DEF ReadState
<1>3. CASE sample' = [sample EXCEPT !.pc = "ask", !.cursor = stateFile.cursor,
                                    !.jobs = Cardinality(Jobs(stateFile.store)),
                                    !.findings = StateFindings(sample.at) # {}]
  <2> DEFINE found == StateFindings(sample.at) # {}
             many == Cardinality(Jobs(stateFile.store))
  <2>1. found \in BOOLEAN /\ stateFile.cursor \in Int
    BY <1>1 DEF MonitorTypes, FileShape
  <2> HIDE DEF found, many
  <2>2. sample.asked = {} /\ sample.pc = "file"
    BY <1>1 DEF ReadState, SampleShape
  <2>3. sample' = [pc |-> "ask", at |-> sample.at, cursor |-> stateFile.cursor, jobs |-> many,
                   findings |-> found, asked |-> {}, worst |-> sample.worst]
    BY <1>1, <1>3, <2>2 DEF SampleShape, found, many
  <2>4. SampleShape(sample')
    BY <1>1, <2>1, <2>3 DEF SampleShape
  <2>5. ASSUME SawWell' PROVE Spared(sample'.at)
    <3>1. /\ sample'.at = sample.at /\ sample'.asked = {} /\ sample'.findings = found
          /\ sample'.cursor = stateFile.cursor
      BY <2>3
    <3>2. aspect = "state" /\ ~found /\ heads.source - stateFile.cursor < MaxBlockLag
          /\ clock - sample.at < Timeout
      BY <2>5, <3>1 DEF SawWell
    <3>3. sample.at \in Nat /\ clock \in Nat
      BY <1>1 DEF SampleShape, MonitorTypes
    <3>4. StateFindings(clock - (Timeout - 1)) = {}
      BY <1>1, <3>2, <3>3, MonitorConstants, FindingsGrow DEF found
    <3>5. Well
      BY <3>2, <3>4 DEF Well
    <3> QED BY <2>2, <3>1, <3>2, <3>5, WellSpares
  <2> QED BY <2>4, <2>5, RecordsStand, RunKeeps DEF ReadState
<1> QED BY <1>2, <1>3 DEF ReadState

LEMMA AskStep ==
  ASSUME MonitorInv, Remember, UNCHANGED <<clock, heads, stateFile, aspect>>,
         NEW of \in Parts, Ask(of)
  PROVE  MonitorInv'
<1>1. SampleShape(sample) /\ RunFits /\ sample.pc = "ask"
  BY DEF MonitorInv, MonitorTypes, Ask
<1>2. PICK answer \in {Answer(of), "UNAVAILABLE"} :
        sample' = [sample EXCEPT !.asked = @ \cup {of}, !.worst = Worse(@, answer)]
  BY DEF Ask
<1>3. sample' = [pc |-> sample.pc, at |-> sample.at, cursor |-> sample.cursor, jobs |-> sample.jobs,
                 findings |-> sample.findings, asked |-> sample.asked \cup {of},
                 worst |-> Worse(sample.worst, answer)]
  BY <1>1, <1>2 DEF SampleShape
<1>4. answer \in {"ok", "ATTENTION_REQUIRED", "UNAVAILABLE"}
  BY <1>2 DEF Answer, Parts
<1>5. /\ Worse(sample.worst, answer) \in {"ok", "ATTENTION_REQUIRED", "UNAVAILABLE"}
      /\ Worse(sample.worst, answer) = "ok" => sample.worst = "ok" /\ answer = "ok"
  BY <1>1, <1>4 DEF SampleShape, Worse
<1>6. SampleShape(sample')
  BY <1>1, <1>3, <1>5 DEF SampleShape
<1>7. ASSUME SawWell' PROVE Spared(sample'.at)
  <2>1. /\ sample'.pc = "ask" /\ sample'.at = sample.at /\ sample'.cursor = sample.cursor
        /\ sample'.findings = sample.findings /\ sample'.asked = sample.asked \cup {of}
        /\ sample'.worst = "ok" => sample.worst = "ok" /\ answer = "ok"
    BY <1>1, <1>3, <1>5
  <2>2. clock - sample.at < Timeout
    BY <1>7, <2>1 DEF SawWell
  <2>3. CASE SawWell
    BY <1>1, <2>1, <2>3 DEF RunFits
  <2>4. CASE aspect = of /\ sample'.worst = "ok" /\ ~SawWell
    <3>1. Answer(of) = "ok"
      BY <1>2, <2>1, <2>4
    <3>2. Well
      BY <3>1, <2>4 DEF Answer, Well, Parts
    <3> QED BY <1>1, <2>1, <2>2, <3>2, WellSpares
  <2>5. CASE aspect = "state" /\ ~SawWell
    <3>1. ~sample.findings /\ of = "source" /\ answer = "ok"
      BY <1>1, <1>7, <2>1, <2>2, <2>5 DEF SawWell, Parts
    <3>2. heads.source - sample.cursor < MaxBlockLag
      <4>1. Answer("source") = "ok"
        BY <1>2, <3>1
      <4>2. heads.source - sample.cursor \in Int
        BY <1>1 DEF SampleShape, MonitorInv, MonitorTypes
      <4> QED BY <4>1, <4>2, MonitorConstants DEF Answer
    <3> QED BY <1>1, <2>2, <2>5, <3>1, <3>2 DEF SawWell
  <2> QED BY <1>1, <1>7, <2>1, <2>2, <2>3, <2>4, <2>5 DEF SawWell, Parts
<1> QED BY <1>6, <1>7, RecordsStand, RunKeeps DEF Ask

LEMMA RecordStep ==
  ASSUME MonitorInv, Remember, UNCHANGED <<clock, heads, stateFile, aspect>>, Record
  PROVE  MonitorInv'
<1>1. SampleShape(sample) /\ RunFits /\ clock \in Nat /\ aspect \in Aspects
      /\ sample.pc = "ask" /\ sample.asked = {"worker", "source", "hub"}
  BY DEF MonitorInv, MonitorTypes, Record
<1>2. SampleShape(sample') /\ ~SawWell'
  BY NoRunShape DEF Record, SawWell
<1>3. /\ Observation.observedAt = sample.at
      /\ Observation.status = "SERVICE_OBSERVATIONS_OK" => SawWell
  <2>1. ASSUME Observation.status = "SERVICE_OBSERVATIONS_OK"
        PROVE  clock - sample.at < Timeout /\ ~sample.findings /\ sample.worst = "ok"
    BY <1>1, <2>1, MonitorConstants DEF Observation, SampleShape, Worse
  <2> QED BY <1>1, <2>1 DEF Observation, SawWell, Aspects, Parts
<1>4. /\ Observation.observedAt \in Nat /\ Observation.observedAt <= clock
      /\ Observation.status = "SERVICE_OBSERVATIONS_OK" => Spared(Observation.observedAt)
  BY <1>1, <1>3 DEF SampleShape, RunFits
<1>5. records' \subseteq records \cup {Observation}
  BY DEF Record
<1> QED BY <1>2, <1>4, <1>5, RecordsStand, RunKeeps

-----------------------------------------------------------------------------
LEMMA MonitorStarts == MonitorInit => MonitorInv
<1> SUFFICES ASSUME MonitorInit PROVE MonitorInv
  OBVIOUS
<1> USE DEF MonitorInit
<1>1. SampleShape(sample) /\ sample.pc = "idle"
  BY DEF SampleShape, NoRun
<1>2. StoreShape(EmptyState)
  BY DEF StoreShape, Jobs, EmptyState
<1>3. FileShape(stateFile)
  <2>1. [t \in Sampled |-> 0] \in [Sampled -> Nat] /\ -1 \in Int
    OBVIOUS
  <2> QED BY <1>2, <2>1 DEF FileShape
<1>4. MonitorTypes
  BY <1>1, <1>3 DEF MonitorTypes
<1>5. HistoryFits
  BY <1>1 DEF HistoryFits
<1>6. RunFits /\ RecordsFit
  BY <1>1 DEF RunFits, SawWell, RecordsFit
<1> QED BY <1>4, <1>5, <1>6 DEF MonitorInv

LEMMA MonitorSteps ==
  ASSUME MonitorInv, [MonitorNext]_monitorVars
  PROVE  MonitorInv'
<1>1. MonitorTypes
  BY DEF MonitorInv
<1>2. /\ clock \in Nat /\ heads \in [source : Nat, fresh : BOOLEAN, within : BOOLEAN] /\ heads.source \in Nat
      /\ FileShape(stateFile)
  BY <1>1 DEF MonitorTypes
<1>3. CASE Worker /\ UNCHANGED <<clock, heads, sample, records, leftover, due, aspect>> /\ Remember
  BY <1>1, <1>2, <1>3, WorkerKeepsShape, OutsideKeeps
<1>4. CASE ChainsMove /\ UNCHANGED <<clock, health, stateFile, sample, records, leftover, due, aspect>>
           /\ Remember
  <2>1. heads' \in [source : Nat, fresh : BOOLEAN, within : BOOLEAN] /\ heads.source <= heads'.source
    <3>1. CASE heads' = [heads EXCEPT !.source = @ + 1]
      BY <1>2, <3>1
    <3>2. ASSUME NEW b \in BOOLEAN, heads' = [heads EXCEPT !.fresh = b] \/ heads' = [heads EXCEPT !.within = b]
          PROVE  heads' \in [source : Nat, fresh : BOOLEAN, within : BOOLEAN] /\ heads.source <= heads'.source
      BY <1>2, <3>2
    <3>3. (~heads.fresh) \in BOOLEAN /\ (~heads.within) \in BOOLEAN
      OBVIOUS
    <3>4. CASE heads' = [heads EXCEPT !.fresh = ~@]
      BY <3>2, <3>3, <3>4
    <3>5. CASE heads' = [heads EXCEPT !.within = ~@]
      BY <3>2, <3>3, <3>5
    <3> QED BY <1>4, <3>1, <3>4, <3>5 DEF ChainsMove
  <2> QED BY <1>2, <1>4, <2>1, OutsideKeeps
<1>5. CASE ClockTicks /\ UNCHANGED <<health, stateFile, heads, sample, records, leftover, due, aspect>>
           /\ Remember
  BY <1>2, <1>5, OutsideKeeps DEF ClockTicks
<1>6. CASE Probe /\ UNCHANGED <<clock, health, stateFile, heads, aspect>> /\ Remember
  BY <1>6, BeginProbeStep, ReadStateStep, RecordStep, ProbeDiesStep, AskStep DEF Probe, Parts
<1>7. CASE UNCHANGED monitorVars
  <2>1. /\ UNCHANGED <<clock, heads, sample, records, aspect, seen, stateFile, health>>
    BY <1>7 DEF monitorVars
  <2>2. MonitorTypes'
    BY <1>1, <2>1 DEF MonitorTypes, SampleShape
  <2>3. Well' = Well
    BY <2>1 DEF Well, SelfReport, StateFindings
  <2>4. HistoryFits' /\ RunFits' /\ RecordsFit'
    BY <2>1, <2>3 DEF MonitorInv, HistoryFits, RunFits, SawWell, Spared, RecordsFit
  <2> QED BY <2>2, <2>4 DEF MonitorInv
<1> QED BY <1>3, <1>4, <1>5, <1>6, <1>7 DEF MonitorNext

LEMMA Greatest ==
  ASSUME NEW n \in Nat, NEW S, S \subseteq 0 .. n, S # {}
  PROVE  \E x \in S : \A y \in S : y <= x
<1> DEFINE T == {n - x : x \in S}
<1>1. T \subseteq Nat /\ T # {}
  <2>1. \A x \in S : n - x \in Nat
    OBVIOUS
  <2>2. PICK x \in S : TRUE
    OBVIOUS
  <2>3. n - x \in T
    BY <2>2
  <2> QED BY <2>1, <2>3
<1>2. PICK y \in T : \A z \in T : ~(<<z, y>> \in OpToRel(<, Nat))
  BY <1>1, WFMin, NatLessThanWellFounded
<1>3. PICK x \in S : y = n - x
  BY <1>2
<1>4. ASSUME NEW z \in S PROVE z <= x
  <2> SUFFICES ASSUME ~(z <= x) PROVE FALSE
    OBVIOUS
  <2>1. n - z \in T /\ n - z \in Nat /\ y \in Nat /\ n - z < y
    BY <1>1, <1>3
  <2>2. OpToRel(<, Nat) = {ss \in Nat \X Nat : ss[1] < ss[2]}
    BY DEF OpToRel
  <2> QED BY <1>2, <2>1, <2>2
<1> QED BY <1>4

\* The latest record up to a moment.
LEMMA LatestRecord ==
  ASSUME MonitorInv, NEW o \in Nat, NEW old \in records, old.observedAt <= o
  PROVE  \E last \in records :
           /\ last.observedAt <= o
           /\ \A r \in records : r.observedAt <= o => r.observedAt <= last.observedAt
<1> DEFINE times == {r.observedAt : r \in {x \in records : x.observedAt <= o}}
<1>1. \A r \in records : r.observedAt \in Nat
  BY DEF MonitorInv, MonitorTypes
<1>2. times \subseteq 0 .. o /\ times # {}
  BY <1>1
<1>3. PICK latest \in times : \A y \in times : y <= latest
  <2> HIDE DEF times
  <2> QED BY <1>2, Greatest
<1> QED BY <1>3

LEMMA InvHidesNothing == MonitorInv => OutageIsSeen
<1> SUFFICES ASSUME MonitorInv, Complete, ~(seen.outage < Boundary) PROVE FALSE
  BY DEF OutageIsSeen
<1> DEFINE o == seen.outage
<1>1. /\ clock \in Nat /\ o \in Int /\ Boundary \in Int
      /\ \A r \in records : r.observedAt \in Nat /\ r.observedAt <= clock
  BY MonitorConstants DEF MonitorInv, MonitorTypes, Boundary
<1>2. AuditFindings = {}
  BY DEF Complete
<1>3. ~ \A r \in records : r.observedAt > Boundary
  BY <1>2 DEF AuditFindings
<1>4. ~Missed
  BY <1>2, <1>3 DEF AuditFindings
<1>5. ~Gap(Window)
  BY <1>2 DEF AuditFindings
<1>6. \A r \in Window : r \in records /\ r.status = "SERVICE_OBSERVATIONS_OK"
  <2>1. {r.status : r \in Window} \ {"SERVICE_OBSERVATIONS_OK"} = {}
    BY <1>2 DEF AuditFindings
  <2>2. Window \subseteq records
    BY DEF Window
  <2> QED BY <2>1, <2>2
<1>7. PICK old \in records : old.observedAt <= Boundary
  BY <1>1, <1>3
<1>8. o \in Nat /\ o >= Boundary /\ o + Span <= clock
  BY <1>1, <1>7, MonitorConstants DEF MonitorInv, HistoryFits
<1>9. \A r \in Window : r.observedAt < o \/ o + MaxRunGap <= r.observedAt
  BY <1>6, <1>8 DEF MonitorInv, RecordsFit, Spared
<1>10. \A r \in records : r.observedAt > Boundary => r \in Window
  BY DEF Window
<1>11. PICK last \in records :
         /\ last.observedAt <= o
         /\ \A r \in records : r.observedAt <= o => r.observedAt <= last.observedAt
  BY <1>1, <1>7, <1>8, LatestRecord
<1>12. last \in Window
  <2>1. CASE last.observedAt > Boundary
    BY <1>10, <2>1
  <2>2. CASE last.observedAt <= Boundary
    <3>1. \A r \in records : r.observedAt <= Boundary => r.observedAt <= last.observedAt
      BY <1>1, <1>8, <1>11
    <3> QED BY <2>2, <3>1 DEF Window
  <2> QED BY <1>1, <2>1, <2>2
<1>13. last.observedAt < o
  BY <1>1, <1>8, <1>9, <1>11, <1>12, MonitorConstants
<1>14. PICK recent \in records : ~(clock - recent.observedAt >= MaxRunGap)
  BY <1>4 DEF Missed
<1>15. recent \in Window /\ recent.observedAt > last.observedAt
  BY <1>1, <1>8, <1>10, <1>13, <1>14, MonitorConstants
<1>16. PICK later \in Window : /\ later.observedAt > last.observedAt
                               /\ ~(later.observedAt - last.observedAt >= MaxRunGap)
  BY <1>5, <1>12, <1>15 DEF Gap
<1>17. later.observedAt \in Nat /\ last.observedAt \in Nat /\ later \in records
  BY <1>1, <1>6
<1>18. ~(later.observedAt <= o)
  BY <1>1, <1>8, <1>11, <1>16, <1>17
<1> QED BY <1>8, <1>9, <1>13, <1>16, <1>17, <1>18, MonitorConstants

\* STAGING_WINDOW_COMPLETE is never said over a stretch in which the worker, its file
\* or one of the chains was unwell for as long as the gap allowed between runs
\* (service-evidence.ts, auditWorkerServiceEvidence): for any length of gap, window and
\* timeout, and whatever runs were missed, failed or died.
THEOREM NoOutageIsHidden == MonitorSpec => []OutageIsSeen
<1>1. MonitorSpec => []MonitorInv
  BY MonitorStarts, MonitorSteps, PTL DEF MonitorSpec
<1> QED BY <1>1, InvHidesNothing, PTL
=============================================================================
