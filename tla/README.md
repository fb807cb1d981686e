# Proofmark: a TLA+ verification project

Proofmark carries compliance credentials ("marks") from a source chain to a hub
chain. Issuers write to `ComplianceSource` on the source chain; anybody relays the
receipts of those transactions to `ProofmarkASC` on the hub; consumers on the hub ask
whether a holder is verified. An off-chain worker relays automatically. An off-chain
pipeline verifies and screens people, signs issuances, publishes roster epochs and
keeps the evidence.

This directory holds TLA+ modules translated from the source, the TLC models that
check them on small instances, and TLAPS proofs. Paths are relative to the repository
(`src/...` is its Solidity directory). `PROJECT.json` maps every definition to the
lines it models.

## 1. Inventory

| Part | State it keeps | Operations | Hard behaviour |
|---|---|---|---|
| hub store (`src/ProofmarkASC.sol`, `src/ASCBaseX.sol`) | per holder: mark, tombstone, denial, two cursors, last correction; per epoch: root, approved issuers; per key generation: cutoff; processed queries | `configureSource`, `execute`, views | receipts in any order, repeated, with opposing logs; a log that reverts undoes its receipt |
| source contract (`src/ComplianceSource.sol`) | roles, used requests, denial flag and revision, correction proposals, last epoch | issue, revoke, deny, propose/approve/execute a correction, publish epochs, set roles | a denial or a role change between the steps of a correction |
| stable issuer (`src/RotatingIssuer.sol`) | owner, candidate owner, operating key, proposed key, generation, used keys | propose, cancel, accept, suspend, declare compromise, transfer ownership, forward | governance steps interleaved with calls of old keys |
| registry (`src/ProofmarkRegistry.sol`) | policies, cached roster witnesses | register, update, transfer, freeze, cache, `isVerified` | a cached witness outlives its epoch |
| note (`src/GatedRwaNote.sol`) | balances, recovery governance and requests | mint, burn, gated transfer, propose/approve/execute recovery | verification changes between the steps |
| roster tree (`src/lib/RosterProof.sol`, `pipeline/roster*.ts`) | a replica's bundle | inclusion and absence proofs | boundary and padding leaves, stale bundles |
| relay worker (`worker/`) | one JSON file: jobs, unresolved envelope, holds, checkpoints; in memory: pool, sender | poll loop, task of a job, sender, audit of the signer | awaits interleave tasks, loop and two chains; crash anywhere; failing writes; forks; restored files; lost transactions |
| worker monitoring (`worker/service-*.ts`, `monitor.ts`, `health*.ts`) | recorded observations | probe, audit of a window | samples of a moving system, probes that die |
| issuance delivery (`pipeline/issuance-*.ts`) | Redis: entry, revision, lease, signer gate, daily gas budget | create, acquire, save, release; `advanceIssuance` | several processes, expiring leases, lost answers, forks, late reviews |
| vault and rescreening (`pipeline/vault.ts`, `pipeline/rescreen*.ts`, `script/vault-admin.ts`) | encrypted file: records, revocation jobs, reviews, deletion requests, tombstones | confirm, block, enqueue, send, settle, erase, restore | stale verdicts, crashes between file and chain, backups |
| epoch publication (`pipeline/epoch-publication-*.ts`, `script/publish-epoch.ts`) | journal file and its lock | plan, sign, send, observe, abandon, record | crash between any two; forks; a second publisher |
| roster replay (`pipeline/roster-source*.ts`) | checkpoint | replay of the source's logs | two nodes that change forks between reads |
| guided verification (`web/lib/kyc-server.ts`, `pipeline/bank-state.ts`) | Redis budgets, idempotency records, challenges; everything else travels in sealed tokens | wallet, document, bank, issuance | a lost answer of the bank, tokens of other flows, redeployments |
| hosted verification (`pipeline/providers/sumsub*.ts`) | Redis record and fence | session, poll, callback | polls race callbacks that come late, twice or out of order |
| policies (`pipeline/privacy-processing-policy.ts`, `pipeline/retention-policy.ts`) | manifests in force | disclose, bind, authorise, set deadlines | replaced in the middle of a flow |
| pages (`web/app/verify/**`, `pipeline/wallet-session.ts`) | session revision, tokens, local storage | steps and polls | the wallet switches accounts, the page reloads, an answer is lost |
| audit export (`pipeline/audit-evidence.ts`) | grants, receipts, pinned keys | prepare, seal, verify | grants, keys and forks change before the verification |
| not modelled | | | `ZkKycPolicyGate`, worker transport and configuration, AML engine, other pages, deployment (section 7) |

The source contracts and the hub share nothing but receipts. The worker reads the
source chain, an attestation service and a proof builder and writes to the hub through
one dedicated signer. The pipeline writes to the source chain; the publisher replays
its logs. The browser carries sealed tokens between the web routes, which call the
issuance delivery, which writes the vault; rescreening and audit read and write it.

## 2. Modules

| Module | Models | Contents |
|---|---|---|
| `SourceLog` | vocabulary of both chains | coordinates `<<height, txIndex, logIndex>>` and their order, what a set of logs says of a holder (`IsView`, `DeniedBy`) |
| `MarkLifecycle` | lifecycle handlers of the hub | `OnIssued`, `OnKeyedIssued`, `OnRevoked`, `OnDenied`, `OnDenialCorrected` as functions of a holder's storage |
| `LifecycleLedger` | abstract specification of the hub | delivered receipts and the view that source order determines |
| `ProofmarkASC` | hub contract | `Execute` starts a call, `WalkLog` handles one log, `Revert` and `Commit` end it |
| `RotatingIssuer`, `ComplianceSource` | source contracts | one action per function; `Mine` and `NextBlock` form transactions and blocks |
| `RosterSource` | what the publisher's replay makes of the logs | |
| `CrossChain` | hub, instantiated with the source's receipts, beside the replay | |
| `ProofmarkRegistry`, `GatedRwaNote`, `RosterTree` | consumers of the hub | one action per function; the tree's proofs as terms |
| `WorkerStore`, `RelayHub`, `RelayWorker` | the worker's file, the hub as its RPC shows it (external), and the worker from await to await | |
| `ServiceMonitor` | probe, evidence directory, window audit | composed with the worker's store |
| `IssuanceJournal` | Redis scripts, one step each | also the abstract specification of the delivery |
| `EvidenceVault` | operations of the vault on one record | a precondition and a new case for each |
| `IssuanceDelivery` | `advanceIssuance` from await to await | journal, budget, vault and chain together |
| `Rescreening` | runs, reviewers, deletion, recovery tools over `EvidenceVault` | |
| `PublicationJournal`, `EpochPublication`, `SourceReplay` | publishing an epoch; replaying the source | one step per await |
| `KycFlow` | bank step and guided flow | one step per script, bank call or route |
| `ProviderSession` | hosted verification | polls and callbacks, one step per Redis operation |
| `ProcessingPolicy` | both manifests along a flow | |
| `WalletSession`, `VerifyPage`, `ProviderPage` | browser | one step per await |
| `AuditExport` | from the record to the auditor | |
| `*Proof` | – | theorems (section 6) |
| `MC*` | – | small instances |

### How state and actions correspond to the code

**Hub.** `store` is the contract's storage, `work` the storage a call in progress has
written; a revert restores it. `Attest` is the external verifier: a receipt mined at a
coordinate may be proved, no two receipts share a coordinate, and epochs are published
in increasing order (`_checkEpoch`). A log's `wf` flag stands for topic counts, data
length and value ranges. `now` is the hub's `block.timestamp`.

**Source.** A contract account may make several calls in one transaction, so calls
append to `txLogs`, and `Mine` seals the receipt. A call whose guard fails reverts and
leaves no trace. Timestamps are measured in blocks. `by` in keyed logs is a ghost
field: the operating key behind the call. Ownership of `ComplianceSource` itself is
left out: it decides only who sets roles, and roles change freely here.

**Worker.** `Store.commit` writes a temporary file, syncs and renames it, and reads the
file again on error: `CommitFails` leaves either record and reports a failure. Tasks,
the sender, the two audits and the loop interleave at awaits. `queryId` is written
together with `ascTxHash` or `skipped`, so it is no field of its own. The reads inside
one scan step or one audit of receipts are one step: the code reads the block hashes
again at the end of both and discards what changed. One process runs at a time
(`lease.ts`). Faults are a set `trouble`; the constant `Mixes` lists which are met
together.

**Issuance.** Each Redis script is one step. A pass holds its own copy of the entry
(`mine`), its revision and lease token, and may lose its lease, its answers or its
process at any await. Transactions are named by their nonce and request. The vault is
`EvidenceVault`, one case per request.

**Vault and rescreening.** `EvidenceVault.mutate` reloads and replaces the file without
an await, so it is one step; what a process read before an await may be stale after it.
The engine answers under the list in force at each await. Mined is confirmed; a fork is
`ForgetRevocation`. Records carry no policy snapshot.

**Publication and replay.** A second process meets the lock and stops. Role, roster and
approval checks that fail are one action, `Throw`. A transaction is identified by its
journal index and nonce. In the replay, a block's hash is the chain up to the block, so
that equal hashes are equal histories; the calls of one `Promise.all` are one step.

**Guided and hosted verification.** The server keeps no session: a token is a record
with its flow, its expiry and the policies it names. `record`, `counter` and `current`
are the Redis hashes of `bank-state.ts` (and its in-memory twin). A vendor answers
arbitrarily. `fenceHash` of the hosted verification is the record's fence; `Hangup` is
a process that dies or a call that fails.

**Pages.** `WalletSession` raises a revision at every interruption; a request remembers
the revision it started under. Where the code clears and attaches in one go the revision
is raised once.

**Policies.** A fingerprint hashes a manifest: a name of its own for each one. The
deployment is a production one (`demo = false`). Of the countries of a flow only whether
they include `GLOBAL` is kept; wording is left out. Flows are a list, as in the code:
`flows.find` looks no further than the first chain flow, so `FlowsDefined` does neither,
and `MCKyc` has manifests with two of them in either order.

**Audit export.** What is signed carries its signer's key; a digest is what it digests.

## 3. Runs

| Run | Explores | Checks |
|---|---|---|
| `hub` (751 167 states) | receipts of issuances, revocations, denials, corrections, epochs and compromise declarations in every order, with opposing, lookalike, failed and reverting logs; two holders | `StorageFollowsSourceOrder`: a holder's storage is what source order makes of the logs applied so far, also within a receipt; `ImplementsLedger`: refinement of `LifecycleLedger`; `DenialLiftedOnlyByCorrection`; `RosterIsNewestDelivered`; `CompromiseCutsOff` |
| `cross` (347 822) | both contracts and the replay; denials, two corrections, one role change, three keys, three generations, two requests, two epochs, three blocks | `SourceLogsAreAccepted`: the hub refuses no log of the source except a roster from the future of its clock; `AgreesOnceRelayed`; `RosterMatchesHub`: the replay lists whom the hub's credentials list, also after their expiry; `CorrectionAnswersEveryDenial`; `KeysStayApart`: from the issuer's owners, and one generation from another |
| `note` (731 714) | two holders, two accounts, a hub that publishes, revokes, distrusts and expires; every roster of four subjects | `WitnessIsCurrent`, `RecoveryTakesTwo`, `BalancesMoveByRule`, `ProofsAreExact` |
| `relay` (1 733 219) | two jobs, pool of two, pairs of a crash, a failing write or call, forks of both chains, another relayer, a forgotten transaction, a rollback, a restored file | `EvidenceKept`: whatever reached the hub is the stored envelope or in its job's history; `OutcomeIsOnHub`; `HubHeldForCause`; `SignedOnce` |
| `relay_liveness` (53 525) | two jobs, pool of one | `EveryJobCloses` |
| `issuance` (1 148 539) | two requests, a web process and the resume script, one fault | `SignedHoldsGate`, `OneNonceOneTransaction`, `DecisionStands` |
| `issuance_liveness` (208 054) | two requests, the resume script | `RequestsSettle` |
| `rescreen` (1 140 463) | two records (one denied on chain), two operators, backups, one fault; beside it the monitor with one outage, of the worker, its file, the source or the hub | `SentIsRetained`, `DrainedMeansRevoked`, `BlockStands`, `ErasureIsAgreedAndFinal`; `OutageIsSeen` |
| `rescreen_liveness` (146 275) | one record | `BlockIsDelivered` |
| `publication` (2 316 447) | two publications, one fork, another publisher, one fault; beside it the replay of three blocks in chunks of two with three forks and four moves | `SentIsRecoverable`, `ConfirmedStands`; `SnapshotIsCanonical` |
| `kyc` (648 632) | the guided flow (two flows, two handlers, one account), the hosted verification, both pages, the policies and the export, each from the same initial state | `OneDepositPerStart`, `BitsAreEarned`; `ApprovalIsFresh`; `PageIsOneSession`, `CommittedIsRecoverable`, `HostedIsOneSession`; `ProcessedAsDisclosed`; `ExportIsBacked` |
| `revocation_nonce` | two denied records, two faults | expected violation, section 4 |

Each property has a mutant in `PROJECT.json`: a faulty variant of a definition (a
dropped guard, a missing reset, a swapped order), standing beside the definition it
replaces, under which TLC finds the property violated.

**Bounds and why they are enough.** Every bound is a named constant; the state space of
every run is explored to its end. Source order needs three coordinates to tell the
three levels of the order apart (`MCProofmarkASC`: same height with two transactions,
and a later height). Two jobs, requests, records or flows are enough for a conflict
over a nonce, a gate, a lock or a token; one fault of each kind meets every await; two
publications are enough for one to supersede the other; a day (`Budget = 3`) is longer
than a challenge and a token together (`Lifetime = TokenLife = 1`), as in the code.
Parts that share no state are explored from one initial state but not interleaved
(`MCKyc`, `MCOperations`, `MCEpochPublication`, `MCGatedRwaNote`, and in `MCCrossChain`
the families of denials and of keys): interleaving them would only multiply states.
`CHECK_DEADLOCK FALSE` is set where a bounded chain or clock is used up; the relay and
publication runs check deadlock. Symmetry is used in runs without liveness only.

**Exceptions the properties name.** `DrainedMeansRevoked` excludes an issuance that was
mined after a revocation, being in flight when the record was blocked; `ErasureIsAgreedAndFinal` a restore from a backup
that is older than the record; `ConfirmedStands` a source fork deeper than the
confirmations between re-observing and planning; `RequestsSettle` a request withheld by
a reviewer or superseded on the hub. `SignedOnce` is claimed for restored files only
while no node forgets a pending transaction: if an old copy is put back and the node has
lost the only trace of a signature, no audit can know of it. `HubHeldForCause` names a
behaviour worth knowing: a job that exhausts its attempts without a hub transaction is
stored as `dead` without history, and the next audit holds the worker for it.

**Fairness.** *Relay:* weak fairness of the loop, each audit, the sender and each task
(Node runs every resolved await, a supervisor restarts the process), of attestation,
mining and depth; strong fairness of a broadcast that arrives (the same bytes are sent
every cycle, and a network that loses all of them is not assumed). *Issuance:* weak
fairness of each pass, of lapsing leases, of the chains and of midnight; strong fairness
of `Begin` by the resume script, which runs on a schedule and tries every pending
request again. *Rescreening:* weak fairness of starting a run, of its steps, of an
operator removing a dead run's locks and of mining. Crashes, forks, losses and faults are
not fair and are bounded.

## 4. Findings

1. `revocation_nonce` (a run). `pipeline/rescreen.ts:76` says "Preserve
   ordering/nonces; do not sign later jobs behind an unknown pending transaction." and
   `:49` "Re-broadcasts use the identical signed transaction/nonce; a timeout never
   authorizes a new one." The loop stops only for an unknown outcome: after a mined
   revert it signs the next job with the next nonce; when that outcome stays unknown, the
   next run prepares the reverted job afresh with that same nonce. One of the two can
   never be mined; a later run signs it again.
2. `pipeline/privacy-processing-policy.ts:223`: "on-chain data flow
   must disclose its public global recipient and data". Only the first chain flow of a
   manifest is looked at (`:219`), while `authorizeProcessing` (`:267`) takes the one with
   the recipient asked for. A manifest may list a public chain flow to another recipient
   and after it one to `public:blockchains` that is neither public nor global; issuances
   are then published under the second (`mirrorFirst` in `MCKyc`; `mirrorLast` is refused).
   The model follows the code. `ProcessedAsDisclosed` claims what remains true:
   the signed manifest tells of a public, global recipient in some chain flow.
3. `ComplianceSource.sol:15-16` ("denial is permanent") and `ProofmarkASC.sol:62`
   ("Monotonic sanctions state") predate governed corrections, which lift a denial.
4. `RotatingIssuer.sol:61` advises "Use suspend first for a suspected compromise."
   `declareCompromise` (`:91`) then names a generation that never had a key, and the
   suspended generation can no longer be cut off.
5. `pipeline/issuance-evidence.ts:16-17`: "Recheck the exact screening snapshot at each
   pre-sign/pre-send fence." The sink of `script/resume-issuances.ts:49-53` is built
   without such a check; the resume script also publishes without asking for the
   processing and retention policy in force (modelled as `Recover`).
6. `script/renew-demo-epoch.ts:4-7` calls itself a one-shot command; the 30 seconds of
   `EPOCH_SOURCE_WAIT_SECONDS` are less than the 12 confirmations take, and the pending
   journal entry then refuses every later `--publish` until somebody resumes it.

Behaviours to know, found while modelling and allowed by the properties:

* A signed but unsent issuance whose record is put under review keeps the signer gate of
  the account until somebody decides; a rotated key with a signed issuance in flight
  wedges the gate; a reservation reconciled more than 48 hours ago is charged again.
* A record that is denied on chain is blocked without a revocation job until the next
  run; an unconfirmed write of the vault leaves its lock.
* A publication that was signed, dropped by the network and has expired can be neither
  sent nor abandoned. Locks of journal and checkpoint survive a crash. A checkpoint of
  a block that was forked away stops the replay until it is removed.
* A vendor failure after a transfer may have been made leaves the start pending for a
  day, and the default `startRequestId` is keyed by account. A deposit of a superseded
  challenge is useless.
* A process that dies between opening and renaming an observation leaves a `.tmp` file
  that makes every later audit of the directory fail.
* A roster past its expiry stops transfers and burns of the note. An issuance with one
  live axis in a sandbox regime can never be exported. An export is refused unless the
  verifier's observation carries the exporter's `observedAt`.
* Pages: a poll in flight when a sample is loaded, a late poll of a recovered request,
  consent withdrawn while connecting, a late failing renewal of the provider's token, and
  a second issue of one wallet overwriting the saved identifier.

## 5. What the models take for granted

Proof verification on the hub is the external verifier's; a receipt's coordinate is
what it proves. Reads of account nonces are accurate; confirmed source blocks do not
fork in the issuance model; no pass runs across midnight; a lease that lapses during a
running pass is a fault. Rescreening and the publisher run one at a time, as their lock
files have it. The local clock of the web servers agrees with Redis. Bands of an
identity policy grow with their level (`defineIdentityPolicy` refuses others).
`CommittedIsRecoverable` takes it that `sessionStorage` accepts a write: where it does
not, the page leaves it to the user to copy the request identifier (`page.tsx:269`). The
exporter of the audit model seals what it has prepared; the verifier repeats every check.

## 6. Proofs

The theorems hold for every value of the constants: any number of holders, issuers,
receipts, keys, requests, processes, flows. Every inductive invariant was first checked
by TLC.

**Hub** (`ProofmarkASCProof`). `LifecycleKeepsOrder`: each handler
takes storage in source order over a set of logs to storage in source order over that
set and the new log, wherever the log belongs. The invariant of the contract is `IInv ==
TypeOK /\ CallDiscipline /\ OneReceiptPerCoordinate /\ CommittedInOrder /\
StorageFollowsSourceOrder`: a revert goes back to the committed storage, so that must be
in order as well; a walk must know where it stands; and two logs at one coordinate would
make source order ambiguous. From it follow `SourceOrderTheorem`, `LedgerRefinement`
(`Commit` maps to `Deliver`, `ConfigureSource` to `Pin`, every other step stutters) and
the action property `DenialIsHeld`. `NewestRosterInForce` and `CompromiseIsCutOff` rest
on `LogsInv`, which says the same of the committed and of the working copy of rosters
and keys, and that epochs come from different coordinates.

**Source** (`ComplianceSourceProof`). `RecoverySeparation`: inductive `IssuerTypeOK /\
RecoveryIsSeparate`; a lemma shows that every step of `ComplianceSource` is a step of
the issuer or leaves it alone. The other two theorems are about what the chain has on
record, so both rest on `LogShape` (coordinates of receipts only grow) and `EmitAdds` (a
call adds its logs after all others). `CorrectionsAnswerDenials`: `DecisionInv` says of
every holder that storage fits his entries (`Fits`): the revision is the number of
denials, a correction carries the number of denials before it, and the correction with
the present revision, if there is one, has ended the denial; without the last part a
second correction of the same denials could not be excluded. One lemma for each kind of
addition (`AddOrdinary`, `AddDenials`, `AddCorrection`). `KeysAreApart`: `KeyInv` says
that logs of the present generation, and no others, name the operating key, that a
proposed key was never used, and that declared generations are past.

**Both contracts** (`CrossChain`, in the same proof module). `SourceIsAccepted` states
`SourceLogsAreAccepted`: no log the source lets through can block the rest of its
receipt on the hub, whoever relays what and when. `SoundInv` says of every receipt, and
of the transaction in progress, what the hub's checks ask of it (`LogsSound`). Each kind
of log needs another reason: a generation is never zero (`IssuerInv`); an executed
correction answers at least one denial and has two people (`DecisionInv`); a roster's
approvals are distinct because addresses increase (`AddressesGrow`), and the stable
issuer's key follows at most one of them (`OrderedIsSound`). A transaction may publish
twice, but epochs grow, so each publication is judged by its own call (`AboutFirst`,
`AboutSecond`). `HubInv` adds that the hub has approved nobody for an epoch later than
its current one, neither in storage nor in the working copy.

**Note** (`GatedRwaNoteProof`). `RecoveryNeedsTwoAccounts`, `CachedWitnessIsCurrent`,
`MovementsAreGated` (action property), `PolicyIsPermanent` and `OnlyTheListedGain`,
which puts them together: a balance grows only for a holder whom the root in force lists
with a mark that meets a policy nobody can change.

**Issuance** (`IssuanceDeliveryProof`). `OneSignerAtATime` for the journal alone:
`JournalInv == JournalTypeOK /\ SignedHoldsGate /\ LeaseHoldsGate /\ OnlySettledExpire`
(a lease granted over a gate is what a save relies on). The delivery adds what a pass
remembers: `DeliveryInv == DeliveryTypes /\ JournalInv /\ JournalFits /\ ChainFits /\
LeftFits /\ PassesFit`. From it: `DeliveryImplementsJournal` (every await of a pass is
one script of the journal or a stutter), `SignerIsHeld`, `NoIssuanceReplacesAnother`,
`UnresolvedIsNeverLost` (a request that may still be mined is named by the gate) and the
action property `ComplianceDecisionStands`.

**Verification** (`KycProof`).
* `SignedBeforeProcessed`: `PolicyInv == PolicyTypes /\ SignedAsShown /\ HandledAsSigned
  /\ FiledAsSigned`. Only the first chain flow is validated: that there is a first one
  (`FirstPlace`) needs the flows to be listed, which is `PolicyAssumption`. That the flow
  in use is itself public is not claimed, for it is false (section 4).
* `ApprovalFollowsCallbacks`: `ProviderInv == ProviderTypes /\ CallsFit /\
  ApprovalIsFresh`. What a caller read before its await may be stale; `CallsFit` says in
  what way: evidence that a fence changed is never an approval, and a caller that is
  about to write holds the revision it read.
* `OneDepositForEachStart` and `IssuedBitsAreEarned`: `GuidedInv == GuidedTypes /\
  StartsFit /\ PaymentsFit /\ OneDepositPerStart /\ BitsAreEarned`. The record that makes
  a start idempotent expires after a day, so the argument needs time: the wallet signs
  once for a flow, its proofs run out within `Lifetime + TokenLife`, and `BankAssumption`
  says that this is less than a day; `StartsFit` keeps, for every deposit and every
  handler still at work, when its start was reserved. `PaymentsFit` carries the payment
  from the deposit through the record, the sealed challenge and the sealed result to the
  issuance. The levels need that bands grow (`IdentityAssumption`).
* `AcceptedExportIsBacked`: `AuditInv == Shapes /\ ExportsFit /\ ExportIsBacked`.
* `OnePageOneSession` and `SentCanBeResumed` of the guided page: `VerifyInv` says that an
  answer still on its way was asked for at a revision no later than the present one and
  with what the page then held, that what waits for the wallet is of this session, and
  which identifiers the browser keeps; the property alone says nothing of late answers.
  `HostedPageOneSession`: `HostedInv` says the same of the hosted page's reads and token
  renewals.

**Rescreening** (`RescreeningProof`). `RescreenInv == RescreenShape /\ FileFits /\
RunFits /\ SentIsRetained`, with `FileFits` for the file and for its backup. `FileFits`
says of every case that a signature is of the record it is kept with, that a confirmed
job's transaction was mined, and that there is no record only before the first or after
an erasure. `RunFits` says what a run may rely on after an await: its queue names jobs
the file has, while it reads a receipt or sends the job is signed, and what it sends is
not confirmed; otherwise a broadcast could be of a transaction nobody keeps. Every
operation of the vault is one lemma (`PutFits`, `RescreenedFits`, `DecidedFits`,
`ErasedFits`, ...): the jobs go on (`GoesOn`) and the record changes lawfully (`Lawful`);
only the run changes a job's signature (`JobChanged`). From these:
`SentRevocationsAreKept`, `DrainedOutboxMeansRevoked` and the action properties
`BlocksStand` and `ErasuresAreAgreedAndFinal`.

**Relay worker** (`RelayWorkerProof`). `SentIsOnRecord` and `ClosedOnDeepEvidence`, with
crashes, failing writes, forks, rollbacks and restored files in any combination. An await
separates what a task read from what it does, so `RelayInv` says what may be relied on
after it: of the file and its copy (`FilesFit`), that only the owner of the envelope is
submitted, under the envelope's hash; of the tasks (`TasksFit`), that only pending jobs
run, and that nobody but the sender's owner is sending; of the sender (`SenderFits`), that
an envelope is stored exactly from the reservation on, so that nothing unreserved is
broadcast; and that what it read of the hub is still mined below the trusted depth unless
a trusted block went (`SenderSees`). One lemma says of each kind of commit that it loses
neither a pending job, nor an envelope on record, nor the evidence of a closed job
(`Succeeds`; `ReserveKeeps` and `FinishKeeps` for the two that change the envelope), and
one of the hub that a step of it only adds evidence to what is trusted (`DeeperEvidence`).

**Monitor** (in `RelayWorkerProof`). `NoOutageIsHidden`, from `MonitorInv`. A probe asks the
worker, the source and the hub at three moments, and the file at a fourth, so no moment
need exist at which all it reported was true together; an outage is therefore one of a
single aspect. A tick is `Spared` if the aspect was
well at it or later and it is none of the first ticks, as many as the allowed gap, of the
latest outage: an outage is `Span` long, the gap plus the probe's timeout, so a probe begun
in those ticks ends within it. `RunFits` says which partial answers of a
running probe already spare its start (`SawWell`: the file counts only when the source has
answered, for a checkpoint can fall behind between the two), `RecordsFit` that every
recorded OK is spared. In a complete window the newest record before an outage has
another within the gap, which lies in the outage and is not spared.

**Publication** (`PublicationProof`). `SentCanBeRecovered` and `ConfirmationsStand` from
`PubInv == PubTypeOK /\ NoncesFit /\ JournalHolds /\ CliFits`. `JournalHolds` adds to the
two properties what every save validates and that the roster of every entry is in every
replica. `CliFits` says what the one process relies on between its awaits: the entry it
works on stands (only another command abandons, and the lock keeps it out), past the first
observation that entry is signed, and a plan about to begin is staged. `NoncesFit`: one
account's transactions are mined in the order of their nonces, so a fork takes exactly the
last one, and an entry has at most one receipt. Every write of the journal is one lemma
(`AbandonedWrites`, `PreparedWrites`, `ConfirmedWrites`, `BegunWrites`) that it `Writes`:
what is signed stays, a confirmation is what was observed; so a write that may or may not
have reached the disk keeps the invariant either way (`CliPoisoned`).

**Assumptions on constants**, all evaluated by TLC: shapes of receipts and attributes
(`ReceiptsAssumption`), increasing epochs of one source (`EpochsAssumption`), null values
that are no value (`ContractsAssumption`, `NoReceiptAssumption`, `NoKeyAssumption`,
`NoSlotAssumption`, `NoRecordAssumption`), and constants of the code
(`SourceAssumption`, `CrossAssumption`, `RegistryAssumption`, `NoteAssumption`,
`JournalAssumption`, `DeliveryAssumption`, `BankAssumption`, `IdentityAssumption`,
`ProviderAssumption`, `WalletAssumption`, `PolicyAssumption`, `RescreenAssumption`,
`ExportAssumption`, `RelayAssumption`, `MonitorAssumption`, `PublicationAssumption`).

**Only model-checked.** The three liveness properties (`EveryJobCloses`,
`RequestsSettle`, `BlockIsDelivered`): liveness under fairness and `ENABLED` are out of
the prover's reach. `ProofsAreExact`, `RosterMatchesHub` and `SnapshotIsCanonical`:
induction over a tree and over a sequence of logs. `SignedOnce` and
`HubHeldForCause` hold for the mixes of faults the run explores. `AgreesOnceRelayed`
compares two readings of the whole record; each reading has its own theorem
(`CorrectionsAnswerDenials`, `SourceOrderTheorem`), their agreement is left to TLC.

## 7. Not modelled, and why

`src/zk`: an example gate of a few guards; its circuit and verifier are cryptography.
Worker transport and configuration: HTTP reads with limits, and parsing. The AML engine:
matching and scoring of strings without control; which list is in force is a number.
Other pages show public reads. Deployment scripts drive the contracts once; the roles
they assign are the initial state of `ComplianceSource`. Proof verification, RLP and ABI
decoding, signatures and encryption appear as what the code relies on. Ownership
transfers of the library contracts and allowances are left out.

## 8. Plan

The components above are modelled and checked, and the invariants within the prover's
reach are proved. What is left is `AgreesOnceRelayed` of the two contracts together.
