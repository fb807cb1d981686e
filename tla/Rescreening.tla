---------------------------- MODULE Rescreening ----------------------------
(***************************************************************************)
(* The vault file and everyone who works on it: the rescreen run with its  *)
(* lease, its screening pass and its outbox of revocations, the issuance   *)
(* callbacks, the reviewer, the deletion workflow, the enforcement check   *)
(* and the recovery tools.  EvidenceVault.mutate reloads and replaces the  *)
(* file without an await, so it is one step; what a process read before an *)
(* await may be stale after it.                                            *)
(***************************************************************************)
EXTENDS EvidenceVault

CONSTANTS
  Records,        \* record ids, one wallet each
  Denied,         \* records that may have been denied before the start; nobody works on them
  Operators,      \* labels of the operators of the deletion workflow
  Holds,          \* legal hold ids
  Verdicts,       \* Verdicts[list][r]: what the engine decides under a list
  Interval,       \* the rescreen interval
  Retention,      \* how long a record is kept
  BackupTimes,    \* when backups are taken, with no run and no work in between
  IssueTx,        \* the transaction that issued a record's credential
  NoCase, NoJob,
  MaxTime,
  MaxFaults,      \* lost answers, crashes, failing calls, reverts and restores
  MaxWork         \* faults, reviews, checks and retention commands together

VARIABLES
  file,           \* file[r]: the case of record r in the encrypted file
  locked,         \* the vault's lock file was left behind
  lease,          \* the run's lease file exists
  run,            \* the rescreen run in progress
  review,         \* the case a reviewer has open
  check,          \* the job an enforcement check has read, and what it saw
  backup,         \* the newest backup
  issue,          \* issue[r]: what became of the issuance of record r
  pool, nonce,    \* the revoking account: pending transactions, next nonce
  sent,           \* revocations that were handed to the network
  reverted,       \* revocations that were mined and reverted
  events,         \* events[r]: the source events of r's wallet, in order
  hubAt,          \* how many of them the hub has applied
  list,           \* the sanctions list in force
  gone,           \* records that were erased
  rolled,         \* an older state of the file was restored
  time, work, faults

vaultVars == <<file, locked, backup, gone, rolled>>
deskVars  == <<review, check>>
chainVars == <<pool, nonce, sent, reverted>>
worldVars == <<issue, events, hubAt, list>>
rescreenVars == <<vaultVars, lease, run, deskVars, chainVars, worldVars, time, work, faults>>

\* Records, and the signed revocations of their holders.
VaultRecords ==
  [state : VaultStates, src : {NoTx, IssueTx}, hub : BOOLEAN, until : Int, screened : Int,
   list : Int, decided : Int, decisions : Int]
Revocations == [rec : Records, nonce : Int]

ASSUME RescreenAssumption ==
  /\ IsFiniteSet(Records) /\ {Retention, MaxTime} \subseteq Nat
  /\ NoRecord \notin VaultRecords /\ NoTx \notin Revocations /\ IssueTx \notin Revocations

Asleep == [pc |-> "idle", now |-> 0, last |-> FALSE, queue |-> << >>,
           expected |-> [r \in Records |-> NoRecord], list |-> 0]

RescreenInit ==
  /\ \E put \in SUBSET Denied :
       file = [r \in Records |-> IF r \in put THEN Put(NewCase, "DENIED", 1, 1 + Retention) ELSE NewCase]
  /\ locked = FALSE /\ backup = NoCase /\ gone = {} /\ rolled = FALSE
  /\ lease = FALSE /\ run = Asleep
  /\ review = NoCase /\ check = NoJob
  /\ issue = [r \in Records |-> IF r \in Denied THEN "never" ELSE "none"]
  /\ pool = {} /\ nonce = 0 /\ sent = {} /\ reverted = {}
  /\ events = [r \in Records |-> << >>] /\ hubAt = [r \in Records |-> 0]
  /\ list = 1 /\ time = 1 /\ work = 0 /\ faults = 0

Fault   == faults < MaxFaults /\ faults + work < MaxWork /\ faults' = faults + 1
NoFault == UNCHANGED faults
Work    == faults + work < MaxWork /\ work' = work + 1

(***************************************************************************)
(* Writing the file.  A write whose outcome is not confirmed leaves the    *)
(* lock behind, with the new file or the old one.                          *)
(***************************************************************************)
Wrote(f) == ~locked /\ file' = f /\ UNCHANGED locked /\ NoFault
WroteUnconfirmed(f) == ~locked /\ Fault /\ file' = f /\ locked' = TRUE

\* A command of one process: what it returns matters to nobody else.
Write(r, c) ==
  /\ Wrote([file EXCEPT ![r] = c]) \/ WroteUnconfirmed([file EXCEPT ![r] = c])
  /\ UNCHANGED <<backup, gone, rolled>>

WriterDies ==
  /\ ~locked /\ Fault /\ locked' = TRUE
  /\ UNCHANGED <<file, backup, gone, rolled, lease, run, deskVars, chainVars, worldVars, time, work>>

\* The operator establishes that the writer is dead and removes its lock.
ClearVaultLock ==
  /\ locked /\ locked' = FALSE
  /\ UNCHANGED <<file, backup, gone, rolled, lease, run, deskVars, chainVars, worldVars, time, work, faults>>

\* The file keeps records and jobs in the order they were added: the place of
\* a job that is queued for r now.
Rank == CHOOSE f \in [Records -> 1 .. Cardinality(Records)] : \A r, q \in Records : r # q => f[r] # f[q]

Place(r) ==
  LET jobs == UNION {{<<q, i>> : i \in DOMAIN file[q].jobs} : q \in Records}
  IN Cardinality(jobs) * (Cardinality(Records) + 1) + Rank[r]

(***************************************************************************)
(* The run: recover, deliver, screen, deliver.                             *)
(***************************************************************************)
RunFrame == UNCHANGED <<lease, backup, gone, rolled, deskVars, worldVars, time, work>>

Goto(pc) == run' = [run EXCEPT !.pc = pc]

\* The run goes on after its write, or gives up.
RunWrites(f, next) ==
  \/ Wrote(f) /\ run' = next
  \/ WroteUnconfirmed(f) /\ Goto("end")
  \/ locked /\ Goto("end") /\ UNCHANGED <<file, locked, faults>>

StartRun ==
  /\ run.pc = "idle" /\ ~lease
  /\ lease' = TRUE
  /\ run' = [Asleep EXCEPT !.pc = "recover", !.now = time]
  /\ UNCHANGED <<vaultVars, deskVars, chainVars, worldVars, time, work, faults>>

EndRun ==
  /\ run.pc = "end"
  /\ lease' = FALSE /\ run' = Asleep
  /\ UNCHANGED <<vaultVars, deskVars, chainVars, worldVars, time, work, faults>>

RunDies ==
  /\ run.pc # "idle" /\ Fault
  /\ run' = Asleep
  /\ UNCHANGED <<vaultVars, lease, deskVars, chainVars, worldVars, time, work>>

\* The operator removes the lease of a dead run.
ClearLease ==
  /\ lease /\ run.pc = "idle"
  /\ lease' = FALSE
  /\ UNCHANGED <<vaultVars, run, deskVars, chainVars, worldVars, time, work, faults>>

(***************************************************************************)
(* deliverRevocations.                                                     *)
(***************************************************************************)
Outbox(f) == UNION {{<<r, i>> : i \in Unconfirmed(f[r])} : r \in Records}

\* listPendingRevocations: the jobs in the order they were queued.
Listed(f) ==
  {q \in [1 .. Cardinality(Outbox(f)) -> Outbox(f)] :
     /\ {q[n] : n \in DOMAIN q} = Outbox(f)
     /\ \A m, n \in DOMAIN q : m < n => f[q[m][1]].jobs[q[m][2]].n < f[q[n][1]].jobs[q[n][2]].n}

\* The loop goes on with queue q: to the next job's first call, or past the loop.
Onward(f, q) ==
  [run EXCEPT !.queue = q, !.pc =
     IF q # << >> THEN IF f[q[1][1]].jobs[q[1][2]].tx = NoTx THEN "sign" ELSE "receipt"
     ELSE IF run.last \/ Outbox(f) # {} THEN "end" ELSE "select"]

RecoverBlocked ==
  /\ run.pc = "recover"
  /\ LET f == [r \in Records |-> Recovered(file[r], run.now, Place(r))] IN
       \E q \in Listed(f) : RunWrites(f, Onward(f, q))
  /\ UNCHANGED chainVars /\ RunFrame

\* After the screening, however it ended.
ListOutbox ==
  /\ run.pc = "deliver"
  /\ IF locked THEN Goto("end") ELSE \E q \in Listed(file) : run' = Onward(file, q)
  /\ UNCHANGED <<file, locked, chainVars, faults>> /\ RunFrame

Job == run.queue[1]
JobCase == file[Job[1]]
JobTx == JobCase.jobs[Job[2]].tx

\* The node's view of the account's next nonce.
PendingNonce(n) ==
  /\ \A t \in pool : t.nonce # n
  /\ \A k \in nonce .. n - 1 : \E t \in pool : t.nonce = k

\* failRevocation after a failed call; the loop stops.
JobFails == Fault /\ run' = Onward(file, << >>) /\ UNCHANGED <<file, locked, chainVars>>

\* prepare, and the signature is durable before anything else happens.
SignJob ==
  /\ run.pc = "sign"
  /\ \/ \E n \in nonce .. nonce + Cardinality(pool) :
          LET t == [rec |-> Job[1], nonce |-> n] IN
          /\ PendingNonce(n) /\ MayPrepareJob(JobCase, Job[2], t)
          /\ RunWrites([file EXCEPT ![Job[1]] = PrepareJob(JobCase, Job[2], t)], [run EXCEPT !.pc = "receipt"])
          /\ UNCHANGED chainVars
     \/ JobFails
  /\ RunFrame

\* receipt: the canonical, confirmed outcome.
Mined(t) == t \in reverted \/ \E n \in 1 .. Len(events[t.rec]) : events[t.rec][n] = t

\* Faulty variant: the status is not looked at.
AnyReceipt(t) == IF Mined(t) THEN "success" ELSE "null"

Receipt(t) == IF t \in reverted THEN "reverted" ELSE IF Mined(t) THEN "success" ELSE "null"

\* receipt and wait: what is settled is recorded; an unknown outcome is sent
\* again once and then stops the loop.
Settle(pc) ==
  /\ run.pc = pc
  /\ LET records(c, q) == LET f == [file EXCEPT ![Job[1]] = c] IN RunWrites(f, Onward(f, q)) IN
     \/ Receipt(JobTx) = "success" /\ records(FinishJob(JobCase, Job[2]), Tail(run.queue))
     \/ Receipt(JobTx) = "reverted" /\ records(FailJob(JobCase, Job[2], TRUE), Tail(run.queue))
     \/ /\ Receipt(JobTx) = "null"
        /\ IF pc = "receipt"
           THEN Goto(IF locked THEN "end" ELSE "broadcast") /\ UNCHANGED <<file, locked, faults>>
           ELSE records(FailJob(JobCase, Job[2], FALSE), << >>)
     \/ JobFails
  /\ UNCHANGED chainVars /\ RunFrame

ReadReceipt == Settle("receipt")

BroadcastJob ==
  /\ run.pc = "broadcast"
  /\ sent' = sent \cup {JobTx}
  /\ \/ pool' = (IF JobTx.nonce >= nonce /\ \A t \in pool : t.nonce # JobTx.nonce
                 THEN pool \cup {JobTx} ELSE pool) /\ NoFault
     \/ Fault /\ UNCHANGED pool
  /\ Goto("wait")
  /\ UNCHANGED <<file, locked, nonce, reverted>> /\ RunFrame

WaitForJob == Settle("wait")

(***************************************************************************)
(* screenDue.                                                              *)
(***************************************************************************)
\* The interval's records are read before the first await.
SelectDue ==
  /\ run.pc = "select"
  /\ \/ /\ run' = [run EXCEPT !.pc = "lists", !.expected =
             [r \in Records |-> IF Due(file[r], run.now, Interval, 0) THEN file[r].rec ELSE NoRecord]]
        /\ NoFault
     \/ Fault /\ Goto("end")     \* the lists could not be loaded
  /\ UNCHANGED <<file, locked, chainVars>> /\ RunFrame

\* A failure from here on still delivers what was committed.
ScreeningFails == run' = [run EXCEPT !.pc = "deliver", !.last = TRUE, !.expected = Asleep.expected, !.list = 0]

ReadLists ==
  /\ run.pc = "lists"
  /\ \/ /\ run' = [run EXCEPT !.pc = "screen", !.list = list, !.expected =
             [r \in Records |-> IF run.expected[r] = NoRecord /\ Due(file[r], run.now, Interval, list)
                                THEN file[r].rec ELSE run.expected[r]]]
        /\ NoFault
     \/ Fault /\ ScreeningFails
  /\ UNCHANGED <<file, locked, chainVars>> /\ RunFrame

Selected == {r \in Records : run.expected[r] # NoRecord}

Verdict(r) == Verdicts[list][r]

MayCommit(r) ==
  /\ list = run.list
  /\ MayRescreen(file[r], run.expected[r], run.now)
  /\ Verdict(r) = "BLOCK" => MayQueue(file[r], run.now)

ScreenRecord(r) ==
  /\ run.pc = "screen" /\ r \in Selected
  /\ IF MayCommit(r)
     THEN RunWrites([file EXCEPT ![r] = Rescreened(file[r], run.now, Verdict(r), list, Place(r))],
                    [run EXCEPT !.expected[r] = NoRecord])
     ELSE ScreeningFails /\ UNCHANGED <<file, locked, faults>>
  /\ UNCHANGED chainVars /\ RunFrame

ScreeningDone ==
  /\ run.pc = "screen" /\ Selected = {}
  /\ ScreeningFails    \* the same way on: deliver once more, then end
  /\ UNCHANGED <<file, locked, chainVars, faults>> /\ RunFrame

(***************************************************************************)
(* The issuance callbacks (IssuanceDelivery has the protocol).             *)
(***************************************************************************)
DeskFrame == UNCHANGED <<lease, run, chainVars, time>>

PutRecord(r, outcome) ==
  /\ MayPut(file[r])
  /\ issue[r] = "none"
  /\ Write(r, Put(file[r], outcome, time, time + Retention))
  /\ issue' = [issue EXCEPT ![r] = IF outcome = "ISSUED" THEN "ready" ELSE "never"]
  /\ UNCHANGED <<deskVars, events, hubAt, list, work>> /\ DeskFrame

\* A replayed request puts its record again.
PutAgain(r) ==
  /\ issue[r] \in {"ready", "sent", "mined"} /\ ~Retained(file[r]) /\ MayPut(file[r])
  /\ Write(r, Put(file[r], "ISSUED", time, time + Retention))
  /\ UNCHANGED <<deskVars, worldVars, work>> /\ DeskFrame

\* The fence of assertMayBroadcast, and the transaction is out.
SendIssue(r) ==
  /\ issue[r] = "ready" /\ Retained(file[r]) /\ file[r].rec.state \in {"pending", "active"}
  /\ issue' = [issue EXCEPT ![r] = "sent"]
  /\ UNCHANGED <<vaultVars, deskVars, events, hubAt, list, work, faults>> /\ DeskFrame

MineIssue(r) ==
  /\ issue[r] = "sent"
  /\ issue' = [issue EXCEPT ![r] = "mined"]
  /\ events' = [events EXCEPT ![r] = Append(@, IssueTx)]
  /\ UNCHANGED <<vaultVars, deskVars, hubAt, list, work, faults>> /\ DeskFrame

ConfirmIssue(r) ==
  /\ issue[r] = "mined" /\ Retained(file[r]) /\ file[r].rec.src = NoTx
  /\ Write(r, [file[r] EXCEPT !.rec = SourceObserved(@, IssueTx)])
  /\ UNCHANGED <<deskVars, worldVars, work>> /\ DeskFrame

Materialize(r) ==
  /\ Retained(file[r]) /\ file[r].rec.src = IssueTx /\ ~file[r].rec.hub
  /\ hubAt[r] > 0 /\ events[r][hubAt[r]] = IssueTx
  /\ Write(r, [file[r] EXCEPT !.rec = HubObserved(@)])
  /\ UNCHANGED <<deskVars, worldVars, work>> /\ DeskFrame

(***************************************************************************)
(* The reviewer and the deletion workflow (script/vault-admin.ts).         *)
(***************************************************************************)
OpenReview(r) ==
  /\ review = NoCase /\ Retained(file[r]) /\ Work
  /\ review' = [rec |-> r, revision |-> ReviewRevision(file[r])]
  /\ UNCHANGED <<vaultVars, check, worldVars, faults>> /\ DeskFrame

DecideReview(outcome) ==
  /\ review # NoCase /\ review' = NoCase
  /\ LET c == file[review.rec] IN
       IF MayDecide(c, review.revision, time, outcome) /\ ~locked
       THEN Write(review.rec, Decided(c, time, outcome, Place(review.rec))) ELSE UNCHANGED <<vaultVars, faults>>
  /\ UNCHANGED <<check, worldVars, work>> /\ DeskFrame

AdminFrame == UNCHANGED <<deskVars, worldVars>> /\ DeskFrame

Extend(r) ==
  /\ MayExtend(file[r], MaxTime + 1) /\ Work
  /\ Write(r, ExtendRetention(file[r], MaxTime + 1)) /\ AdminFrame

Hold(r, hold) ==
  /\ MayHold(file[r], hold) /\ Work
  /\ Write(r, PlaceHold(file[r], hold)) /\ AdminFrame

Unhold(r, hold) ==
  /\ MayRelease(file[r], hold)
  /\ Write(r, ReleaseHold(file[r], hold)) /\ UNCHANGED work /\ AdminFrame

AskDeletion(r, disposition, automatic) ==
  /\ MayRequestDeletion(file[r], disposition) /\ ~Current(file[r]) /\ Work
  /\ \E o \in Operators : Write(r, RequestDeletion(file[r], o, automatic))
  /\ AdminFrame

Approve(r, o) ==
  /\ MayApprove(file[r], o)
  /\ Write(r, ApproveDeletion(file[r])) /\ UNCHANGED work /\ AdminFrame

Erase(f, rs) ==
  /\ Wrote(f) \/ WroteUnconfirmed(f)
  /\ gone' = gone \cup rs /\ UNCHANGED <<backup, rolled, work>> /\ AdminFrame

EraseRecord(r) == MayErase(file[r], time) /\ Erase([file EXCEPT ![r] = Erased(@)], {r})

PurgeExpired ==
  LET f == [r \in Records |-> Purged(file[r], time)] IN
    f # file /\ Erase(f, {r \in Records : f[r] # file[r]})

(***************************************************************************)
(* check-revocation --record.                                              *)
(***************************************************************************)
\* Where the hub stands, compared with the revocation's own coordinates.
HubSays(t) ==
  LET r == t.rec
      at == CHOOSE n \in 1 .. Len(events[r]) : events[r][n] = t
  IN CASE hubAt[r] = at -> "ENFORCED" [] hubAt[r] > at -> "SUPERSEDED" [] OTHER -> "AWAITING_HUB"

ReadEnforcement(r, i) ==
  /\ check = NoJob /\ Work
  /\ LET job == file[r].jobs[i] IN
       /\ job.tx # NoTx /\ job.tx \notin reverted /\ Mined(job.tx)
       /\ check' = [rec |-> r, i |-> i, job |-> job, seen |-> HubSays(job.tx)]
  /\ UNCHANGED <<vaultVars, review, worldVars, faults>> /\ DeskFrame

RecordEnforcement ==
  /\ check # NoJob /\ check' = NoJob
  /\ LET c == file[check.rec] IN
       IF MayRecordObservation(c, check.i, check.job) /\ ~locked
       THEN Write(check.rec, ObserveJob(c, check.i, check.seen)) ELSE UNCHANGED <<vaultVars, faults>>
  /\ UNCHANGED <<review, worldVars, work>> /\ DeskFrame

(***************************************************************************)
(* createBackup and restoreBackup.                                         *)
(***************************************************************************)
CreateBackup ==
  /\ ~locked /\ backup = NoCase /\ time \in BackupTimes
  /\ run.pc = "idle" /\ work + faults = 0
  /\ backup' = file
  /\ UNCHANGED <<file, locked, gone, rolled, deskVars, worldVars, work, faults>> /\ DeskFrame

\* The file is lost, and the operator restores the backup with the list of
\* erased ids; a revision floor below the lost file's is the operator's choice.
\* A backup of policy-bound records is also refused once the first one expires,
\* which the records here, kept without a policy snapshot, never meet.
RestoreBackup ==
  /\ backup # NoCase /\ Fault
  /\ run.pc = "idle" /\ review = NoCase /\ check = NoJob
  /\ \A r \in gone : ~Retained(backup[r])
  /\ file' = backup /\ backup' = NoCase /\ locked' = FALSE /\ rolled' = (rolled \/ backup # file)
  /\ UNCHANGED <<gone, deskVars, worldVars, work>> /\ DeskFrame

(***************************************************************************)
(* The chains and the clock.                                               *)
(***************************************************************************)
ChainFrame == UNCHANGED <<vaultVars, lease, run, deskVars, issue, list, time, work>>

\* A revocation succeeds unless the account has lost its role.
MineRevocation ==
  /\ \E t \in pool :
       /\ t.nonce = nonce
       /\ pool' = pool \ {t}
       /\ \/ events' = [events EXCEPT ![t.rec] = Append(@, t)] /\ UNCHANGED reverted /\ NoFault
          \/ Fault /\ reverted' = reverted \cup {t} /\ UNCHANGED events
  /\ nonce' = nonce + 1
  /\ UNCHANGED <<sent, hubAt>> /\ ChainFrame

\* A fork or a full pool drops a transaction.
ForgetRevocation ==
  /\ Fault
  /\ \E t \in pool : pool' = pool \ {t}
  /\ UNCHANGED <<nonce, sent, reverted, events, hubAt>> /\ ChainFrame

RelayToHub(r) ==
  /\ hubAt[r] < Len(events[r])
  /\ hubAt' = [hubAt EXCEPT ![r] = @ + 1]
  /\ UNCHANGED <<chainVars, events, faults>> /\ ChainFrame

\* A tick brings the next sanctions list, if there is one.
Tick ==
  /\ time < MaxTime /\ time' = time + 1
  /\ list' = IF list + 1 \in DOMAIN Verdicts THEN list + 1 ELSE list
  /\ UNCHANGED <<vaultVars, lease, run, deskVars, chainVars, issue, events, hubAt, work, faults>>

RunStep ==
  \/ RecoverBlocked \/ ListOutbox \/ SignJob \/ ReadReceipt \/ BroadcastJob \/ WaitForJob
  \/ SelectDue \/ ReadLists \/ (\E r \in Records : ScreenRecord(r)) \/ ScreeningDone \/ EndRun

Admin(r) ==
  \/ OpenReview(r) \/ Extend(r) \/ (\E h \in Holds : Hold(r, h) \/ Unhold(r, h))
  \/ \E d \in {"unchanged", "source-revoked", "not-issued"}, a \in BOOLEAN : AskDeletion(r, d, a)
  \/ (\E o \in Operators : Approve(r, o)) \/ EraseRecord(r)
  \/ \E i \in DOMAIN file[r].jobs : ReadEnforcement(r, i)

Callback(r) ==
  \/ \E outcome \in {"ISSUED", "REVIEW", "DENIED", "ERROR"} : PutRecord(r, outcome)
  \/ PutAgain(r) \/ SendIssue(r) \/ MineIssue(r) \/ ConfirmIssue(r) \/ Materialize(r)

RescreenNext ==
  \/ StartRun \/ RunStep \/ RunDies \/ ClearLease \/ WriterDies \/ ClearVaultLock
  \/ \E r \in Records \ Denied : Callback(r) \/ Admin(r) \/ RelayToHub(r)
  \/ (\E outcome \in {"cleared", "blocked"} : DecideReview(outcome))
  \/ PurgeExpired \/ RecordEnforcement \/ CreateBackup \/ RestoreBackup
  \/ MineRevocation \/ ForgetRevocation \/ Tick

\* The run is started again and again and goes on while it can; the operator
\* removes what a dead process left; blocks are mined.
RescreenFairness ==
  /\ WF_rescreenVars(StartRun) /\ WF_rescreenVars(RunStep)
  /\ WF_rescreenVars(ClearLease) /\ WF_rescreenVars(ClearVaultLock)
  /\ WF_rescreenVars(MineRevocation)

RescreenSpec == RescreenInit /\ [][RescreenNext]_rescreenVars
FairRescreen == RescreenSpec /\ RescreenFairness

(***************************************************************************)
(* Properties.                                                             *)
(***************************************************************************)
\* Types of the vault's cases and of the run.
RescreenTypeOK ==
  /\ \A r \in Records :
       /\ Retained(file[r]) => file[r].rec.state \in VaultStates /\ file[r].rec.decided \in 1 .. MaxTime
       /\ \A i \in DOMAIN file[r].jobs : file[r].jobs[i].state \in {"pending", "prepared", "confirmed"}
       /\ hubAt[r] \in 0 .. Len(events[r])
  /\ gone \subseteq Records /\ pool \subseteq sent

\* A revocation that left for the network and is not mined yet is the signed
\* transaction of an open job: whatever crashes, later runs send the same bytes
\* and never sign a second revocation beside it (deliverRevocations).
SentIsRetained ==
  rolled \/ \A t \in sent :
    Mined(t) \/ \E i \in Unconfirmed(file[t.rec]) : file[t.rec].jobs[i].tx = t

\* rescreen.ts: "Preserve ordering/nonces; do not sign later jobs behind an
\* unknown pending transaction."
NoncesDiffer == \A t, u \in sent : t.nonce = u.nonce => t = u

\* A record stops being blocked only by a reviewer's decision, and only when
\* no revocation of it is on the way: neither a screening result that was
\* computed earlier nor a late issuance callback undoes a block.
BlockStands ==
  [][\A r \in Records :
       /\ Retained(file[r]) /\ file[r].rec.state = "blocked"
       /\ Retained(file'[r]) /\ file'[r].rec.state # "blocked"
       => \/ backup # NoCase /\ file' = backup
          \/ review # NoCase /\ review.rec = r /\ Unconfirmed(file[r]) = {}]_rescreenVars

\* A record is erased after its deadline, without an open hold and with its
\* revocations settled, and nothing in its case has changed since two
\* operators agreed on it; and it does not come back, neither with a replayed
\* request nor with a backup.  The exception is a file restored to a time before
\* the record, which has no tombstone to refuse a replayed request with.
ErasureIsAgreedAndFinal ==
  [][\A r \in Records :
       LET c == file[r] IN
         /\ Retained(c) /\ ~Retained(file'[r]) /\ ~(backup # NoCase /\ file' = backup) =>
              /\ time >= Deadline(c) /\ c.holds = {} /\ Unconfirmed(c) = {}
              /\ c.request.approved
              /\ c.request.fingerprint = <<c.rec, c.minimum, c.holds, c.released, c.jobs>>
         /\ r \in gone /\ Retained(file'[r]) => Retained(c) \/ c = NewCase]_rescreenVars

\* A blocked record's revocation is delivered, unless the block is lifted.
\* After a mined revert two signatures may compete for one nonce and the loser
\* never leaves the outbox (NoncesDiffer).
BlockIsDelivered ==
  \A r \in Records :
    Retained(file[r]) /\ file[r].rec.state = "blocked" ~>
      \/ ~Retained(file[r]) \/ file[r].rec.state # "blocked"
      \/ file[r].jobs # << >> /\ Unconfirmed(file[r]) = {}
      \/ reverted # {} \/ rolled

\* The wallet of a blocked record whose revocations are all confirmed has no
\* credential on the source, unless an issuance was mined after a revocation:
\* one that was in the network when the decision was made may be.
DrainedMeansRevoked ==
  \A r \in Records :
    /\ ~rolled /\ Retained(file[r]) /\ file[r].rec.state = "blocked"
    /\ file[r].jobs # << >> /\ Unconfirmed(file[r]) = {}
    => \/ events[r] # << >> /\ events[r][Len(events[r])] # IssueTx
       \/ \E m, n \in 1 .. Len(events[r]) : m < n /\ events[r][m] # IssueTx /\ events[r][n] = IssueTx
=============================================================================
