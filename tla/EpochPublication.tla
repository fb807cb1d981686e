-------------------------- MODULE EpochPublication --------------------------
(***************************************************************************)
(* Publishing a roster epoch.  script/publish-epoch.ts plans an epoch from *)
(* the source chain, journals it, signs and sends it once, waits until it  *)
(* is confirmed there and carried to the hub, and records what it          *)
(* verified.  script/renew-demo-epoch.ts runs it on a schedule and caches  *)
(* the new epoch's witnesses in the registry.                              *)
(*                                                                         *)
(* One process at a time: a second one that opens the journal meets the    *)
(* lock and stops without a trace.  A step is one await of the code.       *)
(***************************************************************************)
EXTENDS Integers, Sequences, FiniteSets, FiniteSetsExt

CONSTANTS
  Subjects,     \* the roster's entries, all of them the publisher's
  Replicas,     \* the directories that keep every roster
  NoTx, NoConf, NoPlan, NoRecord,
  MaxEntries,   \* bound on journal entries
  MaxTime,      \* bound on the clock
  MaxLists,     \* bound on list snapshots
  MaxEpoch,     \* bound on epochs
  MaxForks,     \* bound on source forks
  MaxOthers,    \* bound on epochs some other publisher publishes
  MaxFaults,    \* bound on failed calls, crashes and unconfirmed writes
  Lag,          \* MAX_PUBLICATION_LAG_SECONDS
  Age,          \* the validity of an epoch
  RenewBefore,  \* EPOCH_RENEW_BEFORE_SECONDS
  Commands      \* what the operator runs by hand

ASSUME PublicationAssumption ==
  /\ {MaxTime, MaxForks, MaxOthers, MaxFaults, Lag, RenewBefore} \subseteq Nat
  /\ {MaxLists, MaxEpoch, MaxEntries, Age} \subseteq Nat \ {0}
  /\ NoTx \notin Nat
  /\ Commands \subseteq {"publish", "resume", "cancel", "check"}

Plans == [epoch : 1 .. MaxEpoch, cutoff : 0 .. MaxTime, lists : 1 .. MaxLists]

VARIABLES
  entries, lock,  \* the journal
  cli,            \* the running publish-epoch process
  job,            \* the running renewal
  source,         \* the source chain
  hub,            \* every epoch the hub accepted, in order
  store,          \* the replica directories and the epoch records
  witness,        \* witness[s]: the epoch of subject s's witness in the registry
  now, lists,     \* the clock, and the list snapshot on this host
  faults

vars == <<entries, lock, cli, job, source, hub, store, witness, now, lists, faults>>
world == <<source, hub, now>>

Journal == INSTANCE PublicationJournal

-----------------------------------------------------------------------------
\* The source chain.  A transaction is mined at a block; `deep' means it has
\* SOURCE_CONFIRMATIONS.

Txs == [id : 1 .. MaxEntries, plan : Plans, nonce : Nat]

Sources ==
  [pool : SUBSET Txs,
   mined : SUBSET [tx : Txs, block : Nat, ok : BOOLEAN, deep : BOOLEAN],
   sent : SUBSET Txs,                \* every transaction a node was ever given
   others : SUBSET (1 .. MaxEpoch),  \* epochs of another publisher
   forks : 0 .. MaxForks,
   deepFork : BOOLEAN]               \* a fork went below SOURCE_CONFIRMATIONS

LastEpoch ==
  Max({0} \cup source.others \cup {m.tx.plan.epoch : m \in {n \in source.mined : n.ok}})

ValidUntil(plan) == plan.cutoff + Age

\* ComplianceSource._checkEpoch on the account's next transaction
SourceAccepts(plan) ==
  /\ plan.epoch > LastEpoch
  /\ plan.cutoff <= now /\ now - plan.cutoff <= Lag /\ now < ValidUntil(plan)

\* eth_getTransactionCount, of the chain and with the pool
MinedNonce == Cardinality(source.mined)
PendingNonce == MinedNonce + Cardinality(source.pool)

Mine ==
  \E t \in source.pool :
    /\ t.nonce = MinedNonce
    /\ source' = [source EXCEPT
         !.pool = @ \ {t},
         !.mined = @ \cup {[tx |-> t, block |-> source.forks, ok |-> SourceAccepts(t.plan),
                            deep |-> FALSE]}]
    /\ UNCHANGED <<entries, lock, cli, job, hub, store, witness, now, lists, faults>>

Deepen ==
  \E m \in source.mined :
    /\ ~m.deep
    /\ source' = [source EXCEPT !.mined = (@ \ {m}) \cup {[m EXCEPT !.deep = TRUE]}]
    /\ UNCHANGED <<entries, lock, cli, job, hub, store, witness, now, lists, faults>>

\* A fork drops the account's last transaction; nodes may still hold it.
Fork ==
  /\ source.forks < MaxForks
  /\ \E m \in source.mined, kept \in BOOLEAN :
       /\ m.tx.nonce = MinedNonce - 1
       /\ source' = [source EXCEPT !.mined = @ \ {m}, !.forks = @ + 1, !.deepFork = @ \/ m.deep,
                                   !.pool = IF kept THEN @ \cup {m.tx} ELSE {}]
  /\ UNCHANGED <<entries, lock, cli, job, hub, store, witness, now, lists, faults>>

\* A pool forgets a transaction nobody mined.
Drop ==
  /\ faults < MaxFaults /\ faults' = faults + 1
  /\ \E t \in source.pool :
       source' = [source EXCEPT !.pool = {u \in @ : u.nonce < t.nonce}]
  /\ UNCHANGED <<entries, lock, cli, job, hub, store, witness, now, lists>>

OtherPublishes ==
  /\ Cardinality(source.others) < MaxOthers /\ LastEpoch < MaxEpoch
  /\ source' = [source EXCEPT !.others = @ \cup {LastEpoch + 1}]
  /\ UNCHANGED <<entries, lock, cli, job, hub, store, witness, now, lists, faults>>

\* The hub: an accepted epoch with the transaction it came in (id 0: another
\* publisher's) and that transaction's block.
HubEpochs == [epoch : 1 .. MaxEpoch, id : 0 .. MaxEntries, block : Nat, until : Nat]

HubLatest == IF hub = << >> THEN 0 ELSE hub[Len(hub)].epoch
HubFresh == hub # << >> /\ now < hub[Len(hub)].until

\* The relay worker carries a publication the hub has not passed.
Carry ==
  /\ \/ \E m \in source.mined :
          /\ m.ok /\ m.deep /\ m.tx.plan.epoch > HubLatest
          /\ hub' = Append(hub, [epoch |-> m.tx.plan.epoch, id |-> m.tx.id, block |-> m.block,
                                 until |-> ValidUntil(m.tx.plan)])
     \/ \E e \in source.others :
          /\ e > HubLatest
          /\ hub' = Append(hub, [epoch |-> e, id |-> 0, block |-> 0, until |-> now + Age])
  /\ UNCHANGED <<entries, lock, cli, job, source, store, witness, now, lists, faults>>

Tick ==
  /\ now < MaxTime
  /\ now' = now + 1
  /\ UNCHANGED <<entries, lock, cli, job, source, hub, store, witness, lists, faults>>

-----------------------------------------------------------------------------
\* The publish-epoch process.

Records == [id : 1 .. MaxEntries, verified : BOOLEAN]

Idle == [cmd |-> "none", at |-> "off", i |-> 0, plan |-> NoPlan, stage |-> 0,
         fresh |-> FALSE, conf |-> NoConf]

CliSteps == {"off", "open", "observe", "ready", "sign", "send", "wait", "plan", "stage", "begin",
             "settled", "carry", "check", "fence"}

Clis ==
  [cmd : Commands \cup {"none", "publish", "resume"}, at : CliSteps,
   i : 0 .. MaxEntries,                     \* the journal entry it works on
   plan : Plans \cup {NoPlan},              \* an approved plan, then the one it begins
   stage : 0 .. 3,                          \* which observation of advancePublication is next
   fresh : BOOLEAN,                         \* entry i is this process's own
   conf : Journal!Confirmations \cup {NoConf}]  \* the confirmation it relies on

Running == cli # Idle
Go(at) == cli' = [cli EXCEPT !.at = at]

JobOff == [at |-> "off", epoch |-> 0]

JobSteps == {"off", "read", "current", "resume", "waitHub", "refresh", "publish", "after",
             "cache"}

Jobs == [at : JobSteps, epoch : 0 .. MaxEpoch]

\* What the renewal does when its child process exits.
AfterExit(code) ==
  CASE job.at = "resume" /\ code \in {0, 2} -> [job EXCEPT !.at = "waitHub"]
    [] job.at = "publish" /\ code = 0 -> [job EXCEPT !.at = "after"]
    [] OTHER -> JobOff

Ends(code) == cli' = Idle /\ job' = AfterExit(code)

\* The process ends and its finally block closes the journal.
Exit(code) == Ends(code) /\ Journal!Close

\* A write the process cannot confirm ends it with the lock still there.
Poison(es) ==
  /\ faults < MaxFaults /\ faults' = faults + 1
  /\ Journal!SaveUnconfirmed(es)
  /\ Ends(1)

\* evmPublicationTransport.observe, on the entry and the chain as they are
Receipts(e, i) == {m \in source.mined : m.tx = [id |-> i, plan |-> e.plan, nonce |-> e.tx]}

\* Faulty variant: a receipt counts without its confirmations.
ShallowObservation(i) ==
  LET e == entries[i]
  IN  IF e.tx = NoTx \/ Receipts(e, i) = {} THEN "absent" ELSE "confirmed"

Observation(i) ==
  LET e == entries[i] IN
  IF e.tx = NoTx \/ Receipts(e, i) = {} THEN "absent"
  ELSE IF \E m \in Receipts(e, i) : ~m.deep THEN "confirming"
  ELSE "confirmed"

Receipt(i) ==
  LET m == CHOOSE m \in Receipts(entries[i], i) : TRUE
  IN  [block |-> m.block, ok |-> m.ok]

Reobserved(i, c) == Observation(i) = "confirmed" /\ Receipt(i) = c

\* The transport's ready callback and the static call
Ready(plan) == plan.lists = lists /\ SourceAccepts(plan)

Start(cmd) ==
  /\ ~Running /\ job = JobOff
  /\ cli' = [Idle EXCEPT !.cmd = cmd, !.at = "open"]
  /\ UNCHANGED <<entries, lock, job, store, witness, lists, faults, world>>

\* Another process, or one that died, holds the journal.
Busy ==
  /\ cli.at = "open" /\ lock
  /\ Ends(1)
  /\ UNCHANGED <<entries, lock, store, witness, lists, faults, world>>

OpenPublish ==
  /\ cli.at = "open" /\ cli.cmd = "publish"
  /\ IF Journal!Unsettled(entries) # {}
     THEN ~lock /\ Exit(1)                   \* PUBLICATION_PENDING_RESUME_REQUIRED
     ELSE /\ Journal!OpenJournal
          /\ cli' = IF Journal!Standing(entries) = {} THEN [cli EXCEPT !.at = "plan"]
                    ELSE [cli EXCEPT !.at = "observe", !.stage = 1,
                                     !.i = Journal!LastStanding(entries)]
          /\ UNCHANGED job
  /\ UNCHANGED <<entries, store, witness, lists, faults, world>>

OpenLast ==
  /\ cli.at = "open" /\ cli.cmd \in {"resume", "check"}
  /\ IF Journal!Standing(entries) = {}
     THEN ~lock /\ Exit(1)
     ELSE /\ Journal!OpenJournal
          /\ cli' = [cli EXCEPT !.at = "observe", !.stage = 1,
                                !.i = Journal!LastStanding(entries)]
          /\ UNCHANGED job
  /\ UNCHANGED <<entries, store, witness, lists, faults, world>>

Cancel ==
  /\ cli.at = "open" /\ cli.cmd = "cancel" /\ ~lock
  /\ IF \E i \in Journal!Unsettled(entries) : Journal!MayAbandon(entries, i)
     THEN \E i \in Journal!Unsettled(entries) :
            \/ Journal!Save(Journal!Abandoned(entries, i)) /\ Exit(0) /\ UNCHANGED faults
            \/ /\ faults < MaxFaults /\ faults' = faults + 1
               /\ entries' \in {entries, Journal!Abandoned(entries, i)}
               /\ lock' = TRUE /\ Ends(1)
     ELSE Exit(1) /\ UNCHANGED <<entries, faults>>
  /\ UNCHANGED <<store, witness, lists, world>>

\* advancePublication.  An entry that already has a confirmation must still be
\* where it was: publish then goes on to a new plan, resume to the record.
ObserveSettled ==
  /\ cli.at = "observe" /\ cli.cmd # "check" /\ entries[cli.i].conf # NoConf
  /\ IF Reobserved(cli.i, entries[cli.i].conf)
     THEN /\ cli' = [cli EXCEPT !.at = IF cli.cmd = "publish" THEN "plan" ELSE "settled",
                                !.conf = entries[cli.i].conf]
          /\ UNCHANGED <<lock, job>>
     ELSE Exit(1)                            \* PUBLICATION_CONFIRMATION_CHANGED
  /\ UNCHANGED <<entries, store, witness, lists, faults, world>>

ObserveConfirmed ==
  /\ cli.at = "observe" /\ cli.cmd # "check" /\ entries[cli.i].conf = NoConf
  /\ Observation(cli.i) = "confirmed"
  /\ LET es == Journal!Confirmed(entries, cli.i, Receipt(cli.i))
     IN  \/ /\ Journal!Save(es)
            /\ cli' = [cli EXCEPT !.at = "settled", !.conf = Receipt(cli.i)]
            /\ UNCHANGED <<lock, job, faults>>
         \/ Poison(es)
  /\ UNCHANGED <<store, witness, lists, world>>

ObservePending ==
  /\ cli.at = "observe" /\ cli.cmd # "check" /\ entries[cli.i].conf = NoConf
  /\ Observation(cli.i) # "confirmed"
  /\ Go(IF Observation(cli.i) = "confirming" \/ cli.stage = 3 THEN "wait"
        ELSE IF cli.stage = 1 THEN "ready" ELSE "send")
  /\ UNCHANGED <<entries, lock, job, store, witness, lists, faults, world>>

AssertReady ==
  /\ cli.at = "ready"
  /\ IF ~Ready(entries[cli.i].plan) THEN Exit(1)
     ELSE /\ cli' = IF entries[cli.i].tx = NoTx THEN [cli EXCEPT !.at = "sign"]
                    ELSE IF cli.stage = 1 THEN [cli EXCEPT !.stage = 2]
                    ELSE [cli EXCEPT !.at = "observe"]
          /\ UNCHANGED <<lock, job>>
  /\ UNCHANGED <<entries, store, witness, lists, faults, world>>

Sign ==
  /\ cli.at = "sign"
  /\ IF ~Journal!MayPrepare(entries, cli.i, PendingNonce)
     THEN Exit(1) /\ UNCHANGED <<entries, faults>>   \* PUBLICATION_NONCE_REUSED
     ELSE LET es == Journal!Prepared(entries, cli.i, PendingNonce)
          IN  \/ /\ Journal!Save(es)
                 /\ cli' = [cli EXCEPT !.at = "ready", !.stage = 2]
                 /\ UNCHANGED <<lock, job, faults>>
              \/ Poison(es)
  /\ UNCHANGED <<store, witness, lists, world>>

NodeAccepts(t) ==
  /\ t.nonce >= MinedNonce
  /\ \A u \in source.pool : u.nonce # t.nonce

\* The answer to a broadcast is ignored, whatever it is.
Broadcast ==
  /\ cli.at = "send"
  /\ LET e == entries[cli.i]
         t == [id |-> cli.i, plan |-> e.plan, nonce |-> e.tx]
     IN  \/ /\ NodeAccepts(t)
            /\ source' = [source EXCEPT !.pool = @ \cup {t}, !.sent = @ \cup {t}]
            /\ UNCHANGED faults
         \/ /\ ~NodeAccepts(t)
            /\ UNCHANGED <<source, faults>>
         \/ /\ faults < MaxFaults /\ faults' = faults + 1
            /\ UNCHANGED source
  /\ cli' = [cli EXCEPT !.at = "observe", !.stage = 3]
  /\ UNCHANGED <<entries, lock, job, store, witness, lists, hub, now>>

\* settlePublication goes round until EPOCH_SOURCE_WAIT_SECONDS are over.
AdvanceAgain ==
  /\ cli.at = "wait"
  /\ cli' = [cli EXCEPT !.at = "observe", !.stage = 1]
  /\ UNCHANGED <<entries, lock, job, store, witness, lists, faults, world>>

GiveUp ==
  /\ cli.at = "wait"
  /\ Exit(1)                                \* PUBLICATION_PENDING_RESUME_REQUIRED
  /\ UNCHANGED <<entries, store, witness, lists, faults, world>>

-----------------------------------------------------------------------------
\* publishFresh: the plan is the next epoch over the source as it is now, or
\* the approved one, which must still be that.
NextPlan == [epoch |-> LastEpoch + 1, cutoff |-> now, lists |-> lists]

Plan ==
  /\ cli.at = "plan"
  /\ IF /\ LastEpoch < MaxEpoch
        /\ cli.plan # NoPlan => /\ cli.plan.epoch = LastEpoch + 1
                                /\ Ready(cli.plan)
     THEN /\ cli' = [cli EXCEPT !.at = "stage",
                     !.plan = IF cli.plan = NoPlan THEN NextPlan ELSE cli.plan]
          /\ UNCHANGED <<lock, job>>
     ELSE Exit(1)
  /\ UNCHANGED <<entries, store, witness, lists, faults, world>>

\* stageRosterBundleReplicas writes every directory, one after the other.
Unstaged == {r \in Replicas : cli.plan \notin store.seeds[r]}

\* Faulty variant: one replica is enough.
StageSome ==
  /\ cli.at = "stage" /\ Cardinality(Unstaged) > 1
  /\ \E r \in Unstaged : store' = [store EXCEPT !.seeds[r] = @ \cup {cli.plan}]
  /\ Go("begin")
  /\ UNCHANGED <<entries, lock, job, witness, lists, faults, world>>

Stage ==
  /\ cli.at = "stage" /\ Unstaged # {}
  /\ \E r \in Unstaged : store' = [store EXCEPT !.seeds[r] = @ \cup {cli.plan}]
  /\ UNCHANGED <<entries, lock, cli, job, witness, lists, faults, world>>

Staged ==
  /\ cli.at = "stage" /\ Unstaged = {}
  /\ Go("begin")
  /\ UNCHANGED <<entries, lock, job, store, witness, lists, faults, world>>

Begin ==
  /\ cli.at = "begin"
  /\ IF Journal!MayBegin(entries)
     THEN LET es == Journal!Begun(entries, cli.plan)
          IN  \/ /\ Journal!Save(es)
                 /\ cli' = [cli EXCEPT !.at = "observe", !.stage = 1, !.i = Len(es),
                                       !.fresh = TRUE]
                 /\ UNCHANGED <<lock, job, faults>>
              \/ Poison(es)
     ELSE Exit(1) /\ UNCHANGED <<entries, faults>>
  /\ UNCHANGED <<store, witness, lists, world>>

\* The confirmed publication is finalized in every replica and recorded.
Bundle(plan) == [store EXCEPT !.record[plan.epoch] =
                   [id |-> cli.i, verified |-> FALSE]]

Settled ==
  /\ cli.at = "settled"
  /\ LET plan == entries[cli.i].plan IN
     IF cli.conf.ok /\ Reobserved(cli.i, cli.conf)
     THEN /\ store' = Bundle(plan)
          /\ IF cli.cmd = "resume" THEN Exit(2)
             ELSE Go("carry") /\ UNCHANGED <<lock, job>>
     ELSE Exit(1) /\ UNCHANGED store       \* PUBLICATION_SOURCE_REVERTED
  /\ UNCHANGED <<entries, witness, lists, faults, world>>

\* observeEpochCarry: the hub accepted this very publication.
Carried(i, c) ==
  \E k \in DOMAIN hub : hub[k].epoch = entries[i].plan.epoch /\ hub[k].id = i
                        /\ hub[k].block = c.block

AwaitCarry ==
  /\ cli.at = "carry"
  /\ IF Carried(cli.i, cli.conf)
     THEN Go("check") /\ UNCHANGED <<lock, job>>
     ELSE Exit(1)      \* superseded, or EPOCH_TIMEOUT_MINUTES are over
  /\ UNCHANGED <<entries, store, witness, lists, faults, world>>

\* --check-publication only observes; the journal stays as it is.
ObserveOnly ==
  /\ cli.at = "observe" /\ cli.cmd = "check"
  /\ IF /\ Observation(cli.i) = "confirmed" /\ Receipt(cli.i).ok
        /\ entries[cli.i].conf \in {NoConf, Receipt(cli.i)}
     THEN /\ cli' = [cli EXCEPT !.at = "carry", !.conf = Receipt(cli.i)]
          /\ UNCHANGED <<lock, job>>
     ELSE Exit(1)
  /\ UNCHANGED <<entries, store, witness, lists, faults, world>>

\* check: the epoch must be the hub's current one, and after the long replay
\* the publication must still be where it was.
Check ==
  /\ cli.at = "check"
  /\ IF HubLatest = entries[cli.i].plan.epoch
     THEN cli' = [cli EXCEPT !.at = "fence", !.fresh = HubFresh] /\ UNCHANGED <<lock, job>>
     ELSE Exit(1)
  /\ UNCHANGED <<entries, store, witness, lists, faults, world>>

Fence ==
  /\ cli.at = "fence"
  /\ IF Reobserved(cli.i, cli.conf)
     THEN /\ store' = [store EXCEPT !.record[entries[cli.i].plan.epoch] =
                        [id |-> cli.i, verified |-> TRUE]]
          /\ Exit(IF cli.fresh THEN 0 ELSE 1)
     ELSE Exit(1) /\ UNCHANGED store
  /\ UNCHANGED <<entries, witness, lists, faults, world>>

\* --check, without the journal: the latest epoch's record against the hub.
CheckLatest ==
  /\ HubLatest > 0 /\ store.record[HubLatest] # NoRecord
  /\ store.record[HubLatest].id = hub[Len(hub)].id
  /\ store' = [store EXCEPT !.record[HubLatest].verified = TRUE]
  /\ UNCHANGED <<entries, lock, cli, job, witness, lists, faults, world>>

\* Any awaited call may fail, and any process may die.
Throw ==
  /\ faults < MaxFaults /\ faults' = faults + 1
  /\ IF Running THEN cli.at # "open" /\ Exit(1)
     ELSE job # JobOff /\ job' = JobOff /\ UNCHANGED <<cli, lock>>
  /\ UNCHANGED <<entries, store, witness, lists, world>>

Die ==
  /\ faults < MaxFaults /\ faults' = faults + 1
  /\ Running
  /\ cli' = Idle /\ job' = JobOff
  /\ UNCHANGED <<entries, lock, store, witness, lists, world>>

ClearLock ==
  /\ ~Running
  /\ Journal!ClearLock
  /\ UNCHANGED <<cli, job, store, witness, lists, faults, world>>

-----------------------------------------------------------------------------
\* The scheduled renewal.

StartRenewal ==
  /\ ~Running /\ job = JobOff
  /\ job' = [JobOff EXCEPT !.at = "read"]
  /\ UNCHANGED <<entries, lock, cli, store, witness, lists, faults, world>>

Due == ~HubFresh \/ hub[Len(hub)].until - now <= RenewBefore

RunChild(cmd, plan) ==
  cli' = [Idle EXCEPT !.cmd = cmd, !.at = "open", !.plan = plan]

\* A record the hub's epoch can be proved from
Matches(e) == store.record[e] # NoRecord /\ store.record[e].id = hub[Len(hub)].id

Read ==
  /\ job.at = "read"
  /\ CASE LastEpoch > HubLatest ->
            job' = [at |-> "resume", epoch |-> LastEpoch] /\ RunChild("resume", NoPlan)
       [] LastEpoch < HubLatest ->
            job' = JobOff /\ UNCHANGED cli
       [] OTHER ->
            /\ job' = IF HubLatest > 0 /\ store.record[HubLatest] # NoRecord
                      THEN [at |-> "current", epoch |-> HubLatest]
                      ELSE IF Due THEN [at |-> "refresh", epoch |-> HubLatest] ELSE JobOff
            /\ UNCHANGED cli
  /\ UNCHANGED <<entries, lock, store, witness, lists, faults, world>>

\* cacheRosterWitness proves the subject against the hub's latest epoch.
CacheOne(e) ==
  \E s \in Subjects :
    /\ witness[s] # e /\ Matches(e) /\ HubLatest = e /\ HubFresh
    /\ witness' = [witness EXCEPT ![s] = e]

AllCached(e) == \A s \in Subjects : witness[s] = e
CannotCache(e) == ~AllCached(e) /\ ~(Matches(e) /\ HubLatest = e /\ HubFresh)

\* The current epoch's witnesses first; a failure there only matters when the
\* epoch is not yet due.
CacheCurrent ==
  /\ job.at = "current"
  /\ \/ CacheOne(job.epoch) /\ UNCHANGED job
     \/ /\ AllCached(job.epoch) \/ CannotCache(job.epoch)
        /\ job' = IF Due THEN [job EXCEPT !.at = "refresh"] ELSE JobOff
        /\ UNCHANGED witness
  /\ UNCHANGED <<entries, lock, cli, store, lists, faults, world>>

\* fetch-lists, --dry-run and sign-epoch-approval, then --publish
Refresh ==
  /\ job.at = "refresh"
  /\ lists' \in {lists, lists + 1} \cap (1 .. MaxLists)
  /\ IF LastEpoch < MaxEpoch
     THEN /\ job' = [job EXCEPT !.at = "publish"]
          /\ RunChild("publish", [NextPlan EXCEPT !.lists = lists'])
     ELSE job' = JobOff /\ UNCHANGED cli
  /\ UNCHANGED <<entries, lock, store, witness, faults, world>>

After ==
  /\ job.at = "after"
  /\ job' = IF LastEpoch = HubLatest /\ HubFresh /\ Matches(HubLatest)
            THEN [at |-> "cache", epoch |-> HubLatest] ELSE JobOff
  /\ UNCHANGED <<entries, lock, cli, store, witness, lists, faults, world>>

WaitForHub ==
  /\ job.at = "waitHub"
  /\ job' = IF HubLatest = job.epoch /\ Matches(HubLatest)
            THEN [job EXCEPT !.at = "cache"] ELSE JobOff
  /\ UNCHANGED <<entries, lock, cli, store, witness, lists, faults, world>>

CacheNew ==
  /\ job.at = "cache"
  /\ \/ CacheOne(job.epoch) /\ UNCHANGED job
     \/ /\ AllCached(job.epoch) \/ CannotCache(job.epoch)
        /\ job' = JobOff
        /\ UNCHANGED witness
  /\ UNCHANGED <<entries, lock, cli, store, lists, faults, world>>

-----------------------------------------------------------------------------
Init ==
  /\ Journal!JournalInit
  /\ cli = Idle /\ job = JobOff
  /\ source = [pool |-> {}, mined |-> {}, sent |-> {}, others |-> {}, forks |-> 0,
               deepFork |-> FALSE]
  /\ hub = << >>
  /\ store = [seeds |-> [r \in Replicas |-> {}], record |-> [e \in 1 .. MaxEpoch |-> NoRecord]]
  /\ witness = [s \in Subjects |-> 0]
  /\ now = 0 /\ lists = 1 /\ faults = 0

Advance ==
  \/ ObserveSettled \/ ObserveConfirmed \/ ObservePending \/ AssertReady \/ Sign
  \/ Broadcast \/ AdvanceAgain

CliStep ==
  \/ Busy \/ OpenPublish \/ OpenLast \/ Cancel \/ Advance \/ GiveUp
  \/ Plan \/ Stage \/ Staged \/ Begin \/ Settled \/ AwaitCarry \/ ObserveOnly \/ Check \/ Fence

JobStep == Read \/ CacheCurrent \/ Refresh \/ After \/ WaitForHub \/ CacheNew

Chains == Mine \/ Deepen \/ Carry

Next ==
  \/ \E cmd \in Commands : Start(cmd)
  \/ StartRenewal
  \/ CliStep \/ JobStep \/ Chains \/ Tick
  \/ Fork \/ Drop \/ OtherPublishes \/ Throw \/ Die \/ ClearLock \/ CheckLatest

Spec == Init /\ [][Next]_vars

PubTypeOK ==
  /\ Journal!JournalTypeOK
  /\ cli \in Clis /\ job \in Jobs
  /\ source \in Sources
  /\ hub \in Seq(HubEpochs)
  /\ store \in [seeds : [Replicas -> SUBSET Plans], record : [1 .. MaxEpoch -> Records \cup {NoRecord}]]
  /\ witness \in [Subjects -> 0 .. MaxEpoch]
  /\ now \in 0 .. MaxTime /\ lists \in 1 .. MaxLists /\ faults \in 0 .. MaxFaults

\* Every publication a node was ever given can be recovered from this host
\* alone: the journal still holds it signed with the same nonce, and its
\* roster is in every replica directory, whatever died or failed since.
SentIsRecoverable ==
  \A t \in source.sent :
    /\ t.id \in DOMAIN entries
    /\ entries[t.id].tx = t.nonce /\ entries[t.id].plan = t.plan /\ ~entries[t.id].abandoned
    /\ \A r \in Replicas : t.plan \in store.seeds[r]

\* Unless the source forks below its confirmations, every confirmation in the
\* journal is still the receipt the chain has: shallow forks, re-mined
\* transactions and reverted ones included.
ConfirmedStands ==
  ~source.deepFork =>
    \A i \in DOMAIN entries : entries[i].conf # NoConf => Reobserved(i, entries[i].conf)
=============================================================================
