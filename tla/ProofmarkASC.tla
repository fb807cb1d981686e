--------------------------- MODULE ProofmarkASC ----------------------------
(***************************************************************************)
(* ProofmarkASC on the hub chain.  Anybody may call execute with the proof *)
(* of any attested source receipt, in any order and again and again.  One  *)
(* call is one transaction of the hub chain: it walks the logs of the      *)
(* receipt on a working copy of the storage, one step per log, and either  *)
(* commits that copy or is reverted as a whole.                            *)
(***************************************************************************)
EXTENDS MarkLifecycle, FiniteSets

CONSTANTS
  Subjects,       \* holders
  Epochs,         \* roster epoch numbers
  Receipts,       \* the receipts the source chains may contain
  ChainKeys,      \* USC chain keys
  Contracts,      \* contracts the owner may pin
  NoContract,     \* address(0)
  NoReceipt,      \* no call is running
  MaxApprovals,   \* most issuers one epoch may carry
  MaxAge,         \* EpochBounds.MAX_AGE
  MaxLag,         \* EpochBounds.MAX_PUBLICATION_LAG
  MaxTime         \* bound on the hub clock

Rosters == [epoch : Nat, root : Nat, listVersion : Nat, validUntil : Nat,
            cutoff : Nat, publishedAt : Nat, snapshotId : Nat]

RosterOf(L) ==
  [epoch |-> L.epoch, root |-> L.root, listVersion |-> L.listVersion,
   validUntil |-> L.validUntil, cutoff |-> L.cutoff, publishedAt |-> L.publishedAt,
   snapshotId |-> L.snapshotId]

(***************************************************************************)
(* No receipt is mined in the genesis block, and the fields of a log are   *)
(* in the sets the storage is indexed by.                                  *)
(***************************************************************************)
LogTyped(L) ==
  /\ L.sig \in LifecycleSigs => L.subject \in Subjects
  /\ L.sig \in IssueSigs => Credential(L) \in Credentials
  /\ L.sig = "KeyedMarkIssued" => L.keyEpoch \in KeyEpochs \cup {0}
  /\ L.sig = "SanctionDenialCorrected" => CorrectionFacts(L) \in Corrections
  /\ L.sig = "RosterEpochPublished" => L.epoch \in Epochs /\ RosterOf(L) \in Rosters
  /\ L.sig = "RosterIssuerKeyAuthorized" => L.keyEpoch \in KeyEpochs \cup {0}
  /\ L.sig = "IssuerKeyCompromised" =>
       L.issuer \in Issuers /\ L.keyEpoch \in KeyEpochs \cup {0} /\ L.lastTrusted \in Nat

ASSUME ReceiptsAssumption ==
  \A r \in Receipts :
     /\ r.height \in Nat \ {0}
     /\ r.txIndex \in Nat
     /\ Len(r.logs) \in Nat
     /\ DOMAIN r.logs = 1 .. Len(r.logs)
     /\ \A i \in DOMAIN r.logs : LogTyped(r.logs[i])

ASSUME EpochsAssumption == Epochs \subseteq Nat \ {0} /\ KeyEpochs \subseteq Nat \ {0}

ASSUME ContractsAssumption == NoContract \notin Contracts

ASSUME NoReceiptAssumption == NoReceipt \notin Receipts

VARIABLES
  chainKey,    \* expectedChainKey
  contract,    \* sourceContract
  attested,    \* receipts the hub chain's verifier can prove
  now,         \* block.timestamp of the hub chain
  processed,   \* receipts whose query id is in processedQueries
  store,       \* committed storage
  running,     \* the receipt of the call in progress, or NoReceipt
  action,      \* the action code of the call in progress
  next,        \* index of the next log to walk
  matched,     \* a log of the requested signature was met
  work         \* storage as the call in progress has left it

config == <<chainKey, contract>>
call   == <<running, action, next, matched, work>>
vars   == <<chainKey, contract, attested, now, processed, store,
            running, action, next, matched, work>>

(***************************************************************************)
(* Storage.                                                                *)
(***************************************************************************)
NoApproval == [approved |-> FALSE, keyEpoch |-> 0, height |-> 0]

NoCutoff == [compromised |-> FALSE, lastTrusted |-> 0]

NoRoster == [epoch |-> 0, root |-> 0, listVersion |-> 0, validUntil |-> 0,
             cutoff |-> 0, publishedAt |-> 0, snapshotId |-> 0]

EmptyStore ==
  [subject  |-> [s \in Subjects |-> FreshSubject],
   roster   |-> NoRoster,                              \* latestEpoch and epoch*
   roots    |-> [e \in Epochs |-> 0],                  \* epochRoots
   approval |-> [p \in Epochs \X Issuers |-> NoApproval],
   key      |-> [p \in Issuers \X KeyEpochs |-> NoCutoff]]

(***************************************************************************)
(* Roster epochs.                                                          *)
(***************************************************************************)
EpochBoundsValid(e) ==
  /\ e.root # 0 /\ e.snapshotId # 0 /\ e.cutoff # 0
  /\ e.cutoff <= e.publishedAt /\ e.publishedAt - e.cutoff <= MaxLag
  /\ e.validUntil > e.publishedAt /\ e.validUntil - e.cutoff <= MaxAge

Trusted(L) == L.emitter = contract

\* Positions in r of the source's authorizations of exactly epoch log L.
Authorizations(r, L) ==
  {i \in DOMAIN r.logs : /\ Trusted(r.logs[i])
                         /\ r.logs[i].sig = "RosterIssuerAuthorized"
                         /\ r.logs[i].epoch = L.epoch
                         /\ r.logs[i].root = L.root}

\* Positions in r of the key generations under which issuer authorized L.
KeyAuthorizations(r, L, issuer) ==
  {i \in DOMAIN r.logs : /\ Trusted(r.logs[i])
                         /\ r.logs[i].sig = "RosterIssuerKeyAuthorized"
                         /\ r.logs[i].epoch = L.epoch
                         /\ r.logs[i].root = L.root
                         /\ r.logs[i].issuer = issuer}

AuthorizedIssuers(r, L) == {r.logs[i].issuer : i \in Authorizations(r, L)}

AuthorizationsInvalid(st, r, L) ==
  \/ \E i \in DOMAIN r.logs :
        /\ Trusted(r.logs[i])
        /\ r.logs[i].sig = "RosterIssuerAuthorized"
        /\ ~r.logs[i].wf
  \/ Authorizations(r, L) = {}
  \/ Cardinality(Authorizations(r, L)) > MaxApprovals
  \/ \E i, j \in Authorizations(r, L) : i # j /\ r.logs[i].issuer = r.logs[j].issuer
  \/ \E i \in Authorizations(r, L) : st.approval[<<L.epoch, r.logs[i].issuer>>].approved
  \/ \E i \in DOMAIN r.logs :
        /\ Trusted(r.logs[i])
        /\ r.logs[i].sig = "RosterIssuerKeyAuthorized"
        /\ ~r.logs[i].wf
  \/ \E issuer \in AuthorizedIssuers(r, L) :
        \/ Cardinality(KeyAuthorizations(r, L, issuer)) > 1
        \/ \E j \in KeyAuthorizations(r, L, issuer) : r.logs[j].keyEpoch = 0

EpochReverts(st, r, L) ==
  \/ ~EpochBoundsValid(L)
  \/ L.publishedAt > now
  \/ L.epoch > st.roster.epoch /\ AuthorizationsInvalid(st, r, L)

ApprovalOf(r, L, issuer) ==
  [approved |-> TRUE,
   keyEpoch |-> IF KeyAuthorizations(r, L, issuer) = {} THEN 0
                ELSE r.logs[CHOOSE j \in KeyAuthorizations(r, L, issuer) : TRUE].keyEpoch,
   height   |-> r.height]

\* Faulty variant: an older epoch proved late replaces the roster.
OnEpochLastDelivered(st, r, L) ==
  [st EXCEPT
     !.roster = RosterOf(L),
     !.roots[L.epoch] = L.root,
     !.approval = [p \in Epochs \X Issuers |->
        IF p[1] = L.epoch /\ p[2] \in AuthorizedIssuers(r, L)
          THEN ApprovalOf(r, L, p[2]) ELSE st.approval[p]]]

\* A stale epoch is skipped.  A newer one brings its root, its window and the
\* issuers authorized in the same receipt.
OnEpoch(st, r, L) ==
  IF L.epoch <= st.roster.epoch THEN st
  ELSE [st EXCEPT
          !.roster = RosterOf(L),
          !.roots[L.epoch] = L.root,
          !.approval = [p \in Epochs \X Issuers |->
             IF p[1] = L.epoch /\ p[2] \in AuthorizedIssuers(r, L)
               THEN ApprovalOf(r, L, p[2]) ELSE st.approval[p]]]

(***************************************************************************)
(* Key compromise: a cutoff is declared once and then only lowered.        *)
(***************************************************************************)
KeyCompromiseReverts(r, L) == L.keyEpoch = 0 \/ L.lastTrusted >= r.height

\* Faulty variant: the declaration delivered last decides.
OnKeyCompromisedLastDelivered(st, L) ==
  [st EXCEPT !.key[<<L.issuer, L.keyEpoch>>] =
     [compromised |-> TRUE, lastTrusted |-> L.lastTrusted]]

OnKeyCompromised(st, L) ==
  LET old == st.key[<<L.issuer, L.keyEpoch>>]
  IN IF ~old.compromised \/ L.lastTrusted < old.lastTrusted
       THEN [st EXCEPT !.key[<<L.issuer, L.keyEpoch>>] =
               [compromised |-> TRUE, lastTrusted |-> L.lastTrusted]]
       ELSE st

(***************************************************************************)
(* One iteration of the loop of _processAndEmitEvent.                      *)
(***************************************************************************)
ActionSigs == <<"MarkIssued", "MarkRevoked", "SanctionDenied", "RosterEpochPublished",
                "IssuerKeyCompromised", "SanctionDenialCorrected">>

Matches(a, sig) ==
  \/ sig = ActionSigs[a + 1]
  \/ a = 0 /\ sig = "KeyedMarkIssued"

\* Signatures the dispatch has a handler for.
HandledSigs == LifecycleSigs \cup {"RosterEpochPublished", "IssuerKeyCompromised"}

DecodeReverts(L) ==
  \/ L.sig \in HandledSigs /\ ~L.wf
  \/ L.sig = "KeyedMarkIssued" /\ L.keyEpoch = 0
  \/ /\ L.sig = "SanctionDenialCorrected"
     /\ L.revision = 0 \/ L.correctionId = 0 \/ L.proposer = L.approver

LogReverts(st, r, L) ==
  /\ Trusted(L)
  /\ \/ DecodeReverts(L)
     \/ L.sig = "RosterEpochPublished" /\ EpochReverts(st, r, L)
     \/ L.sig = "IssuerKeyCompromised" /\ KeyCompromiseReverts(r, L)

ApplyLog(st, r, i) ==
  LET L == r.logs[i]
  IN IF ~Trusted(L) THEN st
     ELSE IF L.sig \in LifecycleSigs
       THEN [st EXCEPT !.subject[L.subject] = ApplyLifecycle(@, EntryOf(r, i).at, L)]
     ELSE IF L.sig = "RosterEpochPublished" THEN OnEpoch(st, r, L)
     ELSE IF L.sig = "IssuerKeyCompromised" THEN OnKeyCompromised(st, L)
     ELSE st

-----------------------------------------------------------------------------
(***************************************************************************)
(* Actions.                                                                *)
(***************************************************************************)
Idle == running = NoReceipt

EndCall ==
  /\ running' = NoReceipt
  /\ action' = 0
  /\ next' = 1
  /\ matched' = FALSE

Init ==
  /\ chainKey = 0 /\ contract = NoContract
  /\ attested = {} /\ now = 0
  /\ processed = {} /\ store = EmptyStore
  /\ running = NoReceipt /\ action = 0 /\ next = 1 /\ matched = FALSE
  /\ work = EmptyStore

\* Owner only, once.
ConfigureSource(k, c) ==
  /\ Idle
  /\ contract = NoContract
  /\ chainKey' = k /\ contract' = c
  /\ UNCHANGED <<attested, now, processed, store, call>>

\* Positions in r of the epochs that contract c publishes.
Published(r, c) ==
  {i \in DOMAIN r.logs : r.logs[i].emitter = c /\ r.logs[i].sig = "RosterEpochPublished"}

\* A contract that can be pinned accepts increasing epochs only
\* (ComplianceSource._checkEpoch); module CrossChain composes the two contracts.
EpochsIncrease(r) ==
  \A c \in Contracts : \A j \in Published(r, c) :
     /\ \A i \in Published(r, c) : i < j => r.logs[i].epoch < r.logs[j].epoch
     /\ \A q \in attested : q.chainKey = r.chainKey =>
          \A i \in Published(q, c) : q.logs[i].epoch < r.logs[j].epoch

\* A source chain grows at its head and the growth is attested on the hub.
Attest(r) ==
  /\ Idle
  /\ \A q \in attested :
       q.chainKey = r.chainKey =>
         Newer(<<r.height, r.txIndex, 0>>, <<q.height, q.txIndex, 0>>)
  /\ EpochsIncrease(r)
  /\ attested' = attested \cup {r}
  /\ UNCHANGED <<config, now, processed, store, call>>

Tick ==
  /\ Idle
  /\ now < MaxTime
  /\ now' = now + 1
  /\ UNCHANGED <<config, attested, processed, store, call>>

\* execute up to the loop: every failing check reverts the call at once.
Execute(r, a) ==
  /\ Idle
  /\ r \in attested
  /\ QueryId(r) \notin {QueryId(q) : q \in processed}
  /\ contract # NoContract
  /\ r.chainKey = chainKey
  /\ r.ok
  /\ running' = r /\ action' = a
  /\ UNCHANGED <<config, attested, now, processed, store, next, matched, work>>

Walking == running # NoReceipt /\ next <= Len(running.logs)

WalkLog ==
  /\ Walking
  /\ ~LogReverts(work, running, running.logs[next])
  /\ work' = ApplyLog(work, running, next)
  /\ matched' = (matched \/ (/\ Trusted(running.logs[next])
                             /\ Matches(action, running.logs[next].sig)))
  /\ next' = next + 1
  /\ UNCHANGED <<config, attested, now, processed, store, running, action>>

\* Faulty variant: what the handlers wrote before the failing log stays.
RevertKeepingWrites ==
  /\ \/ Walking /\ LogReverts(work, running, running.logs[next])
     \/ ~Idle /\ ~Walking /\ ~matched
  /\ EndCall
  /\ store' = work
  /\ UNCHANGED <<config, attested, now, processed, work>>

\* A handler reverts, or no log had the requested signature.
Revert ==
  /\ \/ Walking /\ LogReverts(work, running, running.logs[next])
     \/ ~Idle /\ ~Walking /\ ~matched
  /\ EndCall
  /\ work' = store
  /\ UNCHANGED <<config, attested, now, processed, store>>

Commit ==
  /\ ~Idle /\ ~Walking /\ matched
  /\ EndCall
  /\ processed' = processed \cup {running}
  /\ store' = work
  /\ UNCHANGED <<config, attested, now, work>>

Next ==
  \/ \E k \in ChainKeys, c \in Contracts : ConfigureSource(k, c)
  \/ \E r \in Receipts : Attest(r)
  \/ Tick
  \/ \E r \in attested, a \in 0 .. 5 : Execute(r, a)
  \/ WalkLog
  \/ Revert
  \/ Commit

Spec == Init /\ [][Next]_vars

-----------------------------------------------------------------------------
(***************************************************************************)
(* Views.                                                                  *)
(***************************************************************************)
IsMarkIssuerUsable(st, s) ==
  LET m == st.subject[s]
      k == st.key[<<m.credential.issuer, m.keyEpoch>>]
  IN m.keyEpoch = 0 \/ ~k.compromised \/ m.cursor[1] <= k.lastTrusted

IsEpochIssuerUsable(st, e, issuer) ==
  LET a == st.approval[<<e, issuer>>]
      k == st.key[<<issuer, a.keyEpoch>>]
  IN a.approved /\ (a.keyEpoch = 0 \/ ~k.compromised \/ a.height <= k.lastTrusted)

IsRosterFresh(st) ==
  /\ EpochBoundsValid(st.roster)
  /\ st.roster.publishedAt <= now
  /\ now < st.roster.validUntil

(***************************************************************************)
(* Properties.                                                             *)
(***************************************************************************)
Approvals == [approved : BOOLEAN, keyEpoch : KeyEpochs \cup {0}, height : Nat]

Stores ==
  [subject : [Subjects -> SubjectStates], roster : Rosters, roots : [Epochs -> Nat],
   approval : [Epochs \X Issuers -> Approvals],
   key : [Issuers \X KeyEpochs -> [compromised : BOOLEAN, lastTrusted : Nat]]]

\* The type invariant.
TypeOK ==
  /\ chainKey \in ChainKeys \cup {0} /\ contract \in Contracts \cup {NoContract}
  /\ attested \subseteq Receipts /\ now \in Nat
  /\ processed \subseteq attested
  /\ running \in attested \cup {NoReceipt}
  /\ action \in 0 .. 5 /\ next \in Nat \ {0} /\ matched \in BOOLEAN
  /\ store \in Stores /\ work \in Stores

Ledger == INSTANCE LifecycleLedger WITH
  trusted <- contract, delivered <- processed,
  view <- [s \in Subjects |-> ViewOf(store.subject[s])]

\* The hub implements the ledger: whatever the order in which receipts are
\* executed, repeated or reverted, every committed view is the one that source
\* order gives to the set of receipts delivered so far.
ImplementsLedger == Ledger!Spec

\* The logs of s that the storage of the call in progress accounts for.
Applied(s) ==
  EntriesOf(processed, s, contract) \cup
    (IF Idle THEN {} ELSE EntriesUpTo(running, next - 1, s, contract))

\* In the middle of a receipt as well as between receipts, every holder's
\* storage is what source order makes of the logs walked so far.
StorageFollowsSourceOrder ==
  \A s \in Subjects : SourceOrdered(work.subject[s], Applied(s))

\* A committed denial is lifted only by the commit of a receipt that carries a
\* governed correction newer than every denial of that holder delivered so far.
DenialLiftedOnlyByCorrection ==
  [][\A s \in Subjects :
       store.subject[s].permanentDenial /\ ~store'.subject[s].permanentDenial =>
         \E c \in EntriesOf({running}, s, contract) :
            /\ c.log.sig = "SanctionDenialCorrected"
            /\ \A d \in EntriesOf(processed', s, contract) :
                 d.log.sig = "SanctionDenied" => Newer(c.at, d.at)]_vars

TrustedLogs(R, sig) ==
  {p \in {<<r, i>> : r \in R, i \in UNION {DOMAIN q.logs : q \in R}} :
     /\ p[2] \in DOMAIN p[1].logs
     /\ p[1].logs[p[2]].emitter = contract
     /\ p[1].logs[p[2]].sig = sig}

\* Readers see the newest delivered epoch: its window, and for it exactly the
\* issuers (with their key generations and height) that its own receipt
\* authorizes.  Nothing of a reverted or stale publication is left behind.
RosterIsNewestDelivered ==
  /\ \A p \in TrustedLogs(processed, "RosterEpochPublished") :
       LET L == p[1].logs[p[2]] IN
       /\ L.epoch <= store.roster.epoch
       /\ L.epoch = store.roster.epoch =>
            /\ store.roster = RosterOf(L)
            /\ \A i \in Issuers :
                 store.approval[<<L.epoch, i>>] =
                   IF i \in AuthorizedIssuers(p[1], L) THEN ApprovalOf(p[1], L, i)
                   ELSE NoApproval
  /\ \A e \in Epochs : store.roots[e] # 0 =>
       \E p \in TrustedLogs(processed, "RosterEpochPublished") :
          p[1].logs[p[2]].epoch = e /\ p[1].logs[p[2]].root = store.roots[e]

Distrusted(issuer, k, height) ==
  \E p \in TrustedLogs(processed, "IssuerKeyCompromised") :
     LET L == p[1].logs[p[2]]
     IN L.issuer = issuer /\ L.keyEpoch = k /\ L.lastTrusted < height

\* A credential or a roster approval made under a declared key is usable
\* exactly when no delivered declaration puts its source height after the last
\* trusted block, although the hub keeps one number per key and compares it
\* with the holder's cursor.
CompromiseCutsOff ==
  /\ \A s \in Subjects, e \in UNION {EntriesOf(processed, t, contract) : t \in Subjects} :
       /\ store.subject[s].status = "Active"
       /\ e.log.subject = s
       /\ Latest(EntriesOf(processed, s, contract), e)
       => (IsMarkIssuerUsable(store, s) <=>
             KeyOf(e.log) = 0 \/ ~Distrusted(e.log.issuer, KeyOf(e.log), e.at[1]))
  /\ \A p \in TrustedLogs(processed, "RosterEpochPublished"), i \in Issuers :
       LET L == p[1].logs[p[2]]
           a == ApprovalOf(p[1], L, i)
       IN L.epoch = store.roster.epoch /\ i \in AuthorizedIssuers(p[1], L) =>
            (IsEpochIssuerUsable(store, L.epoch, i) <=>
               a.keyEpoch = 0 \/ ~Distrusted(i, a.keyEpoch, p[1].height))
=============================================================================
