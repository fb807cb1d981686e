------------------------- MODULE ComplianceSource --------------------------
(***************************************************************************)
(* ComplianceSource on the source chain, with one RotatingIssuer among its *)
(* issuers.  A call appends its logs to the transaction in progress (a     *)
(* contract account may make several calls in one transaction); Mine seals *)
(* the transaction into a receipt, NextBlock moves on.  A call whose guard *)
(* fails reverts and leaves no trace.  Block timestamps are measured in    *)
(* blocks.                                                                 *)
(***************************************************************************)
EXTENDS SourceLog, RotatingIssuer, FiniteSets

CONSTANTS
  Subjects,          \* holders
  Attrs,             \* packed attributes, ValidAttrs among them
  Window,            \* attributes to <<issuedAt, expiry>>
  Claims,            \* claimsRoot and evidenceHash commitments
  Requests,          \* request ids of issueOnce
  Externals,         \* ordinary accounts that may hold roles
  Stable,            \* address of the RotatingIssuer
  Address,           \* Externals and Stable to the number their address is
  Batches,           \* sequences of holders one call may be about
  Publications,      \* roster assertions: [epoch, root, listVersion, validUntil, cutoff, snapshotId]
  ApprovalLists,     \* sequences of [issuer, signer, generation]
  This,              \* address of the contract
  ChainKey,          \* USC chain key of the source chain
  FirstIssuers, FirstPublishers, FirstApprovers,   \* roles set when the system is deployed
  CorrectionDelay,   \* MIN_DENIAL_CORRECTION_DELAY
  MaxApprovals,      \* MAX_ROSTER_ISSUERS
  MaxAge, MaxLag,    \* EpochBounds
  MaxHeight, MaxTx, MaxCalls, MaxCorrections, MaxRoleChanges   \* bounds

VARIABLES
  issuers, publishers, approvers,   \* isIssuer, isEpochPublisher, isDenialCorrectionApprover
  roleChanges,       \* number of role changes so far
  processedRequest,
  lastEpoch,
  denied, revision,  \* sourceDenialActive, sourceDenialRevision
  corrections,       \* denialCorrections, by id
  height, txIndex,   \* block in progress and index of the transaction in progress
  calls, txLogs,     \* calls and logs of that transaction
  chain              \* receipts mined so far

roleVars   == <<issuers, publishers, approvers, roleChanges>>
denialVars == <<denied, revision, corrections>>
chainVars  == <<height, txIndex, chain>>
sourceVars == <<roleVars, processedRequest, lastEpoch, denialVars, chainVars, calls, txLogs,
                issuerVars>>

Principals == Externals \cup {Stable}

ASSUME SourceAssumption ==
  /\ CorrectionDelay \in Nat
  /\ Batches \subseteq Seq(Subjects)
  /\ ApprovalLists \subseteq
       Seq([issuer : Principals, signer : Keys \cup Principals, generation : Nat])

SourceInit ==
  /\ IssuerInit
  /\ issuers = FirstIssuers /\ publishers = FirstPublishers /\ approvers = FirstApprovers
  /\ roleChanges = 0
  /\ processedRequest = {}
  /\ lastEpoch = 0
  /\ denied = [s \in Subjects |-> FALSE]
  /\ revision = [s \in Subjects |-> 0]
  /\ corrections = << >>
  /\ height = 1 /\ txIndex = 0 /\ calls = 0 /\ txLogs = << >>
  /\ chain = {}

(***************************************************************************)
(* Transactions.                                                           *)
(***************************************************************************)
Emit(logs) ==
  /\ txIndex < MaxTx /\ calls < MaxCalls
  /\ calls' = calls + 1
  /\ txLogs' = txLogs \o logs
  /\ UNCHANGED chainVars

Receipt == [chainKey |-> ChainKey, height |-> height, txIndex |-> txIndex, ok |-> TRUE,
            logs |-> txLogs]

Mine ==
  /\ txLogs # << >>
  /\ chain' = chain \cup {Receipt}
  /\ txIndex' = txIndex + 1
  /\ calls' = 0 /\ txLogs' = << >>
  /\ UNCHANGED <<roleVars, processedRequest, lastEpoch, denialVars, height, issuerVars>>

NextBlock ==
  /\ txLogs = << >>
  /\ height < MaxHeight
  /\ height' = height + 1
  /\ txIndex' = 0
  /\ UNCHANGED <<roleVars, processedRequest, lastEpoch, denialVars, chain, calls, txLogs, issuerVars>>

(***************************************************************************)
(* Roles, set by the owner of the contract.                                *)
(***************************************************************************)
Toggled(S, a) == IF a \in S THEN S \ {a} ELSE S \cup {a}

ChangeRole ==
  /\ roleChanges < MaxRoleChanges
  /\ roleChanges' = roleChanges + 1
  /\ UNCHANGED <<processedRequest, lastEpoch, denialVars, chainVars, calls, txLogs, issuerVars>>

SetIssuer(a) ==
  ChangeRole /\ issuers' = Toggled(issuers, a) /\ UNCHANGED <<publishers, approvers>>

SetEpochPublisher(a) ==
  ChangeRole /\ publishers' = Toggled(publishers, a) /\ UNCHANGED <<issuers, approvers>>

SetDenialCorrectionApprover(a) ==
  ChangeRole /\ approvers' = Toggled(approvers, a) /\ UNCHANGED <<issuers, publishers>>

(***************************************************************************)
(* Issuance.  The RotatingIssuer forwards issueOnceWithKey, revoke and     *)
(* deny of its operating key; every other call comes from an account.      *)
(***************************************************************************)
ValidAtIssuance(a) ==
  /\ a \in ValidAttrs
  /\ Window[a][1] <= height
  /\ Window[a][2] > height

\* The issuer in whose name sender k (an account or an operating key) writes.
Acts(i, k, generation) ==
  /\ i \in issuers
  /\ IF i = Stable THEN CurrentKey(k, generation) ELSE k = i /\ generation = 0

MarkIssued(s, a, i, c) ==
  [emitter |-> This, sig |-> "MarkIssued", wf |-> TRUE, subject |-> s, attrs |-> a,
   issuer |-> i, claims |-> c]

\* issue and issueBatch.
Issue(i, batch, a, c) ==
  /\ i \in issuers \ {Stable}
  /\ ValidAtIssuance(a)
  /\ Emit([n \in DOMAIN batch |-> MarkIssued(batch[n], a, i, c)])
  /\ UNCHANGED <<roleVars, processedRequest, lastEpoch, denialVars, issuerVars>>

IssueOnce(i, request, s, a, c) ==
  /\ i \in issuers \ {Stable}
  /\ request \notin processedRequest
  /\ ValidAtIssuance(a)
  /\ processedRequest' = processedRequest \cup {request}
  /\ Emit(<<MarkIssued(s, a, i, c)>>)
  /\ UNCHANGED <<roleVars, lastEpoch, denialVars, issuerVars>>

\* RotatingIssuer.issueOnce and ComplianceSource.issueOnceWithKey.  by is not
\* part of the log: it records the operating key behind the call.
IssueOnceWithKey(k, generation, request, s, a, c) ==
  /\ Acts(Stable, k, generation)
  /\ request \notin processedRequest
  /\ ValidAtIssuance(a)
  /\ processedRequest' = processedRequest \cup {request}
  /\ Emit(<<[emitter |-> This, sig |-> "KeyedMarkIssued", wf |-> TRUE, subject |-> s, attrs |-> a,
             issuer |-> Stable, claims |-> c, keyEpoch |-> generation, by |-> k]>>)
  /\ UNCHANGED <<roleVars, lastEpoch, denialVars, issuerVars>>

CompromiseLog(lastTrusted) ==
  [emitter |-> This, sig |-> "IssuerKeyCompromised", wf |-> TRUE, issuer |-> Stable,
   keyEpoch |-> keyEpoch, lastTrusted |-> lastTrusted, by |-> operatingKey]

\* RotatingIssuer.declareCompromise with the call it makes to the source.
DeclareCompromise(lastTrusted) ==
  /\ Stable \in issuers
  /\ lastTrusted < height
  /\ Emit(<<CompromiseLog(lastTrusted)>>)
  /\ Suspend
  /\ UNCHANGED <<roleVars, processedRequest, lastEpoch, denialVars>>

(***************************************************************************)
(* Revocation and denial, single or batched.                               *)
(***************************************************************************)
Revoke(i, k, generation, batch) ==
  /\ Acts(i, k, generation)
  /\ i = Stable => Len(batch) = 1
  /\ Emit([n \in DOMAIN batch |->
             [emitter |-> This, sig |-> "MarkRevoked", wf |-> TRUE, subject |-> batch[n]]])
  /\ UNCHANGED <<roleVars, processedRequest, lastEpoch, denialVars, issuerVars>>

DenialsIn(batch, s) == Cardinality({n \in DOMAIN batch : batch[n] = s})

DenialLogs(batch) ==
  [n \in DOMAIN batch |->
     [emitter |-> This, sig |-> "SanctionDenied", wf |-> TRUE, subject |-> batch[n]]]

Deny(i, k, generation, batch) ==
  /\ Acts(i, k, generation)
  /\ i = Stable => Len(batch) = 1
  /\ denied' = [s \in Subjects |-> denied[s] \/ DenialsIn(batch, s) > 0]
  /\ revision' = [s \in Subjects |-> revision[s] + DenialsIn(batch, s)]
  /\ Emit(DenialLogs(batch))
  /\ UNCHANGED <<roleVars, processedRequest, lastEpoch, corrections, issuerVars>>

(***************************************************************************)
(* Correction of a denial: proposed by an issuer, approved by somebody     *)
(* else, executed by anybody after a delay.                                *)
(***************************************************************************)
ProposeDenialCorrection(i, s, a, c) ==
  /\ i \in issuers \ {Stable}
  /\ denied[s]
  /\ ValidAtIssuance(a)
  /\ Len(corrections) < MaxCorrections
  /\ corrections' = Append(corrections,
       [subject |-> s, proposer |-> i, approver |-> NoKey, attrs |-> a, claims |-> c,
        revision |-> revision[s], executeAfter |-> height + CorrectionDelay, executed |-> FALSE])
  /\ UNCHANGED <<roleVars, processedRequest, lastEpoch, denied, revision, chainVars, calls,
                 txLogs, issuerVars>>

\* The correction is about the denial that is in force.
Current(x) == ~x.executed /\ denied[x.subject] /\ revision[x.subject] = x.revision

\* Faulty variant: the proposer may approve.
ApproveDenialCorrectionBySelf(p, id) ==
  /\ p \in approvers
  /\ Current(corrections[id])
  /\ corrections[id].approver = NoKey
  /\ corrections' = [corrections EXCEPT ![id].approver = p]
  /\ UNCHANGED <<roleVars, processedRequest, lastEpoch, denied, revision, chainVars, calls,
                 txLogs, issuerVars>>

ApproveDenialCorrection(p, id) ==
  /\ p \in approvers
  /\ Current(corrections[id])
  /\ corrections[id].approver = NoKey
  /\ corrections[id].proposer # p
  /\ corrections' = [corrections EXCEPT ![id].approver = p]
  /\ UNCHANGED <<roleVars, processedRequest, lastEpoch, denied, revision, chainVars, calls,
                 txLogs, issuerVars>>

CorrectionLogs(x, id) ==
  << [emitter |-> This, sig |-> "SanctionDenialCorrected", wf |-> TRUE, subject |-> x.subject,
      revision |-> x.revision, correctionId |-> id, proposer |-> x.proposer,
      approver |-> x.approver],
     MarkIssued(x.subject, x.attrs, x.proposer, x.claims) >>

\* Faulty variant: an approved correction is executed whatever was denied since.
ExecuteApprovedCorrection(id) ==
  LET x == corrections[id] IN
  /\ ~x.executed /\ denied[x.subject]
  /\ x.proposer \in issuers
  /\ ValidAtIssuance(x.attrs)
  /\ x.approver # NoKey
  /\ height >= x.executeAfter
  /\ corrections' = [corrections EXCEPT ![id].executed = TRUE]
  /\ denied' = [denied EXCEPT ![x.subject] = FALSE]
  /\ Emit(CorrectionLogs(x, id))
  /\ UNCHANGED <<roleVars, processedRequest, lastEpoch, revision, issuerVars>>

ExecuteDenialCorrection(id) ==
  LET x == corrections[id] IN
  /\ Current(x)
  /\ x.proposer \in issuers
  /\ ValidAtIssuance(x.attrs)
  /\ x.approver # NoKey
  /\ height >= x.executeAfter
  /\ corrections' = [corrections EXCEPT ![id].executed = TRUE]
  /\ denied' = [denied EXCEPT ![x.subject] = FALSE]
  /\ Emit(CorrectionLogs(x, id))
  /\ UNCHANGED <<roleVars, processedRequest, lastEpoch, revision, issuerVars>>

(***************************************************************************)
(* Roster publication.                                                     *)
(***************************************************************************)
CheckEpoch(e) ==
  /\ e.epoch > lastEpoch
  /\ e.root # 0 /\ e.snapshotId # 0 /\ e.cutoff # 0
  /\ e.cutoff <= height /\ height - e.cutoff <= MaxLag
  /\ e.validUntil > height /\ e.validUntil - e.cutoff <= MaxAge

Authorized(e, i) ==
  [emitter |-> This, sig |-> "RosterIssuerAuthorized", wf |-> TRUE,
   epoch |-> e.epoch, root |-> e.root, issuer |-> i]

FinishEpoch(e, authorizations) ==
  /\ lastEpoch' = e.epoch
  /\ Emit(authorizations \o
       <<[emitter |-> This, sig |-> "RosterEpochPublished", wf |-> TRUE, epoch |-> e.epoch,
          root |-> e.root, listVersion |-> e.listVersion, validUntil |-> e.validUntil,
          cutoff |-> e.cutoff, publishedAt |-> height, snapshotId |-> e.snapshotId]>>)
  /\ UNCHANGED <<roleVars, processedRequest, denialVars, issuerVars>>

PublishEpoch(i, e) ==
  /\ i \in publishers /\ i \in issuers /\ i # Stable
  /\ CheckEpoch(e)
  /\ FinishEpoch(e, <<Authorized(e, i)>>)

ValidRootSignature(p) ==
  IF p.issuer = Stable THEN ValidSignature(p.signer, p.generation)
  ELSE p.signer = p.issuer /\ p.generation = 0

KeyAuthorized(e, p) ==
  [emitter |-> This, sig |-> "RosterIssuerKeyAuthorized", wf |-> TRUE, epoch |-> e.epoch,
   root |-> e.root, issuer |-> Stable, keyEpoch |-> keyEpoch, by |-> p.signer]

\* One log for each approval; the stable issuer, which approves once because the
\* addresses increase, adds the generation of its key.
AuthorizationLogs(e, approvals) ==
  LET authorized == [n \in DOMAIN approvals |-> Authorized(e, approvals[n].issuer)]
      keyed      == {n \in DOMAIN approvals : approvals[n].issuer = Stable}
  IN  IF keyed = {} THEN authorized
      ELSE LET n == CHOOSE n \in keyed : TRUE IN
           SubSeq(authorized, 1, n) \o <<KeyAuthorized(e, approvals[n])>> \o
             SubSeq(authorized, n + 1, Len(approvals))

PublishEpochForIssuers(publisher, e, approvals) ==
  /\ publisher \in publishers \ {Stable}
  /\ CheckEpoch(e)
  /\ Len(approvals) \in 1 .. MaxApprovals
  /\ \A n \in DOMAIN approvals :
       /\ n > 1 => Address[approvals[n].issuer] > Address[approvals[n - 1].issuer]
       /\ approvals[n].issuer \in issuers
       /\ ValidRootSignature(approvals[n])
  /\ FinishEpoch(e, AuthorizationLogs(e, approvals))

-----------------------------------------------------------------------------
\* Calls that emit lifecycle, key or roster logs.
Call ==
  \/ \E i \in Externals, b \in Batches, a \in Attrs, c \in Claims : Issue(i, b, a, c)
  \/ \E i \in Externals, q \in Requests, s \in Subjects, a \in Attrs, c \in Claims :
        IssueOnce(i, q, s, a, c)
  \/ \E k \in Keys, g \in 1 .. MaxGeneration, q \in Requests, s \in Subjects, a \in Attrs,
        c \in Claims : IssueOnceWithKey(k, g, q, s, a, c)
  \/ \E t \in 0 .. MaxHeight : DeclareCompromise(t)
  \/ \E i \in Principals, k \in Keys \cup Externals, g \in 0 .. MaxGeneration, b \in Batches :
        Revoke(i, k, g, b) \/ Deny(i, k, g, b)
  \/ \E id \in DOMAIN corrections : ExecuteDenialCorrection(id)
  \/ \E i \in Externals, e \in Publications : PublishEpoch(i, e)
  \/ \E i \in Externals, e \in Publications, p \in ApprovalLists : PublishEpochForIssuers(i, e, p)

\* Calls the hub never hears of.
Administer ==
  \/ \E a \in Principals : SetIssuer(a)
  \/ \E a \in Externals : SetEpochPublisher(a) \/ SetDenialCorrectionApprover(a)
  \/ \E i \in Externals, s \in Subjects, a \in Attrs, c \in Claims :
        ProposeDenialCorrection(i, s, a, c)
  \/ \E p \in Externals, id \in DOMAIN corrections : ApproveDenialCorrection(p, id)
  \/ IssuerNext /\ UNCHANGED <<roleVars, processedRequest, lastEpoch, denialVars, chainVars,
                               calls, txLogs>>

SourceNext == Call \/ Administer \/ Mine \/ NextBlock

SourceSpec == SourceInit /\ [][SourceNext]_sourceVars

(***************************************************************************)
(* Properties.                                                             *)
(***************************************************************************)
\* The logs emitted so far, those of the transaction in progress included.
History == chain \cup {Receipt}

Entries(s) == EntriesOf(History, s, This)

Denials(s) == {e \in Entries(s) : e.log.sig = "SanctionDenied"}

Logs(sigs) ==
  UNION {{EntryOf(r, n) : n \in {m \in DOMAIN r.logs : r.logs[m].sig \in sigs}} : r \in History}

CorrectionRecords ==
  [subject : Subjects, proposer : Externals, approver : Externals \cup {NoKey}, attrs : Attrs,
   claims : Claims, revision : Nat \ {0}, executeAfter : Nat, executed : BOOLEAN]

\* The type invariant.
SourceTypeOK ==
  /\ IssuerTypeOK
  /\ issuers \subseteq Principals /\ publishers \subseteq Externals /\ approvers \subseteq Externals
  /\ roleChanges \in Nat
  /\ processedRequest \subseteq Requests
  /\ lastEpoch \in Nat
  /\ denied \in [Subjects -> BOOLEAN] /\ revision \in [Subjects -> Nat]
  /\ corrections \in Seq(CorrectionRecords)
  /\ height \in Nat \ {0} /\ txIndex \in Nat /\ calls \in Nat
  /\ \A r \in History : /\ r.height \in 1 .. height /\ r.txIndex \in Nat
                         /\ Newer(<<r.height, r.txIndex, 0>>, <<height, txIndex, 0>>) => FALSE

\* A correction answers every denial of the holder that precedes it: no denial
\* was added between the proposal two people agreed on and its execution.  Two
\* corrections never answer the same denials, and the log after a correction
\* issues the credential that was agreed on.  The contract's flags say what its
\* logs say: a holder is denied exactly when the last decision is a denial.
CorrectionAnswersEveryDenial ==
  \A s \in Subjects :
     /\ denied[s] <=> DeniedBy(Entries(s))
     /\ \A e \in Entries(s) : e.log.sig = "SanctionDenialCorrected" =>
          LET x == corrections[e.log.correctionId] IN
          /\ e.log.revision = Cardinality({d \in Denials(s) : Newer(e.at, d.at)})
          /\ e.log.proposer # e.log.approver
          /\ \A f \in Entries(s) :
               f.log.sig = "SanctionDenialCorrected" /\ f.log.revision = e.log.revision => f = e
          /\ \E f \in Entries(s) :
               /\ f.at = <<e.at[1], e.at[2], e.at[3] + 1>>
               /\ f.log = MarkIssued(s, x.attrs, x.proposer, x.claims)

KeyedLogs == Logs({"KeyedMarkIssued", "RosterIssuerKeyAuthorized"})

\* A key generation stands for one key, a key for one generation, and generations
\* only grow along the chain: a retired key leaves no log after its successor's.
\* After a generation is declared compromised nothing is made under it.
GenerationsDoNotOverlap ==
  \A e, f \in KeyedLogs :
     /\ e.log.keyEpoch = f.log.keyEpoch <=> e.log.by = f.log.by
     /\ Newer(e.at, f.at) => e.log.keyEpoch >= f.log.keyEpoch
     /\ \A d \in Logs({"IssuerKeyCompromised"}) :
          d.log.keyEpoch = e.log.keyEpoch => Newer(d.at, e.at)

\* The keys of the stable issuer stay apart from its owners and from each other.
KeysStayApart == RecoveryIsSeparate /\ GenerationsDoNotOverlap
=============================================================================
