----------------------- MODULE ComplianceSourceProof -----------------------
(***************************************************************************)
(* What the source chain has on record, for every set of keys, accounts,   *)
(* holders and requests: recovery and operation of the stable issuer stay  *)
(* in different hands, corrections answer the denials before them,         *)
(* generations of keys do not overlap, and the hub accepts its logs.       *)
(***************************************************************************)
EXTENDS CrossChain, FiniteSetTheorems, SequenceTheorems, TLAPS

IssuerInv == IssuerTypeOK /\ RecoveryIsSeparate

\* Whatever ComplianceSource does, the issuer takes one of its own steps or none:
\* declareCompromise is the only call that moves both contracts.
LEMMA SourceMovesIssuerByItsSteps == SourceNext => [IssuerNext]_issuerVars
<1> SUFFICES ASSUME SourceNext PROVE [IssuerNext]_issuerVars
  OBVIOUS
<1>1. CASE Call
  <2>1. ASSUME NEW i \in Externals, NEW b \in Batches, NEW a \in Attrs, NEW c \in Claims,
               Issue(i, b, a, c)
        PROVE  UNCHANGED issuerVars
    BY <2>1 DEF Issue
  <2>2. ASSUME NEW i \in Externals, NEW q \in Requests, NEW s \in Subjects, NEW a \in Attrs,
               NEW c \in Claims, IssueOnce(i, q, s, a, c)
        PROVE  UNCHANGED issuerVars
    BY <2>2 DEF IssueOnce
  <2>3. ASSUME NEW k \in Keys, NEW g \in 1 .. MaxGeneration, NEW q \in Requests,
               NEW s \in Subjects, NEW a \in Attrs, NEW c \in Claims,
               IssueOnceWithKey(k, g, q, s, a, c)
        PROVE  UNCHANGED issuerVars
    BY <2>3 DEF IssueOnceWithKey
  <2>4. ASSUME NEW t \in 0 .. MaxHeight, DeclareCompromise(t)
        PROVE  IssuerNext
    BY <2>4 DEF DeclareCompromise, IssuerNext
  <2>5. ASSUME NEW i \in Principals, NEW k \in Keys \cup Externals, NEW g \in 0 .. MaxGeneration,
               NEW b \in Batches, Revoke(i, k, g, b) \/ Deny(i, k, g, b)
        PROVE  UNCHANGED issuerVars
    BY <2>5 DEF Revoke, Deny
  <2>6. ASSUME NEW id \in DOMAIN corrections, ExecuteDenialCorrection(id)
        PROVE  UNCHANGED issuerVars
    BY <2>6 DEF ExecuteDenialCorrection
  <2>7. ASSUME NEW i \in Externals, NEW e \in Publications, PublishEpoch(i, e)
        PROVE  UNCHANGED issuerVars
    BY <2>7 DEF PublishEpoch, FinishEpoch
  <2>8. ASSUME NEW i \in Externals, NEW e \in Publications, NEW p \in ApprovalLists,
               PublishEpochForIssuers(i, e, p)
        PROVE  UNCHANGED issuerVars
    BY <2>8 DEF PublishEpochForIssuers, FinishEpoch
  <2> QED
    BY <1>1, <2>1, <2>2, <2>3, <2>4, <2>5, <2>6, <2>7, <2>8 DEF Call
<1>2. CASE Administer
  <2>1. ASSUME NEW a \in Principals,
               SetIssuer(a) \/ SetEpochPublisher(a) \/ SetDenialCorrectionApprover(a)
        PROVE  UNCHANGED issuerVars
    BY <2>1 DEF SetIssuer, SetEpochPublisher, SetDenialCorrectionApprover, ChangeRole
  <2>2. ASSUME NEW i \in Externals, NEW s \in Subjects, NEW a \in Attrs, NEW c \in Claims,
               ProposeDenialCorrection(i, s, a, c)
        PROVE  UNCHANGED issuerVars
    BY <2>2 DEF ProposeDenialCorrection
  <2>3. ASSUME NEW p \in Externals, NEW id \in DOMAIN corrections, ApproveDenialCorrection(p, id)
        PROVE  UNCHANGED issuerVars
    BY <2>3 DEF ApproveDenialCorrection
  <2>4. Externals \subseteq Principals
    BY DEF Principals
  <2> QED
    BY <1>2, <2>1, <2>2, <2>3, <2>4 DEF Administer
<1>3. CASE Mine \/ NextBlock
  BY <1>3 DEF Mine, NextBlock
<1> QED
  BY <1>1, <1>2, <1>3 DEF SourceNext

\* The constructor establishes the invariant.
LEMMA IssuerInvInitially == IssuerInit => IssuerInv
<1> SUFFICES ASSUME IssuerInit PROVE IssuerInv
  OBVIOUS
<1>1. IssuerTypeOK
  <2>1. keyEpoch \in Nat \ {0}
    BY DEF IssuerInit
  <2> QED
    BY <2>1, Zenon DEF IssuerInit, IssuerTypeOK
<1>2. RecoveryIsSeparate
  BY NoKeyAssumption, Zenon DEF IssuerInit, RecoveryIsSeparate
<1> QED
  BY <1>1, <1>2 DEF IssuerInv

\* Every step of the issuer keeps it: a key is proposed only if it is neither
\* owner nor candidate, a candidate only if it is no key, and a change of owner
\* withdraws the proposal of the last one.
LEMMA IssuerInvIsInductive == IssuerInv /\ [IssuerNext]_issuerVars => IssuerInv'
<1> SUFFICES ASSUME IssuerInv, [IssuerNext]_issuerVars PROVE IssuerInv'
  OBVIOUS
<1> USE NoKeyAssumption DEF IssuerInv, IssuerTypeOK, RecoveryIsSeparate
<1>1. ASSUME NEW k \in Keys, ProposeKey(k) PROVE IssuerInv'
  BY <1>1 DEF ProposeKey
<1>2. CASE CancelKeyProposal
  BY <1>2 DEF CancelKeyProposal
<1>3. CASE AcceptKey
  <2>1. keyEpoch' \in Nat \ {0}
    BY <1>3 DEF AcceptKey
  <2>2. RecoveryIsSeparate'
    BY <1>3, Zenon DEF AcceptKey
  <2> QED
    BY <1>3, <2>1, <2>2, Zenon DEF AcceptKey
<1>4. CASE Suspend
  <2>1. keyEpoch' \in Nat \ {0}
    BY <1>4 DEF Suspend
  <2>2. RecoveryIsSeparate'
    BY <1>4, Zenon DEF Suspend
  <2> QED
    BY <1>4, <2>1, <2>2, Zenon DEF Suspend
<1>5. ASSUME NEW k \in Keys \cup {NoKey}, TransferOwnership(k) PROVE IssuerInv'
  BY <1>5 DEF TransferOwnership
<1>6. CASE AcceptOwnership
  BY <1>6 DEF AcceptOwnership
<1>7. CASE UNCHANGED issuerVars
  BY <1>7 DEF issuerVars
<1> QED
  BY <1>1, <1>2, <1>3, <1>4, <1>5, <1>6, <1>7 DEF IssuerNext

\* Along every behaviour of the source chain, nobody who owns the issuer or may
\* come to own it ever was an operating key of it or is proposed as one.
THEOREM RecoverySeparation == SourceSpec => []RecoveryIsSeparate
<1>1. SourceInit => IssuerInv
  BY IssuerInvInitially DEF SourceInit
<1>2. IssuerInv /\ [SourceNext]_sourceVars => IssuerInv'
  <2>1. UNCHANGED sourceVars => UNCHANGED issuerVars
    BY DEF sourceVars
  <2> QED
    BY <2>1, SourceMovesIssuerByItsSteps, IssuerInvIsInductive
<1>3. IssuerInv => RecoveryIsSeparate
  BY DEF IssuerInv
<1> QED
  BY <1>1, <1>2, <1>3, PTL DEF SourceSpec

-----------------------------------------------------------------------------
(***************************************************************************)
(* The decisions on one holder.  E is the set of his entries, den and rev  *)
(* the contract's flag and counter, corr its corrections.                  *)
(***************************************************************************)
DenialsOf(E) == {e \in E : e.log.sig = "SanctionDenied"}

Older(E, e) == {d \in DenialsOf(E) : Newer(e.at, d.at)}

\* The correction e answers the denials before it, by two people, and the next
\* log issues what they agreed on.
Answers(E, e, den, rev, corr, s) ==
  LET x == corr[e.log.correctionId] IN
  /\ e.log.correctionId \in DOMAIN corr
  /\ e.log.revision = Cardinality(Older(E, e))
  /\ e.log.revision \in 0 .. rev
  /\ e.log.revision = rev => ~den
  /\ e.log.proposer # e.log.approver
  /\ \A f \in E :
       f.log.sig = "SanctionDenialCorrected" /\ f.log.revision = e.log.revision => f = e
  /\ \E f \in E :
       /\ f.at = <<e.at[1], e.at[2], e.at[3] + 1>>
       /\ f.log = MarkIssued(s, x.attrs, x.proposer, x.claims)

Fits(E, den, rev, corr, s) ==
  /\ den <=> DeniedBy(E)
  /\ IsFiniteSet(DenialsOf(E)) /\ Cardinality(DenialsOf(E)) = rev
  /\ \A e \in E : e.log.sig = "SanctionDenialCorrected" => Answers(E, e, den, rev, corr, s)

\* The entries of A come after those of E.
Follows(A, E) ==
  /\ \A e \in E \cup A : e.at \in Coord
  /\ \A a \in A, e \in E : Newer(a.at, e.at)

\* Nothing is newer than what is newer than it.
LEMMA NewerIsAsymmetric ==
  ASSUME NEW p \in Coord, NEW q \in Coord, Newer(p, q)
  PROVE  ~Newer(q, p)
BY DEF Newer, Coord

\* What comes later is not among the older denials of an entry.
LEMMA OlderIsSettled ==
  ASSUME NEW E, NEW A, Follows(A, E), NEW e \in E
  PROVE  Older(E \cup A, e) = Older(E, e)
<1>1. \A d \in A : ~Newer(e.at, d.at)
  BY NewerIsAsymmetric DEF Follows
<1> QED
  BY <1>1 DEF Older, DenialsOf

\* A correction already answered stays so while later denials only add to rev.
LEMMA AnswersPersists ==
  ASSUME NEW E, NEW A, NEW e, NEW den, NEW rev \in Nat, NEW den2, NEW rev2 \in Nat, NEW corr, NEW s,
         Follows(A, E), e \in E, Answers(E, e, den, rev, corr, s),
         \A a \in A : a.log.sig # "SanctionDenialCorrected",
         rev2 > rev \/ (rev2 = rev /\ (den2 => den))
  PROVE  Answers(E \cup A, e, den2, rev2, corr, s)
<1>1. Older(E \cup A, e) = Older(E, e)
  BY OlderIsSettled
<1>2. /\ e.log.revision \in 0 .. rev2
      /\ e.log.revision = rev2 => ~den2
  BY DEF Answers
<1> QED
  BY <1>1, <1>2, Zenon DEF Answers

\* Logs that decide nothing leave the decisions as they are.
LEMMA AddOrdinary ==
  ASSUME NEW E, NEW A, NEW den, NEW rev \in Nat, NEW corr, NEW s,
         Fits(E, den, rev, corr, s), Follows(A, E), \A a \in A : a.log.sig \notin DecisionSigs
  PROVE  Fits(E \cup A, den, rev, corr, s)
<1>1. /\ DenialsOf(E \cup A) = DenialsOf(E)
      /\ Decisions(E \cup A) = Decisions(E)
      /\ \A a \in A : a.log.sig # "SanctionDenialCorrected"
  BY DEF DenialsOf, Decisions, DecisionSigs
<1>2. DeniedBy(E \cup A) <=> DeniedBy(E)
  BY <1>1, Zenon DEF DeniedBy, Latest, Decisions, DecisionSigs
<1>3. ASSUME NEW e \in E \cup A, e.log.sig = "SanctionDenialCorrected"
      PROVE  Answers(E \cup A, e, den, rev, corr, s)
  <2>1. e \in E
    BY <1>1, <1>3
  <2>2. Answers(E, e, den, rev, corr, s)
    BY <2>1, <1>3 DEF Fits
  <2> QED
    BY <2>1, <2>2, <1>1, AnswersPersists
<1> QED
  BY <1>1, <1>2, <1>3, Zenon DEF Fits

\* A batch of denials, one of them the latest, denies the holder.
LEMMA AddDenials ==
  ASSUME NEW E, NEW A, NEW den, NEW rev \in Nat, NEW corr, NEW s,
         Fits(E, den, rev, corr, s), Follows(A, E),
         IsFiniteSet(A), A # {}, \A a \in A : a.log.sig = "SanctionDenied",
         \E a \in A : \A b \in A : ~Newer(b.at, a.at)
  PROVE  Fits(E \cup A, TRUE, rev + Cardinality(A), corr, s)
<1>1. /\ DenialsOf(E \cup A) = DenialsOf(E) \cup A
      /\ Decisions(E \cup A) = Decisions(E) \cup A
      /\ \A a \in A : a.log.sig # "SanctionDenialCorrected"
  BY DEF DenialsOf, Decisions, DecisionSigs
<1>2. Cardinality(A) \in Nat /\ Cardinality(A) > 0
  BY FS_CardinalityType, FS_EmptySet
<1>3. DenialsOf(E) \cap A = {}
  <2>1. \A a \in A : a \notin E
    BY NewerIsAsymmetric DEF Follows
  <2> QED
    BY <2>1 DEF DenialsOf
<1>4. /\ IsFiniteSet(DenialsOf(E \cup A))
      /\ Cardinality(DenialsOf(E \cup A)) = rev + Cardinality(A)
  <2>1. IsFiniteSet(DenialsOf(E)) /\ Cardinality(DenialsOf(E)) = rev
    BY DEF Fits
  <2>2. Cardinality(DenialsOf(E) \cap A) = 0
    BY <1>3, FS_EmptySet
  <2>3. /\ IsFiniteSet(DenialsOf(E) \cup A)
        /\ Cardinality(DenialsOf(E) \cup A)
             = Cardinality(DenialsOf(E)) + Cardinality(A) - Cardinality(DenialsOf(E) \cap A)
    BY <2>1, FS_Union
  <2>4. Cardinality(DenialsOf(E) \cup A) = rev + Cardinality(A)
    BY <2>1, <2>2, <2>3, <1>2
  <2> QED
    BY <2>3, <2>4, <1>1, Zenon
<1>5. DeniedBy(E \cup A)
  <2>1. PICK a \in A : \A b \in A : ~Newer(b.at, a.at)
    OBVIOUS
  <2>2. \A e \in E : ~Newer(e.at, a.at)
    BY NewerIsAsymmetric DEF Follows
  <2>3. Latest(Decisions(E \cup A), a)
    BY <1>1, <2>1, <2>2 DEF Latest, Decisions
  <2> QED
    BY <2>3 DEF DeniedBy, Decisions
<1>6. ASSUME NEW e \in E \cup A, e.log.sig = "SanctionDenialCorrected"
      PROVE  Answers(E \cup A, e, TRUE, rev + Cardinality(A), corr, s)
  <2>1. e \in E
    BY <1>1, <1>6
  <2>2. Answers(E, e, den, rev, corr, s)
    BY <2>1, <1>6 DEF Fits
  <2>3. rev + Cardinality(A) \in Nat /\ rev + Cardinality(A) > rev
    BY <1>2
  <2> QED
    BY <2>1, <2>2, <2>3, <1>1, AnswersPersists
<1> QED
  BY <1>4, <1>5, <1>6, Zenon DEF Fits

\* The correction c of the denial in force and the issuance m after it end the
\* denial; no earlier correction answered the same denials.
LEMMA AddCorrection ==
  ASSUME NEW E, NEW c, NEW m, NEW rev \in Nat, NEW corr, NEW s,
         Fits(E, TRUE, rev, corr, s), Follows({c, m}, E),
         c.log.sig = "SanctionDenialCorrected", c.log.revision = rev,
         c.log.correctionId \in DOMAIN corr, c.log.proposer # c.log.approver,
         m.at = <<c.at[1], c.at[2], c.at[3] + 1>>,
         m.log = MarkIssued(s, corr[c.log.correctionId].attrs,
                            corr[c.log.correctionId].proposer, corr[c.log.correctionId].claims)
  PROVE  Fits(E \cup {c, m}, FALSE, rev, corr, s)
<1> DEFINE F == E \cup {c, m}
<1>1. m.log.sig = "MarkIssued"
  BY DEF MarkIssued
<1>2. /\ DenialsOf(F) = DenialsOf(E)
      /\ Decisions(F) = Decisions(E) \cup {c}
  BY <1>1 DEF DenialsOf, Decisions, DecisionSigs
<1>3. ~DeniedBy(F)
  <2>1. SUFFICES ASSUME NEW e \in F, Latest(Decisions(F), e), e.log.sig = "SanctionDenied"
                 PROVE  FALSE
    BY DEF DeniedBy
  <2>2. e \in E
    BY <2>1, <1>1
  <2>3. Newer(c.at, e.at)
    BY <2>2 DEF Follows
  <2> QED
    BY <2>1, <2>3, <1>2 DEF Latest
<1>4. ASSUME NEW e \in E, e.log.sig = "SanctionDenialCorrected"
      PROVE  Answers(F, e, FALSE, rev, corr, s)
  <2>1. Answers(E, e, TRUE, rev, corr, s)
    BY <1>4 DEF Fits
  <2>2. Older(F, e) = Older(E, e)
    BY OlderIsSettled
  <2>3. e.log.revision # rev
    BY <2>1 DEF Answers
  <2>4. \A f \in F :
          f.log.sig = "SanctionDenialCorrected" /\ f.log.revision = e.log.revision => f = e
    BY <2>1, <2>3, <1>1 DEF Answers
  <2> QED
    BY <2>1, <2>2, <2>4, Zenon DEF Answers
<1>5. Answers(F, c, FALSE, rev, corr, s)
  <2>1. Older(F, c) = DenialsOf(F)
    BY <1>2 DEF Older, Follows, DenialsOf
  <2>2. Cardinality(Older(F, c)) = rev
    BY <2>1, <1>2 DEF Fits
  <2>3. \A f \in F :
          f.log.sig = "SanctionDenialCorrected" /\ f.log.revision = c.log.revision => f = c
    <3>1. \A f \in E : f.log.sig = "SanctionDenialCorrected" => f.log.revision # rev
      BY DEF Fits, Answers
    <3> QED
      BY <3>1, <1>1
  <2> QED
    BY <2>2, <2>3 DEF Answers
<1>6. \A e \in F : e.log.sig = "SanctionDenialCorrected" => Answers(F, e, FALSE, rev, corr, s)
  BY <1>1, <1>4, <1>5
<1> HIDE DEF F
<1>7. Fits(F, FALSE, rev, corr, s)
  BY <1>2, <1>3, <1>6 DEF Fits
<1> QED
  BY <1>7 DEF F

\* What was agreed on in a correction is not changed by its approval, its
\* execution or a further proposal.
LEMMA TermsStand ==
  ASSUME NEW E, NEW den, NEW rev, NEW corr, NEW corr2, NEW s,
         Fits(E, den, rev, corr, s),
         \A id \in DOMAIN corr :
           /\ id \in DOMAIN corr2
           /\ corr2[id].attrs = corr[id].attrs
           /\ corr2[id].proposer = corr[id].proposer
           /\ corr2[id].claims = corr[id].claims
  PROVE  Fits(E, den, rev, corr2, s)
<1>1. ASSUME NEW e \in E, e.log.sig = "SanctionDenialCorrected"
      PROVE  Answers(E, e, den, rev, corr2, s)
  <2>1. Answers(E, e, den, rev, corr, s)
    BY <1>1 DEF Fits
  <2> QED
    BY <2>1, Zenon DEF Answers
<1> QED
  BY <1>1, Zenon DEF Fits

-----------------------------------------------------------------------------
(***************************************************************************)
(* The log of the chain.                                                   *)
(***************************************************************************)
IsSequence(q) == \E S : q \in Seq(S)

\* Coordinates of receipts only grow.
LogShape ==
  /\ height \in Nat /\ txIndex \in Nat /\ IsSequence(txLogs)
  /\ \A r \in chain :
       /\ r.height \in Nat /\ r.txIndex \in Nat /\ IsSequence(r.logs)
       /\ r.height < height \/ (r.height = height /\ r.txIndex < txIndex)

\* Every log so far with its coordinates, and those a call emitting logs adds.
EntriesIn(r) == {EntryOf(r, n) : n \in 1 .. Len(r.logs)}

AllEntries == UNION {EntriesIn(r) : r \in History}

AddedEntries(logs) ==
  {[at |-> <<height, txIndex, Len(txLogs) + n - 1>>, log |-> logs[n]] : n \in 1 .. Len(logs)}

\* Those of them that concern holder s.
Added(logs, s) == {e \in AddedEntries(logs) : Concerns(e.log, s, This)}

\* Appending a sequence keeps what was there and adds its elements.
LEMMA ConcatElements ==
  ASSUME NEW p, NEW q, IsSequence(p), IsSequence(q)
  PROVE  /\ IsSequence(p \o q)
         /\ Len(p) \in Nat /\ Len(q) \in Nat
         /\ Len(p \o q) = Len(p) + Len(q)
         /\ \A n \in 1 .. Len(p) : (p \o q)[n] = p[n]
         /\ \A n \in 1 .. Len(q) : (p \o q)[Len(p) + n] = q[n]
<1>1. PICK S : p \in Seq(S)
  BY DEF IsSequence
<1>2. PICK T : q \in Seq(T)
  BY DEF IsSequence
<1>3. p \in Seq(S \cup T) /\ q \in Seq(S \cup T)
  BY <1>1, <1>2, SeqMonotonic
<1>4. p \o q \in Seq(S \cup T)
  BY <1>3
<1> QED
  BY <1>3, <1>4, ConcatProperties DEF IsSequence

\* A function on 1 .. n is a sequence.
LEMMA FunctionIsSequence ==
  ASSUME NEW n \in Nat, NEW f, f = [i \in 1 .. n |-> f[i]]
  PROVE  IsSequence(f) /\ Len(f) = n
<1>1. f \in [1 .. n -> {f[i] : i \in 1 .. n}]
  BY Zenon
<1>2. f \in Seq({f[i] : i \in 1 .. n})
  BY <1>1, IsASeq
<1>3. Len(f) \in Nat /\ DOMAIN f = 1 .. Len(f)
  BY <1>2, LenProperties
<1>4. DOMAIN f = 1 .. n
  BY <1>1
<1>5. Len(f) = n
  BY <1>3, <1>4
<1> QED
  BY <1>2, <1>5 DEF IsSequence

\* The receipts mined so far and the transaction in progress.
LEMMA EntriesInParts ==
  /\ AllEntries = (UNION {EntriesIn(r) : r \in chain}) \cup EntriesIn(Receipt)
  /\ AllEntries' = (UNION {EntriesIn(r) : r \in chain'}) \cup EntriesIn(Receipt')
<1>1. AllEntries = (UNION {EntriesIn(r) : r \in chain}) \cup EntriesIn(Receipt)
  BY Zenon DEF AllEntries, History
<1>2. AllEntries' = (UNION {EntriesIn(r) : r \in chain'}) \cup EntriesIn(Receipt')
  BY Zenon DEF AllEntries, History
<1> QED
  BY <1>1, <1>2

\* A holder's entries are those that concern him.
LEMMA EntriesConcern ==
  ASSUME NEW s
  PROVE  /\ Entries(s) = {e \in AllEntries : Concerns(e.log, s, This)}
         /\ Entries(s)' = {e \in AllEntries' : Concerns(e.log, s, This)}
<1>1. ASSUME NEW r
      PROVE  EntriesUpTo(r, Len(r.logs), s, This)
               = {e \in EntriesIn(r) : Concerns(e.log, s, This)}
  <2>1. \A n : EntryOf(r, n).log = r.logs[n]
    BY DEF EntryOf
  <2> QED
    BY <2>1 DEF EntriesUpTo, EntriesIn
<1>2. Entries(s) = {e \in AllEntries : Concerns(e.log, s, This)}
  BY <1>1, Zenon DEF Entries, EntriesOf, AllEntries
<1>3. Entries(s)' = {e \in AllEntries' : Concerns(e.log, s, This)}
  BY <1>1, Zenon DEF Entries, EntriesOf, AllEntries
<1> QED
  BY <1>2, <1>3

\* Every entry is older than anything the transaction in progress may add.
LEMMA EntriesAreOlder ==
  ASSUME LogShape, NEW e \in AllEntries, NEW n \in Nat, n >= Len(txLogs)
  PROVE  e.at \in Coord /\ Newer(<<height, txIndex, n>>, e.at)
<1>1. ASSUME NEW r \in chain, NEW i \in 1 .. Len(r.logs), e = EntryOf(r, i)
      PROVE  e.at \in Coord /\ Newer(<<height, txIndex, n>>, e.at)
  <2>1. e.at = <<r.height, r.txIndex, i - 1>> /\ i - 1 \in Nat
    BY <1>1 DEF EntryOf
  <2>2. /\ r.height \in Nat /\ r.txIndex \in Nat /\ height \in Nat /\ txIndex \in Nat
        /\ r.height < height \/ (r.height = height /\ r.txIndex < txIndex)
    BY DEF LogShape
  <2> QED
    BY <2>1, <2>2 DEF Coord, Newer
<1>2. ASSUME NEW i \in 1 .. Len(txLogs), e = EntryOf(Receipt, i)
      PROVE  e.at \in Coord /\ Newer(<<height, txIndex, n>>, e.at)
  <2>1. e.at = <<height, txIndex, i - 1>> /\ i - 1 \in Nat /\ i - 1 < n
    <3>1. Len(txLogs) \in Nat
      BY ConcatElements DEF LogShape
    <3> QED
      BY <1>2, <3>1 DEF EntryOf, Receipt
  <2> QED
    BY <2>1 DEF Coord, Newer, LogShape
<1> QED
  <2>1. \/ \E r \in chain : \E i \in 1 .. Len(r.logs) : e = EntryOf(r, i)
        \/ \E i \in 1 .. Len(Receipt.logs) : e = EntryOf(Receipt, i)
    BY EntriesInParts, Zenon DEF EntriesIn
  <2>2. Receipt.logs = txLogs
    BY DEF Receipt
  <2> QED
    BY <1>1, <1>2, <2>1, <2>2

\* A call adds the entries of its logs, and they are the newest.
LEMMA EmitAdds ==
  ASSUME LogShape, NEW logs, IsSequence(logs), Emit(logs)
  PROVE  /\ LogShape'
         /\ AllEntries' = AllEntries \cup AddedEntries(logs)
         /\ Follows(AddedEntries(logs), AllEntries)
<1>1. /\ IsSequence(txLogs \o logs)
      /\ Len(txLogs) \in Nat /\ Len(logs) \in Nat
      /\ Len(txLogs \o logs) = Len(txLogs) + Len(logs)
      /\ \A n \in 1 .. Len(txLogs) : (txLogs \o logs)[n] = txLogs[n]
      /\ \A n \in 1 .. Len(logs) : (txLogs \o logs)[Len(txLogs) + n] = logs[n]
  BY ConcatElements DEF LogShape
<1>2. /\ txLogs' = txLogs \o logs
      /\ height' = height /\ txIndex' = txIndex /\ chain' = chain
  BY DEF Emit, chainVars
<1>3. LogShape'
  BY <1>1, <1>2 DEF LogShape
<1>4. AllEntries' = AllEntries \cup AddedEntries(logs)
  <2>1. /\ Receipt.height = height /\ Receipt.txIndex = txIndex /\ Receipt.logs = txLogs
        /\ Receipt'.height = height /\ Receipt'.txIndex = txIndex /\ Receipt'.logs = txLogs \o logs
    BY <1>2 DEF Receipt
  <2>2. \A i \in 1 .. Len(txLogs) : EntryOf(Receipt', i) = EntryOf(Receipt, i)
    BY <1>1, <2>1 DEF EntryOf
  <2>3. ASSUME NEW n \in 1 .. Len(logs)
        PROVE  EntryOf(Receipt', Len(txLogs) + n)
                 = [at |-> <<height, txIndex, Len(txLogs) + n - 1>>, log |-> logs[n]]
    <3>1. PICK i : i = Len(txLogs) + n
      OBVIOUS
    <3>2. Receipt'.logs[i] = logs[n]
      BY <1>1, <2>1, <3>1
    <3>3. EntryOf(Receipt', i) = [at |-> <<height, txIndex, i - 1>>, log |-> logs[n]]
      BY <2>1, <3>2 DEF EntryOf
    <3> QED
      BY <3>1, <3>3
  <2>4. \A i \in 1 .. Len(txLogs \o logs) :
          i \in 1 .. Len(txLogs) \/ \E n \in 1 .. Len(logs) : i = Len(txLogs) + n
    <3>1. ASSUME NEW i \in 1 .. Len(txLogs \o logs), i \notin 1 .. Len(txLogs)
          PROVE  i - Len(txLogs) \in 1 .. Len(logs) /\ i = Len(txLogs) + (i - Len(txLogs))
      BY <1>1, <3>1
    <3> QED
      BY <3>1
  <2>5. /\ \A i \in 1 .. Len(txLogs) : i \in 1 .. Len(txLogs \o logs)
        /\ \A n \in 1 .. Len(logs) : Len(txLogs) + n \in 1 .. Len(txLogs \o logs)
    BY <1>1
  <2>6. EntriesIn(Receipt') = EntriesIn(Receipt) \cup AddedEntries(logs)
    <3>1. /\ EntriesIn(Receipt') = {EntryOf(Receipt', n) : n \in 1 .. Len(txLogs \o logs)}
          /\ EntriesIn(Receipt) = {EntryOf(Receipt, n) : n \in 1 .. Len(txLogs)}
      BY <2>1 DEF EntriesIn
    <3>2. AddedEntries(logs) = {EntryOf(Receipt', Len(txLogs) + n) : n \in 1 .. Len(logs)}
      BY <2>3, Zenon DEF AddedEntries
    <3>3. EntriesIn(Receipt) = {EntryOf(Receipt', n) : n \in 1 .. Len(txLogs)}
      BY <2>2, <3>1, Zenon
    <3> QED
      BY <2>4, <2>5, <3>1, <3>2, <3>3, Zenon
  <2> QED
    BY <1>2, <2>6, EntriesInParts
<1>5. Follows(AddedEntries(logs), AllEntries)
  <2>1. ASSUME NEW a \in AddedEntries(logs)
        PROVE  \E k \in Nat : k >= Len(txLogs) /\ a.at = <<height, txIndex, k>>
    <3>1. PICK n \in 1 .. Len(logs) :
            a = [at |-> <<height, txIndex, Len(txLogs) + n - 1>>, log |-> logs[n]]
      BY DEF AddedEntries
    <3>2. Len(txLogs) + n - 1 \in Nat /\ Len(txLogs) + n - 1 >= Len(txLogs)
      BY <1>1
    <3> QED
      BY <3>1, <3>2
  <2>2. \A a \in AddedEntries(logs) : a.at \in Coord
    <3>1. height \in Nat /\ txIndex \in Nat
      BY DEF LogShape
    <3>2. \A k \in Nat : <<height, txIndex, k>> \in Coord
      BY <3>1 DEF Coord
    <3> QED
      BY <2>1, <3>2
  <2>3. \A e \in AllEntries : e.at \in Coord
    <3>1. Len(txLogs) >= Len(txLogs)
      BY <1>1
    <3> QED
      BY <1>1, <3>1, EntriesAreOlder
  <2>4. \A a \in AddedEntries(logs), e \in AllEntries : Newer(a.at, e.at)
    BY <2>1, EntriesAreOlder
  <2> QED
    BY <2>2, <2>3, <2>4 DEF Follows
<1> QED
  BY <1>3, <1>4, <1>5

\* The same about the entries of one holder.
LEMMA EmitAddsToHolder ==
  ASSUME LogShape, NEW logs, IsSequence(logs), Emit(logs), NEW s
  PROVE  /\ Entries(s)' = Entries(s) \cup Added(logs, s)
         /\ Follows(Added(logs, s), Entries(s))
<1>1. /\ AllEntries' = AllEntries \cup AddedEntries(logs)
      /\ Follows(AddedEntries(logs), AllEntries)
  BY EmitAdds
<1>2. Entries(s)' = Entries(s) \cup Added(logs, s)
  BY <1>1, EntriesConcern DEF Added
<1>3. Added(logs, s) \subseteq AddedEntries(logs) /\ Entries(s) \subseteq AllEntries
  BY EntriesConcern DEF Added
<1> QED
  BY <1>1, <1>2, <1>3 DEF Follows

\* A transaction that is mined stays in the history, and a block starts empty.
LEMMA MiningKeepsEntries ==
  ASSUME LogShape, Mine \/ NextBlock
  PROVE  LogShape' /\ AllEntries' = AllEntries
<1>1. Len(<< >>) = 0 /\ IsSequence(<< >>)
  BY DEF IsSequence
<1>2. CASE Mine
  <2>1. /\ chain' = chain \cup {Receipt} /\ txIndex' = txIndex + 1 /\ height' = height
        /\ txLogs' = << >>
    BY <1>2 DEF Mine
  <2>2. LogShape'
    <3>1. /\ Receipt.height = height /\ Receipt.txIndex = txIndex /\ Receipt.logs = txLogs
      BY DEF Receipt
    <3>2. ASSUME NEW r \in chain \cup {Receipt}
          PROVE  /\ r.height \in Nat /\ r.txIndex \in Nat /\ IsSequence(r.logs)
                 /\ r.height < height \/ (r.height = height /\ r.txIndex < txIndex + 1)
      <4>1. CASE r \in chain
        BY <4>1 DEF LogShape
      <4>2. CASE r = Receipt
        BY <3>1, <4>2 DEF LogShape
      <4> QED
        BY <4>1, <4>2
    <3> QED
      BY <1>1, <2>1, <3>2 DEF LogShape
  <2>3. EntriesIn(Receipt') = {}
    BY <1>1, <2>1 DEF EntriesIn, Receipt
  <2>4. UNION {EntriesIn(r) : r \in chain \cup {Receipt}} = AllEntries
    BY DEF AllEntries, History
  <2> QED
    BY <2>1, <2>2, <2>3, <2>4, EntriesInParts
<1>3. CASE NextBlock
  <2>1. /\ chain' = chain /\ txIndex' = 0 /\ height' = height + 1
        /\ txLogs = << >> /\ txLogs' = << >>
    BY <1>3 DEF NextBlock
  <2>2. LogShape'
    BY <2>1 DEF LogShape
  <2>3. EntriesIn(Receipt') = {} /\ EntriesIn(Receipt) = {}
    BY <1>1, <2>1 DEF EntriesIn, Receipt
  <2> QED
    BY <2>1, <2>2, <2>3, EntriesInParts
<1> QED
  BY <1>2, <1>3

\* Steps that touch neither logs nor blocks keep the entries.
LEMMA SameEntries ==
  ASSUME UNCHANGED <<chainVars, txLogs>>
  PROVE  /\ LogShape => LogShape'
         /\ AllEntries' = AllEntries
<1>1. height' = height /\ txIndex' = txIndex /\ chain' = chain /\ txLogs' = txLogs
  BY DEF chainVars
<1>2. Receipt' = Receipt
  BY <1>1 DEF Receipt
<1> QED
  BY <1>1, <1>2, EntriesInParts DEF LogShape

-----------------------------------------------------------------------------
(***************************************************************************)
(* The decisions the source chain records are those in its storage.        *)
(***************************************************************************)
Corrections ==
  [subject : Subjects, proposer : Externals, approver : Externals \cup {NoKey}, attrs : Attrs,
   claims : Claims, revision : Nat, executeAfter : Nat, executed : BOOLEAN]

DecisionInv ==
  /\ LogShape
  /\ denied \in [Subjects -> BOOLEAN] /\ revision \in [Subjects -> Nat]
  /\ corrections \in Seq(Corrections)
  /\ \A id \in DOMAIN corrections :
       corrections[id].approver = NoKey \/ corrections[id].proposer # corrections[id].approver
  /\ \A s \in Subjects : Fits(Entries(s), denied[s], revision[s], corrections, s)

\* The deployed contract has decided nothing.
LEMMA DecisionInvInitially == SourceInit => DecisionInv
<1> SUFFICES ASSUME SourceInit PROVE DecisionInv
  OBVIOUS
<1> USE DEF SourceInit
<1>1. IsSequence(<< >>)
  BY DEF IsSequence
<1>2. LogShape
  BY <1>1 DEF LogShape
<1>3. << >> \in Seq(Corrections) /\ DOMAIN << >> = {}
  BY EmptySeq
<1>4. ASSUME NEW s \in Subjects
      PROVE  Fits(Entries(s), denied[s], revision[s], corrections, s)
  <2>1. Entries(s) = {}
    <3>1. EntriesIn(Receipt) = {}
      BY DEF EntriesIn, Receipt
    <3>2. AllEntries = {}
      BY <3>1, EntriesInParts
    <3> QED
      BY <3>2, EntriesConcern
  <2>2. DenialsOf({}) = {} /\ ~DeniedBy({})
    BY DEF DenialsOf, DeniedBy
  <2>3. denied[s] = FALSE /\ revision[s] = 0
    OBVIOUS
  <2> QED
    BY <2>1, <2>2, <2>3, FS_EmptySet DEF Fits
<1> QED
  BY <1>2, <1>3, <1>4 DEF DecisionInv

\* A call whose logs decide nothing.
LEMMA OrdinaryCall ==
  ASSUME DecisionInv, NEW logs, IsSequence(logs), Emit(logs), UNCHANGED denialVars,
         \A n \in 1 .. Len(logs) : logs[n].sig \notin DecisionSigs
  PROVE  DecisionInv'
<1>1. LogShape'
  BY EmitAdds DEF DecisionInv
<1>2. denied' = denied /\ revision' = revision /\ corrections' = corrections
  BY DEF denialVars
<1>3. ASSUME NEW s \in Subjects
      PROVE  Fits(Entries(s)', denied[s], revision[s], corrections, s)
  <2>1. \A a \in Added(logs, s) : a.log.sig \notin DecisionSigs
    BY DEF Added, AddedEntries
  <2>2. Entries(s)' = Entries(s) \cup Added(logs, s) /\ Follows(Added(logs, s), Entries(s))
    BY EmitAddsToHolder DEF DecisionInv
  <2>3. Fits(Entries(s), denied[s], revision[s], corrections, s) /\ revision[s] \in Nat
    BY DEF DecisionInv
  <2>4. Fits(Entries(s) \cup Added(logs, s), denied[s], revision[s], corrections, s)
    BY <2>1, <2>2, <2>3, AddOrdinary
  <2> QED
    BY <2>2, <2>4
<1>4. \A s \in Subjects : Fits(Entries(s)', denied'[s], revision'[s], corrections', s)
  BY <1>2, <1>3
<1>5. /\ denied' \in [Subjects -> BOOLEAN] /\ revision' \in [Subjects -> Nat]
      /\ corrections' \in Seq(Corrections)
      /\ \A id \in DOMAIN corrections' :
           \/ corrections'[id].approver = NoKey
           \/ corrections'[id].proposer # corrections'[id].approver
  BY <1>2 DEF DecisionInv
<1> QED
  BY <1>1, <1>4, <1>5 DEF DecisionInv

\* A step that adds no entry and decides nothing; what was agreed on stands.
LEMMA QuietStep ==
  ASSUME DecisionInv, LogShape', AllEntries' = AllEntries,
         UNCHANGED <<denied, revision>>,
         corrections' \in Seq(Corrections),
         \A id \in DOMAIN corrections' :
           \/ corrections'[id].approver = NoKey
           \/ corrections'[id].proposer # corrections'[id].approver,
         \A id \in DOMAIN corrections :
           /\ id \in DOMAIN corrections'
           /\ corrections'[id].attrs = corrections[id].attrs
           /\ corrections'[id].proposer = corrections[id].proposer
           /\ corrections'[id].claims = corrections[id].claims
  PROVE  DecisionInv'
<1>1. PICK corr2 : corr2 = corrections'
  OBVIOUS
<1>2. ASSUME NEW s \in Subjects
      PROVE  Fits(Entries(s)', denied'[s], revision'[s], corr2, s)
  <2>1. Fits(Entries(s), denied[s], revision[s], corrections, s)
    BY DEF DecisionInv
  <2>2. Fits(Entries(s), denied[s], revision[s], corr2, s)
    BY <1>1, <2>1, TermsStand
  <2>3. Entries(s)' = Entries(s)
    BY EntriesConcern
  <2> QED
    BY <2>2, <2>3
<1>3. denied' \in [Subjects -> BOOLEAN] /\ revision' \in [Subjects -> Nat]
  BY DEF DecisionInv
<1> QED
  BY <1>1, <1>2, <1>3 DEF DecisionInv

\* A step that touches neither logs nor decisions.
LEMMA UnrelatedStep ==
  ASSUME DecisionInv, UNCHANGED <<denialVars, chainVars, txLogs>>
  PROVE  DecisionInv'
<1>1. denied' = denied /\ revision' = revision /\ corrections' = corrections
  BY DEF denialVars
<1>2. LogShape' /\ AllEntries' = AllEntries
  BY SameEntries DEF DecisionInv
<1> QED
  BY <1>1, <1>2, QuietStep DEF DecisionInv

-----------------------------------------------------------------------------
\* A set of indices has a largest one.
LEMMA LargestElement ==
  ASSUME NEW k \in Nat, NEW N, N \subseteq 1 .. k, N # {}
  PROVE  \E n \in N : \A m \in N : m <= n
<1> DEFINE T == {k - n : n \in N}
<1>1. T \subseteq Nat /\ T # {}
  <2>1. \A n \in N : k - n \in Nat
    OBVIOUS
  <2> QED
    BY <2>1, Zenon
<1>2. \E x \in T : \A y \in T : ~(<<y, x>> \in OpToRel(<, Nat))
  <2> HIDE DEF T
  <2> QED
    BY <1>1, NatLessThanWellFounded, WFMin
<1>3. \A x, y \in Nat : <<y, x>> \in OpToRel(<, Nat) <=> y < x
  BY DEF OpToRel
<1>4. PICK x \in T : \A y \in T : ~(y < x)
  BY <1>1, <1>2, <1>3
<1>5. PICK n \in N : x = k - n
  OBVIOUS
<1>6. \A m \in N : ~(k - m < k - n)
  BY <1>4, <1>5
<1>7. \A m \in N : m <= n
  BY <1>6
<1> QED
  BY <1>7

\* A batch emits one log for each holder it names.
LEMMA DenialLogsOfBatch ==
  ASSUME NEW batch \in Seq(Subjects)
  PROVE  IsSequence(DenialLogs(batch)) /\ Len(DenialLogs(batch)) = Len(batch)
<1>1. Len(batch) \in Nat /\ DOMAIN batch = 1 .. Len(batch)
  BY LenProperties
<1>2. DenialLogs(batch) = [n \in 1 .. Len(batch) |-> DenialLogs(batch)[n]]
  BY <1>1 DEF DenialLogs
<1> QED
  BY <1>1, <1>2, FunctionIsSequence

\* A batch denies a holder as often as it names him, and one of these denials
\* is the latest.
LEMMA BatchOfDenials ==
  ASSUME LogShape, NEW batch \in Seq(Subjects), NEW s \in Subjects
  PROVE  LET A == Added(DenialLogs(batch), s) IN
         /\ IsFiniteSet(A) /\ Cardinality(A) = DenialsIn(batch, s)
         /\ DenialsIn(batch, s) \in Nat
         /\ \A a \in A : a.log.sig = "SanctionDenied"
         /\ A # {} => \E a \in A : \A b \in A : ~Newer(b.at, a.at)
<1> DEFINE A == Added(DenialLogs(batch), s)
           N == {n \in 1 .. Len(batch) : batch[n] = s}
           At(n) == <<height, txIndex, Len(txLogs) + n - 1>>
           f == [n \in N |-> [at |-> At(n), log |-> DenialLogs(batch)[n]]]
<1>1. Len(batch) \in Nat /\ DOMAIN batch = 1 .. Len(batch)
  BY LenProperties
<1>2. IsSequence(DenialLogs(batch)) /\ Len(DenialLogs(batch)) = Len(batch)
  BY DenialLogsOfBatch
<1>3. \A n \in 1 .. Len(batch) :
        /\ DenialLogs(batch)[n].sig = "SanctionDenied"
        /\ Concerns(DenialLogs(batch)[n], s, This) <=> batch[n] = s
  BY <1>1 DEF DenialLogs, Concerns, LifecycleSigs, DecisionSigs
<1>4. A = {f[n] : n \in N}
  <2>1. \A n \in N : f[n] = [at |-> At(n), log |-> DenialLogs(batch)[n]]
    OBVIOUS
  <2>2. A = {[at |-> At(n), log |-> DenialLogs(batch)[n]] : n \in N}
    BY <1>2, <1>3 DEF Added, AddedEntries
  <2> HIDE DEF f, A, N, At
  <2> QED
    BY <2>1, <2>2, Zenon
<1>5. /\ height \in Nat /\ txIndex \in Nat /\ Len(txLogs) \in Nat
  BY ConcatElements DEF LogShape
<1>6. IsFiniteSet(N) /\ Cardinality(N) = DenialsIn(batch, s) /\ Cardinality(N) \in Nat
  <2>1. IsFiniteSet(1 .. Len(batch))
    BY <1>1, FS_Interval
  <2>2. N \in SUBSET (1 .. Len(batch))
    OBVIOUS
  <2>3. IsFiniteSet(N) 
    BY <2>1, <2>2, FS_Subset
  <2> QED
    BY <1>1, <2>3, FS_CardinalityType DEF DenialsIn
<1>7. \A n, m \in N : f[n] = f[m] => n = m
  <2>1. \A n \in N : f[n].at[3] = Len(txLogs) + n - 1
    OBVIOUS
  <2> QED
    BY <2>1, <1>5, <1>1
<1>8. f \in Bijection(N, A)
  <2>1. DOMAIN f = N /\ f = [n \in N |-> f[n]]
    OBVIOUS
  <2> HIDE DEF f, N, A
  <2>2. f \in [N -> A]
    BY <1>4, <2>1
  <2>3. f \in Injection(N, A)
    BY <1>7, <2>1, <2>2 DEF Injection, IsInjective
  <2>4. f \in Surjection(N, A)
    BY <1>4, <2>2 DEF Surjection
  <2> QED
    BY <2>3, <2>4 DEF Bijection
<1>9. IsFiniteSet(A) /\ Cardinality(A) = Cardinality(N)
  <2> HIDE DEF N, A, f
  <2>1. ExistsBijection(N, A)
    BY <1>8 DEF ExistsBijection
  <2> QED
    BY <1>6, <2>1, FS_Bijection
<1>10. \A a \in A : a.log.sig = "SanctionDenied"
  <2>1. \A n \in N : f[n].log = DenialLogs(batch)[n] /\ n \in 1 .. Len(batch)
    OBVIOUS
  <2> HIDE DEF N, A, f
  <2> QED
    BY <1>3, <1>4, <2>1
<1>11. ASSUME A # {} PROVE \E a \in A : \A b \in A : ~Newer(b.at, a.at)
  <2>1. N # {}
    BY <1>4, <1>11
  <2>2. PICK n \in N : \A m \in N : m <= n
    BY <1>1, <2>1, LargestElement
  <2>3. ASSUME NEW m \in N PROVE ~Newer(f[m].at, f[n].at)
    BY <1>1, <1>5, <2>2 DEF Newer
  <2> QED
    BY <1>4, <2>3
<1> QED
  BY <1>6, <1>9, <1>10, <1>11

\* A denial, single or batched.
LEMMA DenyKeepsDecisions ==
  ASSUME DecisionInv, NEW i, NEW k, NEW g, NEW b \in Batches, Deny(i, k, g, b)
  PROVE  DecisionInv'
<1>1. b \in Seq(Subjects)
  BY SourceAssumption
<1>2. /\ denied' = [s \in Subjects |-> denied[s] \/ DenialsIn(b, s) > 0]
      /\ revision' = [s \in Subjects |-> revision[s] + DenialsIn(b, s)]
      /\ corrections' = corrections
      /\ Emit(DenialLogs(b))
  BY DEF Deny
<1>3. LogShape /\ IsSequence(DenialLogs(b))
  BY <1>1, DenialLogsOfBatch DEF DecisionInv
<1>4. LogShape'
  BY <1>2, <1>3, EmitAdds
<1>5. ASSUME NEW s \in Subjects
      PROVE  /\ Fits(Entries(s)', denied[s] \/ DenialsIn(b, s) > 0,
                     revision[s] + DenialsIn(b, s), corrections, s)
             /\ DenialsIn(b, s) \in Nat
  <2> DEFINE A == Added(DenialLogs(b), s)
  <2>1. /\ IsFiniteSet(A) /\ Cardinality(A) = DenialsIn(b, s) /\ DenialsIn(b, s) \in Nat
        /\ \A a \in A : a.log.sig = "SanctionDenied"
        /\ A # {} => \E a \in A : \A c \in A : ~Newer(c.at, a.at)
    BY <1>1, <1>3, BatchOfDenials
  <2>2. Entries(s)' = Entries(s) \cup A /\ Follows(A, Entries(s))
    BY <1>2, <1>3, EmitAddsToHolder
  <2>3. /\ Fits(Entries(s), denied[s], revision[s], corrections, s)
        /\ revision[s] \in Nat /\ denied[s] \in BOOLEAN
    BY DEF DecisionInv
  <2> HIDE DEF A
  <2>4. CASE A = {}
    <3>1. DenialsIn(b, s) = 0
      BY <2>1, <2>4, FS_EmptySet
    <3>2. revision[s] + DenialsIn(b, s) = revision[s]
      BY <2>3, <3>1
    <3>3. (denied[s] \/ DenialsIn(b, s) > 0) = denied[s]
      BY <2>3, <3>1
    <3>4. Entries(s)' = Entries(s)
      BY <2>2, <2>4
    <3> QED
      BY <2>1, <2>3, <3>2, <3>3, <3>4
  <2>5. CASE A # {}
    <3>1. DenialsIn(b, s) > 0
      BY <2>1, <2>5, FS_EmptySet
    <3>2. Fits(Entries(s) \cup A, TRUE, revision[s] + Cardinality(A), corrections, s)
      BY <2>1, <2>2, <2>3, <2>5, AddDenials
    <3>3. (denied[s] \/ DenialsIn(b, s) > 0) = TRUE
      BY <3>1
    <3> QED
      BY <2>1, <2>2, <3>2, <3>3
  <2> QED
    BY <2>4, <2>5
<1>6. \A s \in Subjects : Fits(Entries(s)', denied'[s], revision'[s], corrections', s)
  BY <1>2, <1>5
<1>7. /\ denied' \in [Subjects -> BOOLEAN] /\ revision' \in [Subjects -> Nat]
      /\ corrections' \in Seq(Corrections)
      /\ \A id \in DOMAIN corrections' :
           \/ corrections'[id].approver = NoKey
           \/ corrections'[id].proposer # corrections'[id].approver
  BY <1>2, <1>5 DEF DecisionInv
<1> QED
  BY <1>4, <1>6, <1>7 DEF DecisionInv

\* A correction is executed: only while the denial it was agreed for is the last.
LEMMA ExecuteKeepsDecisions ==
  ASSUME DecisionInv, NEW id \in DOMAIN corrections, ExecuteDenialCorrection(id)
  PROVE  DecisionInv'
<1>1. PICK x : x = corrections[id]
  OBVIOUS
<1>2. /\ Current(x) /\ x.approver # NoKey
      /\ corrections' = [corrections EXCEPT ![id].executed = TRUE]
      /\ denied' = [denied EXCEPT ![x.subject] = FALSE]
      /\ revision' = revision
      /\ Emit(CorrectionLogs(x, id))
  BY <1>1 DEF ExecuteDenialCorrection
<1>3. /\ corrections \in Seq(Corrections) /\ id \in 1 .. Len(corrections) /\ x \in Corrections
      /\ LogShape
  BY <1>1, LenProperties, ElementOfSeq DEF DecisionInv
<1>4. /\ denied[x.subject] /\ x.subject \in Subjects /\ revision[x.subject] = x.revision
      /\ x.proposer # x.approver
  BY <1>1, <1>2, <1>3 DEF Current, Corrections, DecisionInv
<1>5. PICK y : y = [x EXCEPT !.executed = TRUE]
  OBVIOUS
<1>6. corrections' = [corrections EXCEPT ![id] = y]
  BY <1>1, <1>2, <1>5
<1>7. /\ y \in Corrections /\ y.attrs = x.attrs /\ y.claims = x.claims
      /\ y.proposer = x.proposer /\ y.approver = x.approver
  BY <1>3, <1>5 DEF Corrections
<1>8. PICK corr2 : corr2 = corrections'
  OBVIOUS
<1>9. /\ corr2 \in Seq(Corrections) /\ DOMAIN corr2 = DOMAIN corrections
      /\ \A j \in DOMAIN corrections : corr2[j] = IF j = id THEN y ELSE corrections[j]
  BY <1>3, <1>6, <1>7, <1>8, ExceptSeq, LenProperties
<1>10. \A j \in DOMAIN corrections :
         /\ j \in DOMAIN corr2
         /\ corr2[j].attrs = corrections[j].attrs
         /\ corr2[j].proposer = corrections[j].proposer
         /\ corr2[j].claims = corrections[j].claims
         /\ corr2[j].approver = corrections[j].approver
  BY <1>1, <1>7, <1>9
<1> DEFINE logs == CorrectionLogs(x, id)
<1>11. /\ IsSequence(logs) /\ Len(logs) = 2
       /\ logs[1] = [emitter |-> This, sig |-> "SanctionDenialCorrected", wf |-> TRUE,
                     subject |-> x.subject, revision |-> x.revision, correctionId |-> id,
                     proposer |-> x.proposer, approver |-> x.approver]
       /\ logs[2] = MarkIssued(x.subject, x.attrs, x.proposer, x.claims)
  <2>1. logs \in Seq({logs[1], logs[2]})
    BY DEF CorrectionLogs
  <2> QED
    BY <2>1 DEF CorrectionLogs, IsSequence
<1> HIDE DEF logs
<1>12. LogShape'
  BY <1>2, <1>3, <1>11, EmitAdds DEF logs
<1>13. ASSUME NEW s \in Subjects, s # x.subject
       PROVE  Fits(Entries(s)', denied[s], revision[s], corr2, s)
  <2>1. Added(logs, s) = {}
    BY <1>11, <1>13 DEF Added, AddedEntries, Concerns, MarkIssued
  <2>2. Entries(s)' = Entries(s) \cup Added(logs, s)
    BY <1>2, <1>3, <1>11, EmitAddsToHolder DEF logs
  <2>3. Entries(s)' = Entries(s)
    BY <2>1, <2>2
  <2>4. Fits(Entries(s), denied[s], revision[s], corrections, s)
    BY DEF DecisionInv
  <2> QED
    BY <1>10, <2>3, <2>4, TermsStand
<1>14. Fits(Entries(x.subject)', FALSE, revision[x.subject], corr2, x.subject)
  <2>1. PICK s \in Subjects : s = x.subject
    BY <1>4
  <2>2. PICK c : c = [at |-> <<height, txIndex, Len(txLogs)>>, log |-> logs[1]]
    OBVIOUS
  <2>3. PICK m : m = [at |-> <<height, txIndex, Len(txLogs) + 1>>, log |-> logs[2]]
    OBVIOUS
  <2>4. Len(txLogs) \in Nat
    BY <1>3, ConcatElements DEF LogShape
  <2>5. Added(logs, s) = {c, m}
    <3>1. Concerns(logs[1], s, This) /\ Concerns(logs[2], s, This)
      <4>1. {"SanctionDenialCorrected", "MarkIssued"} \subseteq LifecycleSigs
        BY DEF LifecycleSigs, DecisionSigs, OrdinarySigs, IssueSigs
      <4>2. /\ logs[1].emitter = This /\ logs[1].sig = "SanctionDenialCorrected"
            /\ logs[1].subject = s
        BY <1>11, <2>1
      <4>3. logs[2].emitter = This /\ logs[2].sig = "MarkIssued" /\ logs[2].subject = s
        BY <1>11, <2>1 DEF MarkIssued
      <4> QED
        BY <4>1, <4>2, <4>3 DEF Concerns
    <3>2. Len(txLogs) + 1 - 1 = Len(txLogs) /\ Len(txLogs) + 2 - 1 = Len(txLogs) + 1
      BY <2>4
    <3>3. 1 .. Len(logs) = {1, 2}
      BY <1>11
    <3>4. AddedEntries(logs)
            = {[at |-> <<height, txIndex, Len(txLogs) + n - 1>>, log |-> logs[n]] : n \in {1, 2}}
      BY <3>3, Zenon DEF AddedEntries
    <3>5. @ = {[at |-> <<height, txIndex, Len(txLogs) + 1 - 1>>, log |-> logs[1]],
               [at |-> <<height, txIndex, Len(txLogs) + 2 - 1>>, log |-> logs[2]]}
      OBVIOUS
    <3>6. AddedEntries(logs) = {c, m} /\ c.log = logs[1] /\ m.log = logs[2]
      BY <2>2, <2>3, <3>2, <3>4, <3>5
    <3> QED
      BY <3>1, <3>6 DEF Added
  <2>6. Entries(s)' = Entries(s) \cup {c, m} /\ Follows({c, m}, Entries(s))
    BY <1>2, <1>3, <1>11, <2>5, EmitAddsToHolder DEF logs
  <2>7. /\ Fits(Entries(s), denied[s], revision[s], corrections, s)
        /\ denied[s] = TRUE /\ revision[s] \in Nat
    BY <1>4, <2>1 DEF DecisionInv
  <2>8. Fits(Entries(s), TRUE, revision[s], corrections, s)
    BY <2>7
  <2>9. /\ c.log.sig = "SanctionDenialCorrected" /\ c.log.revision = revision[s]
        /\ c.log.correctionId \in DOMAIN corrections /\ c.log.proposer # c.log.approver
        /\ m.at = <<c.at[1], c.at[2], c.at[3] + 1>>
        /\ m.log = MarkIssued(s, corrections[c.log.correctionId].attrs,
                              corrections[c.log.correctionId].proposer,
                              corrections[c.log.correctionId].claims)
    BY <1>1, <1>4, <1>11, <2>1, <2>2, <2>3
  <2>10. Fits(Entries(s) \cup {c, m}, FALSE, revision[s], corrections, s)
    BY <2>6, <2>7, <2>8, <2>9, AddCorrection
  <2>11. Fits(Entries(s) \cup {c, m}, FALSE, revision[s], corr2, s)
    BY <1>10, <2>10, TermsStand
  <2> QED
    BY <2>1, <2>6, <2>11
<1>15. \A s \in Subjects : Fits(Entries(s)', denied'[s], revision'[s], corrections', s)
  <2>1. \A s \in Subjects : denied'[s] = IF s = x.subject THEN FALSE ELSE denied[s]
    BY <1>2 DEF DecisionInv
  <2>2. ASSUME NEW s \in Subjects
        PROVE  Fits(Entries(s)', denied'[s], revision'[s], corrections', s)
    <3>1. CASE s = x.subject
      <4>1. denied'[s] = FALSE /\ revision'[s] = revision[s]
        BY <1>2, <2>1, <3>1
      <4> QED
        BY <1>8, <1>14, <3>1, <4>1, Zenon
    <3>2. CASE s # x.subject
      <4>1. denied'[s] = denied[s] /\ revision'[s] = revision[s]
        BY <1>2, <2>1, <3>2
      <4> QED
        BY <1>8, <1>13, <3>2, <4>1
    <3> QED
      BY <3>1, <3>2
  <2> QED
    BY <2>2
<1>16. /\ denied' \in [Subjects -> BOOLEAN] /\ revision' \in [Subjects -> Nat]
       /\ corrections' \in Seq(Corrections)
       /\ \A j \in DOMAIN corrections' :
            \/ corrections'[j].approver = NoKey
            \/ corrections'[j].proposer # corrections'[j].approver
  BY <1>2, <1>8, <1>9, <1>10 DEF DecisionInv
<1> QED
  BY <1>12, <1>15, <1>16 DEF DecisionInv

\* A correction is proposed.
LEMMA ProposeKeepsDecisions ==
  ASSUME DecisionInv, NEW i \in Externals, NEW t \in Subjects, NEW a \in Attrs, NEW c \in Claims,
         ProposeDenialCorrection(i, t, a, c)
  PROVE  DecisionInv'
<1>1. PICK x : x = [subject |-> t, proposer |-> i, approver |-> NoKey, attrs |-> a,
                    claims |-> c, revision |-> revision[t],
                    executeAfter |-> height + CorrectionDelay, executed |-> FALSE]
  OBVIOUS
<1>2. /\ corrections' = Append(corrections, x)
      /\ UNCHANGED <<denied, revision, chainVars, txLogs>>
  BY <1>1 DEF ProposeDenialCorrection
<1>3. /\ x \in Corrections /\ x.approver = NoKey
      /\ corrections \in Seq(Corrections)
  <2>1. revision[t] \in Nat /\ height + CorrectionDelay \in Nat
    BY SourceAssumption DEF DecisionInv, LogShape
  <2> QED
    BY <1>1, <2>1 DEF Corrections, DecisionInv
<1>4. PICK n \in Nat : n = Len(corrections)
  BY <1>3, LenProperties
<1>5. PICK corr2 : corr2 = corrections'
  OBVIOUS
<1>6. /\ corr2 \in Seq(Corrections)
      /\ DOMAIN corrections = 1 .. n /\ DOMAIN corr2 = 1 .. n + 1
      /\ \A j \in 1 .. n : corr2[j] = corrections[j]
      /\ corr2[n + 1] = x
  BY <1>2, <1>3, <1>4, <1>5, AppendProperties, LenProperties
<1>7. /\ \A j \in DOMAIN corr2 : corr2[j].approver = NoKey \/ corr2[j].proposer # corr2[j].approver
      /\ \A j \in DOMAIN corrections : j \in DOMAIN corr2 /\ corr2[j] = corrections[j]
  <2>1. \A j \in 1 .. n :
          corrections[j].approver = NoKey \/ corrections[j].proposer # corrections[j].approver
    BY <1>6 DEF DecisionInv
  <2>2. \A j \in 1 .. n + 1 : j \in 1 .. n \/ j = n + 1
    OBVIOUS
  <2> QED
    BY <1>3, <1>6, <2>1, <2>2
<1>8. LogShape' /\ AllEntries' = AllEntries
  BY <1>2, SameEntries DEF DecisionInv
<1> QED
  BY <1>2, <1>5, <1>6, <1>7, <1>8, QuietStep

\* A correction is approved, by somebody other than its proposer.
LEMMA ApproveKeepsDecisions ==
  ASSUME DecisionInv, NEW p \in Externals, NEW id \in DOMAIN corrections,
         ApproveDenialCorrection(p, id)
  PROVE  DecisionInv'
<1>1. PICK x : x = corrections[id]
  OBVIOUS
<1>2. /\ corrections' = [corrections EXCEPT ![id].approver = p]
      /\ x.proposer # p
      /\ UNCHANGED <<denied, revision, chainVars, txLogs>>
  BY <1>1 DEF ApproveDenialCorrection
<1>3. corrections \in Seq(Corrections) /\ id \in 1 .. Len(corrections) /\ x \in Corrections
  BY <1>1, LenProperties, ElementOfSeq DEF DecisionInv
<1>4. PICK y : y = [x EXCEPT !.approver = p]
  OBVIOUS
<1>5. /\ y \in Corrections /\ y.attrs = x.attrs /\ y.claims = x.claims
      /\ y.proposer = x.proposer /\ y.approver = p
  BY <1>3, <1>4 DEF Corrections
<1>6. corrections' = [corrections EXCEPT ![id] = y]
  BY <1>1, <1>2, <1>4
<1>7. PICK corr2 : corr2 = corrections'
  OBVIOUS
<1>8. /\ corr2 \in Seq(Corrections) /\ DOMAIN corr2 = DOMAIN corrections
      /\ \A j \in DOMAIN corrections : corr2[j] = IF j = id THEN y ELSE corrections[j]
  BY <1>3, <1>5, <1>6, <1>7, ExceptSeq, LenProperties
<1>9. /\ \A j \in DOMAIN corr2 : corr2[j].approver = NoKey \/ corr2[j].proposer # corr2[j].approver
      /\ \A j \in DOMAIN corrections :
           /\ j \in DOMAIN corr2
           /\ corr2[j].attrs = corrections[j].attrs
           /\ corr2[j].proposer = corrections[j].proposer
           /\ corr2[j].claims = corrections[j].claims
  BY <1>1, <1>2, <1>5, <1>8 DEF DecisionInv
<1>10. LogShape' /\ AllEntries' = AllEntries
  BY <1>2, SameEntries DEF DecisionInv
<1> QED
  BY <1>2, <1>7, <1>8, <1>9, <1>10, QuietStep

-----------------------------------------------------------------------------
(***************************************************************************)
(* Calls that are neither denials, corrections nor declarations.           *)
(***************************************************************************)
KeyedSigs == {"KeyedMarkIssued", "RosterIssuerKeyAuthorized"}

\* Logs of such a call decide nothing, retire no key, and name the operating key
\* and its generation if they name any.
IsOrdinary(L) ==
  /\ L.sig \notin DecisionSigs /\ L.sig # "IssuerKeyCompromised"
  /\ L.sig \in KeyedSigs => CurrentKey(L.by, L.keyEpoch)

EmitsOrdinary ==
  /\ UNCHANGED <<denialVars, issuerVars>>
  /\ \E logs : IsSequence(logs) /\ Emit(logs) /\ \A n \in 1 .. Len(logs) : IsOrdinary(logs[n])

\* A call with one ordinary log.
LEMMA OneLogIsOrdinary ==
  ASSUME NEW L, Emit(<<L>>), UNCHANGED <<denialVars, issuerVars>>, IsOrdinary(L)
  PROVE  EmitsOrdinary
<1>1. IsSequence(<<L>>) /\ Len(<<L>>) = 1 /\ <<L>>[1] = L
  <2>1. <<L>> \in Seq({L})
    OBVIOUS
  <2> QED
    BY <2>1 DEF IsSequence
<1>2. \A n \in 1 .. Len(<<L>>) : IsOrdinary(<<L>>[n])
  BY <1>1
<1> QED
  BY <1>1, <1>2, Zenon DEF EmitsOrdinary

LEMMA IssueIsOrdinary ==
  ASSUME NEW i, NEW b \in Batches, NEW a, NEW c, Issue(i, b, a, c)
  PROVE  EmitsOrdinary
<1> DEFINE logs == [n \in DOMAIN b |-> MarkIssued(b[n], a, i, c)]
<1>1. Len(b) \in Nat /\ DOMAIN b = 1 .. Len(b)
  BY SourceAssumption, LenProperties
<1>2. IsSequence(logs) /\ Len(logs) = Len(b)
  <2>1. logs = [n \in 1 .. Len(b) |-> logs[n]]
    BY <1>1
  <2> QED
    BY <1>1, <2>1, FunctionIsSequence
<1>3. \A n \in 1 .. Len(logs) : IsOrdinary(logs[n])
  BY <1>1, <1>2 DEF MarkIssued, DecisionSigs, KeyedSigs, IsOrdinary
<1>4. Emit(logs) /\ UNCHANGED <<denialVars, issuerVars>>
  BY DEF Issue
<1> HIDE DEF logs
<1> QED
  BY <1>2, <1>3, <1>4, Zenon DEF EmitsOrdinary

LEMMA RevokeIsOrdinary ==
  ASSUME NEW i, NEW k, NEW g, NEW b \in Batches, Revoke(i, k, g, b)
  PROVE  EmitsOrdinary
<1> DEFINE logs == [n \in DOMAIN b |->
                      [emitter |-> This, sig |-> "MarkRevoked", wf |-> TRUE, subject |-> b[n]]]
<1>1. Len(b) \in Nat /\ DOMAIN b = 1 .. Len(b)
  BY SourceAssumption, LenProperties
<1>2. IsSequence(logs) /\ Len(logs) = Len(b)
  <2>1. logs = [n \in 1 .. Len(b) |-> logs[n]]
    BY <1>1
  <2> QED
    BY <1>1, <2>1, FunctionIsSequence
<1>3. \A n \in 1 .. Len(logs) : IsOrdinary(logs[n])
  BY <1>1, <1>2 DEF DecisionSigs, KeyedSigs, IsOrdinary
<1>4. Emit(logs) /\ UNCHANGED <<denialVars, issuerVars>>
  BY DEF Revoke
<1> HIDE DEF logs
<1> QED
  BY <1>2, <1>3, <1>4, Zenon DEF EmitsOrdinary

\* The authorizations of a publication: a log for each approval, and one more for
\* the key behind the approval of the stable issuer.
LEMMA AuthorizationsAreASequence ==
  ASSUME NEW e, NEW p \in ApprovalLists
  PROVE  AuthorizationLogs(e, p) \in
           Seq({Authorized(e, p[n].issuer) : n \in DOMAIN p} \cup
               {KeyAuthorized(e, p[n]) : n \in {m \in DOMAIN p : p[m].issuer = Stable}})
<1> DEFINE authorized == [n \in DOMAIN p |-> Authorized(e, p[n].issuer)]
           keyed == {n \in DOMAIN p : p[n].issuer = Stable}
           k == CHOOSE n \in keyed : TRUE
           S == {Authorized(e, p[n].issuer) : n \in DOMAIN p} \cup
                {KeyAuthorized(e, p[n]) : n \in keyed}
<1>1. Len(p) \in Nat /\ DOMAIN p = 1 .. Len(p)
  BY SourceAssumption, LenProperties
<1>2. authorized \in Seq(S) /\ Len(authorized) = Len(p)
  <2>1. authorized \in [1 .. Len(p) -> S]
    BY <1>1
  <2> HIDE DEF S, authorized
  <2> QED
    BY <1>1, <2>1
<1>3. CASE keyed = {}
  <2>1. AuthorizationLogs(e, p) = authorized
    BY <1>3 DEF AuthorizationLogs
  <2> QED
    BY <1>2, <2>1
<1>4. CASE keyed # {}
  <2>1. k \in keyed /\ k \in 1 .. Len(p)
    BY <1>1, <1>4
  <2>2. AuthorizationLogs(e, p)
          = SubSeq(authorized, 1, k) \o <<KeyAuthorized(e, p[k])>> \o SubSeq(authorized, k + 1, Len(p))
    BY <1>4 DEF AuthorizationLogs
  <2>3. KeyAuthorized(e, p[k]) \in S
    BY <2>1
  <2> HIDE DEF S, authorized, k
  <2>4. SubSeq(authorized, 1, k) \in Seq(S) /\ SubSeq(authorized, k + 1, Len(p)) \in Seq(S)
    BY <1>1, <1>2, <2>1, SubSeqProperties
  <2>5. <<KeyAuthorized(e, p[k])>> \in Seq(S)
    BY <2>3
  <2>6. SubSeq(authorized, 1, k) \o <<KeyAuthorized(e, p[k])>> \in Seq(S)
    BY <2>4, <2>5, ConcatProperties
  <2>7. SubSeq(authorized, 1, k) \o <<KeyAuthorized(e, p[k])>> \o SubSeq(authorized, k + 1, Len(p))
          \in Seq(S)
    BY <2>4, <2>6, ConcatProperties
  <2>8. AuthorizationLogs(e, p) \in Seq(S)
    BY <2>2, <2>7
  <2> QED
    BY <2>8 DEF S
<1> QED
  BY <1>3, <1>4

\* A publication ends with the log of the epoch.
LEMMA FinishEpochIsOrdinary ==
  ASSUME NEW e, NEW authorizations, FinishEpoch(e, authorizations),
         NEW S, authorizations \in Seq(S), \A L \in S : IsOrdinary(L)
  PROVE  EmitsOrdinary
<1>1. PICK last : last = [emitter |-> This, sig |-> "RosterEpochPublished", wf |-> TRUE,
                          epoch |-> e.epoch, root |-> e.root, listVersion |-> e.listVersion,
                          validUntil |-> e.validUntil, cutoff |-> e.cutoff,
                          publishedAt |-> height, snapshotId |-> e.snapshotId]
  OBVIOUS
<1>2. Emit(authorizations \o <<last>>) /\ UNCHANGED <<denialVars, issuerVars>>
  BY <1>1 DEF FinishEpoch
<1>3. IsOrdinary(last)
  BY <1>1 DEF DecisionSigs, KeyedSigs, IsOrdinary
<1>4. authorizations \in Seq(S \cup {last}) /\ <<last>> \in Seq(S \cup {last})
  BY SeqMonotonic
<1>5. authorizations \o <<last>> \in Seq(S \cup {last})
  BY <1>4, ConcatProperties
<1>6. \A n \in 1 .. Len(authorizations \o <<last>>) : IsOrdinary((authorizations \o <<last>>)[n])
  BY <1>3, <1>5, ElementOfSeq
<1>7. IsSequence(authorizations \o <<last>>)
  BY <1>5 DEF IsSequence
<1> QED
  BY <1>2, <1>6, <1>7, Zenon DEF EmitsOrdinary

LEMMA PublishIsOrdinary ==
  ASSUME NEW i, NEW e, PublishEpoch(i, e)
  PROVE  EmitsOrdinary
<1>1. PICK L : L = Authorized(e, i)
  OBVIOUS
<1>2. FinishEpoch(e, <<L>>)
  BY <1>1 DEF PublishEpoch
<1>3. PICK S : S = {L}
  OBVIOUS
<1>4. <<L>> \in Seq(S) /\ \A M \in S : IsOrdinary(M)
  BY <1>1, <1>3 DEF Authorized, DecisionSigs, KeyedSigs, IsOrdinary
<1> QED
  BY <1>2, <1>4, FinishEpochIsOrdinary

LEMMA PublishForIssuersIsOrdinary ==
  ASSUME NEW i, NEW e, NEW p \in ApprovalLists, PublishEpochForIssuers(i, e, p)
  PROVE  EmitsOrdinary
<1>1. PICK S : S = {Authorized(e, p[n].issuer) : n \in DOMAIN p} \cup
                   {KeyAuthorized(e, p[n]) : n \in {m \in DOMAIN p : p[m].issuer = Stable}}
  OBVIOUS
<1>2. AuthorizationLogs(e, p) \in Seq(S)
  BY <1>1, AuthorizationsAreASequence
<1>3. FinishEpoch(e, AuthorizationLogs(e, p))
  BY DEF PublishEpochForIssuers
<1>4. \A n \in DOMAIN p : ValidRootSignature(p[n])
  BY DEF PublishEpochForIssuers
<1>5. ASSUME NEW n \in DOMAIN p PROVE IsOrdinary(Authorized(e, p[n].issuer))
  BY DEF Authorized, DecisionSigs, KeyedSigs, IsOrdinary
<1>6. ASSUME NEW n \in DOMAIN p, p[n].issuer = Stable PROVE IsOrdinary(KeyAuthorized(e, p[n]))
  <2>1. ~suspended /\ p[n].signer = operatingKey
    BY <1>4, <1>6 DEF ValidRootSignature, ValidSignature
  <2> QED
    BY <2>1 DEF KeyAuthorized, DecisionSigs, KeyedSigs, IsOrdinary, CurrentKey
<1>7. \A L \in S : IsOrdinary(L)
  BY <1>1, <1>5, <1>6
<1> QED
  BY <1>2, <1>3, <1>7, FinishEpochIsOrdinary

\* What a call is: an ordinary one, or one of the three others.
LEMMA CallCases ==
  ASSUME Call
  PROVE  \/ EmitsOrdinary
         \/ \E t \in 0 .. MaxHeight : DeclareCompromise(t)
         \/ \E i \in Principals, k \in Keys \cup Externals, g \in 0 .. MaxGeneration, b \in Batches :
               Deny(i, k, g, b)
         \/ \E id \in DOMAIN corrections : ExecuteDenialCorrection(id)
<1>1. ASSUME NEW i \in Externals, NEW b \in Batches, NEW a \in Attrs, NEW c \in Claims,
             Issue(i, b, a, c)
      PROVE  EmitsOrdinary
  BY <1>1, IssueIsOrdinary
<1>2. ASSUME NEW i \in Externals, NEW q \in Requests, NEW s \in Subjects, NEW a \in Attrs,
             NEW c \in Claims, IssueOnce(i, q, s, a, c)
      PROVE  EmitsOrdinary
  <2>1. IsOrdinary(MarkIssued(s, a, i, c))
    BY DEF MarkIssued, DecisionSigs, KeyedSigs, IsOrdinary
  <2>2. Emit(<<MarkIssued(s, a, i, c)>>) /\ UNCHANGED <<denialVars, issuerVars>>
    BY <1>2 DEF IssueOnce
  <2> QED
    BY <2>1, <2>2, OneLogIsOrdinary
<1>3. ASSUME NEW k \in Keys, NEW g \in 1 .. MaxGeneration, NEW q \in Requests,
             NEW s \in Subjects, NEW a \in Attrs, NEW c \in Claims,
             IssueOnceWithKey(k, g, q, s, a, c)
      PROVE  EmitsOrdinary
  <2>1. PICK L : L = [emitter |-> This, sig |-> "KeyedMarkIssued", wf |-> TRUE, subject |-> s,
                      attrs |-> a, issuer |-> Stable, claims |-> c, keyEpoch |-> g, by |-> k]
    OBVIOUS
  <2>2. Emit(<<L>>) /\ UNCHANGED <<denialVars, issuerVars>> /\ CurrentKey(k, g)
    BY <1>3, <2>1 DEF IssueOnceWithKey, Acts
  <2>3. L.sig = "KeyedMarkIssued" /\ L.by = k /\ L.keyEpoch = g
    BY <2>1
  <2>4. IsOrdinary(L)
    BY <2>2, <2>3 DEF DecisionSigs, IsOrdinary
  <2> QED
    BY <2>2, <2>4, OneLogIsOrdinary
<1>4. ASSUME NEW i \in Principals, NEW k \in Keys \cup Externals, NEW g \in 0 .. MaxGeneration,
             NEW b \in Batches, Revoke(i, k, g, b)
      PROVE  EmitsOrdinary
  BY <1>4, RevokeIsOrdinary
<1>5. ASSUME NEW i \in Externals, NEW e \in Publications, PublishEpoch(i, e)
      PROVE  EmitsOrdinary
  BY <1>5, PublishIsOrdinary
<1>6. ASSUME NEW i \in Externals, NEW e \in Publications, NEW p \in ApprovalLists,
             PublishEpochForIssuers(i, e, p)
      PROVE  EmitsOrdinary
  BY <1>6, PublishForIssuersIsOrdinary
<1> QED
  BY <1>1, <1>2, <1>3, <1>4, <1>5, <1>6 DEF Call

-----------------------------------------------------------------------------
LEMMA CallKeepsDecisions ==
  ASSUME DecisionInv, Call
  PROVE  DecisionInv'
<1>1. CASE EmitsOrdinary
  <2>1. PICK logs : IsSequence(logs) /\ Emit(logs) /\ \A n \in 1 .. Len(logs) : IsOrdinary(logs[n])
    BY <1>1, Zenon DEF EmitsOrdinary
  <2>2. \A n \in 1 .. Len(logs) : logs[n].sig \notin DecisionSigs
    BY <2>1 DEF IsOrdinary
  <2>3. UNCHANGED denialVars
    BY <1>1 DEF EmitsOrdinary
  <2> QED
    BY <2>1, <2>2, <2>3, OrdinaryCall
<1>2. ASSUME NEW t \in 0 .. MaxHeight, DeclareCompromise(t)
      PROVE  DecisionInv'
  <2>1. PICK logs : logs = <<CompromiseLog(t)>>
    OBVIOUS
  <2>2. IsSequence(logs) /\ Len(logs) = 1 /\ logs[1].sig = "IssuerKeyCompromised"
    <3>1. logs \in Seq({CompromiseLog(t)})
      BY <2>1
    <3> QED
      BY <2>1, <3>1 DEF IsSequence, CompromiseLog
  <2>3. \A n \in 1 .. Len(logs) : logs[n].sig \notin DecisionSigs
    BY <2>2 DEF DecisionSigs
  <2>4. Emit(logs) /\ UNCHANGED denialVars
    BY <1>2, <2>1 DEF DeclareCompromise
  <2> QED
    BY <2>2, <2>3, <2>4, OrdinaryCall
<1> QED
  BY <1>1, <1>2, CallCases, DenyKeepsDecisions, ExecuteKeepsDecisions

LEMMA AdministerKeepsDecisions ==
  ASSUME DecisionInv, Administer
  PROVE  DecisionInv'
<1>1. ASSUME NEW a \in Principals \cup Externals,
             SetIssuer(a) \/ SetEpochPublisher(a) \/ SetDenialCorrectionApprover(a)
      PROVE  DecisionInv'
  <2>1. UNCHANGED <<denialVars, chainVars, txLogs>>
    BY <1>1 DEF SetIssuer, SetEpochPublisher, SetDenialCorrectionApprover, ChangeRole
  <2> QED
    BY <2>1, UnrelatedStep
<1>2. ASSUME NEW i \in Externals, NEW s \in Subjects, NEW a \in Attrs, NEW c \in Claims,
             ProposeDenialCorrection(i, s, a, c)
      PROVE  DecisionInv'
  BY <1>2, ProposeKeepsDecisions
<1>3. ASSUME NEW p \in Externals, NEW id \in DOMAIN corrections, ApproveDenialCorrection(p, id)
      PROVE  DecisionInv'
  BY <1>3, ApproveKeepsDecisions
<1>4. ASSUME UNCHANGED <<roleVars, processedRequest, lastEpoch, denialVars, chainVars, calls, txLogs>>
      PROVE  DecisionInv'
  BY <1>4, UnrelatedStep
<1> QED
  BY <1>1, <1>2, <1>3, <1>4 DEF Administer

LEMMA DecisionInvIsInductive == DecisionInv /\ [SourceNext]_sourceVars => DecisionInv'
<1> SUFFICES ASSUME DecisionInv, [SourceNext]_sourceVars PROVE DecisionInv'
  OBVIOUS
<1>1. CASE Call
  BY <1>1, CallKeepsDecisions
<1>2. CASE Administer
  BY <1>2, AdministerKeepsDecisions
<1>3. ASSUME Mine \/ NextBlock PROVE DecisionInv'
  <2>1. LogShape' /\ AllEntries' = AllEntries
    BY <1>3, MiningKeepsEntries DEF DecisionInv
  <2>2. denied' = denied /\ revision' = revision /\ corrections' = corrections
    BY <1>3 DEF Mine, NextBlock, denialVars
  <2> QED
    BY <2>1, <2>2, QuietStep DEF DecisionInv
<1>4. CASE UNCHANGED sourceVars
  <2>1. UNCHANGED <<denialVars, chainVars, txLogs>>
    BY <1>4 DEF sourceVars
  <2> QED
    BY <2>1, UnrelatedStep
<1> QED
  BY <1>1, <1>2, <1>3, <1>4 DEF SourceNext

\* Along every behaviour of the source chain, whatever the holders, accounts,
\* batches and bounds: a holder is denied in storage exactly when the last
\* decision logged about him is a denial; every correction answers all denials
\* before it, was agreed on by two people, answers denials no other correction
\* answered, and is followed by the issuance that was agreed on.
THEOREM CorrectionsAnswerDenials == SourceSpec => []CorrectionAnswersEveryDenial
<1>1. SourceInit => DecisionInv
  BY DecisionInvInitially
<1>2. DecisionInv /\ [SourceNext]_sourceVars => DecisionInv'
  BY DecisionInvIsInductive
<1>3. DecisionInv => CorrectionAnswersEveryDenial
  <2> SUFFICES ASSUME DecisionInv, NEW s \in Subjects
               PROVE  /\ denied[s] <=> DeniedBy(Entries(s))
                      /\ \A e \in Entries(s) : e.log.sig = "SanctionDenialCorrected" =>
                           LET x == corrections[e.log.correctionId] IN
                           /\ e.log.revision = Cardinality({d \in Denials(s) : Newer(e.at, d.at)})
                           /\ e.log.proposer # e.log.approver
                           /\ \A f \in Entries(s) :
                                /\ f.log.sig = "SanctionDenialCorrected"
                                /\ f.log.revision = e.log.revision
                                => f = e
                           /\ \E f \in Entries(s) :
                                /\ f.at = <<e.at[1], e.at[2], e.at[3] + 1>>
                                /\ f.log = MarkIssued(s, x.attrs, x.proposer, x.claims)
    BY Zenon DEF CorrectionAnswersEveryDenial
  <2>1. Fits(Entries(s), denied[s], revision[s], corrections, s)
    BY DEF DecisionInv
  <2>2. \A e : {d \in Denials(s) : Newer(e.at, d.at)} = Older(Entries(s), e)
    BY Zenon DEF Denials, Older, DenialsOf
  <2>3. denied[s] <=> DeniedBy(Entries(s))
    BY <2>1 DEF Fits
  <2>4. ASSUME NEW e \in Entries(s), e.log.sig = "SanctionDenialCorrected"
        PROVE  Answers(Entries(s), e, denied[s], revision[s], corrections, s)
    BY <2>1, <2>4 DEF Fits
  <2> QED
    BY <2>2, <2>3, <2>4, Zenon DEF Answers
<1> QED
  BY <1>1, <1>2, <1>3, PTL DEF SourceSpec

-----------------------------------------------------------------------------
(***************************************************************************)
(* Key generations along the chain.                                        *)
(***************************************************************************)
Keyed(E) == {e \in E : e.log.sig \in KeyedSigs}

Compromises(E) == {e \in E : e.log.sig = "IssuerKeyCompromised"}

Apart(E) ==
  \A e, f \in Keyed(E) :
     /\ e.log.keyEpoch = f.log.keyEpoch <=> e.log.by = f.log.by
     /\ Newer(e.at, f.at) => e.log.keyEpoch >= f.log.keyEpoch
     /\ \A d \in Compromises(E) : d.log.keyEpoch = e.log.keyEpoch => Newer(d.at, e.at)

\* The logs of E were made under keys used in generations up to g; those of
\* generation g, and no others, by key k.
MadeUpTo(E, g, k, used) ==
  /\ \A e \in Keyed(E) :
       /\ e.log.by \in used
       /\ e.log.keyEpoch \in Nat /\ e.log.keyEpoch <= g
       /\ e.log.keyEpoch = g <=> e.log.by = k
  /\ \A d \in Compromises(E) : d.log.keyEpoch \in Nat /\ d.log.keyEpoch < g

KeyInv ==
  /\ IssuerInv /\ LogShape
  /\ pendingKey # NoKey => pendingKey \notin usedKey
  /\ MadeUpTo(AllEntries, keyEpoch, operatingKey, usedKey)
  /\ Apart(AllEntries)

\* What History holds under given signatures.
LEMMA LogsAreEntries ==
  ASSUME LogShape, NEW sigs
  PROVE  Logs(sigs) = {e \in AllEntries : e.log.sig \in sigs}
<1>1. ASSUME NEW r \in History PROVE DOMAIN r.logs = 1 .. Len(r.logs)
  <2>1. IsSequence(r.logs)
    BY DEF LogShape, History, Receipt
  <2> QED
    BY <2>1, LenProperties DEF IsSequence
<1>2. \A r, n : EntryOf(r, n).log = r.logs[n]
  BY DEF EntryOf
<1>3. ASSUME NEW e
      PROVE  e \in Logs(sigs) <=> e \in AllEntries /\ e.log.sig \in sigs
  <2>1. e \in Logs(sigs) <=>
          \E r \in History : \E n \in DOMAIN r.logs : r.logs[n].sig \in sigs /\ e = EntryOf(r, n)
    BY DEF Logs
  <2>2. e \in AllEntries <=> \E r \in History : \E n \in DOMAIN r.logs : e = EntryOf(r, n)
    BY <1>1 DEF AllEntries, EntriesIn
  <2> QED
    BY <1>2, <2>1, <2>2, Zenon
<1> QED
  BY <1>3, Zenon

\* Ordinary logs of the generation in use keep the generations apart.
LEMMA AddOfGeneration ==
  ASSUME NEW E, NEW A, NEW g \in Nat, NEW k, NEW used,
         Apart(E), MadeUpTo(E, g, k, used), Follows(A, E),
         \A a \in A : a.log.sig # "IssuerKeyCompromised",
         \A a \in Keyed(A) : a.log.keyEpoch = g /\ a.log.by = k /\ k \in used
  PROVE  Apart(E \cup A) /\ MadeUpTo(E \cup A, g, k, used)
<1>1. Keyed(E \cup A) = Keyed(E) \cup Keyed(A) /\ Compromises(E \cup A) = Compromises(E)
  BY DEF Keyed, Compromises
<1>2. MadeUpTo(E \cup A, g, k, used)
  <2>1. ASSUME NEW e \in Keyed(E \cup A)
        PROVE  /\ e.log.by \in used
               /\ e.log.keyEpoch \in Nat /\ e.log.keyEpoch <= g
               /\ e.log.keyEpoch = g <=> e.log.by = k
    <3>1. CASE e \in Keyed(E)
      BY <3>1 DEF MadeUpTo
    <3>2. CASE e \in Keyed(A)
      BY <3>2
    <3> QED
      BY <1>1, <3>1, <3>2
  <2> QED
    BY <1>1, <2>1 DEF MadeUpTo
<1>3. ASSUME NEW e \in Keyed(E \cup A), NEW f \in Keyed(E \cup A)
      PROVE  /\ e.log.keyEpoch = f.log.keyEpoch <=> e.log.by = f.log.by
             /\ Newer(e.at, f.at) => e.log.keyEpoch >= f.log.keyEpoch
             /\ \A d \in Compromises(E \cup A) :
                  d.log.keyEpoch = e.log.keyEpoch => Newer(d.at, e.at)
  <2>1. CASE e \in Keyed(E) /\ f \in Keyed(E)
    BY <1>1, <2>1 DEF Apart
  <2>2. CASE e \in Keyed(E) /\ f \in Keyed(A)
    <3>1. ~Newer(e.at, f.at)
      BY <2>2, NewerIsAsymmetric DEF Follows, Keyed
    <3>2. e.log.keyEpoch = f.log.keyEpoch <=> e.log.by = f.log.by
      BY <2>2 DEF MadeUpTo
    <3>3. \A d \in Compromises(E \cup A) : d.log.keyEpoch = e.log.keyEpoch => Newer(d.at, e.at)
      BY <1>1, <2>2 DEF Apart
    <3> QED
      BY <3>1, <3>2, <3>3
  <2>3. CASE e \in Keyed(A)
    <3>1. e.log.keyEpoch = g /\ e.log.by = k
      BY <2>3
    <3>2. f.log.keyEpoch \in Nat /\ f.log.keyEpoch <= g /\ (f.log.keyEpoch = g <=> f.log.by = k)
      BY <1>1, <1>2 DEF MadeUpTo
    <3>3. ASSUME NEW d \in Compromises(E \cup A) PROVE d.log.keyEpoch # g
      <4>1. d.log.keyEpoch \in Nat /\ d.log.keyEpoch < g
        BY <1>2, Zenon DEF MadeUpTo
      <4> QED
        BY <4>1
    <3> QED
      BY <3>1, <3>2, <3>3
  <2> QED
    BY <1>1, <2>1, <2>2, <2>3
<1> QED
  BY <1>2, <1>3, Zenon DEF Apart

\* A declaration is later than everything made under the generation it retires.
LEMMA AddCompromise ==
  ASSUME NEW E, NEW A, NEW g \in Nat, NEW k, NEW used, NEW k2,
         Apart(E), MadeUpTo(E, g, k, used), Follows(A, E),
         k2 \notin used,
         \A a \in A : a.log.sig = "IssuerKeyCompromised" /\ a.log.keyEpoch = g
  PROVE  Apart(E \cup A) /\ MadeUpTo(E \cup A, g + 1, k2, used)
<1>1. Keyed(E \cup A) = Keyed(E) /\ Compromises(E \cup A) = Compromises(E) \cup A
  BY DEF Keyed, Compromises, KeyedSigs
<1>2. MadeUpTo(E \cup A, g + 1, k2, used)
  <2>1. ASSUME NEW e \in Keyed(E)
        PROVE  /\ e.log.by \in used /\ e.log.by # k2
               /\ e.log.keyEpoch \in Nat /\ e.log.keyEpoch <= g + 1 /\ e.log.keyEpoch # g + 1
    BY DEF MadeUpTo
  <2>2. ASSUME NEW d \in Compromises(E) \cup A
        PROVE  d.log.keyEpoch \in Nat /\ d.log.keyEpoch < g + 1
    <3>1. CASE d \in Compromises(E)
      BY <3>1 DEF MadeUpTo
    <3>2. CASE d \in A
      BY <3>2
    <3> QED
      BY <3>1, <3>2
  <2> QED
    BY <1>1, <2>1, <2>2 DEF MadeUpTo
<1>3. ASSUME NEW e \in Keyed(E), NEW d \in Compromises(E \cup A),
             d.log.keyEpoch = e.log.keyEpoch
      PROVE  Newer(d.at, e.at)
  <2>1. CASE d \in Compromises(E)
    BY <1>3, <2>1 DEF Apart
  <2>2. CASE d \in A
    BY <2>2 DEF Follows, Keyed
  <2> QED
    BY <1>1, <2>1, <2>2
<1> QED
  BY <1>1, <1>2, <1>3, Zenon DEF Apart

\* A generation that begins, under a key never used before or under none.
LEMMA NextGeneration ==
  ASSUME NEW E, NEW g \in Nat, NEW k, NEW used, NEW k2, NEW used2,
         MadeUpTo(E, g, k, used), k2 \notin used, used \subseteq used2
  PROVE  MadeUpTo(E, g + 1, k2, used2)
BY DEF MadeUpTo

\* Steps of the issuer alone.
LEMMA IssuerStepKeepsKeys ==
  ASSUME KeyInv, IssuerNext \/ UNCHANGED issuerVars, LogShape', AllEntries' = AllEntries
  PROVE  KeyInv'
<1>1. IssuerInv'
  BY IssuerInvIsInductive DEF KeyInv
<1>2. keyEpoch \in Nat /\ usedKey \subseteq Keys /\ NoKey \notin usedKey
  BY NoKeyAssumption DEF KeyInv, IssuerInv, IssuerTypeOK
<1> DEFINE Made == MadeUpTo(AllEntries, keyEpoch, operatingKey, usedKey)
<1>3. Made /\ Apart(AllEntries)
  BY DEF KeyInv
<1> HIDE DEF Made
<1>4. ASSUME UNCHANGED <<operatingKey, keyEpoch, usedKey>>,
             pendingKey' # NoKey => pendingKey' \notin usedKey
      PROVE  KeyInv'
  BY <1>1, <1>3, <1>4 DEF KeyInv, Made
<1>5. ASSUME NEW k \in Keys, ProposeKey(k) PROVE KeyInv'
  BY <1>4, <1>5 DEF ProposeKey
<1>6. CASE CancelKeyProposal
  BY <1>4, <1>6 DEF CancelKeyProposal
<1>7. CASE AcceptKey
  <2>1. pendingKey \notin usedKey
    BY <1>7 DEF KeyInv, AcceptKey
  <2>2. /\ operatingKey' = pendingKey /\ keyEpoch' = keyEpoch + 1
        /\ usedKey' = usedKey \cup {pendingKey} /\ pendingKey' = NoKey
    BY <1>7 DEF AcceptKey
  <2>3. MadeUpTo(AllEntries, keyEpoch + 1, pendingKey, usedKey \cup {pendingKey})
    BY <1>2, <1>3, <2>1, NextGeneration DEF Made
  <2> QED
    BY <1>1, <1>3, <2>2, <2>3 DEF KeyInv
<1>8. CASE Suspend
  <2>1. /\ operatingKey' = NoKey /\ keyEpoch' = keyEpoch + 1
        /\ usedKey' = usedKey /\ pendingKey' = NoKey
    BY <1>8 DEF Suspend
  <2>2. MadeUpTo(AllEntries, keyEpoch + 1, NoKey, usedKey)
    BY <1>2, <1>3, NextGeneration DEF Made
  <2> QED
    BY <1>1, <1>3, <2>1, <2>2 DEF KeyInv
<1>9. ASSUME NEW k \in Keys \cup {NoKey}, TransferOwnership(k) PROVE KeyInv'
  BY <1>4, <1>9 DEF TransferOwnership, KeyInv
<1>10. CASE AcceptOwnership
  BY <1>4, <1>10 DEF AcceptOwnership, KeyInv
<1>11. CASE UNCHANGED issuerVars
  BY <1>4, <1>11 DEF issuerVars, KeyInv
<1> QED
  BY <1>5, <1>6, <1>7, <1>8, <1>9, <1>10, <1>11 DEF IssuerNext

\* An ordinary call writes under the operating key and its generation only.
LEMMA OrdinaryKeepsKeys ==
  ASSUME KeyInv, EmitsOrdinary
  PROVE  KeyInv'
<1>1. PICK logs : IsSequence(logs) /\ Emit(logs) /\ \A n \in 1 .. Len(logs) : IsOrdinary(logs[n])
  BY Zenon DEF EmitsOrdinary
<1>2. UNCHANGED issuerVars
  BY DEF EmitsOrdinary
<1>3. /\ LogShape' /\ AllEntries' = AllEntries \cup AddedEntries(logs)
      /\ Follows(AddedEntries(logs), AllEntries)
  BY <1>1, EmitAdds DEF KeyInv
<1>4. \A a \in AddedEntries(logs) : IsOrdinary(a.log)
  BY <1>1 DEF AddedEntries
<1>5. ASSUME NEW a \in Keyed(AddedEntries(logs))
      PROVE  a.log.keyEpoch = keyEpoch /\ a.log.by = operatingKey /\ operatingKey \in usedKey
  <2>1. CurrentKey(a.log.by, a.log.keyEpoch)
    BY <1>4 DEF Keyed, IsOrdinary
  <2> QED
    BY <2>1 DEF CurrentKey, KeyInv, IssuerInv, RecoveryIsSeparate
<1>6. /\ Apart(AllEntries) /\ keyEpoch \in Nat
      /\ MadeUpTo(AllEntries, keyEpoch, operatingKey, usedKey)
  BY DEF KeyInv, IssuerInv, IssuerTypeOK
<1>7. \A a \in AddedEntries(logs) : a.log.sig # "IssuerKeyCompromised"
  BY <1>4 DEF IsOrdinary
<1>8. /\ Apart(AllEntries \cup AddedEntries(logs))
      /\ MadeUpTo(AllEntries \cup AddedEntries(logs), keyEpoch, operatingKey, usedKey)
  BY <1>3, <1>5, <1>6, <1>7, AddOfGeneration
<1>9. IssuerInv'
  BY <1>2, IssuerInvIsInductive DEF KeyInv
<1>10. /\ keyEpoch' = keyEpoch /\ operatingKey' = operatingKey /\ usedKey' = usedKey
       /\ pendingKey' = pendingKey
  BY <1>2 DEF issuerVars
<1> QED
  BY <1>3, <1>8, <1>9, <1>10 DEF KeyInv

\* A declaration of compromise closes the generation it names.
LEMMA DeclareKeepsKeys ==
  ASSUME KeyInv, NEW t, DeclareCompromise(t)
  PROVE  KeyInv'
<1>1. PICK logs : logs = <<CompromiseLog(t)>>
  OBVIOUS
<1>2. /\ IsSequence(logs) /\ Len(logs) = 1
      /\ logs[1].sig = "IssuerKeyCompromised" /\ logs[1].keyEpoch = keyEpoch
  <2>1. logs \in Seq({CompromiseLog(t)})
    BY <1>1
  <2> QED
    BY <1>1, <2>1 DEF IsSequence, CompromiseLog
<1>3. Emit(logs) /\ Suspend
  BY <1>1 DEF DeclareCompromise
<1>4. /\ LogShape' /\ AllEntries' = AllEntries \cup AddedEntries(logs)
      /\ Follows(AddedEntries(logs), AllEntries)
  BY <1>2, <1>3, EmitAdds DEF KeyInv
<1>5. \A a \in AddedEntries(logs) :
        a.log.sig = "IssuerKeyCompromised" /\ a.log.keyEpoch = keyEpoch
  BY <1>2 DEF AddedEntries
<1>6. /\ Apart(AllEntries) /\ keyEpoch \in Nat /\ NoKey \notin usedKey
      /\ MadeUpTo(AllEntries, keyEpoch, operatingKey, usedKey)
  BY NoKeyAssumption DEF KeyInv, IssuerInv, IssuerTypeOK
<1>7. /\ Apart(AllEntries \cup AddedEntries(logs))
      /\ MadeUpTo(AllEntries \cup AddedEntries(logs), keyEpoch + 1, NoKey, usedKey)
  BY <1>4, <1>5, <1>6, AddCompromise
<1>8. IssuerInv'
  BY <1>3, IssuerInvIsInductive DEF KeyInv, IssuerNext
<1>9. /\ keyEpoch' = keyEpoch + 1 /\ operatingKey' = NoKey /\ usedKey' = usedKey
      /\ pendingKey' = NoKey
  BY <1>3 DEF Suspend
<1> QED
  BY <1>4, <1>7, <1>8, <1>9 DEF KeyInv

\* Only keyed logs and declarations matter.
LEMMA OnlyKeyedMatter ==
  ASSUME NEW E, NEW F, Keyed(F) = Keyed(E), Compromises(F) = Compromises(E),
         NEW g, NEW k, NEW used, Apart(E), MadeUpTo(E, g, k, used)
  PROVE  Apart(F) /\ MadeUpTo(F, g, k, used)
BY Zenon DEF Apart, MadeUpTo

\* A call whose logs all have other signatures.
LEMMA OtherLogsKeepKeys ==
  ASSUME KeyInv, NEW logs, IsSequence(logs), Emit(logs), UNCHANGED issuerVars,
         \A n \in 1 .. Len(logs) :
           logs[n].sig \notin KeyedSigs /\ logs[n].sig # "IssuerKeyCompromised"
  PROVE  KeyInv'
<1>1. /\ LogShape' /\ AllEntries' = AllEntries \cup AddedEntries(logs)
  BY EmitAdds DEF KeyInv
<1>2. \A a \in AddedEntries(logs) :
        a.log.sig \notin KeyedSigs /\ a.log.sig # "IssuerKeyCompromised"
  BY DEF AddedEntries
<1>3. /\ Keyed(AllEntries \cup AddedEntries(logs)) = Keyed(AllEntries)
      /\ Compromises(AllEntries \cup AddedEntries(logs)) = Compromises(AllEntries)
  BY <1>2 DEF Keyed, Compromises
<1>4. IssuerInv'
  BY IssuerInvIsInductive DEF KeyInv
<1>5. /\ keyEpoch' = keyEpoch /\ operatingKey' = operatingKey /\ usedKey' = usedKey
      /\ pendingKey' = pendingKey
  BY DEF issuerVars
<1>6. /\ Apart(AllEntries \cup AddedEntries(logs))
      /\ MadeUpTo(AllEntries \cup AddedEntries(logs), keyEpoch, operatingKey, usedKey)
  BY <1>3, OnlyKeyedMatter DEF KeyInv
<1> QED
  BY <1>1, <1>4, <1>5, <1>6 DEF KeyInv

LEMMA KeyInvIsInductive == KeyInv /\ [SourceNext]_sourceVars => KeyInv'
<1> SUFFICES ASSUME KeyInv, [SourceNext]_sourceVars PROVE KeyInv'
  OBVIOUS
<1>1. CASE Call
  <2>1. ASSUME NEW i, NEW k, NEW g, NEW b \in Batches, Deny(i, k, g, b)
        PROVE  KeyInv'
    <3>1. b \in Seq(Subjects)
      BY SourceAssumption
    <3>2. IsSequence(DenialLogs(b)) /\ Len(DenialLogs(b)) = Len(b) /\ DOMAIN b = 1 .. Len(b)
      BY <3>1, DenialLogsOfBatch, LenProperties
    <3>3. \A n \in 1 .. Len(DenialLogs(b)) : DenialLogs(b)[n].sig = "SanctionDenied"
      BY <3>2 DEF DenialLogs
    <3>4. Emit(DenialLogs(b)) /\ UNCHANGED issuerVars
      BY <2>1 DEF Deny
    <3> QED
      BY <3>2, <3>3, <3>4, OtherLogsKeepKeys DEF KeyedSigs
  <2>2. ASSUME NEW id \in DOMAIN corrections, ExecuteDenialCorrection(id)
        PROVE  KeyInv'
    <3>1. PICK x : x = corrections[id]
      OBVIOUS
    <3>2. PICK logs : logs = CorrectionLogs(x, id)
      OBVIOUS
    <3>3. IsSequence(logs) /\ Len(logs) = 2
      <4>1. logs \in Seq({logs[1], logs[2]})
        BY <3>2 DEF CorrectionLogs
      <4> QED
        BY <3>2, <4>1 DEF CorrectionLogs, IsSequence
    <3>4. logs[1].sig = "SanctionDenialCorrected" /\ logs[2].sig = "MarkIssued"
      BY <3>2 DEF CorrectionLogs, MarkIssued
    <3>5. \A n \in 1 .. Len(logs) :
            logs[n].sig \notin KeyedSigs /\ logs[n].sig # "IssuerKeyCompromised"
      BY <3>3, <3>4 DEF KeyedSigs
    <3>6. Emit(logs) /\ UNCHANGED issuerVars
      BY <2>2, <3>1, <3>2 DEF ExecuteDenialCorrection
    <3> QED
      BY <3>3, <3>5, <3>6, OtherLogsKeepKeys
  <2> QED
    BY <1>1, <2>1, <2>2, CallCases, OrdinaryKeepsKeys, DeclareKeepsKeys
<1>2. ASSUME UNCHANGED <<chainVars, txLogs>>, IssuerNext \/ UNCHANGED issuerVars
      PROVE  KeyInv'
  BY <1>2, SameEntries, IssuerStepKeepsKeys DEF KeyInv
<1>3. CASE Administer
  <2>1. ASSUME NEW a \in Principals \cup Externals,
               SetIssuer(a) \/ SetEpochPublisher(a) \/ SetDenialCorrectionApprover(a)
        PROVE  KeyInv'
    BY <1>2, <2>1 DEF SetIssuer, SetEpochPublisher, SetDenialCorrectionApprover, ChangeRole
  <2>2. ASSUME NEW i \in Externals, NEW s \in Subjects, NEW a \in Attrs, NEW c \in Claims,
               ProposeDenialCorrection(i, s, a, c)
        PROVE  KeyInv'
    BY <1>2, <2>2 DEF ProposeDenialCorrection
  <2>3. ASSUME NEW p \in Externals, NEW id \in DOMAIN corrections, ApproveDenialCorrection(p, id)
        PROVE  KeyInv'
    BY <1>2, <2>3 DEF ApproveDenialCorrection
  <2>4. ASSUME IssuerNext,
               UNCHANGED <<roleVars, processedRequest, lastEpoch, denialVars, chainVars, calls, txLogs>>
        PROVE  KeyInv'
    BY <1>2, <2>4
  <2> QED
    BY <1>3, <2>1, <2>2, <2>3, <2>4 DEF Administer
<1>4. ASSUME Mine \/ NextBlock PROVE KeyInv'
  <2>1. LogShape' /\ AllEntries' = AllEntries
    BY <1>4, MiningKeepsEntries DEF KeyInv
  <2>2. UNCHANGED issuerVars
    BY <1>4 DEF Mine, NextBlock
  <2> QED
    BY <2>1, <2>2, IssuerStepKeepsKeys
<1>5. CASE UNCHANGED sourceVars
  <2>1. UNCHANGED <<chainVars, txLogs, issuerVars>>
    BY <1>5 DEF sourceVars
  <2> QED
    BY <1>2, <2>1
<1> QED
  BY <1>1, <1>3, <1>4, <1>5 DEF SourceNext

\* Along every behaviour of the source chain, for every set of keys and accounts:
\* owners and operating keys of the stable issuer are different people, one
\* generation stands for one key and one key for one generation, a retired key
\* leaves no log after its successor's, and nothing is made under a generation
\* after it was declared compromised.
THEOREM KeysAreApart == SourceSpec => []KeysStayApart
<1>1. SourceInit => KeyInv
  <2> SUFFICES ASSUME SourceInit PROVE KeyInv
    OBVIOUS
  <2>1. IssuerInv /\ pendingKey = NoKey
    BY IssuerInvInitially DEF SourceInit, IssuerInit
  <2>2. LogShape
    BY DecisionInvInitially DEF DecisionInv
  <2>3. AllEntries = {}
    <3>1. EntriesIn(Receipt) = {} /\ chain = {}
      BY DEF SourceInit, EntriesIn, Receipt
    <3> QED
      BY <3>1, EntriesInParts
  <2> QED
    BY <2>1, <2>2, <2>3 DEF KeyInv, MadeUpTo, Apart, Keyed, Compromises
<1>2. KeyInv /\ [SourceNext]_sourceVars => KeyInv'
  BY KeyInvIsInductive
<1>3. KeyInv => KeysStayApart
  <2> SUFFICES ASSUME KeyInv PROVE KeysStayApart
    OBVIOUS
  <2>1. /\ KeyedLogs = Keyed(AllEntries)
        /\ Logs({"IssuerKeyCompromised"}) = Compromises(AllEntries)
    BY LogsAreEntries DEF KeyInv, KeyedLogs, Keyed, KeyedSigs, Compromises
  <2>2. GenerationsDoNotOverlap
    BY <2>1, Zenon DEF KeyInv, Apart, GenerationsDoNotOverlap
  <2> QED
    BY <2>2 DEF KeysStayApart, KeyInv, IssuerInv
<1> QED
  BY <1>1, <1>2, <1>3, PTL DEF SourceSpec

-----------------------------------------------------------------------------
(***************************************************************************)
(* Both contracts (CrossChain): what the source lets through, the hub      *)
(* accepts.                                                                *)
(***************************************************************************)
RosterSigs == {"RosterIssuerAuthorized", "RosterIssuerKeyAuthorized", "RosterEpochPublished"}

\* What the hub asks of a log of height h by itself.
LogSound(L, h) ==
  /\ L.emitter = This /\ L.wf = TRUE
  /\ L.sig \in {"KeyedMarkIssued", "RosterIssuerKeyAuthorized", "IssuerKeyCompromised"} => L.keyEpoch # 0
  /\ L.sig = "SanctionDenialCorrected" => /\ L.revision # 0 /\ L.correctionId # 0
                                          /\ L.proposer # L.approver
  /\ L.sig = "IssuerKeyCompromised" => ~(L.lastTrusted >= h)

\* The logs of kind sig in q that are about the publication L.
About(q, L, sig) ==
  {n \in 1 .. Len(q) : q[n].sig = sig /\ q[n].epoch = L.epoch /\ q[n].root = L.root}

Approving(q, L) == {q[n].issuer : n \in About(q, L, "RosterIssuerAuthorized")}

\* What the hub asks of a publication among the logs of its receipt.
PublicationSound(q, L) ==
  /\ L.epoch \in HubEpochs /\ Hub!EpochBoundsValid(L)
  /\ Approving(q, L) # {} /\ Approving(q, L) \subseteq Principals
  /\ IsFiniteSet(Approving(q, L)) /\ Cardinality(Approving(q, L)) <= MaxApprovals
  /\ \A m, n \in About(q, L, "RosterIssuerAuthorized") : q[m].issuer = q[n].issuer => m = n
  /\ \A m, n \in About(q, L, "RosterIssuerKeyAuthorized") : m = n

LogsSound(q, h) ==
  /\ IsSequence(q)
  /\ \A n \in 1 .. Len(q) : /\ LogSound(q[n], h)
                            /\ q[n].sig = "RosterEpochPublished" => PublicationSound(q, q[n])

\* Nothing in q is about an epoch after e.
EpochsUpTo(q, e) == \A n \in 1 .. Len(q) : q[n].sig \in RosterSigs => q[n].epoch \in Nat /\ q[n].epoch <= e

SoundInv ==
  /\ lastEpoch \in Nat
  /\ LogsSound(txLogs, height) /\ EpochsUpTo(txLogs, lastEpoch)
  /\ \A r \in chain : LogsSound(r.logs, r.height)

\* Approvals are of the epoch that is current or of earlier ones.
ApprovalsPast(st) ==
  /\ st = [subject |-> st.subject, roster |-> st.roster, roots |-> st.roots, approval |-> st.approval,
           key |-> st.key]
  /\ st.roster.epoch \in Nat
  /\ st.approval = [x \in HubEpochs \X HubIssuers |-> st.approval[x]]
  /\ \A x \in HubEpochs \X HubIssuers : st.approval[x].approved => x[1] <= st.roster.epoch

HubInv ==
  /\ running = NoReceipt \/ running \in chain
  /\ next \in Nat \ {0}
  /\ ApprovalsPast(store) /\ ApprovalsPast(work)

CrossInv == IssuerInv /\ DecisionInv /\ SoundInv /\ HubInv

-----------------------------------------------------------------------------
\* What precedes a publication is about earlier epochs, and what follows about
\* later ones: it is judged by its own call alone.
LEMMA AboutFirst ==
  ASSUME NEW p, NEW q, IsSequence(p), IsSequence(q), NEW e \in Nat, EpochsUpTo(p, e),
         \A n \in 1 .. Len(q) : q[n].sig \in RosterSigs => q[n].epoch \in Nat /\ q[n].epoch > e,
         NEW i \in 1 .. Len(p), p[i].sig = "RosterEpochPublished", NEW sig \in RosterSigs
  PROVE  /\ About(p \o q, p[i], sig) = About(p, p[i], sig)
         /\ \A n \in About(p, p[i], sig) : (p \o q)[n] = p[n]
<1>1. /\ Len(p) \in Nat /\ Len(q) \in Nat /\ Len(p \o q) = Len(p) + Len(q)
      /\ \A n \in 1 .. Len(p) : (p \o q)[n] = p[n]
      /\ \A n \in 1 .. Len(q) : (p \o q)[Len(p) + n] = q[n]
  BY ConcatElements
<1>2. p[i].epoch \in Nat /\ p[i].epoch <= e
  BY DEF EpochsUpTo, RosterSigs
<1>3. ASSUME NEW n \in About(p \o q, p[i], sig) PROVE n \in 1 .. Len(p)
  <2>1. /\ n \in 1 .. Len(p) + Len(q) /\ (p \o q)[n].sig = sig
        /\ (p \o q)[n].epoch = p[i].epoch
    BY <1>1, <1>3 DEF About
  <2>2. SUFFICES ASSUME n \notin 1 .. Len(p) PROVE FALSE
    OBVIOUS
  <2>3. n - Len(p) \in 1 .. Len(q) /\ Len(p) + (n - Len(p)) = n
    BY <1>1, <2>1, <2>2
  <2>4. (p \o q)[n] = q[n - Len(p)]
    BY <1>1, <2>3
  <2>5. q[n - Len(p)].epoch \in Nat /\ q[n - Len(p)].epoch > e
    BY <2>1, <2>3, <2>4
  <2> QED BY <1>2, <2>1, <2>4, <2>5
<1>4. \A n \in 1 .. Len(p) : n \in 1 .. Len(p \o q)
  BY <1>1
<1> QED BY <1>1, <1>3, <1>4 DEF About

\* What a publication is about in its own call it is about in the transaction.
LEMMA AboutSecond ==
  ASSUME NEW p, NEW q, IsSequence(p), IsSequence(q), NEW e \in Nat, EpochsUpTo(p, e),
         \A n \in 1 .. Len(q) : q[n].sig \in RosterSigs => q[n].epoch \in Nat /\ q[n].epoch > e,
         NEW i \in 1 .. Len(q), q[i].sig = "RosterEpochPublished", NEW sig \in RosterSigs
  PROVE  /\ \A n \in About(p \o q, q[i], sig) :
              n - Len(p) \in About(q, q[i], sig) /\ (p \o q)[n] = q[n - Len(p)]
         /\ \A n \in About(q, q[i], sig) :
              Len(p) + n \in About(p \o q, q[i], sig) /\ (p \o q)[Len(p) + n] = q[n]
         /\ \A n \in About(p \o q, q[i], sig) : n \in Nat
<1>1. /\ Len(p) \in Nat /\ Len(q) \in Nat /\ Len(p \o q) = Len(p) + Len(q)
      /\ \A n \in 1 .. Len(p) : (p \o q)[n] = p[n]
      /\ \A n \in 1 .. Len(q) : (p \o q)[Len(p) + n] = q[n]
  BY ConcatElements
<1>2. q[i].epoch \in Nat /\ q[i].epoch > e
  BY DEF RosterSigs
<1>3. ASSUME NEW n \in About(p \o q, q[i], sig)
      PROVE  n \in Nat /\ n - Len(p) \in About(q, q[i], sig) /\ (p \o q)[n] = q[n - Len(p)]
  <2>1. /\ n \in 1 .. Len(p) + Len(q) /\ (p \o q)[n].sig = sig
        /\ (p \o q)[n].epoch = q[i].epoch /\ (p \o q)[n].root = q[i].root
    BY <1>1, <1>3 DEF About
  <2>2. n \notin 1 .. Len(p)
    <3> SUFFICES ASSUME n \in 1 .. Len(p) PROVE FALSE
      OBVIOUS
    <3>1. (p \o q)[n] = p[n]
      BY <1>1
    <3>2. p[n].epoch \in Nat /\ p[n].epoch <= e
      BY <2>1, <3>1 DEF EpochsUpTo
    <3> QED BY <1>2, <2>1, <3>1, <3>2
  <2>3. n - Len(p) \in 1 .. Len(q) /\ Len(p) + (n - Len(p)) = n
    BY <1>1, <2>1, <2>2
  <2>4. (p \o q)[n] = q[n - Len(p)]
    BY <1>1, <2>3
  <2> QED BY <2>1, <2>3, <2>4 DEF About
<1>4. ASSUME NEW n \in About(q, q[i], sig)
      PROVE  Len(p) + n \in About(p \o q, q[i], sig) /\ (p \o q)[Len(p) + n] = q[n]
  <2>1. n \in 1 .. Len(q) /\ q[n].sig = sig /\ q[n].epoch = q[i].epoch /\ q[n].root = q[i].root
    BY <1>4 DEF About
  <2>2. (p \o q)[Len(p) + n] = q[n] /\ Len(p) + n \in 1 .. Len(p \o q)
    BY <1>1, <2>1
  <2> QED BY <2>1, <2>2 DEF About
<1> QED BY <1>1, <1>3, <1>4

\* A sound call leaves a sound transaction.
LEMMA AppendSound ==
  ASSUME NEW p, NEW q, NEW h, LogsSound(p, h), LogsSound(q, h), NEW e \in Nat, EpochsUpTo(p, e),
         \A n \in 1 .. Len(q) : q[n].sig \in RosterSigs => q[n].epoch \in Nat /\ q[n].epoch > e
  PROVE  LogsSound(p \o q, h)
<1>1. IsSequence(p) /\ IsSequence(q)
  BY DEF LogsSound
<1>2. /\ IsSequence(p \o q)
      /\ Len(p) \in Nat /\ Len(q) \in Nat /\ Len(p \o q) = Len(p) + Len(q)
      /\ \A n \in 1 .. Len(p) : (p \o q)[n] = p[n]
      /\ \A n \in 1 .. Len(q) : (p \o q)[Len(p) + n] = q[n]
  BY <1>1, ConcatElements
<1>3. ASSUME NEW i \in 1 .. Len(p)
      PROVE  /\ LogSound((p \o q)[i], h)
             /\ (p \o q)[i].sig = "RosterEpochPublished" => PublicationSound(p \o q, (p \o q)[i])
  <2>1. (p \o q)[i] = p[i] /\ LogSound(p[i], h)
    BY <1>2 DEF LogsSound
  <2>2. ASSUME p[i].sig = "RosterEpochPublished" PROVE PublicationSound(p \o q, p[i])
    <3>1. PublicationSound(p, p[i])
      BY <2>2 DEF LogsSound
    <3>2. ASSUME NEW sig \in RosterSigs
          PROVE  /\ About(p \o q, p[i], sig) = About(p, p[i], sig)
                 /\ \A n \in About(p, p[i], sig) : (p \o q)[n] = p[n]
      BY <1>1, <2>2, AboutFirst
    <3>3. "RosterIssuerAuthorized" \in RosterSigs /\ "RosterIssuerKeyAuthorized" \in RosterSigs
      BY DEF RosterSigs
    <3>4. Approving(p \o q, p[i]) = Approving(p, p[i])
      BY <3>2, <3>3 DEF Approving
    <3> QED BY <3>1, <3>2, <3>3, <3>4 DEF PublicationSound
  <2> QED BY <2>1, <2>2
<1>4. ASSUME NEW i \in 1 .. Len(q)
      PROVE  /\ LogSound(q[i], h)
             /\ q[i].sig = "RosterEpochPublished" => PublicationSound(p \o q, q[i])
  <2>1. LogSound(q[i], h)
    BY DEF LogsSound
  <2>2. ASSUME q[i].sig = "RosterEpochPublished" PROVE PublicationSound(p \o q, q[i])
    <3>1. PublicationSound(q, q[i])
      BY <2>2 DEF LogsSound
    <3>2. ASSUME NEW sig \in RosterSigs
          PROVE  /\ \A n \in About(p \o q, q[i], sig) :
                      n - Len(p) \in About(q, q[i], sig) /\ (p \o q)[n] = q[n - Len(p)]
                 /\ \A n \in About(q, q[i], sig) :
                      Len(p) + n \in About(p \o q, q[i], sig) /\ (p \o q)[Len(p) + n] = q[n]
                 /\ \A n \in About(p \o q, q[i], sig) : n \in Nat
      BY <1>1, <2>2, AboutSecond
    <3>3. "RosterIssuerAuthorized" \in RosterSigs /\ "RosterIssuerKeyAuthorized" \in RosterSigs
      BY DEF RosterSigs
    <3>4. Approving(p \o q, q[i]) = Approving(q, q[i])
      <4>1. ASSUME NEW x \in Approving(p \o q, q[i]) PROVE x \in Approving(q, q[i])
        <5>1. PICK n \in About(p \o q, q[i], "RosterIssuerAuthorized") : x = (p \o q)[n].issuer
          BY <4>1 DEF Approving
        <5>2. n - Len(p) \in About(q, q[i], "RosterIssuerAuthorized") /\ (p \o q)[n] = q[n - Len(p)]
          BY <3>2, <3>3
        <5> QED BY <5>1, <5>2 DEF Approving
      <4>2. ASSUME NEW x \in Approving(q, q[i]) PROVE x \in Approving(p \o q, q[i])
        <5>1. PICK n \in About(q, q[i], "RosterIssuerAuthorized") : x = q[n].issuer
          BY <4>2 DEF Approving
        <5>2. Len(p) + n \in About(p \o q, q[i], "RosterIssuerAuthorized") /\ (p \o q)[Len(p) + n] = q[n]
          BY <3>2, <3>3
        <5> QED BY <5>1, <5>2 DEF Approving
      <4> QED BY <4>1, <4>2
    <3>5. ASSUME NEW m \in About(p \o q, q[i], "RosterIssuerAuthorized"),
                 NEW n \in About(p \o q, q[i], "RosterIssuerAuthorized"),
                 (p \o q)[m].issuer = (p \o q)[n].issuer
          PROVE  m = n
      <4>1. /\ m - Len(p) \in About(q, q[i], "RosterIssuerAuthorized") /\ (p \o q)[m] = q[m - Len(p)]
            /\ n - Len(p) \in About(q, q[i], "RosterIssuerAuthorized") /\ (p \o q)[n] = q[n - Len(p)]
            /\ m \in Nat /\ n \in Nat
        BY <3>2, <3>3
      <4>2. m - Len(p) = n - Len(p)
        BY <3>1, <3>5, <4>1 DEF PublicationSound
      <4> QED BY <1>2, <4>1, <4>2
    <3>6. ASSUME NEW m \in About(p \o q, q[i], "RosterIssuerKeyAuthorized"),
                 NEW n \in About(p \o q, q[i], "RosterIssuerKeyAuthorized")
          PROVE  m = n
      <4>1. /\ m - Len(p) \in About(q, q[i], "RosterIssuerKeyAuthorized")
            /\ n - Len(p) \in About(q, q[i], "RosterIssuerKeyAuthorized")
            /\ m \in Nat /\ n \in Nat
        BY <3>2, <3>3
      <4>2. m - Len(p) = n - Len(p)
        BY <3>1, <4>1 DEF PublicationSound
      <4> QED BY <1>2, <4>1, <4>2
    <3> QED BY <3>1, <3>4, <3>5, <3>6 DEF PublicationSound
  <2> QED BY <2>1, <2>2
<1>5. ASSUME NEW i \in 1 .. Len(p \o q), i \notin 1 .. Len(p)
      PROVE  i - Len(p) \in 1 .. Len(q) /\ (p \o q)[i] = q[i - Len(p)]
  <2>1. i - Len(p) \in 1 .. Len(q) /\ Len(p) + (i - Len(p)) = i
    BY <1>2, <1>5
  <2> QED BY <1>2, <2>1
<1>6. ASSUME NEW i \in 1 .. Len(p \o q)
      PROVE  /\ LogSound((p \o q)[i], h)
             /\ (p \o q)[i].sig = "RosterEpochPublished" => PublicationSound(p \o q, (p \o q)[i])
  BY <1>3, <1>4, <1>5
<1> QED BY <1>2, <1>6 DEF LogsSound

\* A call whose logs are sound, its roster logs of a later epoch, keeps them so.
LEMMA EmitKeepsSound ==
  ASSUME SoundInv, NEW q, Emit(q), LogsSound(q, height), lastEpoch' \in Nat, lastEpoch' >= lastEpoch,
         \A n \in 1 .. Len(q) : q[n].sig \in RosterSigs =>
            q[n].epoch \in Nat /\ q[n].epoch > lastEpoch /\ q[n].epoch <= lastEpoch'
  PROVE  SoundInv'
<1>1. /\ lastEpoch \in Nat /\ LogsSound(txLogs, height) /\ EpochsUpTo(txLogs, lastEpoch)
      /\ \A r \in chain : LogsSound(r.logs, r.height)
  BY DEF SoundInv
<1>2. txLogs' = txLogs \o q /\ height' = height /\ chain' = chain
  BY DEF Emit, chainVars
<1>3. LogsSound(txLogs \o q, height)
  BY <1>1, AppendSound
<1>4. EpochsUpTo(txLogs \o q, lastEpoch')
  <2>1. /\ Len(txLogs) \in Nat /\ Len(q) \in Nat /\ Len(txLogs \o q) = Len(txLogs) + Len(q)
        /\ \A n \in 1 .. Len(txLogs) : (txLogs \o q)[n] = txLogs[n]
        /\ \A n \in 1 .. Len(q) : (txLogs \o q)[Len(txLogs) + n] = q[n]
    BY <1>1, ConcatElements DEF LogsSound
  <2>2. ASSUME NEW n \in 1 .. Len(txLogs \o q), (txLogs \o q)[n].sig \in RosterSigs
        PROVE  (txLogs \o q)[n].epoch \in Nat /\ (txLogs \o q)[n].epoch <= lastEpoch'
    <3>1. CASE n \in 1 .. Len(txLogs)
      <4>1. txLogs[n].epoch \in Nat /\ txLogs[n].epoch <= lastEpoch
        BY <1>1, <2>1, <2>2, <3>1 DEF EpochsUpTo
      <4> QED BY <1>1, <2>1, <3>1, <4>1
    <3>2. CASE n \notin 1 .. Len(txLogs)
      <4>1. n - Len(txLogs) \in 1 .. Len(q) /\ Len(txLogs) + (n - Len(txLogs)) = n
        BY <2>1, <3>2
      <4>2. (txLogs \o q)[n] = q[n - Len(txLogs)]
        BY <2>1, <4>1
      <4> QED BY <2>2, <4>1, <4>2
    <3> QED BY <3>1, <3>2
  <2> QED BY <2>2 DEF EpochsUpTo
<1> QED
  BY <1>1, <1>2, <1>3, <1>4 DEF SoundInv

\* So does a call that publishes nothing.
LEMMA PlainCall ==
  ASSUME SoundInv, NEW q, Emit(q), UNCHANGED lastEpoch, IsSequence(q),
         \A n \in 1 .. Len(q) : LogSound(q[n], height) /\ q[n].sig \notin RosterSigs
  PROVE  SoundInv'
<1>1. lastEpoch \in Nat /\ lastEpoch >= lastEpoch
  BY DEF SoundInv
<1>2. LogsSound(q, height)
  BY DEF LogsSound, RosterSigs
<1> QED
  BY <1>1, <1>2, EmitKeepsSound

\* A call with one log.
LEMMA OneLogCall ==
  ASSUME SoundInv, NEW L, Emit(<<L>>), UNCHANGED lastEpoch, LogSound(L, height), L.sig \notin RosterSigs
  PROVE  SoundInv'
<1>1. PICK q : q = <<L>>
  OBVIOUS
<1>2. IsSequence(q) /\ Len(q) = 1 /\ q[1] = L
  <2>1. q \in Seq({L})
    BY <1>1
  <2> QED BY <1>1, <2>1 DEF IsSequence
<1>3. \A n \in 1 .. Len(q) : q[n] = L
  BY <1>2
<1> QED
  BY <1>1, <1>2, <1>3, PlainCall

-----------------------------------------------------------------------------
\* The calls that publish no roster.
LEMMA IssueIsSound ==
  ASSUME SoundInv, NEW i, NEW b \in Batches, NEW a, NEW c, Issue(i, b, a, c)
  PROVE  SoundInv'
<1> DEFINE logs == [n \in DOMAIN b |-> MarkIssued(b[n], a, i, c)]
<1>1. Len(b) \in Nat /\ DOMAIN b = 1 .. Len(b)
  BY SourceAssumption, LenProperties
<1>2. IsSequence(logs) /\ Len(logs) = Len(b)
  <2>1. logs = [n \in 1 .. Len(b) |-> logs[n]]
    BY <1>1
  <2> QED
    BY <1>1, <2>1, FunctionIsSequence
<1>3. \A n \in 1 .. Len(logs) : LogSound(logs[n], height) /\ logs[n].sig \notin RosterSigs
  BY <1>1, <1>2 DEF MarkIssued, LogSound, RosterSigs
<1>4. Emit(logs) /\ UNCHANGED lastEpoch
  BY DEF Issue
<1> HIDE DEF logs
<1> QED
  BY <1>2, <1>3, <1>4, PlainCall

\* Revocations and denials ask nothing of the hub but that it can decode them.
LEMMA RevokeIsSound ==
  ASSUME SoundInv, NEW i, NEW k, NEW g, NEW b \in Batches, Revoke(i, k, g, b)
  PROVE  SoundInv'
<1> DEFINE logs == [n \in DOMAIN b |->
                      [emitter |-> This, sig |-> "MarkRevoked", wf |-> TRUE, subject |-> b[n]]]
<1>1. Len(b) \in Nat /\ DOMAIN b = 1 .. Len(b)
  BY SourceAssumption, LenProperties
<1>2. IsSequence(logs) /\ Len(logs) = Len(b)
  <2>1. logs = [n \in 1 .. Len(b) |-> logs[n]]
    BY <1>1
  <2> QED
    BY <1>1, <2>1, FunctionIsSequence
<1>3. \A n \in 1 .. Len(logs) : LogSound(logs[n], height) /\ logs[n].sig \notin RosterSigs
  BY <1>1, <1>2 DEF LogSound, RosterSigs
<1>4. Emit(logs) /\ UNCHANGED lastEpoch
  BY DEF Revoke
<1> HIDE DEF logs
<1> QED
  BY <1>2, <1>3, <1>4, PlainCall

LEMMA DenyIsSound ==
  ASSUME SoundInv, NEW i, NEW k, NEW g, NEW b \in Batches, Deny(i, k, g, b)
  PROVE  SoundInv'
<1>1. b \in Seq(Subjects)
  BY SourceAssumption
<1>2. Len(b) \in Nat /\ DOMAIN b = 1 .. Len(b)
  BY <1>1, LenProperties
<1>3. IsSequence(DenialLogs(b)) /\ Len(DenialLogs(b)) = Len(b)
  BY <1>1, DenialLogsOfBatch
<1>4. \A n \in 1 .. Len(DenialLogs(b)) :
         LogSound(DenialLogs(b)[n], height) /\ DenialLogs(b)[n].sig \notin RosterSigs
  BY <1>2, <1>3 DEF DenialLogs, LogSound, RosterSigs
<1>5. Emit(DenialLogs(b)) /\ UNCHANGED lastEpoch
  BY DEF Deny
<1> QED
  BY <1>3, <1>4, <1>5, PlainCall

\* A generation is never zero, and a declaration trusts only past blocks.
LEMMA KeyedCallsAreSound ==
  ASSUME SoundInv, IssuerInv, LogShape,
         \/ \E k \in Keys, g \in 1 .. MaxGeneration, q \in Requests, s \in Subjects, a \in Attrs,
               c \in Claims : IssueOnceWithKey(k, g, q, s, a, c)
         \/ \E t \in 0 .. MaxHeight : DeclareCompromise(t)
  PROVE  SoundInv'
<1>1. keyEpoch \in Nat \ {0}
  BY DEF IssuerInv, IssuerTypeOK
<1>2. ASSUME NEW k, NEW g, NEW q, NEW s, NEW a, NEW c, IssueOnceWithKey(k, g, q, s, a, c)
      PROVE  SoundInv'
  <2>1. PICK L : L = [emitter |-> This, sig |-> "KeyedMarkIssued", wf |-> TRUE, subject |-> s,
                      attrs |-> a, issuer |-> Stable, claims |-> c, keyEpoch |-> g, by |-> k]
    OBVIOUS
  <2>2. Emit(<<L>>) /\ UNCHANGED lastEpoch /\ g = keyEpoch
    BY <1>2, <2>1 DEF IssueOnceWithKey, Acts, CurrentKey
  <2>3. LogSound(L, height) /\ L.sig \notin RosterSigs
    BY <1>1, <2>1, <2>2 DEF LogSound, RosterSigs
  <2> QED BY <2>2, <2>3, OneLogCall
<1>3. ASSUME NEW t \in 0 .. MaxHeight, DeclareCompromise(t)
      PROVE  SoundInv'
  <2>1. Emit(<<CompromiseLog(t)>>) /\ UNCHANGED lastEpoch /\ t < height
    BY <1>3 DEF DeclareCompromise
  <2>2. ~(t >= height)
    BY <2>1 DEF LogShape
  <2>3. LogSound(CompromiseLog(t), height) /\ CompromiseLog(t).sig \notin RosterSigs
    BY <1>1, <2>1, <2>2 DEF LogSound, RosterSigs, CompromiseLog
  <2> QED BY <2>1, <2>3, OneLogCall
<1> QED
  BY <1>2, <1>3

\* An executed correction answers at least one denial, by two people.
LEMMA ExecuteIsSound ==
  ASSUME SoundInv, DecisionInv, NEW id \in DOMAIN corrections, ExecuteDenialCorrection(id)
  PROVE  SoundInv'
<1>1. PICK x : x = corrections[id]
  OBVIOUS
<1>2. /\ Current(x) /\ x.approver # NoKey /\ UNCHANGED lastEpoch
      /\ Emit(CorrectionLogs(x, id))
  BY <1>1 DEF ExecuteDenialCorrection
<1>3. /\ id \in 1 .. Len(corrections) /\ Len(corrections) \in Nat /\ x \in Corrections
      /\ x.proposer # x.approver
  BY <1>1, <1>2, LenProperties, ElementOfSeq DEF DecisionInv
<1>4. x.revision # 0
  <2>1. x.subject \in Subjects /\ denied[x.subject] /\ revision[x.subject] = x.revision
    BY <1>2, <1>3 DEF Current, Corrections
  <2>2. Fits(Entries(x.subject), denied[x.subject], revision[x.subject], corrections, x.subject)
    BY <2>1 DEF DecisionInv
  <2>3. \E e \in DenialsOf(Entries(x.subject)) : TRUE
    BY <2>1, <2>2 DEF Fits, DeniedBy, DenialsOf
  <2>4. /\ IsFiniteSet(DenialsOf(Entries(x.subject)))
        /\ Cardinality(DenialsOf(Entries(x.subject))) = x.revision
    BY <2>1, <2>2 DEF Fits
  <2> QED
    BY <2>3, <2>4, FS_EmptySet
<1>5. PICK q : q = CorrectionLogs(x, id)
  OBVIOUS
<1>6. /\ IsSequence(q) /\ Len(q) = 2
      /\ q[1] = [emitter |-> This, sig |-> "SanctionDenialCorrected", wf |-> TRUE,
                 subject |-> x.subject, revision |-> x.revision, correctionId |-> id,
                 proposer |-> x.proposer, approver |-> x.approver]
      /\ q[2] = MarkIssued(x.subject, x.attrs, x.proposer, x.claims)
  <2>1. q \in Seq({q[1], q[2]})
    BY <1>5 DEF CorrectionLogs
  <2> QED
    BY <1>5, <2>1 DEF CorrectionLogs, IsSequence
<1>7. LogSound(q[1], height) /\ q[1].sig \notin RosterSigs
  BY <1>3, <1>4, <1>6 DEF LogSound, RosterSigs
<1>8. LogSound(q[2], height) /\ q[2].sig \notin RosterSigs
  BY <1>6 DEF LogSound, RosterSigs, MarkIssued
<1>9. \A n \in 1 .. Len(q) : n = 1 \/ n = 2
  BY <1>6
<1> QED
  BY <1>2, <1>5, <1>6, <1>7, <1>8, <1>9, PlainCall

-----------------------------------------------------------------------------
\* The logs before the log of epoch e: approvals by different issuers, and the
\* key of at most one of them.
AuthorizationsSound(a, e) ==
  LET authorized == {n \in 1 .. Len(a) : a[n].sig = "RosterIssuerAuthorized"}
      authors == {a[n].issuer : n \in authorized} IN
  /\ IsSequence(a)
  /\ \A n \in 1 .. Len(a) :
       /\ a[n].emitter = This /\ a[n].wf = TRUE /\ a[n].epoch = e.epoch /\ a[n].root = e.root
       /\ a[n].sig \in {"RosterIssuerAuthorized", "RosterIssuerKeyAuthorized"}
       /\ a[n].sig = "RosterIssuerKeyAuthorized" => a[n].keyEpoch # 0
  /\ authors # {} /\ authors \subseteq Principals
  /\ IsFiniteSet(authors) /\ Cardinality(authors) <= MaxApprovals
  /\ \A m, n \in authorized : a[m].issuer = a[n].issuer => m = n
  /\ \A m, n \in 1 .. Len(a) : m \notin authorized /\ n \notin authorized => m = n

\* The epoch is new, within its bounds, and its receipt approves it.
LEMMA FinishEpochIsSound ==
  ASSUME SoundInv, NEW e \in Publications, CheckEpoch(e), NEW a, FinishEpoch(e, a),
         AuthorizationsSound(a, e)
  PROVE  SoundInv'
<1>1. e.epoch \in HubEpochs /\ e.epoch \in Nat /\ lastEpoch \in Nat /\ e.epoch > lastEpoch
  BY CrossAssumption DEF CheckEpoch, SoundInv
<1>2. PICK last : last = [emitter |-> This, sig |-> "RosterEpochPublished", wf |-> TRUE,
                          epoch |-> e.epoch, root |-> e.root, listVersion |-> e.listVersion,
                          validUntil |-> e.validUntil, cutoff |-> e.cutoff,
                          publishedAt |-> height, snapshotId |-> e.snapshotId]
  OBVIOUS
<1>3. Emit(a \o <<last>>) /\ lastEpoch' = e.epoch
  BY <1>2 DEF FinishEpoch
<1>4. PICK q : q = a \o <<last>>
  OBVIOUS
<1>5. /\ IsSequence(q) /\ Len(a) \in Nat /\ Len(q) = Len(a) + 1
      /\ \A n \in 1 .. Len(a) : q[n] = a[n]
      /\ q[Len(a) + 1] = last
  <2>1. PICK z : z = <<last>>
    OBVIOUS
  <2>2. z \in Seq({last}) /\ Len(z) = 1 /\ z[1] = last
    BY <2>1
  <2>3. IsSequence(z) /\ IsSequence(a)
    BY <2>2 DEF IsSequence, AuthorizationsSound
  <2> QED
    BY <1>4, <2>1, <2>2, <2>3, ConcatElements
<1>6. \A n \in 1 .. Len(q) : n \in 1 .. Len(a) \/ q[n] = last
  BY <1>5
<1>7. ASSUME NEW n \in 1 .. Len(q)
      PROVE  /\ LogSound(q[n], height)
             /\ q[n].sig \in RosterSigs =>
                  q[n].epoch \in Nat /\ q[n].epoch > lastEpoch /\ q[n].epoch <= lastEpoch'
             /\ q[n].sig = "RosterEpochPublished" => q[n] = last
  <2>1. CASE n \in 1 .. Len(a)
    <3>1. /\ q[n] = a[n]
          /\ a[n].emitter = This /\ a[n].wf = TRUE /\ a[n].epoch = e.epoch
          /\ a[n].sig \in {"RosterIssuerAuthorized", "RosterIssuerKeyAuthorized"}
          /\ a[n].sig = "RosterIssuerKeyAuthorized" => a[n].keyEpoch # 0
      BY <1>5, <2>1 DEF AuthorizationsSound
    <3>2. LogSound(q[n], height)
      BY <3>1 DEF LogSound
    <3>3. q[n].epoch \in Nat /\ q[n].epoch > lastEpoch /\ q[n].epoch <= lastEpoch'
      BY <1>1, <1>3, <3>1
    <3> QED BY <3>1, <3>2, <3>3
  <2>2. CASE q[n] = last
    <3>1. LogSound(last, height) /\ last.epoch = e.epoch
      BY <1>2 DEF LogSound
    <3> QED BY <1>1, <1>3, <2>2, <3>1
  <2> QED BY <1>6, <2>1, <2>2
<1>8. PublicationSound(q, last)
  <2>1. last.epoch \in HubEpochs /\ Hub!EpochBoundsValid(last)
    BY <1>1, <1>2 DEF CheckEpoch, Hub!EpochBoundsValid
  <2>2. ASSUME NEW sig \in {"RosterIssuerAuthorized", "RosterIssuerKeyAuthorized"}
        PROVE  About(q, last, sig) = {n \in 1 .. Len(a) : a[n].sig = sig}
    <3>1. last.epoch = e.epoch /\ last.root = e.root /\ last.sig # sig
      BY <1>2
    <3>2. \A n \in 1 .. Len(a) : n \in 1 .. Len(q) /\ a[n].epoch = e.epoch /\ a[n].root = e.root
      BY <1>5 DEF AuthorizationsSound
    <3> QED BY <1>5, <1>6, <3>1, <3>2 DEF About
  <2> DEFINE authorized == {n \in 1 .. Len(a) : a[n].sig = "RosterIssuerAuthorized"}
  <2>3. Approving(q, last) = {a[n].issuer : n \in authorized}
    BY <1>5, <2>2 DEF Approving
  <2>4. \A m, n \in authorized : q[m].issuer = q[n].issuer => m = n
    BY <1>5 DEF AuthorizationsSound
  <2>5. \A m, n \in {k \in 1 .. Len(a) : a[k].sig = "RosterIssuerKeyAuthorized"} : m = n
    BY DEF AuthorizationsSound
  <2>6. /\ {a[n].issuer : n \in authorized} # {} /\ {a[n].issuer : n \in authorized} \subseteq Principals
        /\ IsFiniteSet({a[n].issuer : n \in authorized})
        /\ Cardinality({a[n].issuer : n \in authorized}) <= MaxApprovals
    BY Zenon DEF AuthorizationsSound
  <2>7. About(q, last, "RosterIssuerAuthorized") = authorized
    BY <2>2
  <2> HIDE DEF authorized
  <2> QED
    BY <2>1, <2>2, <2>3, <2>4, <2>5, <2>6, <2>7 DEF PublicationSound
<1>9. LogsSound(q, height)
  BY <1>5, <1>7, <1>8 DEF LogsSound
<1>10. lastEpoch' \in Nat /\ lastEpoch' >= lastEpoch
  BY <1>1, <1>3
<1> QED
  BY <1>3, <1>4, <1>7, <1>9, <1>10, EmitKeepsSound

\* One publisher approves his own roster.
LEMMA PublishIsSound ==
  ASSUME SoundInv, NEW i \in Externals, NEW e \in Publications, PublishEpoch(i, e)
  PROVE  SoundInv'
<1>1. PICK a : a = <<Authorized(e, i)>>
  OBVIOUS
<1>2. FinishEpoch(e, a) /\ CheckEpoch(e)
  BY <1>1 DEF PublishEpoch
<1>3. IsSequence(a) /\ Len(a) = 1 /\ a[1] = Authorized(e, i)
  <2>1. a \in Seq({Authorized(e, i)})
    BY <1>1
  <2> QED BY <1>1, <2>1 DEF IsSequence
<1>4. /\ a[1].emitter = This /\ a[1].wf = TRUE /\ a[1].epoch = e.epoch /\ a[1].root = e.root
      /\ a[1].sig = "RosterIssuerAuthorized" /\ a[1].issuer = i
  BY <1>3 DEF Authorized
<1>5. \A n \in 1 .. Len(a) : n = 1
  BY <1>3
<1>6. {n \in 1 .. Len(a) : a[n].sig = "RosterIssuerAuthorized"} = {1}
  BY <1>3, <1>4, <1>5
<1>7. {a[n].issuer : n \in {m \in 1 .. Len(a) : a[m].sig = "RosterIssuerAuthorized"}} = {i}
  BY <1>4, <1>6
<1>8. IsFiniteSet({i}) /\ Cardinality({i}) <= MaxApprovals /\ {i} \subseteq Principals /\ {i} # {}
  <2>1. IsFiniteSet({i}) /\ Cardinality({i}) = 1
    BY FS_Singleton
  <2> QED BY <2>1, CrossAssumption DEF Principals
<1>9. AuthorizationsSound(a, e)
  <2>1. \A n \in 1 .. Len(a) :
       /\ a[n].emitter = This /\ a[n].wf = TRUE /\ a[n].epoch = e.epoch /\ a[n].root = e.root
       /\ a[n].sig = "RosterIssuerAuthorized"
    BY <1>4, <1>5
  <2> QED
    BY <1>3, <2>1, <1>5, <1>6, <1>7, <1>8, Zenon DEF AuthorizationsSound
<1> QED
  BY <1>2, <1>9, FinishEpochIsSound

\* Approvals in increasing order of address come from different issuers.
LEMMA AddressesGrow ==
  ASSUME NEW p \in ApprovalLists,
         \A n \in 1 .. Len(p) : n > 1 => Address[p[n].issuer] > Address[p[n - 1].issuer],
         NEW m \in 1 .. Len(p), NEW n \in 1 .. Len(p), m < n
  PROVE  p[m].issuer # p[n].issuer
<1>1. /\ Len(p) \in Nat
      /\ \A k \in 1 .. Len(p) : p[k].issuer \in Principals /\ Address[p[k].issuer] \in Nat
  <2>1. p \in Seq([issuer : Principals, signer : Keys \cup Principals, generation : Nat])
    BY SourceAssumption
  <2>2. Len(p) \in Nat /\ \A k \in 1 .. Len(p) :
           p[k] \in [issuer : Principals, signer : Keys \cup Principals, generation : Nat]
    BY <2>1, LenProperties, ElementOfSeq
  <2> QED
    BY <2>2, CrossAssumption
<1> DEFINE N == {k \in 1 .. (n - 1) : ~(Address[p[k].issuer] < Address[p[n].issuer])}
<1>2. SUFFICES ASSUME N # {} PROVE FALSE
  <2>1. m \in 1 .. (n - 1)
    BY <1>1
  <2>2. N = {} => Address[p[m].issuer] < Address[p[n].issuer]
    BY <2>1
  <2>3. Address[p[m].issuer] \in Nat
    BY <1>1
  <2> QED
    BY <2>2, <2>3
<1>3. PICK k \in N : \A l \in N : l <= k
  <2>1. n - 1 \in Nat /\ N \subseteq 1 .. (n - 1)
    BY <1>1
  <2> HIDE DEF N
  <2> QED
    BY <1>2, <2>1, LargestElement
<1>4. /\ k \in 1 .. (n - 1) /\ k + 1 \in 1 .. Len(p) /\ k + 1 > 1 /\ (k + 1) - 1 = k /\ ~(k + 1 <= k)
      /\ k \in 1 .. Len(p)
  BY <1>1, <1>3
<1>5. Address[p[k + 1].issuer] > Address[p[k].issuer]
  BY <1>4
<1>6. CASE k + 1 = n
  BY <1>1, <1>3, <1>4, <1>5, <1>6
<1>7. CASE k + 1 # n
  <2>1. k + 1 \in 1 .. (n - 1) /\ k + 1 \notin N
    BY <1>1, <1>3, <1>4, <1>7
  <2>2. Address[p[k + 1].issuer] < Address[p[n].issuer]
    BY <2>1
  <2> QED BY <1>1, <1>3, <1>4, <1>5, <2>2
<1> QED
  BY <1>6, <1>7

ApprovalRecords == [issuer : Principals, signer : Keys \cup Principals, generation : Nat]

\* The k-th log is about a key, the others are the approvals in their order.
InOrder(a, e, p, k) ==
  /\ IsSequence(a) /\ k \in Nat /\ k > 1
  /\ 1 \in 1 .. Len(a)
  /\ \A n \in 1 .. Len(a) :
       \/ n < k /\ n \in 1 .. Len(p) /\ a[n] = Authorized(e, p[n].issuer)
       \/ n = k /\ \E L \in ApprovalRecords : a[n] = KeyAuthorized(e, L)
       \/ n > k /\ n - 1 \in 1 .. Len(p) /\ a[n] = Authorized(e, p[n - 1].issuer)

\* The first k elements of a sequence and the others.
LEMMA Pieces ==
  ASSUME NEW s, IsSequence(s), NEW k \in 1 .. Len(s)
  PROVE  /\ IsSequence(SubSeq(s, 1, k)) /\ Len(SubSeq(s, 1, k)) = k
         /\ \A n \in 1 .. k : SubSeq(s, 1, k)[n] = s[n]
         /\ IsSequence(SubSeq(s, k + 1, Len(s))) /\ Len(SubSeq(s, k + 1, Len(s))) = Len(s) - k
         /\ \A n \in 1 .. (Len(s) - k) : SubSeq(s, k + 1, Len(s))[n] = s[k + n]
<1>1. PICK S : s \in Seq(S)
  BY DEF IsSequence
<1>2. Len(s) \in Nat /\ k \in Nat /\ k + 1 \in Int /\ Len(s) \in Int /\ k \in Int /\ 1 \in Int
  BY <1>1, LenProperties
<1>3. \A n \in 1 .. Len(s) : s[n] \in S
  BY <1>1, ElementOfSeq
<1>4. PICK a : a = SubSeq(s, 1, k)
  OBVIOUS
<1>5. IsSequence(a) /\ Len(a) = k /\ \A n \in 1 .. k : a[n] = s[n]
  <2>1. \A n \in 1 .. k : s[n] \in S
    BY <1>2, <1>3
  <2>2. /\ a \in Seq(S) /\ Len(a) = IF 1 <= k THEN k - 1 + 1 ELSE 0
        /\ \A n \in 1 .. (k - 1 + 1) : a[n] = s[1 + n - 1]
    BY <1>2, <1>4, <2>1, SubSeqProperties
  <2>3. IsSequence(a)
    BY <2>2 DEF IsSequence
  <2>4. Len(a) = k
    BY <1>2, <2>2
  <2>5. ASSUME NEW n \in 1 .. k PROVE a[n] = s[n]
    <3>1. n \in 1 .. (k - 1 + 1) /\ 1 + n - 1 = n
      BY <1>2
    <3> QED BY <2>2, <3>1
  <2> QED BY <2>3, <2>4, <2>5
<1>6. PICK b : b = SubSeq(s, k + 1, Len(s))
  OBVIOUS
<1>7. IsSequence(b) /\ Len(b) = Len(s) - k /\ \A n \in 1 .. (Len(s) - k) : b[n] = s[k + n]
  <2>1. \A n \in (k + 1) .. Len(s) : s[n] \in S
    BY <1>2, <1>3
  <2>2. /\ b \in Seq(S) /\ Len(b) = IF k + 1 <= Len(s) THEN Len(s) - (k + 1) + 1 ELSE 0
        /\ \A n \in 1 .. (Len(s) - (k + 1) + 1) : b[n] = s[k + 1 + n - 1]
    BY <1>2, <1>6, <2>1, SubSeqProperties
  <2>3. Len(b) = Len(s) - k
    BY <1>2, <2>2
  <2>4. IsSequence(b)
    BY <2>2 DEF IsSequence
  <2>5. ASSUME NEW n \in 1 .. (Len(s) - k) PROVE b[n] = s[k + n]
    <3>1. n \in 1 .. (Len(s) - (k + 1) + 1) /\ k + 1 + n - 1 = k + n
      BY <1>2
    <3> QED BY <2>2, <3>1
  <2> QED BY <2>3, <2>4, <2>5
<1> QED
  BY <1>4, <1>5, <1>6, <1>7

\* An element between two sequences.
LEMMA Between ==
  ASSUME NEW a, NEW x, NEW b, IsSequence(a), IsSequence(b)
  PROVE  /\ IsSequence((a \o <<x>>) \o b) /\ Len((a \o <<x>>) \o b) = Len(a) + 1 + Len(b)
         /\ \A n \in 1 .. Len(a) : ((a \o <<x>>) \o b)[n] = a[n]
         /\ ((a \o <<x>>) \o b)[Len(a) + 1] = x
         /\ \A n \in 1 .. Len(b) : ((a \o <<x>>) \o b)[Len(a) + 1 + n] = b[n]
<1>1. PICK z : z = <<x>>
  OBVIOUS
<1>2. IsSequence(z) /\ Len(z) = 1 /\ z[1] = x
  <2>1. z \in Seq({x})
    BY <1>1
  <2> QED BY <1>1, <2>1 DEF IsSequence
<1>3. /\ IsSequence(a \o z) /\ Len(a) \in Nat /\ Len(b) \in Nat /\ Len(a \o z) = Len(a) + Len(z)
      /\ \A n \in 1 .. Len(a) : (a \o z)[n] = a[n]
      /\ \A n \in 1 .. Len(z) : (a \o z)[Len(a) + n] = z[n]
  <2>1. IsSequence(a) /\ IsSequence(z)
    BY <1>2
  <2> QED BY <2>1, ConcatElements
<1>4. PICK d : d = a \o z
  OBVIOUS
<1>5. IsSequence(d) /\ Len(d) = Len(a) + 1 /\ d[Len(a) + 1] = x /\ \A n \in 1 .. Len(a) : d[n] = a[n]
  BY <1>2, <1>3, <1>4
<1>6. /\ IsSequence(d \o b) /\ Len(d \o b) = Len(d) + Len(b)
      /\ \A n \in 1 .. Len(d) : (d \o b)[n] = d[n]
      /\ \A n \in 1 .. Len(b) : (d \o b)[Len(d) + n] = b[n]
  BY <1>5, ConcatElements
<1>7. PICK c : c = d \o b
  OBVIOUS
<1>8. /\ IsSequence(c) /\ Len(c) = Len(a) + 1 + Len(b)
      /\ \A n \in 1 .. Len(a) : c[n] = a[n]
      /\ c[Len(a) + 1] = x
      /\ \A n \in 1 .. Len(b) : c[Len(a) + 1 + n] = b[n]
  BY <1>3, <1>5, <1>6, <1>7
<1>9. c = (a \o <<x>>) \o b
  BY <1>1, <1>4, <1>7
<1> QED
  BY <1>8, <1>9, Zenon

\* The authorizations of a call keep the order of its approvals.
LEMMA AuthorizationsInOrder ==
  ASSUME NEW e, NEW p \in ApprovalLists, Len(p) >= 1
  PROVE  \E k : InOrder(AuthorizationLogs(e, p), e, p, k)
<1> DEFINE authorized == [n \in DOMAIN p |-> Authorized(e, p[n].issuer)]
           keyed == {n \in DOMAIN p : p[n].issuer = Stable}
<1>1. Len(p) \in Nat /\ DOMAIN p = 1 .. Len(p) /\ \A n \in 1 .. Len(p) : p[n] \in ApprovalRecords
  BY SourceAssumption, LenProperties, ElementOfSeq DEF ApprovalRecords
<1>2. /\ IsSequence(authorized) /\ Len(authorized) = Len(p)
      /\ \A n \in 1 .. Len(p) : authorized[n] = Authorized(e, p[n].issuer)
  <2>1. authorized = [n \in 1 .. Len(p) |-> authorized[n]]
    BY <1>1
  <2> QED
    BY <1>1, <2>1, FunctionIsSequence
<1>3. CASE keyed = {}
  <2>1. AuthorizationLogs(e, p) = authorized
    BY <1>3 DEF AuthorizationLogs
  <2> HIDE DEF authorized
  <2>2. InOrder(authorized, e, p, Len(p) + 1)
    BY <1>1, <1>2 DEF InOrder
  <2> QED
    BY <2>1, <2>2
<1>4. CASE keyed # {}
  <2>1. PICK k : k = CHOOSE n \in keyed : TRUE
    OBVIOUS
  <2>2. k \in 1 .. Len(p)
    BY <1>1, <1>4, <2>1
  <2>3. PICK L : L = KeyAuthorized(e, p[k])
    OBVIOUS
  <2>4. PICK s : s = authorized
    OBVIOUS
  <2>5. PICK a, b : a = SubSeq(s, 1, k) /\ b = SubSeq(s, k + 1, Len(s))
    OBVIOUS
  <2>6. AuthorizationLogs(e, p) = (a \o <<L>>) \o b
    BY <1>2, <1>4, <2>1, <2>3, <2>4, <2>5 DEF AuthorizationLogs
  <2> HIDE DEF authorized, keyed
  <2>7. PICK c : /\ AuthorizationLogs(e, p) = c
                 /\ IsSequence(c) /\ Len(c) = Len(s) + 1
                 /\ \A n \in 1 .. k : c[n] = s[n]
                 /\ c[k + 1] = L
                 /\ \A n \in 1 .. (Len(s) - k) : c[k + 1 + n] = s[k + n]
    <3>1. IsSequence(s) /\ k \in 1 .. Len(s) /\ Len(s) \in Nat
      BY <1>1, <1>2, <2>2, <2>4
    <3>2. /\ IsSequence(a) /\ Len(a) = k
          /\ \A n \in 1 .. k : a[n] = s[n]
          /\ IsSequence(b) /\ Len(b) = Len(s) - k
          /\ \A n \in 1 .. (Len(s) - k) : b[n] = s[k + n]
      BY <2>5, <3>1, Pieces
    <3>3. IsSequence(a) /\ IsSequence(b)
      BY <3>2
    <3>4. /\ IsSequence((a \o <<L>>) \o b) /\ Len((a \o <<L>>) \o b) = Len(a) + 1 + Len(b)
          /\ \A n \in 1 .. Len(a) : ((a \o <<L>>) \o b)[n] = a[n]
          /\ ((a \o <<L>>) \o b)[Len(a) + 1] = L
          /\ \A n \in 1 .. Len(b) : ((a \o <<L>>) \o b)[Len(a) + 1 + n] = b[n]
      BY <3>3, Between
    <3>5. PICK c : /\ c = (a \o <<L>>) \o b
                   /\ IsSequence(c) /\ Len(c) = Len(a) + 1 + Len(b)
                   /\ \A n \in 1 .. Len(a) : c[n] = a[n]
                   /\ c[Len(a) + 1] = L
                   /\ \A n \in 1 .. Len(b) : c[Len(a) + 1 + n] = b[n]
      BY <3>4, Zenon
    <3>6. AuthorizationLogs(e, p) = c
      BY <2>6, <3>5, Zenon
    <3>7. Len(c) = Len(s) + 1
      <4>1. Len(c) = k + 1 + (Len(s) - k)
        BY <3>2, <3>5
      <4>2. k \in Int /\ Len(s) \in Int
        BY <3>1
      <4> QED BY <4>1, <4>2
    <3>8. \A n \in 1 .. k : c[n] = s[n]
      BY <3>2, <3>5
    <3>9. c[k + 1] = L
      BY <3>2, <3>5
    <3>10. \A n \in 1 .. (Len(s) - k) : c[k + 1 + n] = s[k + n]
      BY <3>2, <3>5
    <3> QED
      BY <3>5, <3>6, <3>7, <3>8, <3>9, <3>10, Zenon
  <2>8. ASSUME NEW n \in 1 .. Len(c)
        PROVE  \/ n < k + 1 /\ n \in 1 .. Len(p) /\ c[n] = Authorized(e, p[n].issuer)
               \/ n = k + 1 /\ \E M \in ApprovalRecords : c[n] = KeyAuthorized(e, M)
               \/ n > k + 1 /\ n - 1 \in 1 .. Len(p) /\ c[n] = Authorized(e, p[n - 1].issuer)
    <3>1. Len(s) = Len(p) /\ \A m \in 1 .. Len(p) : s[m] = Authorized(e, p[m].issuer)
      BY <1>2, <2>4
    <3>2. Len(p) \in Nat /\ n \in 1 .. (Len(p) + 1)
      BY <1>1, <2>7, <3>1
    <3>3. CASE n < k + 1
      BY <2>2, <2>7, <3>1, <3>2, <3>3
    <3>4. CASE n = k + 1
      BY <1>1, <2>2, <2>3, <2>7, <3>4
    <3>5. CASE n > k + 1
      <4>1. n - (k + 1) \in 1 .. (Len(p) - k) /\ k + 1 + (n - (k + 1)) = n /\ k + (n - (k + 1)) = n - 1
            /\ n - 1 \in 1 .. Len(p)
        BY <2>2, <3>2, <3>5
      <4>2. c[n] = s[n - 1]
        BY <2>7, <3>1, <4>1
      <4> QED BY <3>1, <3>5, <4>1, <4>2
    <3> QED BY <2>2, <3>2, <3>3, <3>4, <3>5
  <2>9. k + 1 \in Nat /\ k + 1 > 1 /\ 1 \in 1 .. Len(c)
    BY <1>1, <1>2, <2>2, <2>4, <2>7
  <2>10. InOrder(c, e, p, k + 1)
    BY <2>7, <2>8, <2>9 DEF InOrder
  <2> QED
    BY <2>7, <2>10
<1> QED
  BY <1>3, <1>4

\* No issuer approves twice.
DistinctApprovals(p) ==
  /\ Len(p) \in Nat /\ Len(p) <= MaxApprovals
  /\ \A n \in 1 .. Len(p) : p[n].issuer \in Principals
  /\ \A m, n \in 1 .. Len(p) : m # n => p[m].issuer # p[n].issuer

\* The guard on addresses makes the approvals distinct.
LEMMA ApprovalsAreDistinct ==
  ASSUME NEW p \in ApprovalLists, Len(p) \in 1 .. MaxApprovals,
         \A n \in 1 .. Len(p) : n > 1 => Address[p[n].issuer] > Address[p[n - 1].issuer]
  PROVE  DistinctApprovals(p)
<1>1. /\ Len(p) \in Nat
      /\ \A n \in 1 .. Len(p) : p[n].issuer \in Principals
  <2>1. p \in Seq(ApprovalRecords)
    BY SourceAssumption DEF ApprovalRecords
  <2>2. Len(p) \in Nat /\ \A n \in 1 .. Len(p) : p[n] \in ApprovalRecords
    BY <2>1, LenProperties, ElementOfSeq
  <2> QED BY <2>2 DEF ApprovalRecords
<1>2. \A m, n \in 1 .. Len(p) : m # n => p[m].issuer # p[n].issuer
  <2>1. ASSUME NEW m \in 1 .. Len(p), NEW n \in 1 .. Len(p), m < n PROVE p[m].issuer # p[n].issuer
    BY <2>1, AddressesGrow
  <2> QED BY <1>1, <2>1
<1>3. Len(p) <= MaxApprovals
  BY CrossAssumption
<1> QED
  BY <1>1, <1>2, <1>3 DEF DistinctApprovals

\* Distinct approvals leave authorizations the hub accepts.
LEMMA OrderedIsSound ==
  ASSUME NEW e, NEW p, NEW a, NEW k, InOrder(a, e, p, k), DistinctApprovals(p), keyEpoch # 0
  PROVE  AuthorizationsSound(a, e)
<1>1. /\ Len(p) \in Nat /\ k \in Nat /\ k > 1 /\ IsSequence(a) /\ 1 \in 1 .. Len(a)
      /\ \A n \in 1 .. Len(p) : p[n].issuer \in Principals
  BY DEF InOrder, DistinctApprovals
<1>2. \A m, n \in 1 .. Len(p) : m # n => p[m].issuer # p[n].issuer
  BY DEF DistinctApprovals
<1>3. ASSUME NEW n \in 1 .. Len(a), n # k
      PROVE  \E i \in 1 .. Len(p) : /\ a[n] = Authorized(e, p[i].issuer)
                                    /\ (n < k => i = n)
                                    /\ (n > k => i = n - 1)
  BY <1>1, <1>3 DEF InOrder
<1>4. ASSUME NEW n \in 1 .. Len(a), n = k
      PROVE  \E L \in ApprovalRecords : a[n] = KeyAuthorized(e, L)
  BY <1>1, <1>4 DEF InOrder
<1> DEFINE authorized == {n \in 1 .. Len(a) : a[n].sig = "RosterIssuerAuthorized"}
           authors == {a[n].issuer : n \in authorized}
           A == {p[i].issuer : i \in 1 .. Len(p)}
<1>5. /\ \A j : /\ Authorized(e, j).emitter = This /\ Authorized(e, j).wf = TRUE
               /\ Authorized(e, j).epoch = e.epoch /\ Authorized(e, j).root = e.root
               /\ Authorized(e, j).sig = "RosterIssuerAuthorized" /\ Authorized(e, j).issuer = j
      /\ \A L : /\ KeyAuthorized(e, L).emitter = This /\ KeyAuthorized(e, L).wf = TRUE
               /\ KeyAuthorized(e, L).epoch = e.epoch /\ KeyAuthorized(e, L).root = e.root
               /\ KeyAuthorized(e, L).sig = "RosterIssuerKeyAuthorized"
               /\ KeyAuthorized(e, L).keyEpoch # 0
  BY DEF Authorized, KeyAuthorized
<1>6. ASSUME NEW n \in 1 .. Len(a)
      PROVE  /\ a[n].emitter = This /\ a[n].wf = TRUE /\ a[n].epoch = e.epoch /\ a[n].root = e.root
             /\ a[n].sig \in {"RosterIssuerAuthorized", "RosterIssuerKeyAuthorized"}
             /\ a[n].sig = "RosterIssuerKeyAuthorized" => a[n].keyEpoch # 0
             /\ n \in authorized <=> n # k
  <2>1. CASE n # k
    <3>1. PICK i : a[n] = Authorized(e, i)
      BY <1>3, <2>1, Zenon
    <3> QED BY <1>5, <2>1, <3>1
  <2>2. CASE n = k
    <3>1. PICK L : a[n] = KeyAuthorized(e, L)
      BY <1>4, <2>2
    <3> QED BY <1>5, <2>2, <3>1
  <2> QED BY <2>1, <2>2
<1>7. \A n \in authorized : n \in 1 .. Len(a) /\ n # k
  BY <1>6
<1>8. \A m, n \in 1 .. Len(a) : m \notin authorized /\ n \notin authorized => m = n
  BY <1>6
<1> HIDE DEF authorized
<1>9. \A m, n \in authorized : a[m].issuer = a[n].issuer => m = n
  <2>1. ASSUME NEW m \in authorized, NEW n \in authorized, a[m].issuer = a[n].issuer PROVE m = n
    <3>1. m \in 1 .. Len(a) /\ n \in 1 .. Len(a) /\ m # k /\ n # k
      BY <1>7
    <3>2. PICK i \in 1 .. Len(p) : a[m].issuer = p[i].issuer /\ (m < k => i = m) /\ (m > k => i = m - 1)
      <4>1. PICK i \in 1 .. Len(p) : /\ a[m] = Authorized(e, p[i].issuer)
                                   /\ (m < k => i = m)
                                   /\ (m > k => i = m - 1)
        BY <1>3, <3>1, Zenon
      <4> QED BY <1>5, <4>1
    <3>3. PICK j \in 1 .. Len(p) : a[n].issuer = p[j].issuer /\ (n < k => j = n) /\ (n > k => j = n - 1)
      <4>1. PICK j \in 1 .. Len(p) : /\ a[n] = Authorized(e, p[j].issuer)
                                   /\ (n < k => j = n)
                                   /\ (n > k => j = n - 1)
        BY <1>3, <3>1, Zenon
      <4> QED BY <1>5, <4>1
    <3>4. i = j
      BY <1>2, <2>1, <3>2, <3>3
    <3>5. m \in Nat /\ n \in Nat
      BY <3>1
    <3> QED BY <1>1, <3>1, <3>2, <3>3, <3>4, <3>5
  <2> QED BY <2>1
<1>10. authors \subseteq A /\ A \subseteq Principals
  <2>1. ASSUME NEW n \in authorized PROVE a[n].issuer \in A
    <3>1. n \in 1 .. Len(a) /\ n # k
      BY <1>7
    <3>2. PICK i \in 1 .. Len(p) : a[n] = Authorized(e, p[i].issuer)
      BY <1>3, <3>1, Zenon
    <3> QED BY <1>5, <3>2
  <2> QED BY <1>1, <2>1
<1>11. authors # {}
  <2>1. 1 # k
    BY <1>1
  <2>2. 1 \in authorized
    BY <1>1, <1>6, <2>1, Zenon
  <2> QED BY <2>2
<1>12. IsFiniteSet(A) /\ Cardinality(A) <= MaxApprovals
  <2>1. IsFiniteSet(1 .. Len(p)) /\ Cardinality(1 .. Len(p)) = Len(p)
    <3>1. PICK l \in Nat : l = Len(p)
      BY <1>1
    <3>2. 1 \in Int /\ l \in Int
      OBVIOUS
    <3>3. IsFiniteSet(1 .. l) /\ Cardinality(1 .. l) = IF 1 > l THEN 0 ELSE l - 1 + 1
      BY <3>2, FS_Interval, Zenon
    <3>4. (IF 1 > l THEN 0 ELSE l - 1 + 1) = l
      OBVIOUS
    <3> QED BY <3>1, <3>3, <3>4
  <2>2. PICK f : f = [i \in 1 .. Len(p) |-> p[i].issuer]
    OBVIOUS
  <2>3. f \in Surjection(1 .. Len(p), A)
    BY <2>2 DEF Surjection
  <2> HIDE DEF A
  <2>4. IsFiniteSet(A) /\ Cardinality(A) <= Cardinality(1 .. Len(p))
    BY <2>1, <2>3, FS_Surjection
  <2>5. Cardinality(A) \in Nat
    BY <2>4, FS_CardinalityType
  <2> QED BY <2>1, <2>4, <2>5, CrossAssumption DEF DistinctApprovals
<1>13. IsFiniteSet(authors) /\ Cardinality(authors) <= MaxApprovals
  <2> HIDE DEF authors, A
  <2>1. /\ IsFiniteSet(authors) /\ Cardinality(authors) <= Cardinality(A)
    BY <1>10, <1>12, FS_Subset
  <2>2. Cardinality(authors) \in Nat /\ Cardinality(A) \in Nat
    BY <1>12, <2>1, FS_CardinalityType
  <2> QED BY <1>12, <2>1, <2>2, CrossAssumption
<1>14. authors \subseteq Principals
  BY <1>10
<1>15. AuthorizationsSound(a, e)
  <2> HIDE DEF A
  <2> USE DEF authorized
  <2> QED
    BY <1>1, <1>6, <1>8, <1>9, <1>11, <1>13, <1>14, Zenon DEF AuthorizationsSound
<1> QED
  BY <1>15

\* Several issuers approve one roster.
LEMMA PublishForIssuersIsSound ==
  ASSUME SoundInv, IssuerInv, NEW i, NEW e \in Publications, NEW p \in ApprovalLists,
         PublishEpochForIssuers(i, e, p)
  PROVE  SoundInv'
<1>1. DOMAIN p = 1 .. Len(p)
  <2>1. p \in Seq(ApprovalRecords)
    BY SourceAssumption DEF ApprovalRecords
  <2> QED BY <2>1, LenProperties
<1>2. /\ CheckEpoch(e) /\ Len(p) \in 1 .. MaxApprovals
      /\ \A n \in 1 .. Len(p) : n > 1 => Address[p[n].issuer] > Address[p[n - 1].issuer]
      /\ FinishEpoch(e, AuthorizationLogs(e, p))
  BY <1>1 DEF PublishEpochForIssuers
<1>3. keyEpoch # 0
  BY DEF IssuerInv, IssuerTypeOK
<1>4. AuthorizationsSound(AuthorizationLogs(e, p), e)
  <2>1. DistinctApprovals(p) /\ Len(p) >= 1
    BY <1>2, ApprovalsAreDistinct
  <2> QED
    BY <1>3, <2>1, AuthorizationsInOrder, OrderedIsSound
<1> QED
  BY <1>2, <1>4, FinishEpochIsSound

\* A transaction that has just begun.
LEMMA NothingIsSound ==
  ASSUME NEW h, NEW e
  PROVE  LogsSound(<< >>, h) /\ EpochsUpTo(<< >>, e)
<1>1. IsSequence(<< >>) /\ Len(<< >>) = 0
  <2>1. << >> \in Seq({})
    OBVIOUS
  <2> QED BY <2>1 DEF IsSequence
<1>2. 1 .. Len(<< >>) = {}
  BY <1>1
<1> QED
  BY <1>1, <1>2, Zenon DEF LogsSound, EpochsUpTo

\* Every call emits sound logs only.
LEMMA CallIsSound ==
  ASSUME SoundInv, IssuerInv, DecisionInv, Call
  PROVE  SoundInv'
<1>1. LogShape
  BY DEF DecisionInv
<1>2. ASSUME NEW i, NEW q, NEW s, NEW a, NEW c, IssueOnce(i, q, s, a, c)
      PROVE  SoundInv'
  <2>1. Emit(<<MarkIssued(s, a, i, c)>>) /\ UNCHANGED lastEpoch
    BY <1>2 DEF IssueOnce
  <2>2. LogSound(MarkIssued(s, a, i, c), height) /\ MarkIssued(s, a, i, c).sig \notin RosterSigs
    BY DEF LogSound, RosterSigs, MarkIssued
  <2> QED BY <2>1, <2>2, OneLogCall
<1> QED
  BY <1>1, <1>2, IssueIsSound, KeyedCallsAreSound, RevokeIsSound, DenyIsSound, ExecuteIsSound,
     PublishIsSound, PublishForIssuersIsSound, Zenon DEF Call

\* Every step of the source keeps its record sound.
LEMMA SoundInvIsInductive ==
  SoundInv /\ IssuerInv /\ DecisionInv /\ [SourceNext]_sourceVars => SoundInv'
<1> SUFFICES ASSUME SoundInv, IssuerInv, DecisionInv, [SourceNext]_sourceVars PROVE SoundInv'
  OBVIOUS
<1>1. CASE Call
  BY <1>1, CallIsSound
<1>2. ASSUME UNCHANGED <<lastEpoch, chainVars, txLogs>> PROVE SoundInv'
  BY <1>2 DEF SoundInv, chainVars
<1>3. CASE Administer
  <2>1. UNCHANGED <<lastEpoch, chainVars, txLogs>>
    BY <1>3 DEF Administer, SetIssuer, SetEpochPublisher, SetDenialCorrectionApprover, ChangeRole,
                ProposeDenialCorrection, ApproveDenialCorrection
  <2> QED BY <1>2, <2>1
<1>4. CASE UNCHANGED sourceVars
  BY <1>2, <1>4 DEF sourceVars
<1>5. CASE Mine
  <2>1. /\ lastEpoch' = lastEpoch /\ chain' = chain \cup {Receipt} /\ txLogs' = << >>
        /\ Receipt.logs = txLogs /\ Receipt.height = height
    BY <1>5 DEF Mine, Receipt
  <2>2. LogsSound(txLogs', height') /\ EpochsUpTo(txLogs', lastEpoch')
    BY <2>1, NothingIsSound
  <2>3. \A r \in chain' : LogsSound(r.logs, r.height)
    BY <2>1 DEF SoundInv
  <2> QED BY <2>1, <2>2, <2>3 DEF SoundInv
<1>6. CASE NextBlock
  <2>1. lastEpoch' = lastEpoch /\ chain' = chain /\ txLogs' = << >>
    BY <1>6 DEF NextBlock
  <2>2. LogsSound(txLogs', height') /\ EpochsUpTo(txLogs', lastEpoch')
    BY <2>1, NothingIsSound
  <2> QED BY <2>1, <2>2 DEF SoundInv
<1> QED
  BY <1>1, <1>3, <1>4, <1>5, <1>6 DEF SourceNext

-----------------------------------------------------------------------------
\* A log walked by the hub approves nobody for an epoch that is still to come.
LEMMA ApplyKeepsApprovals ==
  ASSUME NEW st, ApprovalsPast(st), NEW r, LogsSound(r.logs, r.height), NEW i \in 1 .. Len(r.logs)
  PROVE  ApprovalsPast(Hub!ApplyLog(st, r, i))
<1>1. PICK L : L = r.logs[i]
  OBVIOUS
<1>2. ASSUME NEW x, x = [st EXCEPT !.subject = x.subject]
      PROVE  ApprovalsPast(x)
  BY <1>2 DEF ApprovalsPast
<1>3. ASSUME NEW x, x = [st EXCEPT !.key = x.key]
      PROVE  ApprovalsPast(x)
  BY <1>3 DEF ApprovalsPast
<1>4. CASE L.sig = "RosterEpochPublished"
  <2>1. L.epoch \in HubEpochs /\ L.epoch \in Nat
    BY <1>1, <1>4, CrossAssumption DEF LogsSound, PublicationSound
  <2>2. ASSUME L.epoch <= st.roster.epoch PROVE ApprovalsPast(Hub!OnEpoch(st, r, L))
    BY <2>2 DEF Hub!OnEpoch
  <2>3. ASSUME ~(L.epoch <= st.roster.epoch) PROVE ApprovalsPast(Hub!OnEpoch(st, r, L))
    <3>1. PICK f : f = [p \in HubEpochs \X HubIssuers |->
                          IF p[1] = L.epoch /\ p[2] \in Hub!AuthorizedIssuers(r, L)
                            THEN Hub!ApprovalOf(r, L, p[2]) ELSE st.approval[p]]
      OBVIOUS
    <3>2. PICK x : x = Hub!OnEpoch(st, r, L)
      OBVIOUS
    <3>3. /\ x.approval = f /\ x.roster.epoch = L.epoch
          /\ x = [subject |-> x.subject, roster |-> x.roster, roots |-> x.roots,
                  approval |-> x.approval, key |-> x.key]
      BY <2>3, <3>1, <3>2 DEF ApprovalsPast, Hub!OnEpoch, Hub!RosterOf
    <3>4. ASSUME NEW p \in HubEpochs \X HubIssuers, f[p].approved
          PROVE  p[1] <= L.epoch
      <4>1. p[1] \in Nat /\ st.roster.epoch \in Nat
        BY CrossAssumption DEF ApprovalsPast
      <4>2. CASE p[1] = L.epoch
        BY <4>1, <4>2
      <4>3. CASE p[1] # L.epoch
        <5>1. f[p] = st.approval[p]
          BY <3>1, <4>3
        <5>2. p[1] <= st.roster.epoch
          BY <3>4, <5>1 DEF ApprovalsPast
        <5> QED BY <2>1, <2>3, <4>1, <5>2
      <4> QED BY <4>2, <4>3
    <3>5. f = [p \in HubEpochs \X HubIssuers |-> f[p]]
      BY <3>1
    <3>6. ApprovalsPast(x)
      BY <2>1, <3>3, <3>4, <3>5 DEF ApprovalsPast
    <3> QED BY <3>2, <3>6
  <2>4. ApprovalsPast(Hub!OnEpoch(st, r, L))
    BY <2>2, <2>3
  <2>5. Hub!ApplyLog(st, r, i) = st \/ Hub!ApplyLog(st, r, i) = Hub!OnEpoch(st, r, L)
    BY <1>1, <1>4 DEF Hub!ApplyLog, Hub!LifecycleSigs, Hub!OrdinarySigs, Hub!IssueSigs, Hub!DecisionSigs
  <2> QED BY <2>4, <2>5
<1>5. CASE L.sig # "RosterEpochPublished"
  <2>1. PICK x : x = Hub!ApplyLog(st, r, i)
    OBVIOUS
  <2>2. \/ x = st
        \/ x = [st EXCEPT !.subject = x.subject]
        \/ x = [st EXCEPT !.key = x.key]
    BY <1>1, <1>5, <2>1 DEF Hub!ApplyLog, Hub!OnKeyCompromised, ApprovalsPast
  <2> QED BY <1>2, <1>3, <2>1, <2>2
<1> QED
  BY <1>4, <1>5

\* Whoever relays what, approvals stay in the past.
LEMMA HubInvIsInductive ==
  ASSUME SoundInv, HubInv, [CrossNext]_<<sourceVars, hubVars>>
  PROVE  HubInv'
<1>1. CASE SourceStep
  <2>1. Hub!Idle /\ UNCHANGED hubVars
    BY <1>1 DEF SourceStep
  <2> QED BY <2>1 DEF HubInv, hubVars, Hub!Idle, ApprovalsPast
<1>2. CASE HubStep
  <2>1. chain' = chain
    BY <1>2 DEF HubStep, sourceVars, chainVars
  <2>2. CASE Hub!ConfigureSource(ChainKey, This) \/ Hub!Tick
    BY <2>1, <2>2 DEF Hub!ConfigureSource, Hub!Tick, Hub!call, HubInv, ApprovalsPast
  <2>3. ASSUME NEW r \in chain, NEW a, Hub!Execute(r, a) PROVE HubInv'
    BY <2>1, <2>3 DEF Hub!Execute, HubInv, ApprovalsPast
  <2>4. CASE Hub!WalkLog
    <3>1. /\ running # NoReceipt /\ next <= Len(running.logs)
          /\ work' = Hub!ApplyLog(work, running, next) /\ next' = next + 1
          /\ store' = store /\ running' = running
      BY <2>4 DEF Hub!WalkLog, Hub!Walking
    <3>2. LogsSound(running.logs, running.height) /\ next \in Nat \ {0}
      BY <3>1 DEF HubInv, SoundInv
    <3>3. next \in 1 .. Len(running.logs)
      <4>1. Len(running.logs) \in Nat
        BY <3>2, ConcatElements DEF LogsSound
      <4> QED BY <3>1, <3>2, <4>1
    <3>4. ApprovalsPast(work')
      BY <3>1, <3>2, <3>3, ApplyKeepsApprovals DEF HubInv
    <3> QED BY <2>1, <3>1, <3>2, <3>4 DEF HubInv, ApprovalsPast
  <2>5. CASE Hub!Revert
    BY <2>1, <2>5 DEF Hub!Revert, Hub!EndCall, HubInv, ApprovalsPast
  <2>6. CASE Hub!Commit
    BY <2>1, <2>6 DEF Hub!Commit, Hub!EndCall, HubInv, ApprovalsPast
  <2> QED
    BY <1>2, <2>2, <2>3, <2>4, <2>5, <2>6 DEF HubStep
<1>3. CASE UNCHANGED <<sourceVars, hubVars>>
  BY <1>3 DEF sourceVars, chainVars, hubVars, HubInv, ApprovalsPast
<1> QED
  BY <1>1, <1>2, <1>3 DEF CrossNext

-----------------------------------------------------------------------------
\* On a record of sound receipts, the hub finds nothing wrong with the log it is
\* at except that its own clock is behind.
LEMMA SoundIsAccepted ==
  ASSUME SoundInv, HubInv, Hub!Walking
  PROVE  LET L == running.logs[next] IN
         Hub!LogReverts(work, running, L) => L.sig = "RosterEpochPublished" /\ L.publishedAt > now
<1>1. PICK q, h, L : q = running.logs /\ h = running.height /\ L = q[next]
  OBVIOUS
<1>2. LogsSound(q, h)
  BY <1>1 DEF HubInv, SoundInv, Hub!Walking
<1>3. Len(q) \in Nat /\ next \in 1 .. Len(q) /\ DOMAIN q = 1 .. Len(q)
  <2>1. PICK S : q \in Seq(S)
    BY <1>2 DEF LogsSound, IsSequence
  <2>2. Len(q) \in Nat /\ DOMAIN q = 1 .. Len(q)
    BY <2>1, LenProperties
  <2> QED BY <1>1, <2>2 DEF HubInv, Hub!Walking
<1>4. LogSound(L, h)
  BY <1>1, <1>2, <1>3 DEF LogsSound
<1>5. ~Hub!DecodeReverts(L)
  BY <1>4 DEF LogSound, Hub!DecodeReverts
<1>6. L.sig = "IssuerKeyCompromised" => ~Hub!KeyCompromiseReverts(running, L)
  BY <1>1, <1>4 DEF LogSound, Hub!KeyCompromiseReverts
<1>7. SUFFICES ASSUME Hub!Trusted(L), L.sig = "RosterEpochPublished", Hub!EpochReverts(work, running, L)
               PROVE  L.publishedAt > now
  BY <1>1, <1>5, <1>6 DEF Hub!LogReverts
<1>8. PublicationSound(q, L)
  BY <1>1, <1>2, <1>3, <1>7 DEF LogsSound
<1>9. ASSUME L.epoch > work.roster.epoch, Hub!AuthorizationsInvalid(work, running, L) PROVE FALSE
  <2>1. \A n \in 1 .. Len(q) : q[n].emitter = contract /\ q[n].wf
    BY <1>2, <1>4, <1>7 DEF LogsSound, LogSound, Hub!Trusted
  <2>2. Hub!Authorizations(running, L) = About(q, L, "RosterIssuerAuthorized")
    BY <1>1, <1>3, <2>1 DEF Hub!Authorizations, About, Hub!Trusted
  <2>3. Hub!AuthorizedIssuers(running, L) = Approving(q, L)
    BY <1>1, <2>2 DEF Hub!AuthorizedIssuers, Approving
  <2>4. PICK A : A = About(q, L, "RosterIssuerAuthorized")
    OBVIOUS
  <2>5. A # {} /\ \A m, n \in A : q[m].issuer = q[n].issuer => m = n
    BY <1>8, <2>4 DEF PublicationSound, Approving
  <2>6. ~(Hub!Cardinality(A) > MaxApprovals)
    <3>1. PICK f : f = [n \in A |-> q[n].issuer]
      OBVIOUS
    <3>2. PICK B : B = Approving(q, L)
      OBVIOUS
    <3>3. f \in Injection(A, B)
      BY <2>4, <2>5, <3>1, <3>2 DEF Injection, IsInjective, Approving
    <3>4. IsFiniteSet(B) /\ Cardinality(B) <= MaxApprovals
      BY <1>8, <3>2 DEF PublicationSound
    <3>5. IsFiniteSet(A) /\ Cardinality(A) <= Cardinality(B)
      BY <3>3, <3>4, FS_Injection
    <3>6. Cardinality(A) \in Nat /\ Cardinality(B) \in Nat /\ MaxApprovals \in Nat
      BY <3>4, <3>5, FS_CardinalityType, CrossAssumption
    <3>7. Hub!Cardinality(A) = Cardinality(A)
      BY DEF Cardinality, Hub!Cardinality
    <3> QED BY <3>4, <3>5, <3>6, <3>7
  <2>7. ASSUME NEW n \in A, work.approval[<<L.epoch, q[n].issuer>>].approved PROVE FALSE
    <3>1. L.epoch \in HubEpochs /\ q[n].issuer \in HubIssuers
      BY <1>8, <2>4, CrossAssumption DEF PublicationSound, Approving
    <3>2. <<L.epoch, q[n].issuer>> \in HubEpochs \X HubIssuers /\ <<L.epoch, q[n].issuer>>[1] = L.epoch
      BY <3>1
    <3>3. L.epoch <= work.roster.epoch /\ work.roster.epoch \in Nat
      BY <2>7, <3>2 DEF HubInv, ApprovalsPast
    <3>4. L.epoch \in Nat
      BY <3>1, CrossAssumption
    <3> QED BY <1>9, <3>3, <3>4
  <2>8. ASSUME NEW i PROVE /\ ~(Hub!Cardinality(Hub!KeyAuthorizations(running, L, i)) > 1)
                           /\ \A j \in Hub!KeyAuthorizations(running, L, i) : q[j].keyEpoch # 0
    <3>1. PICK K : K = Hub!KeyAuthorizations(running, L, i)
      OBVIOUS
    <3>2. K \subseteq About(q, L, "RosterIssuerKeyAuthorized")
      BY <1>1, <1>3, <3>1 DEF Hub!KeyAuthorizations, About
    <3>3. \A m, n \in K : m = n
      BY <1>8, <3>2 DEF PublicationSound
    <3>4. Hub!Cardinality(K) = Cardinality(K)
      BY DEF Cardinality, Hub!Cardinality
    <3>5. Cardinality(K) = 0 \/ Cardinality(K) = 1
      <4>1. K = {} \/ \E x : K = {x}
        BY <3>3
      <4> QED BY <4>1, FS_EmptySet, FS_Singleton
    <3>6. ASSUME NEW j \in K PROVE q[j].keyEpoch # 0
      <4>1. j \in 1 .. Len(q) /\ q[j].sig = "RosterIssuerKeyAuthorized"
        BY <3>2 DEF About
      <4> QED BY <1>2, <4>1 DEF LogsSound, LogSound
    <3> QED BY <3>1, <3>4, <3>5, <3>6
  <2>9. /\ A = Hub!Authorizations(running, L)
        /\ \A n \in DOMAIN running.logs : running.logs[n].wf
    BY <1>1, <1>3, <2>1, <2>2, <2>4
  <2>10. ~Hub!AuthorizationsInvalid(work, running, L)
    BY <1>1, <2>5, <2>6, <2>7, <2>8, <2>9 DEF Hub!AuthorizationsInvalid
  <2> QED BY <1>9, <2>10
<1> QED
  BY <1>7, <1>8, <1>9 DEF Hub!EpochReverts, PublicationSound

\* Whoever relays the receipts and in whatever order, no log the source let
\* through makes a handler of the hub revert (ProofmarkASC._processAndEmitEvent)
\* and so blocks the rest of its receipt: the one exception is a roster published
\* later than the hub's clock shows, which may be relayed again.
THEOREM SourceIsAccepted == CrossSpec => []SourceLogsAreAccepted
<1>1. CrossInit => CrossInv
  <2> SUFFICES ASSUME CrossInit PROVE CrossInv
    OBVIOUS
  <2>1. SourceInit /\ Hub!Init
    BY DEF CrossInit
  <2>2. IssuerInv /\ DecisionInv
    BY <2>1, IssuerInvInitially, DecisionInvInitially DEF SourceInit
  <2>3. SoundInv
    <3>1. lastEpoch = 0 /\ txLogs = << >> /\ chain = {}
      BY <2>1 DEF SourceInit
    <3> QED BY <3>1, NothingIsSound DEF SoundInv
  <2>4. HubInv
    <3>1. /\ running = NoReceipt /\ next = 1
          /\ store = Hub!EmptyStore /\ work = Hub!EmptyStore
      BY <2>1 DEF Hub!Init
    <3>2. ApprovalsPast(Hub!EmptyStore)
      BY DEF ApprovalsPast, Hub!EmptyStore, Hub!NoRoster, Hub!NoApproval
    <3> QED BY <3>1, <3>2 DEF HubInv
  <2> QED BY <2>2, <2>3, <2>4 DEF CrossInv
<1>2. CrossInv /\ [CrossNext]_<<sourceVars, hubVars>> => CrossInv'
  <2> SUFFICES ASSUME CrossInv, [CrossNext]_<<sourceVars, hubVars>> PROVE CrossInv'
    OBVIOUS
  <2>1. [SourceNext]_sourceVars
    BY DEF CrossNext, SourceStep, HubStep
  <2>2. [IssuerNext]_issuerVars
    <3>1. UNCHANGED sourceVars => UNCHANGED issuerVars
      BY DEF sourceVars
    <3> QED BY <2>1, <3>1, SourceMovesIssuerByItsSteps
  <2>3. IssuerInv' /\ DecisionInv'
    BY <2>1, <2>2, IssuerInvIsInductive, DecisionInvIsInductive DEF CrossInv
  <2>4. SoundInv'
    BY <2>1, SoundInvIsInductive DEF CrossInv
  <2>5. HubInv'
    BY HubInvIsInductive DEF CrossInv
  <2> QED BY <2>3, <2>4, <2>5 DEF CrossInv
<1>3. CrossInv => SourceLogsAreAccepted
  BY SoundIsAccepted DEF CrossInv, SourceLogsAreAccepted
<1> QED
  BY <1>1, <1>2, <1>3, PTL DEF CrossSpec
=============================================================================
