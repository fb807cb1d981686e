--------------------------- MODULE MarkLifecycle ---------------------------
(***************************************************************************)
(* The storage ProofmarkASC keeps for one holder and what its lifecycle    *)
(* handlers do to it.  Each handler takes the holder's storage m, the      *)
(* proven coordinates at of the log L, and returns the new storage.        *)
(***************************************************************************)
EXTENDS SourceLog

CONSTANTS
  Attrs,          \* packed attributes, ValidAttrs among them
  Claims,         \* claimsRoot and evidenceHash commitments
  Issuers,        \* issuer addresses
  Accounts,       \* proposers and approvers of denial corrections
  KeyEpochs,      \* generations of an issuer's operating key (0: none)
  NoCredential    \* the zero value of a Mark's facts

Credentials == [attrs : Attrs, issuer : Issuers, claims : Claims]

Corrections == Nat \X Nat \X Accounts \X Accounts

SubjectStates ==
  [status : Statuses, credential : Credentials \cup {NoCredential},
   keyEpoch : KeyEpochs \cup {0}, tombstone : BOOLEAN, permanentDenial : BOOLEAN,
   cursor : Coord, decision : Coord, latestOrdinary : Statuses,
   ordinaryIsIssuance : BOOLEAN, corrected : Corrections \cup {<< >>}]

FreshSubject ==
  [status             |-> "None",
   credential         |-> NoCredential,
   keyEpoch           |-> 0,
   tombstone          |-> FALSE,
   permanentDenial    |-> FALSE,
   cursor             |-> Origin,     \* lastApplied{Height,TxIndex,LogIndex}
   decision           |-> Origin,     \* lastDenialDecision{Height,TxIndex,LogIndex}
   latestOrdinary     |-> "None",
   ordinaryIsIssuance |-> FALSE,
   corrected          |-> << >>]      \* the last correction accepted, see CorrectionFacts

\* lastCorrectedDenialRevision and lastDenialCorrection{Id,Proposer,Approver}
CorrectionFacts(L) == <<L.revision, L.correctionId, L.proposer, L.approver>>

IsNewer(m, at) == Newer(at, m.cursor)

Advance(m, at) == [m EXCEPT !.cursor = at]

\* Faulty variant: while a denial is active the credential is dropped instead
\* of being kept for a correction that is relayed later.
StoreIssuanceDroppedWhenDenied(m, at, L, key) ==
  IF ~IsNewer(m, at) THEN m
  ELSE IF m.permanentDenial
    THEN [Advance(m, at) EXCEPT !.tombstone = TRUE]
  ELSE IF L.attrs \in ValidAttrs
    THEN [Advance(m, at) EXCEPT
            !.status = "Active",
            !.tombstone = FALSE,
            !.credential = Credential(L),
            !.keyEpoch = key,
            !.latestOrdinary = "Active",
            !.ordinaryIsIssuance = TRUE]
    ELSE [Advance(m, at) EXCEPT !.status = "Suspended", !.tombstone = TRUE]

(***************************************************************************)
(* The common part of _onIssued and _onKeyedIssued after decoding.  A      *)
(* stale issuance is skipped.  While a denial is active a valid issuance   *)
(* is stored behind the denial; an unsupported schema suspends.            *)
(***************************************************************************)
StoreIssuance(m, at, L, key) ==
  IF ~IsNewer(m, at) THEN m
  ELSE IF L.attrs \in ValidAttrs
    THEN [Advance(m, at) EXCEPT
            !.status = IF m.permanentDenial THEN "Denied" ELSE "Active",
            !.tombstone = m.permanentDenial,
            !.credential = Credential(L),
            !.keyEpoch = key,
            !.latestOrdinary = "Active",
            !.ordinaryIsIssuance = TRUE]
    ELSE [Advance(m, at) EXCEPT
            !.status = IF m.permanentDenial THEN @ ELSE "Suspended",
            !.tombstone = TRUE,
            !.latestOrdinary = "Suspended",
            !.ordinaryIsIssuance = FALSE]

OnIssued(m, at, L) == StoreIssuance(m, at, L, 0)

OnKeyedIssued(m, at, L) == StoreIssuance(m, at, L, L.keyEpoch)

\* Faulty variant: a revocation relayed after a denial makes it reissuable.
OnRevokedDowngradingDenial(m, at, L) ==
  IF ~IsNewer(m, at) THEN m
  ELSE [Advance(m, at) EXCEPT
          !.status = "Revoked",
          !.permanentDenial = FALSE,
          !.tombstone = TRUE,
          !.latestOrdinary = "Revoked",
          !.ordinaryIsIssuance = FALSE]

\* _onTombstone with newStatus = Revoked.
OnRevoked(m, at, L) ==
  IF ~IsNewer(m, at) THEN m
  ELSE [Advance(m, at) EXCEPT
          !.status = IF m.permanentDenial THEN "Denied" ELSE "Revoked",
          !.tombstone = TRUE,
          !.latestOrdinary = "Revoked",
          !.ordinaryIsIssuance = FALSE]

\* _onTombstone with newStatus = Denied: ordered by the decision cursor alone,
\* it moves the ordinary cursor only forward.
OnDenied(m, at, L) ==
  IF ~Newer(at, m.decision) THEN m
  ELSE [m EXCEPT
          !.decision = at,
          !.permanentDenial = TRUE,
          !.cursor = IF IsNewer(m, at) THEN at ELSE @,
          !.tombstone = TRUE,
          !.status = "Denied"]

(***************************************************************************)
(* A correction lifts the denial.  If an ordinary log that follows the     *)
(* correction on the source was relayed first, its outcome becomes         *)
(* visible; otherwise the holder is suspended until the replacement        *)
(* issuance of the same receipt is processed.                              *)
(***************************************************************************)
OnDenialCorrected(m, at, L) ==
  IF ~Newer(at, m.decision) THEN m
  ELSE LET laterOrdinary == ~IsNewer(m, at)
           restored == laterOrdinary /\ m.latestOrdinary = "Active"
       IN [m EXCEPT
             !.decision = at,
             !.permanentDenial = FALSE,
             !.corrected = CorrectionFacts(L),
             !.cursor = IF laterOrdinary THEN @ ELSE at,
             !.tombstone = ~restored,
             !.status = IF restored THEN "Active"
                        ELSE IF laterOrdinary /\ m.latestOrdinary = "Revoked" THEN "Revoked"
                        ELSE "Suspended"]

\* The dispatch of _processAndEmitEvent on lifecycle signatures.
ApplyLifecycle(m, at, L) ==
  CASE L.sig = "MarkIssued" -> OnIssued(m, at, L)
    [] L.sig = "KeyedMarkIssued" -> OnKeyedIssued(m, at, L)
    [] L.sig = "MarkRevoked" -> OnRevoked(m, at, L)
    [] L.sig = "SanctionDenied" -> OnDenied(m, at, L)
    [] L.sig = "SanctionDenialCorrected" -> OnDenialCorrected(m, at, L)
    [] OTHER -> m

(***************************************************************************)
(* Source order and the storage.                                           *)
(***************************************************************************)
\* What readers see of a holder (getMark, tombstone, permanentDenial and the
\* height isMarkIssuerUsable compares).
ViewOf(m) ==
  [status |-> m.status, denied |-> m.permanentDenial, blocked |-> m.tombstone,
   credential |-> m.credential, keyEpoch |-> m.keyEpoch, height |-> m.cursor[1]]

(***************************************************************************)
(* The storage m is what source order makes of the entries E: it shows     *)
(* their view, the two cursors stand on the latest lifecycle log and the   *)
(* latest decision, and when the cursor stands on an ordinary log,         *)
(* latestOrdinary is its outcome and, if that is Active, the credential is *)
(* that log's.                                                             *)
(***************************************************************************)
SourceOrdered(m, E) ==
  /\ IsView(ViewOf(m), E)
  /\ AtLatest(m.cursor, E)
  /\ AtLatest(m.decision, Decisions(E))
  /\ \A e \in E : Latest(E, e) /\ e.log.sig \in OrdinarySigs =>
       /\ m.latestOrdinary = Outcome(e.log)
       /\ m.latestOrdinary = "Active" =>
            m.credential = Credential(e.log) /\ m.keyEpoch = KeyOf(e.log)
=============================================================================
