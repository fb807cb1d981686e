--------------------------- MODULE EvidenceVault ---------------------------
(***************************************************************************)
(* The evidence vault (pipeline/vault.ts), one retained record at a time.  *)
(* A case is everything the encrypted file holds about one record: the     *)
(* record, its revocation jobs in the order they were queued, its          *)
(* retention controls and its tombstone.  Each operation of the class is a *)
(* precondition (what it throws on) and a new case.                        *)
(***************************************************************************)
EXTENDS Integers, Sequences, FiniteSets

CONSTANTS
  NoTx,        \* no transaction was signed or observed
  NoRecord,    \* there is no such record
  NoDeletion   \* no deletion was requested

VaultStates == {"pending", "active", "review", "blocked", "rejected"}

(***************************************************************************)
(* What the issuance callbacks do to a record.                             *)
(***************************************************************************)
\* buildEvidenceRecord: the state a record is put in, by the outcome of the screening.
PutState(outcome) ==
  CASE outcome = "ISSUED" -> "pending" [] outcome = "REVIEW" -> "review"
    [] outcome = "DENIED" -> "blocked" [] OTHER -> "rejected"

\* recordSourceConfirmation keeps the first observation and refuses another.
MayObserveSource(rec, tx) == rec.src \in {NoTx, tx}

SourceObserved(rec, tx) == [rec EXCEPT !.src = tx]

\* Faulty variant: the acknowledgement activates whatever is there.
HubActivates(rec) == [rec EXCEPT !.hub = @ \/ rec.src # NoTx, !.state = "active"]

\* recordMaterialization
HubObserved(rec) ==
  [rec EXCEPT !.hub = @ \/ rec.src # NoTx,
              !.state = IF @ = "pending" THEN "active" ELSE @]

\* A cleared record is active again only once the hub has its credential.
Cleared(rec) ==
  IF rec.state = "pending" \/ (rec.src # NoTx /\ ~rec.hub) THEN "pending" ELSE "active"

(***************************************************************************)
(* Cases.                                                                  *)
(***************************************************************************)
NewCase ==
  [rec |-> NoRecord, jobs |-> << >>, minimum |-> 0, holds |-> {}, released |-> {},
   request |-> NoDeletion, erased |-> FALSE]

Retained(c) == c.rec # NoRecord

\* put never brings an erased record back, and keeps the one it finds.
MayPut(c) == ~c.erased

Put(c, outcome, at, until) ==
  IF Retained(c) THEN c
  ELSE [c EXCEPT !.rec =
    [state |-> PutState(outcome), src |-> NoTx, hub |-> FALSE, until |-> until,
     screened |-> IF PutState(outcome) = "rejected" THEN 0 ELSE at, list |-> 0,
     decided |-> at, decisions |-> 0]]

Deadline(c) == IF c.minimum > c.rec.until THEN c.minimum ELSE c.rec.until

Unconfirmed(c) == {i \in 1 .. Len(c.jobs) : c.jobs[i].state # "confirmed"}

ConfirmedJobs(c) == {i \in 1 .. Len(c.jobs) : c.jobs[i].state = "confirmed"}

\* queueRevocation: one open job per record; a job is named by the time of its
\* decision, and n is its place in the file.
MayQueue(c, at) == Unconfirmed(c) # {} \/ \A i \in 1 .. Len(c.jobs) : c.jobs[i].at # at

Queue(c, at, n) ==
  IF Unconfirmed(c) # {} THEN c
  ELSE [c EXCEPT !.jobs = Append(@, [at |-> at, n |-> n, state |-> "pending", tx |-> NoTx, seen |-> "none"])]

(***************************************************************************)
(* Screening and review.                                                   *)
(***************************************************************************)
\* listForRescreen; list is the newest version, or 0 when only the interval counts.
Due(c, now, interval, list) ==
  /\ Retained(c)
  /\ Deadline(c) > now
  /\ c.rec.state \in {"active", "review"} \/ (c.rec.state = "pending" /\ c.rec.src # NoTx)
  /\ \/ c.rec.screened = 0 \/ now - c.rec.screened >= interval
     \/ list # 0 /\ c.rec.list # list

\* Faulty variant: the record is reloaded but not compared.
RescreenUnfenced(c, expected, at) == Retained(c)

\* recordRescreen writes over exactly the record that was selected.
MayRescreen(c, expected, at) ==
  /\ Retained(c) /\ c.rec = expected
  /\ c.rec.state \notin {"blocked", "rejected"}
  /\ at >= c.rec.decided

Rescreened(c, at, decision, list, n) ==
  LET next == [c EXCEPT !.rec.screened = at, !.rec.list = list, !.rec.decided = at,
                        !.rec.decisions = @ + 1,
                        !.rec.state = CASE decision = "BLOCK" -> "blocked"
                                        [] decision = "REVIEW" -> "review" [] OTHER -> Cleared(c.rec)]
  IN IF decision = "BLOCK" THEN Queue(next, at, n) ELSE next

\* reviewRevision covers the record, its jobs and its retention controls.
ReviewRevision(c) == <<c.rec, c.jobs, c.minimum, c.holds, c.released, c.request>>

MayDecide(c, revision, at, outcome) ==
  /\ Retained(c) /\ ReviewRevision(c) = revision
  /\ at >= c.rec.decided
  /\ outcome = "cleared" => Unconfirmed(c) = {}
  /\ outcome = "blocked" => MayQueue(c, at)

Decided(c, at, outcome, n) ==
  LET next == [c EXCEPT !.rec.decided = at, !.rec.decisions = @ + 1,
                        !.rec.state = IF outcome = "cleared" THEN Cleared(c.rec) ELSE "blocked"]
  IN IF outcome = "blocked" THEN Queue(next, at, n) ELSE next

(***************************************************************************)
(* Revocation jobs.                                                        *)
(***************************************************************************)
\* Faulty variant: only records that a screening or a review blocked.
RecoverDecided(c, at, n) ==
  IF Retained(c) /\ c.rec.state = "blocked" /\ c.rec.decisions > 0 /\ c.jobs = << >> THEN Queue(c, at, n) ELSE c

\* recoverBlockedRevocations
Recovered(c, at, n) ==
  IF Retained(c) /\ c.rec.state = "blocked" /\ c.jobs = << >> THEN Queue(c, at, n) ELSE c

MayPrepareJob(c, i, tx) == c.jobs[i].state # "confirmed" /\ c.jobs[i].tx \in {NoTx, tx}

PrepareJob(c, i, tx) == [c EXCEPT !.jobs[i].tx = tx, !.jobs[i].state = "prepared"]

FinishJob(c, i) == [c EXCEPT !.jobs[i].state = "confirmed"]

\* Faulty variant: an unknown outcome is forgotten like a mined revert.
FailAndForget(c, i, minedRevert) == [c EXCEPT !.jobs[i].state = "pending", !.jobs[i].tx = NoTx]

\* failRevocation: only a mined revert gives the signature up.
FailJob(c, i, minedRevert) ==
  IF minedRevert THEN [c EXCEPT !.jobs[i].state = "pending", !.jobs[i].tx = NoTx] ELSE c

\* recordRevocationObservation, for the job the checker had read.
MayRecordObservation(c, i, job) == Len(c.jobs) >= i /\ c.jobs[i] = job /\ job.tx # NoTx

ObserveJob(c, i, seen) == [c EXCEPT !.jobs[i].seen = seen]

(***************************************************************************)
(* Retention and deletion.                                                 *)
(***************************************************************************)
MayExtend(c, until) == Retained(c) /\ until > Deadline(c)

ExtendRetention(c, until) == [c EXCEPT !.minimum = until]

MayHold(c, hold) == Retained(c) /\ hold \notin c.holds \cup c.released

PlaceHold(c, hold) == [c EXCEPT !.holds = @ \cup {hold}]

MayRelease(c, hold) == Retained(c) /\ hold \in c.holds

ReleaseHold(c, hold) == [c EXCEPT !.holds = @ \ {hold}, !.released = @ \cup {hold}]

\* safetyBlockers, the deadline apart.
SafeToDelete(c) ==
  /\ c.holds = {}
  /\ c.rec.state \notin {"pending", "review"}
  /\ Unconfirmed(c) = {}
  /\ c.rec.state = "blocked" => ConfirmedJobs(c) # {}

DeletionFingerprint(c) == <<c.rec, c.minimum, c.holds, c.released, c.jobs>>

\* The service decision must be what the vault can show.
Supported(c, disposition) ==
  /\ disposition = "source-revoked" => ConfirmedJobs(c) # {}
  /\ disposition = "not-issued" => c.rec.state = "rejected"
  /\ c.rec.state = "blocked" => disposition = "source-revoked"

MayRequestDeletion(c, disposition) == Retained(c) /\ SafeToDelete(c) /\ Supported(c, disposition)

RequestDeletion(c, operator, automatic) ==
  [c EXCEPT !.request = [fingerprint |-> DeletionFingerprint(c), operator |-> operator,
                         automatic |-> automatic, approved |-> FALSE]]

Current(c) == c.request # NoDeletion /\ c.request.fingerprint = DeletionFingerprint(c)

MayApprove(c, operator) ==
  /\ Retained(c) /\ Current(c) /\ ~c.request.approved /\ c.request.operator # operator
  /\ SafeToDelete(c)

ApproveDeletion(c) == [c EXCEPT !.request.approved = TRUE]

\* Faulty variant: an approval outlives what it approved.
EraseApprovedOnly(c, now) ==
  /\ Retained(c) /\ c.request # NoDeletion /\ c.request.approved
  /\ SafeToDelete(c) /\ now >= Deadline(c)

\* deletionBlockers is empty.
MayErase(c, now) ==
  /\ Retained(c) /\ Current(c) /\ c.request.approved
  /\ SafeToDelete(c) /\ now >= Deadline(c)

\* The controls, the tombstone and the confirmed jobs stay.
Erased(c) == [c EXCEPT !.rec = NoRecord, !.erased = TRUE]

\* purgeExpired
Purged(c, now) == IF MayErase(c, now) /\ c.request.automatic THEN Erased(c) ELSE c
=============================================================================
