-------------------------- MODULE RescreeningProof --------------------------
(***************************************************************************)
(* The vault's file under the rescreen run, the issuance callbacks, the    *)
(* reviewers, the deletion workflow, backups and crashes, proved: a block  *)
(* stands, an erasure is agreed and final, a revocation that was sent is   *)
(* kept, and a drained outbox means revoked.  For any number of records,   *)
(* operators, holds, lists and faults.                                     *)
(***************************************************************************)
EXTENDS Rescreening, FiniteSetTheorems, FunctionTheorems, SequenceTheorems, TLAPS

-----------------------------------------------------------------------------
(***************************************************************************)
(* The inductive invariant.                                                *)
(***************************************************************************)
JobStates == {"pending", "prepared", "confirmed"}
Seen == {"none", "ENFORCED", "SUPERSEDED", "AWAITING_HUB"}

Jobs == [at : Int, n : Int, state : JobStates, tx : Revocations \cup {NoTx}, seen : Seen]

Requests ==
  [fingerprint : (VaultRecords \cup {NoRecord}) \X Int \X (SUBSET Holds) \X (SUBSET Holds) \X Seq(Jobs),
   operator : Operators, automatic : BOOLEAN, approved : BOOLEAN]

Cases ==
  [rec : VaultRecords \cup {NoRecord}, jobs : Seq(Jobs), minimum : Int, holds : SUBSET Holds,
   released : SUBSET Holds, request : Requests \cup {NoDeletion}, erased : BOOLEAN]

Quiet == {"idle", "recover", "select", "lists", "screen", "deliver", "end"}
Busy == {"sign", "receipt", "broadcast", "wait"}

RunStates ==
  [pc : Quiet \cup Busy, now : Int, last : BOOLEAN, queue : Seq(Records \X Nat),
   expected : [Records -> VaultRecords \cup {NoRecord}], list : Int]

Checks == [rec : Records, i : Nat \ {0}, job : Jobs, seen : Seen]

RescreenShape ==
  /\ file \in [Records -> Cases] /\ backup \in [Records -> Cases] \cup {NoCase}
  /\ run \in RunStates /\ check \in Checks \cup {NoJob} /\ (review # NoCase => review.rec \in Records)
  /\ pool \subseteq Revocations /\ sent \subseteq Revocations
  /\ events \in [Records -> Seq(Revocations \cup {IssueTx})]
  /\ nonce \in Int /\ list \in Int /\ time \in Int

\* What the cases of a file say, when the source's events are ev: a signature is of the
\* record it is kept with, and a confirmed one was mined; there is no record only before
\* the first and after an erasure.
Enacted(t, ev) == \E n \in 1 .. Len(ev[t.rec]) : ev[t.rec][n] = t

JobFits(r, job, ev) ==
  /\ job.tx # NoTx => job.tx.rec = r
  /\ job.state = "confirmed" => job.tx # NoTx /\ Enacted(job.tx, ev)

Whole(c) == Retained(c) \/ c.erased \/ c = NewCase

CaseFits(r, c, ev) == Whole(c) /\ \A i \in DOMAIN c.jobs : JobFits(r, c.jobs[i], ev)

FileFits(f, ev) == \A r \in Records : CaseFits(r, f[r], ev)

\* The run's queue names jobs of the file; while it sends one, that one is signed and open.
RunFits ==
  run.pc \in Busy =>
    /\ run.queue # << >>
    /\ \A k \in DOMAIN run.queue : run.queue[k][2] \in DOMAIN file[run.queue[k][1]].jobs
    /\ run.pc # "sign" => JobTx # NoTx
    /\ run.pc = "broadcast" => JobCase.jobs[Job[2]].state # "confirmed"

RescreenInv ==
  /\ RescreenShape /\ FileFits(file, events) /\ (backup # NoCase => FileFits(backup, events))
  /\ RunFits /\ SentIsRetained

-----------------------------------------------------------------------------
(***************************************************************************)
(* Cases.                                                                  *)
(***************************************************************************)

\* The jobs of c go on in d: each keeps its signature and its state, and what was added
\* is neither signed nor confirmed.
GoesOn(c, d) ==
  /\ Len(d.jobs) >= Len(c.jobs)
  /\ \A i \in DOMAIN c.jobs : d.jobs[i].tx = c.jobs[i].tx /\ d.jobs[i].state = c.jobs[i].state
  /\ \A i \in DOMAIN d.jobs \ DOMAIN c.jobs : d.jobs[i].tx = NoTx /\ d.jobs[i].state = "pending"

\* What becomes of a record: it stays blocked unless a reviewer of it lets it go, it is
\* erased as agreed, and an erased one does not return.
Lawful(r, c, d) ==
  /\ Retained(c) /\ c.rec.state = "blocked" /\ Retained(d) /\ d.rec.state # "blocked" =>
       review # NoCase /\ review.rec = r /\ Unconfirmed(c) = {}
  /\ Retained(c) /\ ~Retained(d) =>
       /\ time >= Deadline(c) /\ c.holds = {} /\ Unconfirmed(c) = {}
       /\ c.request.approved
       /\ c.request.fingerprint = <<c.rec, c.minimum, c.holds, c.released, c.jobs>>
  /\ Retained(d) /\ ~Retained(c) => ~c.erased
  /\ Whole(d)

\* A new case that changes no job.
LEMMA SameJobs == \A c, d : d.jobs = c.jobs /\ c \in Cases => GoesOn(c, d)
<1> SUFFICES ASSUME NEW c \in Cases, NEW d, d.jobs = c.jobs PROVE GoesOn(c, d)
  OBVIOUS
<1>1. c.jobs \in Seq(Jobs)
  BY DEF Cases
<1> QED
  BY <1>1 DEF GoesOn

LEMMA NoChange ==
  ASSUME NEW r \in Records, NEW c \in Cases, Whole(c) PROVE GoesOn(c, c) /\ Lawful(r, c, c)
BY SameJobs DEF Whole, Lawful

\* queueRevocation
LEMMA QueueFits ==
  ASSUME NEW c \in Cases, NEW at \in Int, NEW n \in Int
  PROVE  /\ Queue(c, at, n) \in Cases /\ GoesOn(c, Queue(c, at, n))
         /\ Queue(c, at, n).rec = c.rec /\ Queue(c, at, n).erased = c.erased
<1>1. CASE Unconfirmed(c) # {}
  BY <1>1, SameJobs DEF Queue
<1>2. CASE Unconfirmed(c) = {}
  <2> DEFINE job == [at |-> at, n |-> n, state |-> "pending", tx |-> NoTx, seen |-> "none"]
  <2>1. job \in Jobs /\ job.state = "pending" /\ job.tx = NoTx
    BY DEF Jobs, JobStates, Seen
  <2>2. Queue(c, at, n) = [c EXCEPT !.jobs = Append(c.jobs, job)]
    BY <1>2 DEF Queue
  <2> HIDE DEF job
  <2>3. c.jobs \in Seq(Jobs)
    BY DEF Cases
  <2>4. /\ Append(c.jobs, job) \in Seq(Jobs) /\ Len(Append(c.jobs, job)) = Len(c.jobs) + 1
        /\ \A i \in 1 .. Len(c.jobs) : Append(c.jobs, job)[i] = c.jobs[i]
        /\ Append(c.jobs, job)[Len(c.jobs) + 1] = job
    BY <2>1, <2>3, AppendProperties
  <2> DEFINE d == Queue(c, at, n)
  <2>5. d \in Cases /\ d.jobs = Append(c.jobs, job) /\ d.rec = c.rec /\ d.erased = c.erased
    BY <2>2, <2>4 DEF Cases
  <2>6. DOMAIN c.jobs = 1 .. Len(c.jobs) /\ DOMAIN d.jobs = 1 .. (Len(c.jobs) + 1) /\ Len(c.jobs) \in Nat
    BY <2>3, <2>4, <2>5, LenProperties
  <2> HIDE DEF d
  <2>7. GoesOn(c, d)
    BY <2>1, <2>4, <2>5, <2>6 DEF GoesOn
  <2> QED
    BY <2>5, <2>7 DEF d
<1> QED
  BY <1>1, <1>2

\* The record of a case.
LEMMA RecordOf ==
  ASSUME NEW c \in Cases, Retained(c) PROVE c.rec \in VaultRecords /\ c.rec # NoRecord
BY DEF Cases, Retained

\* Any change of a record's fields, by its new state.
LEMMA NewRecord ==
  ASSUME NEW r, NEW c, NEW d, d.rec \in VaultRecords,
         \/ c.rec.state # "blocked" \/ d.rec.state = "blocked"
         \/ review # NoCase /\ review.rec = r /\ Unconfirmed(c) = {},
         Retained(c)
  PROVE  Lawful(r, c, d)
BY RescreenAssumption DEF Retained, Lawful, Whole

\* put
LEMMA PutFits ==
  ASSUME NEW r \in Records, NEW c \in Cases, Whole(c), MayPut(c),
         NEW outcome, NEW at \in Int, NEW until \in Int
  PROVE  Put(c, outcome, at, until) \in Cases /\ GoesOn(c, Put(c, outcome, at, until))
         /\ Lawful(r, c, Put(c, outcome, at, until))
<1>1. CASE Retained(c)
  BY <1>1, NoChange DEF Put
<1>2. CASE ~Retained(c)
  <2> DEFINE new == [state |-> PutState(outcome), src |-> NoTx, hub |-> FALSE, until |-> until,
                     screened |-> IF PutState(outcome) = "rejected" THEN 0 ELSE at, list |-> 0,
                     decided |-> at, decisions |-> 0]
             d == Put(c, outcome, at, until)
  <2>1. new \in VaultRecords
    BY DEF VaultRecords, VaultStates, PutState
  <2>2. d = [c EXCEPT !.rec = new]
    BY <1>2 DEF Put
  <2> HIDE DEF new
  <2>3. d \in Cases /\ d.jobs = c.jobs /\ d.rec = new
    BY <2>1, <2>2 DEF Cases
  <2>4. Retained(d) /\ ~c.erased
    BY <2>1, <2>3, RescreenAssumption DEF Retained, MayPut
  <2> HIDE DEF d
  <2>5. GoesOn(c, d) /\ Lawful(r, c, d)
    BY <1>2, <2>3, <2>4, SameJobs DEF Lawful, Whole
  <2> QED
    BY <2>3, <2>5 DEF d
<1> QED
  BY <1>1, <1>2

\* recordSourceConfirmation and recordMaterialization
LEMMA ObservedFits ==
  ASSUME NEW r \in Records, NEW c \in Cases, Retained(c),
         NEW rec \in {SourceObserved(c.rec, IssueTx), HubObserved(c.rec)},
         NEW d, d = [c EXCEPT !.rec = rec]
  PROVE  d \in Cases /\ GoesOn(c, d) /\ Lawful(r, c, d)
<1>1. c.rec \in VaultRecords
  BY RecordOf
<1>2. rec \in VaultRecords /\ (c.rec.state = "blocked" => rec.state = "blocked")
  <2>1. CASE rec = SourceObserved(c.rec, IssueTx)
    BY <1>1, <2>1 DEF VaultRecords, SourceObserved
  <2>2. CASE rec = HubObserved(c.rec)
    BY <1>1, <2>2 DEF VaultRecords, HubObserved, VaultStates
  <2> QED
    BY <2>1, <2>2
<1>3. d \in Cases /\ d.jobs = c.jobs /\ d.rec = rec
  BY <1>2 DEF Cases
<1>4. d.rec \in VaultRecords /\ (c.rec.state = "blocked" => d.rec.state = "blocked")
  BY <1>2, <1>3
<1>5. GoesOn(c, d)
  BY <1>3, SameJobs
<1>6. Lawful(r, c, d)
  BY <1>4, NewRecord
<1> QED
  BY <1>3, <1>5, <1>6

\* A record after a decision.
LEMMA NextRecord ==
  ASSUME NEW rec \in VaultRecords, NEW at \in Int, NEW state \in VaultStates
  PROVE  /\ [rec EXCEPT !.decided = at, !.decisions = rec.decisions + 1, !.state = state] \in VaultRecords
         /\ \A l \in Int : [rec EXCEPT !.screened = at, !.list = l, !.decided = at,
                            !.decisions = rec.decisions + 1, !.state = state] \in VaultRecords
<1>1. rec = [state |-> rec.state, src |-> rec.src, hub |-> rec.hub, until |-> rec.until,
             screened |-> rec.screened, list |-> rec.list, decided |-> rec.decided,
             decisions |-> rec.decisions]
  BY DEF VaultRecords
<1>2. rec.decisions + 1 \in Int
  BY DEF VaultRecords
<1>3. [rec EXCEPT !.decided = at, !.decisions = rec.decisions + 1, !.state = state] \in VaultRecords
  BY <1>2 DEF VaultRecords
<1> QED
  BY <1>2, <1>3 DEF VaultRecords

LEMMA ClearedState == \A rec : Cleared(rec) \in VaultStates
BY DEF Cleared, VaultStates

\* recordRescreen
LEMMA RescreenedFits ==
  ASSUME NEW r \in Records, NEW c \in Cases, NEW expected, NEW at \in Int, NEW decision, NEW l \in Int,
         NEW n \in Int, MayRescreen(c, expected, at)
  PROVE  LET d == Rescreened(c, at, decision, l, n)
         IN  d \in Cases /\ GoesOn(c, d) /\ Lawful(r, c, d)
<1> DEFINE state == CASE decision = "BLOCK" -> "blocked" [] decision = "REVIEW" -> "review" [] OTHER -> Cleared(c.rec)
           next == [c EXCEPT !.rec.screened = at, !.rec.list = l, !.rec.decided = at,
                             !.rec.decisions = @ + 1, !.rec.state = state]
           d == Rescreened(c, at, decision, l, n)
<1>1. d = IF decision = "BLOCK" THEN Queue(next, at, n) ELSE next
  BY DEF Rescreened
<1>2. Retained(c) /\ c.rec \in VaultRecords /\ c.rec.state # "blocked"
  BY RecordOf DEF MayRescreen
<1>3. state \in VaultStates
  BY ClearedState DEF VaultStates
<1> HIDE DEF state
<1>4. next.rec \in VaultRecords /\ next \in Cases /\ next.jobs = c.jobs
  <2>1. next = [c EXCEPT !.rec = [c.rec EXCEPT !.screened = at, !.list = l, !.decided = at,
                                 !.decisions = c.rec.decisions + 1, !.state = state]]
    BY <1>2 DEF Cases, VaultRecords
  <2>2. [c.rec EXCEPT !.screened = at, !.list = l, !.decided = at,
                      !.decisions = c.rec.decisions + 1, !.state = state] \in VaultRecords
    BY <1>2, <1>3, NextRecord
  <2> DEFINE rec == [c.rec EXCEPT !.screened = at, !.list = l, !.decided = at,
                                  !.decisions = c.rec.decisions + 1, !.state = state]
  <2> HIDE DEF next, rec
  <2>3. next = [c EXCEPT !.rec = rec] /\ rec \in VaultRecords
    BY <2>1, <2>2 DEF rec
  <2> QED
    BY <2>3 DEF Cases
<1> HIDE DEF next
<1>5. d \in Cases /\ d.rec = next.rec /\ GoesOn(c, d)
  <2>1. GoesOn(next, Queue(next, at, n)) => GoesOn(c, Queue(next, at, n))
    BY <1>4 DEF GoesOn
  <2> QED
    BY <1>1, <1>4, <2>1, QueueFits, SameJobs
<1> HIDE DEF d
<1>6. Lawful(r, c, d)
  BY <1>2, <1>4, <1>5, NewRecord
<1> QED
  BY <1>5, <1>6 DEF d

\* decideReview
LEMMA DecidedFits ==
  ASSUME NEW r \in Records, NEW c \in Cases, NEW revision, NEW at \in Int, NEW outcome \in {"cleared", "blocked"},
         NEW n \in Int, MayDecide(c, revision, at, outcome), review # NoCase, review.rec = r
  PROVE  LET d == Decided(c, at, outcome, n)
         IN  d \in Cases /\ GoesOn(c, d) /\ Lawful(r, c, d)
<1> DEFINE state == IF outcome = "cleared" THEN Cleared(c.rec) ELSE "blocked"
           next == [c EXCEPT !.rec.decided = at, !.rec.decisions = @ + 1, !.rec.state = state]
           d == Decided(c, at, outcome, n)
<1>1. d = IF outcome = "blocked" THEN Queue(next, at, n) ELSE next
  BY DEF Decided
<1>2. /\ Retained(c) /\ c.rec \in VaultRecords
      /\ outcome = "cleared" => Unconfirmed(c) = {}
  BY RecordOf DEF MayDecide
<1>3. state \in VaultStates /\ (outcome = "blocked" => state = "blocked")
  BY ClearedState DEF VaultStates
<1> HIDE DEF state
<1>4. next.rec \in VaultRecords /\ next \in Cases /\ next.jobs = c.jobs /\ next.rec.state = state
  <2>1. next = [c EXCEPT !.rec = [c.rec EXCEPT !.decided = at,
                                 !.decisions = c.rec.decisions + 1, !.state = state]]
    BY <1>2 DEF Cases, VaultRecords
  <2>2. [c.rec EXCEPT !.decided = at, !.decisions = c.rec.decisions + 1, !.state = state] \in VaultRecords
    BY <1>2, <1>3, NextRecord
  <2>3. [c.rec EXCEPT !.decided = at, !.decisions = c.rec.decisions + 1, !.state = state].state = state
    BY <1>2 DEF VaultRecords
  <2> DEFINE rec == [c.rec EXCEPT !.decided = at, !.decisions = c.rec.decisions + 1, !.state = state]
  <2> HIDE DEF next, rec
  <2>4. next = [c EXCEPT !.rec = rec] /\ rec \in VaultRecords /\ rec.state = state
    BY <2>1, <2>2, <2>3 DEF rec
  <2> QED
    BY <2>4 DEF Cases
<1> HIDE DEF next
<1>5. d \in Cases /\ d.rec = next.rec /\ GoesOn(c, d)
  <2>1. GoesOn(next, Queue(next, at, n)) => GoesOn(c, Queue(next, at, n))
    BY <1>4 DEF GoesOn
  <2> QED
    BY <1>1, <1>4, <2>1, QueueFits, SameJobs
<1> HIDE DEF d
<1>6. d.rec \in VaultRecords /\ (d.rec.state = "blocked" \/ Unconfirmed(c) = {})
  BY <1>2, <1>3, <1>4, <1>5
<1>7. Lawful(r, c, d)
  BY <1>2, <1>6, NewRecord
<1> QED
  BY <1>5, <1>7 DEF d

\* The operator's commands and what a checker records: the record and its jobs' signatures stay.
LEMMA ControlsFit ==
  ASSUME NEW r \in Records, NEW c \in Cases, Retained(c), NEW d \in Cases, d.rec = c.rec, d.jobs = c.jobs
  PROVE  GoesOn(c, d) /\ Lawful(r, c, d)
<1>1. GoesOn(c, d)
  BY SameJobs
<1>2. d.rec \in VaultRecords /\ (c.rec.state # "blocked" \/ d.rec.state = "blocked")
  BY RecordOf
<1> QED
  BY <1>1, <1>2, NewRecord

LEMMA AdminFits ==
  ASSUME NEW r \in Records, NEW c \in Cases, Retained(c), NEW d,
         \/ \E until \in Int : d = ExtendRetention(c, until)
         \/ \E h \in Holds : d = PlaceHold(c, h) \/ d = ReleaseHold(c, h)
         \/ \E o \in Operators, a \in BOOLEAN : d = RequestDeletion(c, o, a)
         \/ c.request # NoDeletion /\ d = ApproveDeletion(c)
  PROVE  d \in Cases /\ GoesOn(c, d) /\ Lawful(r, c, d)
<1>1. d \in Cases /\ d.rec = c.rec /\ d.jobs = c.jobs
  <2>1. CASE \E until \in Int : d = ExtendRetention(c, until)
    BY <2>1 DEF ExtendRetention, Cases
  <2>2. ASSUME NEW h \in Holds, d = PlaceHold(c, h) PROVE d \in Cases /\ d.rec = c.rec /\ d.jobs = c.jobs
    BY <2>2 DEF PlaceHold, Cases
  <2>3. ASSUME NEW h \in Holds, d = ReleaseHold(c, h) PROVE d \in Cases /\ d.rec = c.rec /\ d.jobs = c.jobs
    BY <2>3 DEF ReleaseHold, Cases
  <2>4. ASSUME NEW o \in Operators, NEW a \in BOOLEAN, d = RequestDeletion(c, o, a)
        PROVE  d \in Cases /\ d.rec = c.rec /\ d.jobs = c.jobs
    <3> DEFINE asked == [fingerprint |-> DeletionFingerprint(c), operator |-> o, automatic |-> a, approved |-> FALSE]
    <3>1. asked \in Requests
      <4>1. /\ c.rec \in VaultRecords \cup {NoRecord} /\ c.minimum \in Int /\ c.holds \in SUBSET Holds
            /\ c.released \in SUBSET Holds /\ c.jobs \in Seq(Jobs)
        BY DEF Cases
      <4>2. <<c.rec, c.minimum, c.holds, c.released, c.jobs>> \in
              (VaultRecords \cup {NoRecord}) \X Int \X (SUBSET Holds) \X (SUBSET Holds) \X Seq(Jobs)
        BY <4>1
      <4> QED
        BY <4>2 DEF Requests, DeletionFingerprint
    <3>2. d = [c EXCEPT !.request = asked]
      BY <2>4 DEF RequestDeletion
    <3> HIDE DEF asked
    <3> QED
      BY <3>1, <3>2 DEF Cases
  <2>5. ASSUME c.request # NoDeletion, d = ApproveDeletion(c)
        PROVE  d \in Cases /\ d.rec = c.rec /\ d.jobs = c.jobs
    <3> DEFINE agreed == [c.request EXCEPT !.approved = TRUE]
    <3>1. agreed \in Requests
      BY <2>5 DEF Requests, Cases
    <3>2. d = [c EXCEPT !.request = agreed]
      BY <2>5 DEF ApproveDeletion
    <3> HIDE DEF agreed
    <3> QED
      BY <3>1, <3>2 DEF Cases
  <2> QED
    BY <2>1, <2>2, <2>3, <2>4, <2>5
<1> QED
  BY <1>1, ControlsFit

\* An erasure, and a purge of those that are due
LEMMA ErasedFits ==
  ASSUME NEW r \in Records, NEW c \in Cases, MayErase(c, time)
  PROVE  Erased(c) \in Cases /\ GoesOn(c, Erased(c)) /\ Lawful(r, c, Erased(c))
<1>1. /\ Erased(c) \in Cases /\ Erased(c).jobs = c.jobs /\ ~Retained(Erased(c)) /\ Erased(c).erased
  BY DEF Erased, Cases, Retained
<1>2. Lawful(r, c, Erased(c))
  BY <1>1 DEF Lawful, Whole, MayErase, SafeToDelete, Current, DeletionFingerprint
<1> QED
  BY <1>1, <1>2, SameJobs

\* One job of a case is replaced.
LEMMA JobReplaced ==
  ASSUME NEW r \in Records, NEW c \in Cases, Whole(c), NEW i \in DOMAIN c.jobs, NEW job \in Jobs,
         NEW d, d = [c EXCEPT !.jobs = [c.jobs EXCEPT ![i] = job]]
  PROVE  /\ d \in Cases /\ Lawful(r, c, d) /\ DOMAIN d.jobs = DOMAIN c.jobs
         /\ d.jobs[i] = job /\ \A j \in DOMAIN c.jobs \ {i} : d.jobs[j] = c.jobs[j]
         /\ Len(d.jobs) = Len(c.jobs) /\ DOMAIN c.jobs = 1 .. Len(c.jobs)
<1> DEFINE js == [c.jobs EXCEPT ![i] = job]
<1>1. c.jobs \in Seq(Jobs) /\ DOMAIN c.jobs = 1 .. Len(c.jobs)
  BY DEF Cases
<1>2. /\ js \in Seq(Jobs) /\ Len(js) = Len(c.jobs)
      /\ \A j \in 1 .. Len(c.jobs) : js[j] = IF j = i THEN job ELSE c.jobs[j]
  BY <1>1, ExceptSeq
<1> HIDE DEF js
<1>3. d = [c EXCEPT !.jobs = js]
  BY DEF js
<1>4. d \in Cases /\ d.jobs = js /\ d.rec = c.rec /\ d.erased = c.erased
  BY <1>2, <1>3 DEF Cases
<1>5. DOMAIN js = 1 .. Len(js)
  BY <1>2, LenProperties
<1>6. CASE Retained(c)
  <2>1. d.rec \in VaultRecords /\ (c.rec.state # "blocked" \/ d.rec.state = "blocked")
    BY <1>4, <1>6, RecordOf
  <2>2. Lawful(r, c, d)
    BY <1>6, <2>1, NewRecord
  <2> QED
    BY <1>1, <1>2, <1>4, <1>5, <2>2
<1>7. CASE ~Retained(c)
  <2>1. c # NewCase
    BY <1>1 DEF NewCase
  <2>2. Lawful(r, c, d)
    BY <1>4, <1>7, <2>1 DEF Lawful, Whole, Retained
  <2> QED
    BY <1>1, <1>2, <1>4, <1>5, <2>2
<1> QED
  BY <1>6, <1>7

\* recordRevocationObservation
LEMMA ObservationFits ==
  ASSUME NEW r \in Records, NEW c \in Cases, Whole(c), NEW i \in DOMAIN c.jobs, NEW seen \in Seen
  PROVE  ObserveJob(c, i, seen) \in Cases /\ GoesOn(c, ObserveJob(c, i, seen))
         /\ Lawful(r, c, ObserveJob(c, i, seen))
<1> DEFINE job == [c.jobs[i] EXCEPT !.seen = seen]
           d == ObserveJob(c, i, seen)
<1>1. c.jobs[i] \in Jobs
  BY DEF Cases
<1>2. job \in Jobs /\ job.tx = c.jobs[i].tx /\ job.state = c.jobs[i].state
  BY <1>1 DEF Jobs
<1>3. d = [c EXCEPT !.jobs = [c.jobs EXCEPT ![i] = job]]
  BY DEF ObserveJob, Cases
<1> HIDE DEF job, d
<1>4. job \in Jobs
  BY <1>2
<1>5. /\ d \in Cases /\ Lawful(r, c, d) /\ DOMAIN d.jobs = DOMAIN c.jobs
      /\ d.jobs[i] = job /\ \A j \in DOMAIN c.jobs \ {i} : d.jobs[j] = c.jobs[j]
      /\ Len(d.jobs) = Len(c.jobs)
  BY <1>3, <1>4, JobReplaced
<1>6. Len(c.jobs) \in Nat
  BY DEF Cases
<1>7. GoesOn(c, d)
  BY <1>2, <1>5, <1>6 DEF GoesOn
<1> QED
  BY <1>5, <1>7 DEF d

\* recoverBlockedRevocations
LEMMA RecoveredFits ==
  ASSUME NEW r \in Records, NEW c \in Cases, Whole(c), NEW at \in Int, NEW n \in Int
  PROVE  Recovered(c, at, n) \in Cases /\ GoesOn(c, Recovered(c, at, n)) /\ Lawful(r, c, Recovered(c, at, n))
<1>1. CASE Retained(c) /\ c.rec.state = "blocked" /\ c.jobs = << >>
  <2> DEFINE d == Queue(c, at, n)
  <2>1. d \in Cases /\ GoesOn(c, d) /\ d.rec = c.rec
    BY QueueFits
  <2> HIDE DEF d
  <2>2. d.rec \in VaultRecords /\ (c.rec.state # "blocked" \/ d.rec.state = "blocked")
    BY <1>1, <2>1, RecordOf
  <2>3. Lawful(r, c, d)
    BY <1>1, <2>2, NewRecord
  <2> QED
    BY <1>1, <2>1, <2>3 DEF Recovered, d
<1>2. CASE ~(Retained(c) /\ c.rec.state = "blocked" /\ c.jobs = << >>)
  BY <1>2, NoChange DEF Recovered
<1> QED
  BY <1>1, <1>2

\* purgeExpired
LEMMA PurgedFits ==
  ASSUME NEW r \in Records, NEW c \in Cases, Whole(c)
  PROVE  Purged(c, time) \in Cases /\ GoesOn(c, Purged(c, time)) /\ Lawful(r, c, Purged(c, time))
BY NoChange, ErasedFits DEF Purged

-----------------------------------------------------------------------------
(***************************************************************************)
(* The file.                                                               *)
(***************************************************************************)
Logs == [Records -> Seq(Revocations \cup {IssueTx})]

\* The source only adds to what it has.
Grows(ev, next) ==
  \A r \in Records : Len(next[r]) >= Len(ev[r]) /\ \A n \in 1 .. Len(ev[r]) : next[r][n] = ev[r][n]

LEMMA EnactedStays ==
  ASSUME NEW ev \in Logs, NEW next \in Logs, Grows(ev, next), NEW t \in Revocations, Enacted(t, ev)
  PROVE  Enacted(t, next)
<1>1. t.rec \in Records
  BY DEF Revocations
<1>2. PICK n \in 1 .. Len(ev[t.rec]) : ev[t.rec][n] = t
  BY DEF Enacted
<1>3. Len(ev[t.rec]) \in Nat /\ Len(next[t.rec]) \in Nat
  BY <1>1 DEF Logs
<1> QED
  BY <1>1, <1>2, <1>3 DEF Enacted, Grows

LEMMA CaseGoesOn ==
  ASSUME NEW ev \in Logs, NEW next \in Logs, Grows(ev, next),
         NEW r \in Records, NEW c \in Cases, CaseFits(r, c, ev), NEW d \in Cases, GoesOn(c, d), Whole(d)
  PROVE  CaseFits(r, d, next)
<1> SUFFICES ASSUME NEW i \in DOMAIN d.jobs PROVE JobFits(r, d.jobs[i], next)
  BY DEF CaseFits
<1>1. CASE i \in DOMAIN c.jobs
  <2>1. d.jobs[i].tx = c.jobs[i].tx /\ d.jobs[i].state = c.jobs[i].state /\ JobFits(r, c.jobs[i], ev)
    BY <1>1 DEF GoesOn, CaseFits
  <2>2. c.jobs[i].tx \in Revocations \cup {NoTx}
    <3>1. c.jobs \in Seq(Jobs)
      BY DEF Cases
    <3>2. c.jobs[i] \in Jobs
      BY <1>1, <3>1
    <3> QED
      BY <3>2 DEF Jobs
  <2> QED
    BY <2>1, <2>2, EnactedStays DEF JobFits
<1>2. CASE i \notin DOMAIN c.jobs
  BY <1>2 DEF GoesOn, JobFits
<1> QED
  BY <1>1, <1>2

LEMMA FileGoesOn ==
  ASSUME NEW ev \in Logs, NEW next \in Logs, Grows(ev, next),
         NEW f \in [Records -> Cases], FileFits(f, ev), NEW g \in [Records -> Cases],
         \A r \in Records : GoesOn(f[r], g[r]) /\ Whole(g[r])
  PROVE  FileFits(g, next)
BY CaseGoesOn DEF FileFits

\* Nothing has happened to the file yet, but to the source.
LEMMA FileStays ==
  ASSUME NEW ev \in Logs, NEW next \in Logs, Grows(ev, next), NEW f \in [Records -> Cases], FileFits(f, ev)
  PROVE  FileFits(f, next)
<1>1. \A r \in Records : GoesOn(f[r], f[r]) /\ Whole(f[r])
  BY SameJobs DEF FileFits, CaseFits
<1> QED
  BY <1>1, FileGoesOn

\* The parts of the state that no invariant but the types speaks of
OtherTypes ==
  /\ run \in RunStates /\ check \in Checks \cup {NoJob} /\ (review # NoCase => review.rec \in Records)
  /\ pool \subseteq Revocations /\ nonce \in Int /\ list \in Int /\ time \in Int

\* The file goes on, and so does the source.
LEMMA InvGoesOn ==
  ASSUME RescreenInv, file' \in [Records -> Cases],
         \A r \in Records : GoesOn(file[r], file'[r]) /\ Lawful(r, file[r], file'[r]),
         events' \in Logs, Grows(events, events'), reverted \subseteq reverted',
         backup' \in {backup, file, NoCase}, UNCHANGED <<sent, rolled>>, OtherTypes', RunFits'
  PROVE  RescreenInv'
<1>1. /\ events \in Logs /\ file \in [Records -> Cases] /\ FileFits(file, events)
      /\ \A r \in Records : Whole(file'[r])
  BY DEF RescreenInv, RescreenShape, Logs, Lawful
<1>2. FileFits(file', events')
  BY <1>1, FileGoesOn
<1>3. RescreenShape'
  BY <1>1 DEF RescreenInv, RescreenShape, OtherTypes, Logs
<1>4. backup' # NoCase => FileFits(backup', events')
  <2>1. FileFits(file, events')
    BY <1>1, FileStays
  <2>2. backup # NoCase => FileFits(backup, events')
    BY <1>1, FileStays DEF RescreenInv, RescreenShape
  <2> QED
    BY <2>1, <2>2
<1>5. SentIsRetained'
  <2> SUFFICES ASSUME ~rolled, NEW t \in sent, ~Mined(t)'
               PROVE  \E i \in Unconfirmed(file'[t.rec]) : file'[t.rec].jobs[i].tx = t
    BY DEF SentIsRetained
  <2>1. t \in Revocations /\ t.rec \in Records
    BY DEF RescreenInv, RescreenShape, Revocations
  <2>2. ~Mined(t)
    <3>1. Enacted(t, events) => Enacted(t, events')
      BY <1>1, <2>1, EnactedStays
    <3> QED
      BY <3>1 DEF Mined, Enacted
  <2>3. PICK i \in Unconfirmed(file[t.rec]) : file[t.rec].jobs[i].tx = t
    BY <2>2 DEF RescreenInv, SentIsRetained
  <2>4. /\ Len(file'[t.rec].jobs) \in Nat /\ Len(file[t.rec].jobs) \in Nat
        /\ DOMAIN file[t.rec].jobs = 1 .. Len(file[t.rec].jobs)
    BY <1>1, <2>1 DEF Cases
  <2>5. GoesOn(file[t.rec], file'[t.rec])
    BY <2>1
  <2>6. i \in 1 .. Len(file[t.rec].jobs) /\ file[t.rec].jobs[i].state # "confirmed"
    BY <2>3 DEF Unconfirmed
  <2>7. /\ i \in 1 .. Len(file'[t.rec].jobs) /\ file'[t.rec].jobs[i].state # "confirmed"
        /\ file'[t.rec].jobs[i].tx = t
    BY <2>3, <2>4, <2>5, <2>6 DEF GoesOn
  <2> QED
    BY <2>7 DEF Unconfirmed
<1> QED
  BY <1>2, <1>3, <1>4, <1>5 DEF RescreenInv

\* A run that is not at a job asks nothing of the file; one that is keeps its job.
LEMMA RunStays ==
  ASSUME RescreenInv, file' \in [Records -> Cases], \A r \in Records : GoesOn(file[r], file'[r]),
         run' = run \/ run'.pc \in Quiet
  PROVE  RunFits'
<1>1. CASE run'.pc \in Quiet
  BY <1>1 DEF RunFits, Quiet, Busy
<1>2. CASE run' = run /\ run.pc \in Busy
  <2>1. /\ run.queue \in Seq(Records \X Nat) /\ run.queue # << >>
        /\ \A k \in DOMAIN run.queue : run.queue[k][2] \in DOMAIN file[run.queue[k][1]].jobs
        /\ run.pc # "sign" => JobTx # NoTx
        /\ run.pc = "broadcast" => JobCase.jobs[Job[2]].state # "confirmed"
    BY <1>2 DEF RescreenInv, RescreenShape, RunFits, RunStates
  <2>2. \A k \in DOMAIN run.queue : run.queue[k][1] \in Records
    BY <2>1
  <2>3. \A k \in DOMAIN run.queue : run.queue[k][2] \in DOMAIN file'[run.queue[k][1]].jobs
    <3> SUFFICES ASSUME NEW k \in DOMAIN run.queue
                 PROVE  run.queue[k][2] \in DOMAIN file'[run.queue[k][1]].jobs
      OBVIOUS
    <3> DEFINE r == run.queue[k][1]
    <3>1. r \in Records /\ GoesOn(file[r], file'[r])
      BY <2>2
    <3>2. /\ DOMAIN file[r].jobs = 1 .. Len(file[r].jobs) /\ DOMAIN file'[r].jobs = 1 .. Len(file'[r].jobs)
          /\ Len(file[r].jobs) \in Nat /\ Len(file'[r].jobs) \in Nat
      BY <3>1 DEF RescreenInv, RescreenShape, Cases
    <3>3. run.queue[k][2] \in DOMAIN file[r].jobs
      BY <2>1
    <3>4. Len(file'[r].jobs) >= Len(file[r].jobs)
      BY <3>1 DEF GoesOn
    <3> HIDE DEF r
    <3>5. run.queue[k][2] \in DOMAIN file'[r].jobs
      BY <3>2, <3>3, <3>4
    <3> QED
      BY <3>5 DEF r
  <2>4. 1 \in DOMAIN run.queue
    BY <2>1
  <2>5. /\ JobTx' = JobTx /\ JobCase'.jobs[Job[2]].state = JobCase.jobs[Job[2]].state
    <3>1. Job[1] \in Records /\ Job[2] \in DOMAIN file[Job[1]].jobs
      BY <2>1, <2>2, <2>4 DEF Job
    <3> QED
      BY <1>2, <3>1 DEF JobTx, JobCase, Job, GoesOn
  <2> QED
    BY <1>2, <2>1, <2>3, <2>5 DEF RunFits, JobTx, JobCase, Job
<1>3. CASE run' = run /\ run.pc \notin Busy
  BY <1>3 DEF RunFits
<1> QED
  BY <1>1, <1>2, <1>3

-----------------------------------------------------------------------------
(***************************************************************************)
(* Places in the file, and the queue of the run.                           *)
(***************************************************************************)

\* A finite choice of jobs of each record is finite.
LEMMA FinitelyMany ==
  ASSUME NEW f \in [Records -> Cases],
         NEW S,
         S \subseteq {s \in SUBSET (Records \X Nat) : \E r \in Records : s \subseteq {r} \X (DOMAIN f[r].jobs)},
         NEW g \in Surjection(Records, S)
  PROVE  IsFiniteSet(UNION S)
<1>1. \A r \in Records : IsFiniteSet({r} \X (DOMAIN f[r].jobs))
  <2> TAKE r \in Records
  <2>1. f[r].jobs \in Seq(Jobs)
    BY DEF Cases
  <2>2. Len(f[r].jobs) \in Nat /\ DOMAIN f[r].jobs = 1 .. Len(f[r].jobs)
    BY <2>1
  <2>3. IsFiniteSet(1 .. Len(f[r].jobs))
    BY <2>2, FS_Interval
  <2> QED
    BY <2>2, <2>3, FS_Singleton, FS_Product
<1>2. \A s \in S : IsFiniteSet(s)
  <2> TAKE s \in S
  <2>1. PICK r \in Records : s \subseteq {r} \X (DOMAIN f[r].jobs)
    OBVIOUS
  <2>2. IsFiniteSet({r} \X (DOMAIN f[r].jobs))
    BY <1>1
  <2> QED
    BY <2>1, <2>2, FS_Subset
<1>3. IsFiniteSet(S)
  BY RescreenAssumption, FS_Surjection
<1> QED
  BY <1>2, <1>3, FS_UNION

LEMMA JobsAreFinite ==
  ASSUME NEW f \in [Records -> Cases]
  PROVE  IsFiniteSet(UNION {{<<q, i>> : i \in DOMAIN f[q].jobs} : q \in Records})
<1> DEFINE J(q) == {<<q, i>> : i \in DOMAIN f[q].jobs}
           g == [q \in Records |-> J(q)]
           S == {J(q) : q \in Records}
<1>1. g \in Surjection(Records, S)
  <2> HIDE DEF J
  <2>1. g \in [Records -> S] /\ \A t \in S : \E q \in Records : g[q] = t
    OBVIOUS
  <2> QED
    BY <2>1 DEF Surjection
<1>2. S \subseteq {s \in SUBSET (Records \X Nat) : \E r \in Records : s \subseteq {r} \X (DOMAIN f[r].jobs)}
  <2> SUFFICES ASSUME NEW q \in Records
               PROVE  /\ {<<q, i>> : i \in DOMAIN f[q].jobs} \subseteq {q} \X (DOMAIN f[q].jobs)
                      /\ {<<q, i>> : i \in DOMAIN f[q].jobs} \subseteq Records \X Nat
    OBVIOUS
  <2>1. f[q].jobs \in Seq(Jobs)
    BY DEF Cases
  <2>2. DOMAIN f[q].jobs \subseteq Nat
    BY <2>1
  <2> QED
    BY <2>2
<1> HIDE DEF g, S
<1>3. IsFiniteSet(UNION S)
  BY <1>1, <1>2, FinitelyMany
<1> QED
  BY <1>3 DEF S

LEMMA RankIsInt == \A r \in Records : Rank[r] \in Int
<1> DEFINE N == Cardinality(Records)
<1>1. N \in Nat /\ ExistsBijection(1 .. N, Records)
  BY RescreenAssumption, FS_CardinalityType
<1>2. ExistsBijection(Records, 1 .. N)
  BY <1>1, Fun_ExistsBijSymmetric
<1>3. PICK g : g \in Bijection(Records, 1 .. N)
  BY <1>2 DEF ExistsBijection
<1>4. g \in [Records -> 1 .. N] /\ \A r, q \in Records : r # q => g[r] # g[q]
  BY <1>3 DEF Bijection, Injection, IsInjective
<1>5. Rank \in [Records -> 1 .. N]
  BY <1>4 DEF Rank
<1> HIDE DEF N
<1> QED
  BY <1>1, <1>5

LEMMA PlaceIsInt == ASSUME RescreenShape, NEW r \in Records PROVE Place(r) \in Int
<1> DEFINE jobs == UNION {{<<q, i>> : i \in DOMAIN file[q].jobs} : q \in Records}
<1>1. IsFiniteSet(jobs)
  BY JobsAreFinite DEF RescreenShape
<1> HIDE DEF jobs
<1>2. Cardinality(jobs) \in Nat /\ Cardinality(Records) \in Nat
  BY <1>1, RescreenAssumption, FS_CardinalityType
<1>3. Place(r) = Cardinality(jobs) * (Cardinality(Records) + 1) + Rank[r]
  BY DEF Place, jobs
<1> QED
  BY <1>2, <1>3, RankIsInt

\* listPendingRevocations names open jobs of the file.
LEMMA ListedJobs ==
  ASSUME NEW f \in [Records -> Cases], NEW q \in Listed(f)
  PROVE  /\ q \in Seq(Records \X Nat)
         /\ \A k \in DOMAIN q : q[k][2] \in DOMAIN f[q[k][1]].jobs
<1> DEFINE all == UNION {{<<r, i>> : i \in DOMAIN f[r].jobs} : r \in Records}
<1>1. IsFiniteSet(all)
  BY JobsAreFinite
<1>2. \A r \in Records : f[r].jobs \in Seq(Jobs) /\ DOMAIN f[r].jobs = 1 .. Len(f[r].jobs)
  BY DEF Cases
<1>3. Outbox(f) \subseteq all
  BY <1>2 DEF Outbox, Unconfirmed
<1>4. Cardinality(Outbox(f)) \in Nat
  BY <1>1, <1>3, FS_Subset, FS_CardinalityType
<1>5. \A p \in all : p \in Records \X Nat /\ p[2] \in DOMAIN f[p[1]].jobs
  BY <1>2
<1> HIDE DEF all
<1>6. q \in [1 .. Cardinality(Outbox(f)) -> Outbox(f)]
  BY DEF Listed
<1>7. \A k \in DOMAIN q : q[k] \in Records \X Nat /\ q[k][2] \in DOMAIN f[q[k][1]].jobs
  BY <1>3, <1>5, <1>6
<1>8. q \in [1 .. Cardinality(Outbox(f)) -> Records \X Nat]
  BY <1>6, <1>7
<1> QED
  BY <1>4, <1>7, <1>8

\* The loop goes on with jobs of the file.
LEMMA OnwardFits ==
  ASSUME NEW f \in [Records -> Cases], run \in RunStates, NEW q \in Seq(Records \X Nat),
         \A k \in DOMAIN q : q[k][2] \in DOMAIN f[q[k][1]].jobs, run' = Onward(f, q), file' = f
  PROVE  run' \in RunStates /\ RunFits'
<1> DEFINE pc == IF q # << >> THEN IF f[q[1][1]].jobs[q[1][2]].tx = NoTx THEN "sign" ELSE "receipt"
                 ELSE IF run.last \/ Outbox(f) # {} THEN "end" ELSE "select"
<1>1. pc \in {"sign", "receipt", "end", "select"}
  OBVIOUS
<1>2. run' = [run EXCEPT !.queue = q, !.pc = pc]
  BY DEF Onward
<1>3. pc \in {"sign", "receipt"} => q # << >>
  OBVIOUS
<1>4. pc = "receipt" => f[q[1][1]].jobs[q[1][2]].tx # NoTx
  OBVIOUS
<1> HIDE DEF pc
<1>5. run' \in RunStates /\ run'.queue = q /\ run'.pc = pc
  BY <1>1, <1>2 DEF RunStates, Quiet, Busy
<1>6. CASE pc \in {"sign", "receipt"}
  BY <1>3, <1>4, <1>5, <1>6 DEF RunFits, JobTx, JobCase, Job
<1>7. CASE pc \in {"end", "select"}
  BY <1>5, <1>7 DEF RunFits, Busy
<1> QED
  BY <1>1, <1>5, <1>6, <1>7

-----------------------------------------------------------------------------
(***************************************************************************)
(* The desk, the callbacks and the administration.                         *)
(***************************************************************************)

\* What every step does to the file.
LawfulStep ==
  \/ \A r \in Records : Lawful(r, file[r], file'[r])
  \/ /\ backup # NoCase /\ file' = backup
     /\ \A r \in gone : ~Retained(backup[r])
     /\ \A r \in Records : Whole(backup[r])

\* A step that leaves the file and the outbox's transactions alone.
LEMMA FileKept ==
  ASSUME RescreenInv, UNCHANGED <<file, backup, sent, rolled>>,
         events' \in Logs, Grows(events, events'), reverted \subseteq reverted',
         OtherTypes', run' = run \/ run'.pc \in Quiet
  PROVE  RescreenInv' /\ LawfulStep
<1>1. /\ file' \in [Records -> Cases]
      /\ \A r \in Records : GoesOn(file[r], file'[r]) /\ Lawful(r, file[r], file'[r])
  BY NoChange DEF RescreenInv, RescreenShape, FileFits, CaseFits
<1>2. RunFits'
  BY <1>1, RunStays
<1> QED
  BY <1>1, <1>2, InvGoesOn DEF LawfulStep

\* Nothing happens at the source.
LEMMA SourceStays == ASSUME RescreenInv, UNCHANGED events PROVE events' \in Logs /\ Grows(events, events')
<1>1. events \in Logs
  BY DEF RescreenInv, RescreenShape, Logs
<1>2. \A r \in Records : Len(events[r]) \in Nat
  BY <1>1 DEF Logs
<1> QED
  BY <1>1, <1>2 DEF Grows

\* A new file, written or not.
LEMMA FileWritten ==
  ASSUME RescreenInv, NEW f \in [Records -> Cases], file' \in {file, f},
         \A r \in Records : GoesOn(file[r], f[r]) /\ Lawful(r, file[r], f[r]),
         backup' \in {backup, file, NoCase}, UNCHANGED <<sent, rolled, events, reverted>>,
         OtherTypes', run' = run \/ run'.pc \in Quiet
  PROVE  RescreenInv' /\ LawfulStep
<1>1. \A r \in Records : GoesOn(file[r], file[r]) /\ Lawful(r, file[r], file[r])
  BY NoChange DEF RescreenInv, RescreenShape, FileFits, CaseFits
<1>2. /\ file' \in [Records -> Cases]
      /\ \A r \in Records : GoesOn(file[r], file'[r]) /\ Lawful(r, file[r], file'[r])
  BY <1>1 DEF RescreenInv, RescreenShape
<1>3. RunFits'
  BY <1>2, RunStays
<1>4. events' \in Logs /\ Grows(events, events')
  BY SourceStays
<1> QED
  BY <1>2, <1>3, <1>4, InvGoesOn DEF LawfulStep

\* A command changes the case of one record.
LEMMA CaseWritten ==
  ASSUME RescreenInv, NEW r \in Records, NEW c \in Cases,
         GoesOn(file[r], c), Lawful(r, file[r], c),
         file' = [file EXCEPT ![r] = c], UNCHANGED <<backup, rolled>>,
         UNCHANGED <<sent, events, reverted, run, pool, nonce, list, time>>,
         check' \in {check, NoJob}, review' \in {review, NoCase}
  PROVE  RescreenInv' /\ LawfulStep
<1> DEFINE f == [file EXCEPT ![r] = c]
<1>1. f \in [Records -> Cases] /\ file \in [Records -> Cases]
  BY DEF RescreenInv, RescreenShape
<1>2. \A q \in Records : GoesOn(file[q], f[q]) /\ Lawful(q, file[q], f[q])
  <2>1. \A q \in Records : GoesOn(file[q], file[q]) /\ Lawful(q, file[q], file[q])
    BY <1>1, NoChange DEF RescreenInv, FileFits, CaseFits
  <2> QED
    BY <1>1, <2>1
<1>3. file' = f
  OBVIOUS
<1>4. OtherTypes'
  BY DEF OtherTypes, RescreenInv, RescreenShape
<1> HIDE DEF f
<1> QED
  BY <1>1, <1>2, <1>3, <1>4, FileWritten

LEMMA Written ==
  ASSUME NEW r, NEW c, Write(r, c)
  PROVE  file' = [file EXCEPT ![r] = c] /\ UNCHANGED <<backup, rolled>>
BY DEF Write, Wrote, WroteUnconfirmed

\* A case as the file has it.
LEMMA FileCase ==
  ASSUME RescreenInv, NEW r \in Records
  PROVE  file[r] \in Cases /\ Whole(file[r]) /\ CaseFits(r, file[r], events)
BY DEF RescreenInv, RescreenShape, FileFits, CaseFits

LEMMA CallbackLawful ==
  ASSUME RescreenInv, NEW r \in Records, Callback(r) PROVE RescreenInv' /\ LawfulStep
<1> USE DEF DeskFrame, deskVars, chainVars, worldVars
<1>0. file[r] \in Cases /\ Whole(file[r]) /\ time \in Int /\ time + Retention \in Int
  BY FileCase, RescreenAssumption DEF RescreenInv, RescreenShape
<1>1. ASSUME NEW outcome, PutRecord(r, outcome) PROVE RescreenInv' /\ LawfulStep
  <2> DEFINE c == Put(file[r], outcome, time, time + Retention)
  <2>1. c \in Cases /\ GoesOn(file[r], c) /\ Lawful(r, file[r], c)
    BY <1>0, <1>1, PutFits DEF PutRecord
  <2>2. /\ Write(r, c)
        /\ UNCHANGED <<sent, events, reverted, run, pool, nonce, list, time>>
        /\ check' \in {check, NoJob} /\ review' \in {review, NoCase}
    BY <1>1 DEF PutRecord
  <2> QED
    BY <2>1, <2>2, Written, CaseWritten
<1>2. ASSUME PutAgain(r) PROVE RescreenInv' /\ LawfulStep
  <2> DEFINE c == Put(file[r], "ISSUED", time, time + Retention)
  <2>1. c \in Cases /\ GoesOn(file[r], c) /\ Lawful(r, file[r], c)
    BY <1>0, <1>2, PutFits DEF PutAgain
  <2>2. /\ Write(r, c)
        /\ UNCHANGED <<sent, events, reverted, run, pool, nonce, list, time>>
        /\ check' \in {check, NoJob} /\ review' \in {review, NoCase}
    BY <1>2 DEF PutAgain
  <2> QED
    BY <2>1, <2>2, Written, CaseWritten
<1>3. ASSUME SendIssue(r) PROVE RescreenInv' /\ LawfulStep
  <2>1. /\ UNCHANGED <<file, backup, sent, rolled, reverted, events, run>> /\ OtherTypes'
    BY <1>3 DEF SendIssue, vaultVars, OtherTypes, RescreenInv, RescreenShape
  <2> QED
    BY <2>1, SourceStays, FileKept
<1>4. ASSUME MineIssue(r) PROVE RescreenInv' /\ LawfulStep
  <2>1. /\ UNCHANGED <<file, backup, sent, rolled, reverted, run>> /\ OtherTypes'
        /\ events' = [events EXCEPT ![r] = Append(@, IssueTx)]
    BY <1>4 DEF MineIssue, vaultVars, OtherTypes, RescreenInv, RescreenShape
  <2>2. events \in Logs
    BY DEF RescreenInv, RescreenShape, Logs
  <2>3. /\ Append(events[r], IssueTx) \in Seq(Revocations \cup {IssueTx})
        /\ Len(Append(events[r], IssueTx)) = Len(events[r]) + 1
        /\ \A n \in 1 .. Len(events[r]) : Append(events[r], IssueTx)[n] = events[r][n]
        /\ \A q \in Records : Len(events[q]) \in Nat
    BY <2>2, AppendProperties DEF Logs
  <2>4. events' \in Logs /\ Grows(events, events')
    BY <2>1, <2>2, <2>3 DEF Logs, Grows
  <2> QED
    BY <2>1, <2>4, FileKept
<1>5. ASSUME ConfirmIssue(r) PROVE RescreenInv' /\ LawfulStep
  <2> DEFINE c == [file[r] EXCEPT !.rec = SourceObserved(file[r].rec, IssueTx)]
  <2>1. c \in Cases /\ GoesOn(file[r], c) /\ Lawful(r, file[r], c)
    BY <1>0, <1>5, ObservedFits DEF ConfirmIssue
  <2>2. /\ Write(r, c)
        /\ UNCHANGED <<sent, events, reverted, run, pool, nonce, list, time>>
        /\ check' \in {check, NoJob} /\ review' \in {review, NoCase}
    BY <1>5 DEF ConfirmIssue
  <2> QED
    BY <2>1, <2>2, Written, CaseWritten
<1>6. ASSUME Materialize(r) PROVE RescreenInv' /\ LawfulStep
  <2> DEFINE c == [file[r] EXCEPT !.rec = HubObserved(file[r].rec)]
  <2>1. c \in Cases /\ GoesOn(file[r], c) /\ Lawful(r, file[r], c)
    BY <1>0, <1>6, ObservedFits DEF Materialize
  <2>2. /\ Write(r, c)
        /\ UNCHANGED <<sent, events, reverted, run, pool, nonce, list, time>>
        /\ check' \in {check, NoJob} /\ review' \in {review, NoCase}
    BY <1>6 DEF Materialize
  <2> QED
    BY <2>1, <2>2, Written, CaseWritten
<1> QED
  BY <1>1, <1>2, <1>3, <1>4, <1>5, <1>6 DEF Callback

LEMMA AdminLawful ==
  ASSUME RescreenInv, NEW r \in Records, Admin(r) PROVE RescreenInv' /\ LawfulStep
<1> USE DEF DeskFrame, AdminFrame, deskVars, chainVars, worldVars
<1>0. file[r] \in Cases /\ Whole(file[r]) /\ MaxTime + 1 \in Int
  BY FileCase, RescreenAssumption
<1> DEFINE Kept == /\ UNCHANGED <<sent, events, reverted, run, pool, nonce, list, time>>
                   /\ check' \in {check, NoJob} /\ review' \in {review, NoCase}
<1>1. ASSUME NEW c, Retained(file[r]), Write(r, c), Kept,
             \/ \E until \in Int : c = ExtendRetention(file[r], until)
             \/ \E h \in Holds : c = PlaceHold(file[r], h) \/ c = ReleaseHold(file[r], h)
             \/ \E o \in Operators, a \in BOOLEAN : c = RequestDeletion(file[r], o, a)
             \/ file[r].request # NoDeletion /\ c = ApproveDeletion(file[r])
      PROVE  RescreenInv' /\ LawfulStep
  <2>1. c \in Cases /\ GoesOn(file[r], c) /\ Lawful(r, file[r], c)
    BY <1>0, <1>1, AdminFits
  <2> QED
    BY <1>1, <2>1, Written, CaseWritten
<1>2. ASSUME OpenReview(r) PROVE RescreenInv' /\ LawfulStep
  <2>1. /\ UNCHANGED <<file, backup, sent, rolled, reverted, events, run>> /\ OtherTypes'
    BY <1>2 DEF OpenReview, vaultVars, OtherTypes, RescreenInv, RescreenShape
  <2> QED
    BY <2>1, SourceStays, FileKept
<1>3. ASSUME Extend(r) PROVE RescreenInv' /\ LawfulStep
  <2>1. Retained(file[r]) /\ Write(r, ExtendRetention(file[r], MaxTime + 1)) /\ Kept
    BY <1>3 DEF Extend, MayExtend
  <2> QED
    BY <1>0, <1>1, <2>1
<1>4. ASSUME NEW h \in Holds, Hold(r, h) PROVE RescreenInv' /\ LawfulStep
  <2>1. Retained(file[r]) /\ Write(r, PlaceHold(file[r], h)) /\ Kept
    BY <1>4 DEF Hold, MayHold
  <2> QED
    BY <1>1, <2>1
<1>5. ASSUME NEW h \in Holds, Unhold(r, h) PROVE RescreenInv' /\ LawfulStep
  <2>1. Retained(file[r]) /\ Write(r, ReleaseHold(file[r], h)) /\ Kept
    BY <1>5 DEF Unhold, MayRelease
  <2> QED
    BY <1>1, <2>1
<1>6. ASSUME NEW d, NEW a \in BOOLEAN, AskDeletion(r, d, a) PROVE RescreenInv' /\ LawfulStep
  <2>1. PICK o \in Operators : Write(r, RequestDeletion(file[r], o, a))
    BY <1>6 DEF AskDeletion
  <2>2. Retained(file[r]) /\ Kept
    BY <1>6 DEF AskDeletion, MayRequestDeletion
  <2> QED
    BY <1>1, <2>1, <2>2
<1>7. ASSUME NEW o \in Operators, Approve(r, o) PROVE RescreenInv' /\ LawfulStep
  <2>1. Retained(file[r]) /\ file[r].request # NoDeletion /\ Write(r, ApproveDeletion(file[r])) /\ Kept
    BY <1>7 DEF Approve, MayApprove, Current
  <2> QED
    BY <1>1, <2>1
<1>8. ASSUME EraseRecord(r) PROVE RescreenInv' /\ LawfulStep
  <2> DEFINE c == Erased(file[r])
  <2>1. c \in Cases /\ GoesOn(file[r], c) /\ Lawful(r, file[r], c)
    BY <1>0, <1>8, ErasedFits DEF EraseRecord
  <2>2. /\ Wrote([file EXCEPT ![r] = c]) \/ WroteUnconfirmed([file EXCEPT ![r] = c])
        /\ UNCHANGED <<backup, rolled>> /\ AdminFrame
    BY <1>8 DEF EraseRecord, Erase
  <2>3. file' = [file EXCEPT ![r] = c] /\ Kept
    BY <2>2 DEF Wrote, WroteUnconfirmed
  <2> QED
    BY <2>1, <2>2, <2>3, CaseWritten
<1>9. ASSUME NEW i \in DOMAIN file[r].jobs, ReadEnforcement(r, i) PROVE RescreenInv' /\ LawfulStep
  <2>1. /\ UNCHANGED <<file, backup, sent, rolled, reverted, events, run, pool, nonce, list, time, review>>
        /\ check' = [rec |-> r, i |-> i, job |-> file[r].jobs[i], seen |-> HubSays(file[r].jobs[i].tx)]
    BY <1>9 DEF ReadEnforcement, vaultVars
  <2>2. file[r].jobs \in Seq(Jobs)
    BY <1>0 DEF Cases
  <2>3. file[r].jobs[i] \in Jobs /\ i \in Nat \ {0}
    BY <2>2
  <2>4. HubSays(file[r].jobs[i].tx) \in Seen
    BY DEF HubSays, Seen
  <2>5. check' \in Checks
    BY <2>1, <2>3, <2>4 DEF Checks
  <2>6. OtherTypes'
    BY <2>1, <2>5 DEF OtherTypes, RescreenInv, RescreenShape
  <2> QED
    BY <2>1, <2>6, SourceStays, FileKept
<1> HIDE DEF Kept
<1> QED
  BY <1>2, <1>3, <1>4, <1>5, <1>6, <1>7, <1>8, <1>9 DEF Admin

LEMMA DecideReviewLawful ==
  ASSUME RescreenInv, NEW outcome \in {"cleared", "blocked"}, DecideReview(outcome)
  PROVE  RescreenInv' /\ LawfulStep
<1> USE DEF DeskFrame, deskVars, chainVars, worldVars
<1> DEFINE c == file[review.rec]
<1>1. review # NoCase /\ review.rec \in Records /\ time \in Int /\ Place(review.rec) \in Int
  BY PlaceIsInt DEF DecideReview, RescreenInv, RescreenShape
<1>2. c \in Cases /\ Whole(c)
  BY <1>1, FileCase
<1>3. /\ UNCHANGED <<sent, events, reverted, run, pool, nonce, list, time>>
        /\ check' \in {check, NoJob} /\ review' \in {review, NoCase}
  BY DEF DecideReview, vaultVars, Write
<1>4. CASE MayDecide(c, review.revision, time, outcome) /\ ~locked
  <2> DEFINE d == Decided(c, time, outcome, Place(review.rec))
  <2>1. d \in Cases /\ GoesOn(c, d) /\ Lawful(review.rec, c, d)
    BY <1>1, <1>2, <1>4, DecidedFits
  <2>2. Write(review.rec, d)
    BY <1>4 DEF DecideReview
  <2> QED
    BY <1>1, <1>3, <2>1, <2>2, Written, CaseWritten
<1>5. CASE ~(MayDecide(c, review.revision, time, outcome) /\ ~locked)
  <2>1. UNCHANGED <<file, backup, rolled>> /\ OtherTypes'
    BY <1>3, <1>5 DEF DecideReview, vaultVars, OtherTypes, RescreenInv, RescreenShape
  <2> QED
    BY <1>3, <2>1, SourceStays, FileKept
<1> QED
  BY <1>4, <1>5

LEMMA RecordEnforcementLawful ==
  ASSUME RescreenInv, RecordEnforcement PROVE RescreenInv' /\ LawfulStep
<1> USE DEF DeskFrame, deskVars, chainVars, worldVars
<1> DEFINE c == file[check.rec]
<1>1. check \in Checks
  BY DEF RecordEnforcement, RescreenInv, RescreenShape
<1>2. check.rec \in Records /\ check.seen \in Seen /\ check.i \in Nat \ {0} /\ c \in Cases /\ Whole(c)
  BY <1>1, FileCase DEF Checks
<1>3. /\ UNCHANGED <<sent, events, reverted, run, pool, nonce, list, time>>
      /\ check' \in {check, NoJob} /\ review' \in {review, NoCase}
  BY DEF RecordEnforcement
<1>4. CASE MayRecordObservation(c, check.i, check.job) /\ ~locked
  <2> DEFINE d == ObserveJob(c, check.i, check.seen)
  <2>1. c.jobs \in Seq(Jobs)
    BY <1>2 DEF Cases
  <2>2. check.i \in DOMAIN c.jobs
    BY <1>2, <1>4, <2>1 DEF MayRecordObservation
  <2>3. d \in Cases /\ GoesOn(c, d) /\ Lawful(check.rec, c, d)
    BY <1>2, <2>2, ObservationFits
  <2>4. Write(check.rec, d)
    BY <1>4 DEF RecordEnforcement
  <2> QED
    BY <1>2, <1>3, <2>3, <2>4, Written, CaseWritten
<1>5. CASE ~(MayRecordObservation(c, check.i, check.job) /\ ~locked)
  <2>1. UNCHANGED <<file, backup, rolled>> /\ OtherTypes'
    BY <1>3, <1>5 DEF RecordEnforcement, vaultVars, OtherTypes, RescreenInv, RescreenShape
  <2> QED
    BY <1>3, <2>1, SourceStays, FileKept
<1> QED
  BY <1>4, <1>5

LEMMA PurgeLawful ==
  ASSUME RescreenInv, PurgeExpired PROVE RescreenInv' /\ LawfulStep
<1> USE DEF DeskFrame, AdminFrame, deskVars, chainVars, worldVars
<1> DEFINE f == [r \in Records |-> Purged(file[r], time)]
<1>1. f \in [Records -> Cases] /\ \A r \in Records : GoesOn(file[r], f[r]) /\ Lawful(r, file[r], f[r])
  BY FileCase, PurgedFits
<1>2. /\ Wrote(f) \/ WroteUnconfirmed(f)
      /\ UNCHANGED <<backup, rolled>> /\ AdminFrame
  BY DEF PurgeExpired, Erase
<1>3. file' = f
  BY <1>2 DEF Wrote, WroteUnconfirmed
<1>4. OtherTypes'
  BY <1>2 DEF OtherTypes, RescreenInv, RescreenShape
<1> HIDE DEF f
<1>5. file' \in {file, f} /\ backup' \in {backup, file, NoCase}
      /\ UNCHANGED <<sent, rolled, events, reverted, run>>
  BY <1>2, <1>3
<1> QED
  BY <1>1, <1>4, <1>5, FileWritten

LEMMA CreateBackupLawful ==
  ASSUME RescreenInv, CreateBackup PROVE RescreenInv' /\ LawfulStep
<1> USE DEF DeskFrame, deskVars, chainVars, worldVars
<1>1. /\ UNCHANGED <<file, sent, rolled, events, reverted, run>> /\ backup' = file /\ OtherTypes'
  BY DEF CreateBackup, OtherTypes, RescreenInv, RescreenShape
<1>2. /\ file \in [Records -> Cases]
      /\ \A r \in Records : GoesOn(file[r], file[r]) /\ Lawful(r, file[r], file[r])
  BY FileCase, NoChange DEF RescreenInv, RescreenShape
<1> QED
  BY <1>1, <1>2, FileWritten

LEMMA RestoreBackupLawful ==
  ASSUME RescreenInv, RestoreBackup PROVE RescreenInv' /\ LawfulStep
<1> USE DEF DeskFrame, deskVars, chainVars, worldVars
<1>1. /\ backup # NoCase /\ run.pc = "idle" /\ file' = backup /\ backup' = NoCase
      /\ rolled' = (rolled \/ backup # file) /\ \A r \in gone : ~Retained(backup[r])
      /\ UNCHANGED <<sent, events, reverted, run, pool, nonce, list, time, review, check>>
  BY DEF RestoreBackup
<1>2. backup \in [Records -> Cases] /\ FileFits(backup, events)
  BY <1>1 DEF RescreenInv, RescreenShape
<1>3. RescreenShape'
  BY <1>1, <1>2 DEF RescreenInv, RescreenShape
<1>4. FileFits(file', events') /\ (backup' # NoCase => FileFits(backup', events'))
  BY <1>1, <1>2
<1>5. RunFits'
  BY <1>1 DEF RunFits, Busy
<1>6. SentIsRetained'
  <2>1. CASE backup = file
    BY <1>1, <2>1 DEF RescreenInv, SentIsRetained, Mined
  <2>2. CASE backup # file
    BY <1>1, <2>2 DEF SentIsRetained
  <2> QED
    BY <2>1, <2>2
<1>7. LawfulStep
  BY <1>1, <1>2 DEF LawfulStep, FileFits, CaseFits
<1> QED
  BY <1>3, <1>4, <1>5, <1>6, <1>7 DEF RescreenInv

-----------------------------------------------------------------------------
(***************************************************************************)
(* The source chain, the hub, the clock and the locks.                     *)
(***************************************************************************)
LEMMA MineRevocationLawful ==
  ASSUME RescreenInv, MineRevocation PROVE RescreenInv' /\ LawfulStep
<1> USE DEF ChainFrame, vaultVars, deskVars
<1>1. PICK t \in pool :
        /\ pool' = pool \ {t}
        /\ \/ events' = [events EXCEPT ![t.rec] = Append(@, t)] /\ UNCHANGED reverted
           \/ reverted' = reverted \cup {t} /\ UNCHANGED events
  BY DEF MineRevocation, NoFault
<1>2. /\ UNCHANGED <<file, backup, sent, rolled, run, check, review, list, time>> /\ nonce' = nonce + 1
  BY DEF MineRevocation
<1>3. t \in Revocations /\ t.rec \in Records /\ events \in Logs
  BY DEF RescreenInv, RescreenShape, Revocations, Logs
<1>4. OtherTypes'
  BY <1>1, <1>2 DEF OtherTypes, RescreenInv, RescreenShape
<1>5. CASE events' = [events EXCEPT ![t.rec] = Append(@, t)] /\ UNCHANGED reverted
  <2> DEFINE r == t.rec
  <2>1. /\ Append(events[r], t) \in Seq(Revocations \cup {IssueTx})
        /\ Len(Append(events[r], t)) = Len(events[r]) + 1
        /\ \A n \in 1 .. Len(events[r]) : Append(events[r], t)[n] = events[r][n]
        /\ \A q \in Records : Len(events[q]) \in Nat
    BY <1>3, AppendProperties DEF Logs
  <2>2. events' \in Logs /\ Grows(events, events')
    BY <1>3, <1>5, <2>1 DEF Logs, Grows
  <2> QED
    BY <1>2, <1>4, <1>5, <2>2, FileKept
<1>6. CASE reverted' = reverted \cup {t} /\ UNCHANGED events
  BY <1>2, <1>4, <1>6, SourceStays, FileKept
<1> QED
  BY <1>1, <1>5, <1>6

LEMMA OthersLawful ==
  ASSUME RescreenInv,
         \/ StartRun \/ EndRun \/ RunDies \/ ClearLease \/ WriterDies \/ ClearVaultLock
         \/ ForgetRevocation \/ Tick \/ (\E r \in Records : RelayToHub(r)) \/ UNCHANGED rescreenVars
  PROVE  RescreenInv' /\ LawfulStep
<1> USE DEF ChainFrame, vaultVars, deskVars, chainVars, worldVars
<1>1. Asleep \in RunStates
  BY EmptySeq DEF Asleep, RunStates, Quiet
<1>2. run \in RunStates /\ time \in Int /\ list \in Int
  BY DEF RescreenInv, RescreenShape
<1>3. /\ UNCHANGED <<file, backup, sent, rolled, reverted, events>>
      /\ run' = run \/ run' = Asleep \/ run' = [Asleep EXCEPT !.pc = "recover", !.now = time]
  BY DEF StartRun, EndRun, RunDies, ClearLease, WriterDies, ClearVaultLock, ForgetRevocation, Tick, RelayToHub,
         rescreenVars
<1>4. [Asleep EXCEPT !.pc = "recover", !.now = time] \in RunStates
  BY <1>1, <1>2 DEF RunStates, Quiet
<1>5. [Asleep EXCEPT !.pc = "recover", !.now = time].pc = "recover" /\ Asleep.pc = "idle"
  BY DEF Asleep
<1>6. run' \in RunStates /\ (run' = run \/ run'.pc \in Quiet)
  BY <1>1, <1>2, <1>3, <1>4, <1>5 DEF Quiet
<1>7. /\ UNCHANGED <<check, review, nonce>> /\ pool' \subseteq pool
      /\ list' \in {list, list + 1} /\ time' \in {time, time + 1}
  BY DEF StartRun, EndRun, RunDies, ClearLease, WriterDies, ClearVaultLock, ForgetRevocation, Tick, RelayToHub,
         rescreenVars
<1>8. OtherTypes'
  BY <1>2, <1>6, <1>7 DEF OtherTypes, RescreenInv, RescreenShape
<1> QED
  BY <1>3, <1>6, <1>8, SourceStays, FileKept

-----------------------------------------------------------------------------
(***************************************************************************)
(* The run: recovering, listing and screening.                             *)
(***************************************************************************)
LEMMA RunGoesOn ==
  ASSUME RescreenInv, NEW f \in [Records -> Cases], file' \in {file, f},
         \A r \in Records : GoesOn(file[r], f[r]) /\ Lawful(r, file[r], f[r]),
         UNCHANGED <<sent, reverted, pool, nonce>>, RunFrame, run' \in RunStates, RunFits'
  PROVE  RescreenInv' /\ LawfulStep
<1>1. \A r \in Records : GoesOn(file[r], file[r]) /\ Lawful(r, file[r], file[r])
  BY FileCase, NoChange
<1>2. /\ file' \in [Records -> Cases]
      /\ \A r \in Records : GoesOn(file[r], file'[r]) /\ Lawful(r, file[r], file'[r])
  BY <1>1 DEF RescreenInv, RescreenShape
<1>3. UNCHANGED <<backup, rolled, events, review, check, list, time>>
  BY DEF RunFrame, deskVars, worldVars
<1>4. events' \in Logs /\ Grows(events, events')
  BY <1>3, SourceStays
<1>5. OtherTypes'
  BY <1>3 DEF OtherTypes, RescreenInv, RescreenShape
<1> QED
  BY <1>2, <1>3, <1>4, <1>5, InvGoesOn DEF LawfulStep

\* The run gives up or goes to a part that is not about one job.
LEMMA QuietRun == ASSUME run'.pc \in Quiet PROVE RunFits'
BY DEF RunFits, Quiet, Busy

LEMMA RunEnds == ASSUME RescreenInv, Goto("end") PROVE run' \in RunStates /\ run'.pc = "end" /\ RunFits'
<1>1. run' \in RunStates /\ run'.pc = "end"
  BY DEF Goto, RescreenInv, RescreenShape, RunStates, Quiet
<1> QED
  BY <1>1, QuietRun DEF Quiet

LEMMA RunWrote ==
  ASSUME RescreenInv, NEW f, NEW next, RunWrites(f, next)
  PROVE  \/ file' = f /\ run' = next
         \/ file' \in {file, f} /\ run' \in RunStates /\ run'.pc = "end" /\ RunFits'
<1>1. \/ file' = f /\ run' = next
      \/ file' \in {file, f} /\ Goto("end")
  BY DEF RunWrites, Wrote, WroteUnconfirmed
<1> QED
  BY <1>1, RunEnds

LEMMA RecoverLawful ==
  ASSUME RescreenInv, RecoverBlocked PROVE RescreenInv' /\ LawfulStep
<1> DEFINE f == [r \in Records |-> Recovered(file[r], run.now, Place(r))]
<1>1. run \in RunStates /\ run.now \in Int /\ \A r \in Records : Place(r) \in Int
  BY PlaceIsInt DEF RescreenInv, RescreenShape, RunStates
<1>2. f \in [Records -> Cases] /\ \A r \in Records : GoesOn(file[r], f[r]) /\ Lawful(r, file[r], f[r])
  BY <1>1, FileCase, RecoveredFits
<1>3. PICK q \in Listed(f) : RunWrites(f, Onward(f, q))
  BY DEF RecoverBlocked
<1>4. UNCHANGED <<sent, reverted, pool, nonce>> /\ RunFrame
  BY DEF RecoverBlocked, chainVars
<1> HIDE DEF f
<1>5. q \in Seq(Records \X Nat) /\ \A k \in DOMAIN q : q[k][2] \in DOMAIN f[q[k][1]].jobs
  BY <1>2, ListedJobs
<1>6. CASE file' = f /\ run' = Onward(f, q)
  <2>1. run' \in RunStates /\ RunFits'
    BY <1>1, <1>2, <1>5, <1>6, OnwardFits
  <2> QED
    BY <1>2, <1>4, <1>6, <2>1, RunGoesOn
<1>7. CASE file' \in {file, f} /\ run' \in RunStates /\ RunFits'
  BY <1>2, <1>4, <1>7, RunGoesOn
<1> QED
  BY <1>3, <1>6, <1>7, RunWrote

\* A step of the run that leaves the file alone.
LEMMA RunOnly ==
  ASSUME RescreenInv, UNCHANGED <<file, sent, reverted, pool, nonce>>, RunFrame, run' \in RunStates, RunFits'
  PROVE  RescreenInv' /\ LawfulStep
<1>1. file \in [Records -> Cases] /\ \A r \in Records : GoesOn(file[r], file[r]) /\ Lawful(r, file[r], file[r])
  BY FileCase, NoChange DEF RescreenInv, RescreenShape
<1> QED
  BY <1>1, RunGoesOn

LEMMA ListLawful ==
  ASSUME RescreenInv, ListOutbox PROVE RescreenInv' /\ LawfulStep
<1>1. UNCHANGED <<file, sent, reverted, pool, nonce>> /\ RunFrame
  BY DEF ListOutbox, chainVars
<1>2. CASE Goto("end")
  BY <1>1, <1>2, RunEnds, RunOnly
<1>3. CASE \E q \in Listed(file) : run' = Onward(file, q)
  <2>1. PICK q \in Listed(file) : run' = Onward(file, q)
    BY <1>3
  <2>2. file \in [Records -> Cases] /\ run \in RunStates
    BY DEF RescreenInv, RescreenShape
  <2>3. q \in Seq(Records \X Nat) /\ \A k \in DOMAIN q : q[k][2] \in DOMAIN file[q[k][1]].jobs
    BY <2>2, ListedJobs
  <2>4. run' \in RunStates /\ RunFits'
    BY <1>1, <2>1, <2>2, <2>3, OnwardFits
  <2> QED
    BY <1>1, <2>4, RunOnly
<1> QED
  BY <1>2, <1>3 DEF ListOutbox

\* The records that are selected are the file's.
LEMMA Selection ==
  ASSUME RescreenInv, NEW r \in Records
  PROVE  /\ file[r].rec \in VaultRecords \cup {NoRecord}
         /\ run.expected[r] \in VaultRecords \cup {NoRecord}
<1>1. file[r] \in Cases /\ run \in RunStates
  BY DEF RescreenInv, RescreenShape
<1> QED
  BY <1>1 DEF Cases, RunStates

LEMMA ScreeningOver == ASSUME RescreenInv, ScreeningFails PROVE run' \in RunStates /\ RunFits'
<1> DEFINE none == Asleep.expected
<1>1. run \in RunStates /\ none \in [Records -> VaultRecords \cup {NoRecord}]
  BY DEF RescreenInv, RescreenShape, Asleep
<1> HIDE DEF none
<1>2. run' = [run EXCEPT !.pc = "deliver", !.last = TRUE, !.expected = none, !.list = 0]
  BY DEF ScreeningFails, none
<1>3. run' = [pc |-> "deliver", now |-> run.now, last |-> TRUE, queue |-> run.queue,
              expected |-> none, list |-> 0]
  BY <1>1, <1>2 DEF RunStates
<1>4. run.now \in Int /\ run.queue \in Seq(Records \X Nat)
  BY <1>1 DEF RunStates
<1>5. run' \in RunStates /\ run'.pc = "deliver"
  BY <1>1, <1>3, <1>4 DEF RunStates, Quiet
<1> QED
  BY <1>5, QuietRun DEF Quiet

LEMMA SelectLawful ==
  ASSUME RescreenInv, SelectDue PROVE RescreenInv' /\ LawfulStep
<1>1. UNCHANGED <<file, sent, reverted, pool, nonce>> /\ RunFrame /\ run \in RunStates
  BY DEF SelectDue, chainVars, RescreenInv, RescreenShape
<1> DEFINE e == [r \in Records |-> IF Due(file[r], run.now, Interval, 0) THEN file[r].rec ELSE NoRecord]
<1>2. e \in [Records -> VaultRecords \cup {NoRecord}]
  BY Selection
<1>3. run' = [run EXCEPT !.pc = "lists", !.expected = e] \/ Goto("end")
  BY DEF SelectDue
<1> HIDE DEF e
<1>4. CASE run' = [run EXCEPT !.pc = "lists", !.expected = e]
  <2>1. run' \in RunStates /\ run'.pc = "lists"
    BY <1>1, <1>2, <1>4 DEF RunStates, Quiet
  <2> QED
    BY <1>1, <2>1, QuietRun, RunOnly DEF Quiet
<1>5. CASE Goto("end")
  BY <1>1, <1>5, RunEnds, RunOnly
<1> QED
  BY <1>3, <1>4, <1>5

LEMMA ReadListsLawful ==
  ASSUME RescreenInv, ReadLists PROVE RescreenInv' /\ LawfulStep
<1>1. UNCHANGED <<file, sent, reverted, pool, nonce>> /\ RunFrame /\ run \in RunStates /\ list \in Int
  BY DEF ReadLists, chainVars, RescreenInv, RescreenShape
<1> DEFINE e == [r \in Records |-> IF run.expected[r] = NoRecord /\ Due(file[r], run.now, Interval, list)
                                   THEN file[r].rec ELSE run.expected[r]]
<1>2. e \in [Records -> VaultRecords \cup {NoRecord}]
  BY Selection
<1>3. run' = [run EXCEPT !.pc = "screen", !.list = list, !.expected = e] \/ ScreeningFails
  BY DEF ReadLists
<1> HIDE DEF e
<1>4. CASE run' = [run EXCEPT !.pc = "screen", !.list = list, !.expected = e]
  <2>1. run' \in RunStates /\ run'.pc = "screen"
    BY <1>1, <1>2, <1>4 DEF RunStates, Quiet
  <2> QED
    BY <1>1, <2>1, QuietRun, RunOnly DEF Quiet
<1>5. CASE ScreeningFails
  BY <1>1, <1>5, ScreeningOver, RunOnly
<1> QED
  BY <1>3, <1>4, <1>5

LEMMA ScreenLawful ==
  ASSUME RescreenInv, NEW r \in Records, ScreenRecord(r) PROVE RescreenInv' /\ LawfulStep
<1> DEFINE c == Rescreened(file[r], run.now, Verdict(r), list, Place(r))
           f == [file EXCEPT ![r] = c]
           next == [run EXCEPT !.expected[r] = NoRecord]
<1>1. UNCHANGED <<sent, reverted, pool, nonce>> /\ RunFrame /\ run.pc = "screen"
  BY DEF ScreenRecord, chainVars
<1>2. run \in RunStates /\ run.now \in Int /\ list \in Int /\ Place(r) \in Int /\ file \in [Records -> Cases]
  BY PlaceIsInt DEF RescreenInv, RescreenShape, RunStates
<1>3. CASE MayCommit(r)
  <2>1. file[r] \in Cases /\ MayRescreen(file[r], run.expected[r], run.now)
    BY <1>2, <1>3 DEF MayCommit
  <2>2. c \in Cases /\ GoesOn(file[r], c) /\ Lawful(r, file[r], c)
    BY <1>2, <2>1, RescreenedFits
  <2> HIDE DEF c
  <2>3. \A q \in Records : GoesOn(file[q], file[q]) /\ Lawful(q, file[q], file[q])
    BY FileCase, NoChange
  <2>4. f \in [Records -> Cases] /\ \A q \in Records : GoesOn(file[q], f[q]) /\ Lawful(q, file[q], f[q])
    BY <1>2, <2>2, <2>3
  <2>5. next \in RunStates /\ next.pc = "screen"
    <3>1. next = [run EXCEPT !.expected = [run.expected EXCEPT ![r] = NoRecord]]
      BY <1>2 DEF RunStates
    <3>2. [run.expected EXCEPT ![r] = NoRecord] \in [Records -> VaultRecords \cup {NoRecord}]
      BY <1>2 DEF RunStates
    <3> DEFINE e == [run.expected EXCEPT ![r] = NoRecord]
    <3> HIDE DEF e
    <3>3. next = [run EXCEPT !.expected = e] /\ e \in [Records -> VaultRecords \cup {NoRecord}]
      BY <3>1, <3>2 DEF e
    <3> HIDE DEF next
    <3> QED
      BY <1>1, <1>2, <3>3 DEF RunStates
  <2>6. RunWrites(f, next)
    BY <1>3 DEF ScreenRecord, c
  <2> HIDE DEF f, next
  <2>7. file' \in {file, f} /\ run' \in RunStates /\ RunFits'
    BY <2>5, <2>6, QuietRun, RunWrote DEF Quiet
  <2> QED
    BY <1>1, <2>4, <2>7, RunGoesOn
<1>4. CASE ~MayCommit(r)
  <2>1. ScreeningFails /\ UNCHANGED file
    BY <1>4 DEF ScreenRecord
  <2> QED
    BY <1>1, <2>1, ScreeningOver, RunOnly
<1> QED
  BY <1>3, <1>4

LEMMA ScreenedLawful ==
  ASSUME RescreenInv, ScreeningDone PROVE RescreenInv' /\ LawfulStep
<1>1. UNCHANGED <<file, sent, reverted, pool, nonce>> /\ RunFrame /\ ScreeningFails
  BY DEF ScreeningDone, chainVars
<1> QED
  BY <1>1, ScreeningOver, RunOnly

-----------------------------------------------------------------------------
(***************************************************************************)
(* The run: one job.                                                       *)
(***************************************************************************)

\* The job the run is at.
LEMMA AtJob ==
  ASSUME RescreenInv, run.pc \in Busy
  PROVE  /\ Job[1] \in Records /\ Job[2] \in DOMAIN JobCase.jobs
         /\ JobCase = file[Job[1]] /\ JobCase \in Cases /\ Whole(JobCase)
         /\ JobCase.jobs[Job[2]] \in Jobs /\ JobFits(Job[1], JobCase.jobs[Job[2]], events)
         /\ Tail(run.queue) \in Seq(Records \X Nat) /\ run \in RunStates
         /\ \A k \in DOMAIN Tail(run.queue) :
              Tail(run.queue)[k][1] \in Records /\ Tail(run.queue)[k][2] \in DOMAIN file[Tail(run.queue)[k][1]].jobs
<1>1. run \in RunStates /\ run.queue \in Seq(Records \X Nat) /\ run.queue # << >>
  BY DEF RescreenInv, RescreenShape, RunFits, RunStates
<1>2. \A k \in DOMAIN run.queue :
        run.queue[k] \in Records \X Nat /\ run.queue[k][2] \in DOMAIN file[run.queue[k][1]].jobs
  BY <1>1 DEF RescreenInv, RunFits
<1>3. 1 \in DOMAIN run.queue
  BY <1>1
<1>4. Job[1] \in Records /\ Job[2] \in DOMAIN JobCase.jobs /\ JobCase = file[Job[1]]
  BY <1>2, <1>3 DEF Job, JobCase
<1>5. JobCase \in Cases /\ Whole(JobCase) /\ CaseFits(Job[1], JobCase, events)
  BY <1>4, FileCase
<1>6. JobCase.jobs[Job[2]] \in Jobs
  <2>1. JobCase.jobs \in Seq(Jobs)
    BY <1>5 DEF Cases
  <2> QED
    BY <1>4, <2>1
<1>7. /\ Tail(run.queue) \in Seq(Records \X Nat)
      /\ \A k \in DOMAIN Tail(run.queue) : k + 1 \in DOMAIN run.queue /\ Tail(run.queue)[k] = run.queue[k + 1]
  BY <1>1
<1>8. \A k \in DOMAIN Tail(run.queue) :
        Tail(run.queue)[k][1] \in Records /\ Tail(run.queue)[k][2] \in DOMAIN file[Tail(run.queue)[k][1]].jobs
  BY <1>2, <1>7
<1> QED
  BY <1>1, <1>4, <1>5, <1>6, <1>7, <1>8 DEF CaseFits

\* The file with one job of it replaced.
WithJob(r, i, job) ==
  [file EXCEPT ![r] = [file[r] EXCEPT !.jobs = [file[r].jobs EXCEPT ![i] = job]]]

LEMMA WithJobShape ==
  ASSUME RescreenInv, NEW r \in Records, NEW i \in DOMAIN file[r].jobs, NEW job \in Jobs
  PROVE  LET f == WithJob(r, i, job)
         IN  /\ f \in [Records -> Cases]
             /\ \A q \in Records : /\ Lawful(q, file[q], f[q]) /\ DOMAIN f[q].jobs = DOMAIN file[q].jobs
                                   /\ Len(f[q].jobs) = Len(file[q].jobs)
                                   /\ DOMAIN file[q].jobs = 1 .. Len(file[q].jobs)
             /\ f[r].jobs[i] = job
             /\ \A q \in Records : \A j \in DOMAIN file[q].jobs :
                  f[q].jobs[j] = IF q = r /\ j = i THEN job ELSE file[q].jobs[j]
<1> DEFINE f == WithJob(r, i, job)
           d == [file[r] EXCEPT !.jobs = [file[r].jobs EXCEPT ![i] = job]]
<1>1. file \in [Records -> Cases] /\ \A q \in Records : Whole(file[q])
  BY FileCase DEF RescreenInv, RescreenShape
<1>2. /\ d \in Cases /\ Lawful(r, file[r], d) /\ DOMAIN d.jobs = DOMAIN file[r].jobs
      /\ d.jobs[i] = job /\ \A j \in DOMAIN file[r].jobs \ {i} : d.jobs[j] = file[r].jobs[j]
      /\ Len(d.jobs) = Len(file[r].jobs)
  BY <1>1, JobReplaced
<1>3. \A q \in Records : Lawful(q, file[q], file[q]) /\ DOMAIN file[q].jobs = 1 .. Len(file[q].jobs)
  <2> TAKE q \in Records
  <2>1. Lawful(q, file[q], file[q])
    BY <1>1, NoChange
  <2>2. file[q].jobs \in Seq(Jobs)
    BY <1>1 DEF Cases
  <2> QED
    BY <2>1, <2>2
<1> HIDE DEF d
<1>4. f = [file EXCEPT ![r] = d]
  BY DEF WithJob, d
<1>5. f \in [Records -> Cases] /\ f[r] = d /\ \A q \in Records \ {r} : f[q] = file[q]
  BY <1>1, <1>2, <1>4
<1> HIDE DEF f
<1>6. \A q \in Records : \A j \in DOMAIN file[q].jobs :
        f[q].jobs[j] = IF q = r /\ j = i THEN job ELSE file[q].jobs[j]
  BY <1>2, <1>5
<1>7. \A q \in Records : /\ Lawful(q, file[q], f[q]) /\ DOMAIN f[q].jobs = DOMAIN file[q].jobs
                         /\ Len(f[q].jobs) = Len(file[q].jobs)
                         /\ DOMAIN file[q].jobs = 1 .. Len(file[q].jobs)
  BY <1>2, <1>3, <1>5
<1>8. f[r].jobs[i] = job
  BY <1>2, <1>5
<1> QED
  BY <1>5, <1>6, <1>7, <1>8 DEF f

\* A job is replaced by one that keeps an open signature, unless that one was mined.
LEMMA JobChanged ==
  ASSUME RescreenInv, NEW r \in Records, NEW i \in DOMAIN file[r].jobs, NEW job \in Jobs,
         JobFits(r, job, events), file' = WithJob(r, i, job),
         file[r].jobs[i].tx \notin {NoTx, job.tx} \/ job.state = "confirmed" =>
           file[r].jobs[i].tx # NoTx /\ Mined(file[r].jobs[i].tx),
         UNCHANGED <<sent, reverted, pool, nonce>>, RunFrame, run' \in RunStates, RunFits'
  PROVE  RescreenInv' /\ LawfulStep
<1>1. UNCHANGED <<backup, rolled, events, review, check, list, time>>
  BY DEF RunFrame, deskVars, worldVars
<1>2. /\ file' \in [Records -> Cases]
      /\ \A q \in Records : /\ Lawful(q, file[q], file'[q]) /\ DOMAIN file'[q].jobs = DOMAIN file[q].jobs
                            /\ Len(file'[q].jobs) = Len(file[q].jobs)
                            /\ DOMAIN file[q].jobs = 1 .. Len(file[q].jobs)
      /\ file'[r].jobs[i] = job
      /\ \A q \in Records : \A j \in DOMAIN file[q].jobs :
           file'[q].jobs[j] = IF q = r /\ j = i THEN job ELSE file[q].jobs[j]
  BY WithJobShape
<1>3. RescreenShape'
  BY <1>1, <1>2 DEF RescreenInv, RescreenShape
<1>4. FileFits(file', events')
  <2> SUFFICES ASSUME NEW q \in Records, NEW j \in DOMAIN file[q].jobs
               PROVE  JobFits(q, file'[q].jobs[j], events)
    BY <1>1, <1>2 DEF FileFits, CaseFits, Lawful
  <2>1. JobFits(q, file[q].jobs[j], events)
    BY FileCase DEF CaseFits
  <2>2. CASE q = r /\ j = i
    BY <1>2, <2>2
  <2>3. CASE ~(q = r /\ j = i)
    BY <1>2, <2>1, <2>3
  <2> QED
    BY <2>2, <2>3
<1>5. backup' # NoCase => FileFits(backup', events')
  BY <1>1 DEF RescreenInv
<1>6. SentIsRetained'
  <2> SUFFICES ASSUME ~rolled, NEW t \in sent, ~Mined(t)
               PROVE  \E j \in Unconfirmed(file'[t.rec]) : file'[t.rec].jobs[j].tx = t
    BY <1>1 DEF SentIsRetained, Mined
  <2>1. t \in Revocations /\ t.rec \in Records
    BY DEF RescreenInv, RescreenShape, Revocations
  <2>2. PICK j \in Unconfirmed(file[t.rec]) : file[t.rec].jobs[j].tx = t
    BY DEF RescreenInv, SentIsRetained
  <2>3. j \in DOMAIN file[t.rec].jobs /\ file[t.rec].jobs[j].state # "confirmed"
    BY <1>2, <2>1, <2>2 DEF Unconfirmed
  <2>4. file'[t.rec].jobs[j].tx = t /\ file'[t.rec].jobs[j].state # "confirmed"
    <3>1. CASE t.rec = r /\ j = i
      <4>1. file[r].jobs[i].tx = t /\ t # NoTx
        BY <2>1, <2>2, <3>1, RescreenAssumption
      <4>2. job.tx = t /\ job.state # "confirmed"
        BY <4>1
      <4> QED
        BY <1>2, <3>1, <4>2
    <3>2. CASE ~(t.rec = r /\ j = i)
      BY <1>2, <2>1, <2>2, <2>3, <3>2
    <3> QED
      BY <3>1, <3>2
  <2>5. j \in 1 .. Len(file'[t.rec].jobs)
    BY <1>2, <2>1, <2>3
  <2> QED
    BY <2>4, <2>5 DEF Unconfirmed
<1>7. LawfulStep
  BY <1>2 DEF LawfulStep
<1> QED
  BY <1>3, <1>4, <1>5, <1>6, <1>7 DEF RescreenInv

\* The run records what it found out about its job.
LEMMA JobRecorded ==
  ASSUME RescreenInv, run.pc \in Busy, NEW job \in Jobs, JobFits(Job[1], job, events), NEW next,
         RunWrites(WithJob(Job[1], Job[2], job), next),
         JobTx \notin {NoTx, job.tx} \/ job.state = "confirmed" => JobTx # NoTx /\ Mined(JobTx),
         file' = WithJob(Job[1], Job[2], job) /\ run' = next => run' \in RunStates /\ RunFits',
         UNCHANGED <<sent, reverted, pool, nonce>>, RunFrame
  PROVE  RescreenInv' /\ LawfulStep
<1>1. Job[1] \in Records /\ Job[2] \in DOMAIN file[Job[1]].jobs /\ JobTx = file[Job[1]].jobs[Job[2]].tx
  BY AtJob DEF JobTx
<1> DEFINE f == WithJob(Job[1], Job[2], job)
<1>2. file' \in {file, f} /\ run' \in RunStates /\ RunFits'
  BY RunWrote
<1>3. CASE file' = f
  BY <1>1, <1>2, <1>3, JobChanged
<1>4. CASE file' = file
  BY <1>2, <1>4, RunOnly
<1> QED
  BY <1>2, <1>3, <1>4

\* The loop stops at a job, and nothing was written.
LEMMA LoopStops ==
  ASSUME RescreenInv, run' = Onward(file, << >>), UNCHANGED <<file, sent, reverted, pool, nonce>>, RunFrame
  PROVE  RescreenInv' /\ LawfulStep
<1> DEFINE q == << >>
<1>1. file \in [Records -> Cases] /\ run \in RunStates
  BY DEF RescreenInv, RescreenShape
<1>2. q \in Seq(Records \X Nat) /\ \A k \in DOMAIN q : q[k][2] \in DOMAIN file[q[k][1]].jobs
  <2>1. DOMAIN q = {}
    OBVIOUS
  <2> QED
    BY <2>1, EmptySeq
<1> HIDE DEF q
<1>3. run' = Onward(file, q)
  BY DEF q
<1>4. run' \in RunStates /\ RunFits'
  BY <1>1, <1>2, <1>3, OnwardFits
<1> QED
  BY <1>4, RunOnly

LEMMA JobFailsLawful ==
  ASSUME RescreenInv, JobFails, RunFrame PROVE RescreenInv' /\ LawfulStep
BY LoopStops DEF JobFails, chainVars

LEMMA SignLawful ==
  ASSUME RescreenInv, SignJob PROVE RescreenInv' /\ LawfulStep
<1>1. run.pc = "sign" /\ run.pc \in Busy /\ RunFrame
  BY DEF SignJob, Busy
<1> DEFINE old == JobCase.jobs[Job[2]]
<1>2. /\ Job[1] \in Records /\ Job[2] \in DOMAIN JobCase.jobs /\ JobCase = file[Job[1]]
      /\ JobCase \in Cases /\ old \in Jobs /\ run \in RunStates
  BY <1>1, AtJob
<1>3. ASSUME NEW n \in Int, NEW t, t = [rec |-> Job[1], nonce |-> n], MayPrepareJob(JobCase, Job[2], t),
             RunWrites([file EXCEPT ![Job[1]] = PrepareJob(JobCase, Job[2], t)], [run EXCEPT !.pc = "receipt"]),
             UNCHANGED chainVars
      PROVE  RescreenInv' /\ LawfulStep
  <2> DEFINE job == [old EXCEPT !.tx = t, !.state = "prepared"]
             next == [run EXCEPT !.pc = "receipt"]
  <2>1. t \in Revocations /\ t.rec = Job[1] /\ t # NoTx
    BY <1>2, <1>3, RescreenAssumption DEF Revocations
  <2>2. job \in Jobs /\ job.tx = t /\ job.state = "prepared"
    BY <1>2, <2>1 DEF Jobs, JobStates
  <2>3. PrepareJob(JobCase, Job[2], t) = [JobCase EXCEPT !.jobs = [JobCase.jobs EXCEPT ![Job[2]] = job]]
    <3>1. JobCase.jobs \in Seq(Jobs)
      BY <1>2 DEF Cases
    <3> QED
      BY <1>2, <3>1 DEF PrepareJob, Cases, Jobs
  <2> HIDE DEF job
  <2>4. RunWrites(WithJob(Job[1], Job[2], job), next)
    BY <1>2, <1>3, <2>3 DEF WithJob
  <2>5. JobFits(Job[1], job, events)
    BY <2>1, <2>2 DEF JobFits
  <2>6. JobTx \in {NoTx, job.tx} /\ job.state # "confirmed"
    BY <1>3, <2>2 DEF JobTx, MayPrepareJob
  <2>7. next \in RunStates /\ next.queue = run.queue /\ next.pc = "receipt"
    BY <1>2 DEF RunStates, Busy
  <2> HIDE DEF next
  <2>8. ASSUME file' = WithJob(Job[1], Job[2], job), run' = next PROVE RunFits'
    <3>1. /\ \A q \in Records : DOMAIN file'[q].jobs = DOMAIN file[q].jobs
          /\ file'[Job[1]].jobs[Job[2]] = job
      BY <1>2, <2>2, <2>8, WithJobShape
    <3>2. run.queue # << >> /\ run.queue \in Seq(Records \X Nat)
      BY <1>1, <1>2 DEF RescreenInv, RunFits, RunStates
    <3>3. \A k \in DOMAIN run.queue :
            run.queue[k][1] \in Records /\ run.queue[k][2] \in DOMAIN file[run.queue[k][1]].jobs
      BY <1>1, <3>2 DEF RescreenInv, RunFits
    <3>4. \A k \in DOMAIN run.queue : run.queue[k][2] \in DOMAIN file'[run.queue[k][1]].jobs
      BY <3>1, <3>3
    <3>5. JobTx' = t
      BY <2>2, <2>7, <2>8, <3>1 DEF JobTx, JobCase, Job
    <3> QED
      BY <2>1, <2>7, <2>8, <3>2, <3>4, <3>5 DEF RunFits
  <2>9. UNCHANGED <<sent, reverted, pool, nonce>>
    BY <1>3 DEF chainVars
  <2> QED
    BY <1>1, <2>2, <2>4, <2>5, <2>6, <2>7, <2>8, <2>9, JobRecorded
<1>4. ASSUME JobFails PROVE RescreenInv' /\ LawfulStep
  BY <1>1, <1>4, JobFailsLawful
<1>5. CASE ~JobFails
  <2>1. PICK n \in nonce .. nonce + Cardinality(pool) :
          LET t == [rec |-> Job[1], nonce |-> n] IN
          /\ MayPrepareJob(JobCase, Job[2], t)
          /\ RunWrites([file EXCEPT ![Job[1]] = PrepareJob(JobCase, Job[2], t)], [run EXCEPT !.pc = "receipt"])
          /\ UNCHANGED chainVars
    BY <1>5 DEF SignJob
  <2>2. n \in Int
    OBVIOUS
  <2> QED
    BY <1>3, <2>1, <2>2
<1> QED
  BY <1>4, <1>5

\* What was mined is recorded, and the loop goes on to the next job.
LEMMA JobSettled ==
  ASSUME RescreenInv, run.pc \in Busy, NEW job \in Jobs, JobFits(Job[1], job, events), JobTx # NoTx, Mined(JobTx),
         NEW c, c = [JobCase EXCEPT !.jobs = [JobCase.jobs EXCEPT ![Job[2]] = job]],
         RunWrites([file EXCEPT ![Job[1]] = c], Onward([file EXCEPT ![Job[1]] = c], Tail(run.queue))),
         UNCHANGED <<sent, reverted, pool, nonce>>, RunFrame
  PROVE  RescreenInv' /\ LawfulStep
<1> DEFINE f == WithJob(Job[1], Job[2], job)
           q == Tail(run.queue)
<1>1. /\ Job[1] \in Records /\ Job[2] \in DOMAIN file[Job[1]].jobs /\ JobCase = file[Job[1]]
      /\ q \in Seq(Records \X Nat) /\ run \in RunStates
      /\ \A k \in DOMAIN q : q[k][1] \in Records /\ q[k][2] \in DOMAIN file[q[k][1]].jobs
  BY AtJob
<1>2. f = [file EXCEPT ![Job[1]] = c]
  BY <1>1 DEF WithJob
<1>3. f \in [Records -> Cases] /\ \A r \in Records : DOMAIN f[r].jobs = DOMAIN file[r].jobs
  BY <1>1, WithJobShape
<1> HIDE DEF f, q
<1>4. \A k \in DOMAIN q : q[k][2] \in DOMAIN f[q[k][1]].jobs
  BY <1>1, <1>3
<1>5. RunWrites(f, Onward(f, q))
  BY <1>2 DEF q
<1>6. ASSUME file' = f, run' = Onward(f, q) PROVE run' \in RunStates /\ RunFits'
  BY <1>1, <1>3, <1>4, <1>6, OnwardFits
<1> QED
  BY <1>5, <1>6, JobRecorded DEF f

LEMMA SettleLawful ==
  ASSUME RescreenInv, NEW pc \in {"receipt", "wait"}, Settle(pc) PROVE RescreenInv' /\ LawfulStep
<1> DEFINE old == JobCase.jobs[Job[2]]
           Saves(c, q) == RunWrites([file EXCEPT ![Job[1]] = c], Onward([file EXCEPT ![Job[1]] = c], q))
<1>1. /\ run.pc = pc /\ run.pc \in Busy /\ run.pc # "sign" /\ RunFrame
      /\ UNCHANGED <<sent, reverted, pool, nonce>>
  BY DEF Settle, Busy, chainVars
<1>2. /\ Job[1] \in Records /\ Job[2] \in DOMAIN JobCase.jobs /\ JobCase = file[Job[1]]
      /\ JobCase \in Cases /\ old \in Jobs /\ JobFits(Job[1], old, events) /\ run \in RunStates
  BY <1>1, AtJob
<1>3. JobTx = old.tx /\ JobTx # NoTx /\ JobTx \in Revocations /\ JobTx.rec = Job[1]
  BY <1>1, <1>2 DEF RescreenInv, RunFits, JobTx, Jobs, JobFits
<1>4. JobCase.jobs \in Seq(Jobs)
  BY <1>2 DEF Cases
<1>5. CASE Receipt(JobTx) = "success" /\ Saves(FinishJob(JobCase, Job[2]), Tail(run.queue))
  <2> DEFINE job == [old EXCEPT !.state = "confirmed"]
             c == FinishJob(JobCase, Job[2])
  <2>1. job \in Jobs /\ job.tx = JobTx
    BY <1>2, <1>3 DEF Jobs, JobStates
  <2>2. Mined(JobTx) /\ JobTx \notin reverted
    BY <1>5 DEF Receipt
  <2>3. JobFits(Job[1], job, events)
    BY <1>3, <2>1, <2>2 DEF JobFits, Mined, Enacted
  <2>4. c = [JobCase EXCEPT !.jobs = [JobCase.jobs EXCEPT ![Job[2]] = job]]
    BY <1>2, <1>4 DEF FinishJob, Cases, Jobs
  <2> HIDE DEF job, c
  <2>5. Saves(c, Tail(run.queue))
    BY <1>5 DEF c
  <2> QED
    BY <1>1, <1>3, <2>1, <2>2, <2>3, <2>4, <2>5, JobSettled
<1>6. CASE Receipt(JobTx) = "reverted" /\ Saves(FailJob(JobCase, Job[2], TRUE), Tail(run.queue))
  <2> DEFINE job == [old EXCEPT !.state = "pending", !.tx = NoTx]
             c == FailJob(JobCase, Job[2], TRUE)
  <2>1. job \in Jobs /\ job.tx = NoTx /\ job.state = "pending"
    BY <1>2 DEF Jobs, JobStates
  <2>2. Mined(JobTx)
    BY <1>6 DEF Receipt, Mined
  <2>3. JobFits(Job[1], job, events)
    BY <2>1 DEF JobFits
  <2>4. c = [JobCase EXCEPT !.jobs = [JobCase.jobs EXCEPT ![Job[2]] = job]]
    BY <1>2, <1>4 DEF FailJob, Cases, Jobs
  <2> HIDE DEF job, c
  <2>5. Saves(c, Tail(run.queue))
    BY <1>6 DEF c
  <2> QED
    BY <1>1, <1>3, <2>1, <2>2, <2>3, <2>4, <2>5, JobSettled
<1>7. CASE Receipt(JobTx) = "null" /\ UNCHANGED file /\ (Goto("end") \/ Goto("broadcast"))
  <2>1. CASE Goto("end")
    BY <1>1, <1>7, <2>1, RunEnds, RunOnly
  <2>2. CASE Goto("broadcast")
    <3>1. run' \in RunStates /\ run'.pc = "broadcast" /\ run'.queue = run.queue
      BY <1>2, <2>2 DEF Goto, RunStates, Busy
    <3>2. /\ run.queue # << >>
          /\ \A k \in DOMAIN run.queue : run.queue[k][2] \in DOMAIN file[run.queue[k][1]].jobs
      BY <1>1 DEF RescreenInv, RunFits
    <3>3. ~Mined(JobTx)
      BY <1>7 DEF Receipt
    <3>4. old.state # "confirmed"
      BY <1>2, <1>3, <3>3 DEF JobFits, Mined, Enacted
    <3>5. RunFits'
      BY <1>3, <1>7, <3>1, <3>2, <3>4 DEF RunFits, JobTx, JobCase, Job
    <3> QED
      BY <1>1, <1>7, <3>1, <3>5, RunOnly
  <2> QED
    BY <1>7, <2>1, <2>2
<1>8. CASE Saves(FailJob(JobCase, Job[2], FALSE), << >>)
  <2>1. [file EXCEPT ![Job[1]] = FailJob(JobCase, Job[2], FALSE)] = file
    BY <1>2 DEF FailJob, RescreenInv, RescreenShape
  <2>2. RunWrites(file, Onward(file, << >>))
    BY <1>8, <2>1
  <2>3. UNCHANGED file /\ (run' = Onward(file, << >>) \/ (run' \in RunStates /\ RunFits'))
    BY <2>2, RunWrote
  <2> QED
    BY <1>1, <2>3, LoopStops, RunOnly
<1>9. CASE JobFails
  BY <1>1, <1>9, JobFailsLawful
<1>10. \/ Receipt(JobTx) = "success" /\ Saves(FinishJob(JobCase, Job[2]), Tail(run.queue))
       \/ Receipt(JobTx) = "reverted" /\ Saves(FailJob(JobCase, Job[2], TRUE), Tail(run.queue))
       \/ Receipt(JobTx) = "null" /\ UNCHANGED file /\ (Goto("end") \/ Goto("broadcast"))
       \/ Saves(FailJob(JobCase, Job[2], FALSE), << >>)
       \/ JobFails
  BY DEF Settle
<1> HIDE DEF Saves
<1> QED
  BY <1>5, <1>6, <1>7, <1>8, <1>9, <1>10

LEMMA BroadcastLawful ==
  ASSUME RescreenInv, BroadcastJob PROVE RescreenInv' /\ LawfulStep
<1> DEFINE old == JobCase.jobs[Job[2]]
<1>1. /\ run.pc = "broadcast" /\ run.pc \in Busy /\ sent' = sent \cup {JobTx} /\ Goto("wait")
      /\ pool' \subseteq pool \cup {JobTx} /\ UNCHANGED <<file, nonce, reverted>> /\ RunFrame
  BY DEF BroadcastJob, Busy
<1>2. /\ Job[1] \in Records /\ Job[2] \in DOMAIN JobCase.jobs /\ JobCase = file[Job[1]]
      /\ JobCase \in Cases /\ old \in Jobs /\ JobFits(Job[1], old, events) /\ run \in RunStates
  BY <1>1, AtJob
<1>3. /\ JobTx = old.tx /\ JobTx # NoTx /\ JobTx \in Revocations /\ JobTx.rec = Job[1]
      /\ old.state # "confirmed"
  BY <1>1, <1>2 DEF RescreenInv, RunFits, JobTx, Jobs, JobFits
<1>4. UNCHANGED <<backup, rolled, events, review, check, list, time>>
  BY <1>1 DEF RunFrame, deskVars, worldVars
<1>5. run' \in RunStates /\ run'.pc = "wait" /\ run'.queue = run.queue
  BY <1>1, <1>2 DEF Goto, RunStates, Busy
<1>6. RescreenShape'
  BY <1>1, <1>3, <1>4, <1>5 DEF RescreenInv, RescreenShape
<1>7. FileFits(file', events') /\ (backup' # NoCase => FileFits(backup', events'))
  BY <1>1, <1>4 DEF RescreenInv
<1>8. RunFits'
  <2>1. /\ run.queue # << >>
        /\ \A k \in DOMAIN run.queue : run.queue[k][2] \in DOMAIN file[run.queue[k][1]].jobs
    BY <1>1 DEF RescreenInv, RunFits
  <2> QED
    BY <1>1, <1>3, <1>5, <2>1 DEF RunFits, JobTx, JobCase, Job
<1>9. SentIsRetained'
  <2> SUFFICES ASSUME ~rolled, NEW t \in sent \cup {JobTx}, ~Mined(t)
               PROVE  \E i \in Unconfirmed(file[t.rec]) : file[t.rec].jobs[i].tx = t
    BY <1>1, <1>4 DEF SentIsRetained, Mined
  <2>1. CASE t = JobTx
    <3>1. JobCase.jobs \in Seq(Jobs)
      BY <1>2 DEF Cases
    <3>2. Job[2] \in Unconfirmed(JobCase)
      BY <1>2, <1>3, <3>1 DEF Unconfirmed
    <3> QED
      BY <1>2, <1>3, <2>1, <3>2
  <2>2. CASE t \in sent
    BY <2>2 DEF RescreenInv, SentIsRetained
  <2> QED
    BY <2>1, <2>2
<1>10. LawfulStep
  BY <1>1, FileCase, NoChange DEF LawfulStep
<1> QED
  BY <1>6, <1>7, <1>8, <1>9, <1>10 DEF RescreenInv

-----------------------------------------------------------------------------
(***************************************************************************)
(* The theorems.                                                           *)
(***************************************************************************)
LEMMA InitHolds == RescreenInit => RescreenInv
<1> SUFFICES ASSUME RescreenInit PROVE RescreenInv
  OBVIOUS
<1>1. PICK put \in SUBSET Denied :
        file = [r \in Records |-> IF r \in put THEN Put(NewCase, "DENIED", 1, 1 + Retention) ELSE NewCase]
  BY DEF RescreenInit
<1>2. NewCase \in Cases /\ NewCase.jobs = << >> /\ Whole(NewCase) /\ MayPut(NewCase)
  BY EmptySeq DEF NewCase, Cases, Whole, MayPut
<1>3. \A r \in Records :
        /\ file[r] \in Cases /\ GoesOn(NewCase, file[r]) /\ Whole(file[r])
  <2> TAKE r \in Records
  <2>1. 1 + Retention \in Int
    BY RescreenAssumption
  <2> DEFINE c == Put(NewCase, "DENIED", 1, 1 + Retention)
  <2>2. c \in Cases /\ GoesOn(NewCase, c) /\ Whole(c)
    BY <1>2, <2>1, PutFits DEF Lawful
  <2>3. GoesOn(NewCase, NewCase)
    BY <1>2, SameJobs
  <2> HIDE DEF c
  <2>4. file[r] \in {c, NewCase}
    BY <1>1 DEF c
  <2> QED
    BY <1>2, <2>2, <2>3, <2>4
<1>4. file \in [Records -> Cases] /\ events \in Logs
  BY <1>1, <1>3, EmptySeq DEF RescreenInit, Logs
<1>5. FileFits(file, events)
  <2>1. Grows(events, events)
    BY <1>4 DEF Grows, Logs
  <2>2. \A r \in Records : CaseFits(r, NewCase, events)
    BY <1>2 DEF CaseFits
  <2> QED
    BY <1>2, <1>3, <1>4, <2>1, <2>2, CaseGoesOn DEF FileFits
<1>6. run \in RunStates /\ run.pc = "idle"
  BY EmptySeq DEF RescreenInit, Asleep, RunStates, Quiet
<1>7. RescreenShape
  BY <1>4, <1>6 DEF RescreenInit, RescreenShape, Logs
<1>8. RunFits
  BY <1>6 DEF RunFits, Busy
<1> QED
  BY <1>5, <1>7, <1>8 DEF RescreenInit, RescreenInv, SentIsRetained

LEMMA StepHolds == RescreenInv /\ [RescreenNext]_rescreenVars => RescreenInv' /\ LawfulStep
<1> SUFFICES ASSUME RescreenInv, [RescreenNext]_rescreenVars PROVE RescreenInv' /\ LawfulStep
  OBVIOUS
<1>1. ASSUME RunStep PROVE RescreenInv' /\ LawfulStep
  <2>1. CASE ReadReceipt \/ WaitForJob
    BY <2>1, SettleLawful DEF ReadReceipt, WaitForJob
  <2> QED
    BY <1>1, <2>1, RecoverLawful, ListLawful, SignLawful, BroadcastLawful, SelectLawful, ReadListsLawful,
       ScreenLawful, ScreenedLawful, OthersLawful DEF RunStep
<1>2. ASSUME NEW r \in Records \ Denied, Callback(r) \/ Admin(r) \/ RelayToHub(r)
      PROVE  RescreenInv' /\ LawfulStep
  BY <1>2, CallbackLawful, AdminLawful, OthersLawful
<1>3. ASSUME NEW outcome \in {"cleared", "blocked"}, DecideReview(outcome) PROVE RescreenInv' /\ LawfulStep
  BY <1>3, DecideReviewLawful
<1> QED
  BY <1>1, <1>2, <1>3, OthersLawful, PurgeLawful, RecordEnforcementLawful, CreateBackupLawful,
     RestoreBackupLawful, MineRevocationLawful DEF RescreenNext

THEOREM RescreenInvHolds == RescreenSpec => []RescreenInv
BY InitHolds, StepHolds, PTL DEF RescreenSpec

\* A revocation that left for the network and is not mined is the signed transaction of
\* an open job, whatever crashes and whoever writes the file in between, unless an older
\* file was restored (deliverRevocations, prepareRevocation, failRevocation).
THEOREM SentRevocationsAreKept == RescreenSpec => []SentIsRetained
<1>1. RescreenInv => SentIsRetained
  BY DEF RescreenInv
<1> QED
  BY <1>1, RescreenInvHolds, PTL

\* When every revocation of a blocked record is confirmed in the vault, the source has
\* revoked its wallet; only an issuance mined after the revocation brings it back
\* (finishRevocation).
THEOREM DrainedOutboxMeansRevoked == RescreenSpec => []DrainedMeansRevoked
<1>1. RescreenInv => DrainedMeansRevoked
  <2> SUFFICES ASSUME RescreenInv, NEW r \in Records, file[r].jobs # << >>, Unconfirmed(file[r]) = {}
               PROVE  \/ events[r] # << >> /\ events[r][Len(events[r])] # IssueTx
                      \/ \E m, n \in 1 .. Len(events[r]) :
                           m < n /\ events[r][m] # IssueTx /\ events[r][n] = IssueTx
    BY DEF DrainedMeansRevoked
  <2>1. file[r] \in Cases /\ CaseFits(r, file[r], events) /\ events[r] \in Seq(Revocations \cup {IssueTx})
    BY FileCase DEF RescreenInv, RescreenShape
  <2>2. file[r].jobs \in Seq(Jobs)
    BY <2>1 DEF Cases
  <2>3. 1 \in DOMAIN file[r].jobs /\ 1 \in 1 .. Len(file[r].jobs) /\ file[r].jobs[1] \in Jobs
    BY <2>2
  <2>4. file[r].jobs[1].state = "confirmed"
    BY <2>3 DEF Unconfirmed
  <2> DEFINE t == file[r].jobs[1].tx
  <2>5. t \in Revocations /\ t.rec = r /\ Enacted(t, events)
    BY <2>1, <2>3, <2>4 DEF CaseFits, JobFits, Jobs
  <2>6. t # IssueTx
    BY <2>5, RescreenAssumption
  <2>7. PICK m \in 1 .. Len(events[r]) : events[r][m] = t
    BY <2>5 DEF Enacted
  <2> HIDE DEF t
  <2>8. Len(events[r]) \in Nat /\ (m < Len(events[r]) \/ m = Len(events[r]))
    BY <2>1
  <2> QED
    BY <2>1, <2>6, <2>7, <2>8
<1> QED
  BY <1>1, RescreenInvHolds, PTL

\* A record that is blocked stays blocked until a reviewer who has it open lifts the block,
\* with no revocation of it on the way: recordRescreen and the issuance callbacks never do.
THEOREM BlocksStand == RescreenSpec => BlockStands
<1>1. LawfulStep =>
        \A r \in Records :
          /\ Retained(file[r]) /\ file[r].rec.state = "blocked"
          /\ Retained(file'[r]) /\ file'[r].rec.state # "blocked"
          => \/ backup # NoCase /\ file' = backup
             \/ review # NoCase /\ review.rec = r /\ Unconfirmed(file[r]) = {}
  BY DEF LawfulStep, Lawful
<1> QED
  BY <1>1, StepHolds, RescreenInvHolds, PTL DEF BlockStands, RescreenSpec

\* A record is erased after its deadline, free of holds and with its revocations settled,
\* exactly as two operators agreed on it, and neither a replayed request nor a backup
\* brings it back (deletionBlockers, put, restoreBackup).
THEOREM ErasuresAreAgreedAndFinal == RescreenSpec => ErasureIsAgreedAndFinal
<1>1. RescreenInv /\ LawfulStep =>
        \A r \in Records :
          LET c == file[r] IN
            /\ Retained(c) /\ ~Retained(file'[r]) /\ ~(backup # NoCase /\ file' = backup) =>
                 /\ time >= Deadline(c) /\ c.holds = {} /\ Unconfirmed(c) = {}
                 /\ c.request.approved
                 /\ c.request.fingerprint = <<c.rec, c.minimum, c.holds, c.released, c.jobs>>
            /\ r \in gone /\ Retained(file'[r]) => Retained(c) \/ c = NewCase
  <2> SUFFICES ASSUME RescreenInv, LawfulStep, NEW r \in Records
               PROVE  LET c == file[r] IN
                        /\ Retained(c) /\ ~Retained(file'[r]) /\ ~(backup # NoCase /\ file' = backup) =>
                             /\ time >= Deadline(c) /\ c.holds = {} /\ Unconfirmed(c) = {}
                             /\ c.request.approved
                             /\ c.request.fingerprint = <<c.rec, c.minimum, c.holds, c.released, c.jobs>>
                        /\ r \in gone /\ Retained(file'[r]) => Retained(c) \/ c = NewCase
    OBVIOUS
  <2>1. Whole(file[r])
    BY FileCase
  <2>2. CASE Lawful(r, file[r], file'[r])
    BY <2>1, <2>2 DEF Lawful, Whole
  <2>3. CASE backup # NoCase /\ file' = backup /\ \A q \in gone : ~Retained(backup[q])
    BY <2>3
  <2> QED
    BY <2>2, <2>3 DEF LawfulStep
<1> QED
  BY <1>1, StepHolds, RescreenInvHolds, PTL DEF ErasureIsAgreedAndFinal, RescreenSpec
=============================================================================
