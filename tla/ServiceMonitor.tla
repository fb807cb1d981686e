--------------------------- MODULE ServiceMonitor ---------------------------
(***************************************************************************)
(* Watching the relay worker from outside: its self-report over loopback   *)
(* (worker/health.ts, health-probe.ts), the findings in its state file     *)
(* (monitor.ts), one bounded observation of worker, file and both chains   *)
(* (service-monitor.ts), the directory of recorded observations and the    *)
(* audit that decides whether a staging window is complete                 *)
(* (service-evidence.ts).  A probe reads the file and asks worker and      *)
(* chains at moments of their own while everything moves; it may time out, *)
(* throw, or die while it writes its record.  Time passes in ticks.        *)
(*                                                                         *)
(* The worker is seen through its store (module WorkerStore) and the calls *)
(* it makes on WorkerHealth; what makes it act is left open.               *)
(***************************************************************************)
EXTENDS WorkerStore

CONSTANTS
  Sampled,         \* the source transactions the worker meets
  Never,           \* no source scan completed yet
  MaxClock,        \* bound: the last tick
  MaxScanAge,      \* WORKER_HEALTH_MAX_SCAN_AGE_MS
  Timeout,         \* MONITOR_WORKER_SERVICE_TIMEOUT_MS
  JobAge,          \* MONITOR_WORKER_JOB_SECONDS
  RetryLimit,      \* MONITOR_WORKER_ATTEMPTS
  MaxBlockLag,     \* MONITOR_WORKER_SOURCE_MAX_BLOCK_LAG
  MaxRunGap,       \* MONITOR_WORKER_MISSED_AFTER_SECONDS
  RequiredWindow,  \* MONITOR_WORKER_STAGING_SECONDS
  TargetMinJobs    \* MONITOR_WORKER_STAGING_MIN_JOBS

ASSUME MonitorAssumption ==
  /\ {JobAge, MaxBlockLag, RequiredWindow} \subseteq Nat
  /\ {Timeout, MaxRunGap} \subseteq Nat \ {0}

VARIABLES
  clock,
  health,          \* the process and its WorkerHealth: [up, phase, scanAt, scanFailed]
  stateFile,       \* the state file: [store, cursor (-1: no checkpoint), found, updated, error]
  heads,           \* [source, fresh, within]: the source head, is it fresh, and are the hub's
                   \* head, the signer's balance and backlog and the gas price within thresholds
  sample,          \* the probe under way
  records,         \* complete records of the evidence directory
  leftover,        \* a .tmp file is in the directory
  due,             \* the scheduler starts the next probe at this tick or later
  aspect,          \* what the history is kept of: one of Aspects
  seen             \* history: the last tick at which the aspect was well for a moment, and
                   \* the start of the latest outage, Span ticks in a row without

monitorVars == <<clock, health, stateFile, heads, sample, records, leftover, due, aspect, seen>>

Aspects == {"worker", "state", "source", "hub"}

NoRun == [pc |-> "idle", at |-> 0, cursor |-> 0, jobs |-> 0, findings |-> FALSE, asked |-> {}, worst |-> "ok"]

NoProcess == [up |-> FALSE, phase |-> "STARTING", scanAt |-> Never, scanFailed |-> FALSE]

MonitorInit ==
  /\ clock = 0
  /\ health = NoProcess
  /\ stateFile = [store |-> EmptyState, cursor |-> -1, found |-> [t \in Sampled |-> 0], updated |-> 0, error |-> {}]
  /\ heads = [source |-> 0, fresh |-> TRUE, within |-> TRUE]
  /\ sample = NoRun /\ records = {} /\ leftover = FALSE /\ due = 0
  /\ aspect \in Aspects
  /\ seen = [last |-> -1, outage |-> -1]

(***************************************************************************)
(* WorkerHealth, and the calls the worker makes on it.                     *)
(***************************************************************************)
\* report: what the process says of itself.
SelfReport ==
  IF health.phase # "RUNNING" THEN health.phase
  ELSE IF health.scanFailed THEN "SOURCE_SCAN_ERROR"
  ELSE IF health.scanAt = Never THEN "SOURCE_SCAN_NOT_OBSERVED"
  ELSE IF clock - health.scanAt >= MaxScanAge THEN "SOURCE_SCAN_STALE"
  ELSE "LOCAL_SCAN_RECENT"

Boot ==
  /\ ~health.up
  /\ health' = [NoProcess EXCEPT !.up = TRUE]
  /\ UNCHANGED stateFile

\* preflight is through.
StartRunning ==
  /\ health.up /\ health.phase = "STARTING"
  /\ health' = [health EXCEPT !.phase = "RUNNING"]
  /\ UNCHANGED stateFile

Stopping ==
  /\ health.up /\ health.phase # "STOPPING"
  /\ health' = [health EXCEPT !.phase = "STOPPING"]
  /\ UNCHANGED stateFile

\* The drained process exits, or dies; its health goes with it.
Exit ==
  /\ health.up
  /\ health' = NoProcess
  /\ UNCHANGED stateFile

Writes(next) == [stateFile EXCEPT !.store = next, !.updated = clock]

\* scan: a step reaches the safe head, with or without a new transaction.
ScanCompletes ==
  /\ health.up /\ health.phase = "RUNNING"
  /\ ~stateFile.store.sourceHold /\ ~stateFile.store.hubHold
  /\ health' = [health EXCEPT !.scanAt = clock, !.scanFailed = FALSE]
  /\ \/ stateFile' = [stateFile EXCEPT !.cursor = heads.source]
     \/ /\ stateFile.cursor < heads.source
        /\ \E t \in Sampled \ Jobs(stateFile.store) :
             stateFile' = [Writes(CommitSourceRange(stateFile.store, t, 0)) EXCEPT !.cursor = heads.source, !.found[t] = clock]

ScanFails ==
  /\ health.up /\ health.phase = "RUNNING"
  /\ health' = [health EXCEPT !.scanFailed = TRUE]
  /\ UNCHANGED stateFile

\* A commit of a job, or of a hold, by the running worker.
WorkerCommits ==
  /\ health.up /\ health.phase # "STARTING"
  /\ LET d == stateFile.store IN
     \/ \E t \in Pending(d) :
          \/ d.jobs[t].state = "discovered" /\ stateFile' = Writes(Attested(d, t))
          \/ d.jobs[t].state # "submitted" /\ stateFile' = Writes(Skipped(d, t, 0))
          \/ /\ d.jobs[t].state # "submitted"
             /\ stateFile' = [Writes(Failed(d, t)) EXCEPT !.error = @ \cup {t}]
          \/ Owner(d) = t /\ stateFile' = [Writes(d) EXCEPT !.error = @ \cup {t}]
          \/ /\ d.jobs[t].state = "attested"
             /\ MayReserve(d, [source |-> t, hash |-> 0, nonce |-> 0])
             /\ stateFile' = Writes(ReserveRelay(d, [source |-> t, hash |-> 0, nonce |-> 0]))
          \/ Owner(d) = t /\ \E success \in BOOLEAN :
               stateFile' = Writes(FinishRelay(d, 0, success))
     \/ ~d.sourceHold /\ stateFile' = [stateFile EXCEPT !.store = HoldSource(d)]
     \/ ~d.hubHold /\ stateFile' = [stateFile EXCEPT !.store = HoldHub(d)]
  /\ UNCHANGED health

(***************************************************************************)
(* monitorWorker: what the file shows at time now.                         *)
(***************************************************************************)
StateFindings(now) ==
  LET d == stateFile.store
      open == Pending(d)
  IN    (IF d.sourceHold THEN {"SOURCE_SAFETY_HOLD"} ELSE {})
   \cup (IF d.hubHold THEN {"HUB_SAFETY_HOLD"} ELSE {})
   \cup (IF \E t \in Jobs(d) : d.jobs[t].state = "skipped" /\ d.jobs[t].skip = NoBlock
         THEN {"SKIP_WITHOUT_CONFIRMED_OBSERVATION"} ELSE {})
   \cup (IF \E t \in Jobs(d) : d.jobs[t].state = "dead" THEN {"DEAD_LETTER"} ELSE {})
   \cup (IF \E t \in open : now - stateFile.found[t] >= JobAge THEN {"JOB_OVERDUE"} ELSE {})
   \cup (IF \E t \in open : d.jobs[t].attempts >= RetryLimit THEN {"RETRY_THRESHOLD_REACHED"} ELSE {})
   \cup (IF open \cap stateFile.error # {} THEN {"PENDING_JOB_ERROR"} ELSE {})
   \cup (IF \E t \in open : d.jobs[t].state = "submitted" /\ Owner(d) # t
         THEN {"SUBMITTED_WITHOUT_RELAY_ENVELOPE"} ELSE {})
   \cup (IF d.relay # NoRelay THEN {"RELAY_NONCE_UNRESOLVED"} ELSE {})

\* The requirements on the file that a worker can fail to meet: there is a source
\* checkpoint, and no job was written after now.
StateReadable(now) ==
  stateFile.cursor # -1 /\ (Jobs(stateFile.store) # {} => stateFile.updated <= now)

(***************************************************************************)
(* probeWorkerService, and the record it leaves.                           *)
(***************************************************************************)
BeginProbe ==
  /\ sample.pc = "idle" /\ clock >= due
  /\ sample' = [NoRun EXCEPT !.pc = "file", !.at = clock]
  /\ due' = clock + 1
  /\ UNCHANGED <<records, leftover>>

\* A file that cannot be read as of sample.at ends the run without a record.
ReadState ==
  /\ sample.pc = "file"
  /\ sample' = IF ~StateReadable(sample.at) THEN NoRun
               ELSE [sample EXCEPT !.pc = "ask", !.cursor = stateFile.cursor, !.jobs = Cardinality(Jobs(stateFile.store)),
                                   !.findings = StateFindings(sample.at) # {}]
  /\ UNCHANGED <<records, leftover, due>>

\* The worst of two statuses.
Worse(s, t) ==
  IF "UNAVAILABLE" \in {s, t} THEN "UNAVAILABLE" ELSE IF "ATTENTION_REQUIRED" \in {s, t} THEN "ATTENTION_REQUIRED" ELSE "ok"

\* An answer of the three awaited together, as it is when it is given.
Answer(of) ==
  CASE of = "worker" -> (IF ~health.up THEN "UNAVAILABLE"
                         ELSE IF SelfReport # "LOCAL_SCAN_RECENT" \/ clock - health.scanAt + (clock - sample.at) >= MaxScanAge
                         THEN "ATTENTION_REQUIRED" ELSE "ok")
    [] of = "source" -> (IF heads.source - sample.cursor >= MaxBlockLag \/ ~heads.fresh THEN "ATTENTION_REQUIRED" ELSE "ok")
    [] of = "hub"    -> (IF ~heads.within THEN "ATTENTION_REQUIRED" ELSE "ok")

\* Any of them may fail: no connection, a malformed answer, another chain, a head
\* of a later second than the probe's own.
Ask(of) ==
  /\ sample.pc = "ask" /\ of \notin sample.asked
  /\ \E answer \in {Answer(of), "UNAVAILABLE"} :
       sample' = [sample EXCEPT !.asked = @ \cup {of}, !.worst = Worse(@, answer)]
  /\ UNCHANGED <<records, leftover, due>>

\* What probeWorkerService reports once all three are there.
Observation ==
  LET status == IF clock - sample.at >= Timeout THEN "UNAVAILABLE"
                ELSE IF sample.findings THEN Worse(sample.worst, "ATTENTION_REQUIRED") ELSE sample.worst
  IN [observedAt |-> sample.at, status |-> IF status = "ok" THEN "SERVICE_OBSERVATIONS_OK" ELSE status,
      jobs |-> IF status = "UNAVAILABLE" THEN 0 ELSE sample.jobs]

\* recordWorkerServiceEvidence, in one go: the record is renamed into place; or a
\* write fails and the temporary file is removed; or the process dies and leaves it.
Record ==
  /\ sample.pc = "ask" /\ sample.asked = {"worker", "source", "hub"}
  /\ \/ records' = records \cup {Observation} /\ UNCHANGED leftover
     \/ UNCHANGED <<records, leftover>>
     \/ leftover' = TRUE /\ UNCHANGED records
  /\ sample' = NoRun
  /\ UNCHANGED due

ProbeDies ==
  /\ sample.pc # "idle"
  /\ sample' = NoRun
  /\ UNCHANGED <<records, leftover, due>>

(***************************************************************************)
(* auditWorkerServiceEvidence at the current time, read-only.              *)
(***************************************************************************)
Boundary == clock - RequiredWindow

\* The newest record at or before the boundary, and everything after it.
Window ==
  LET old == {r \in records : r.observedAt <= Boundary}
      before == {r \in old : \A other \in old : other.observedAt <= r.observedAt}
  IN before \cup {r \in records : r.observedAt > Boundary}

\* A record with no other one soon after it, the latest one apart.
Gap(window) ==
  \E r \in window :
    /\ \E later \in window : later.observedAt > r.observedAt
    /\ \A later \in window : later.observedAt > r.observedAt => later.observedAt - r.observedAt >= MaxRunGap

\* Mutant: the probe that stopped running is not noticed.
MissedNever == FALSE

Missed == \A r \in records : clock - r.observedAt >= MaxRunGap

AuditFindings ==
  LET window == Window IN
        (IF records = {} THEN {"PROBE_NEVER_RECORDED"} ELSE {})
   \cup (IF records # {} /\ Missed THEN {"PROBE_RUN_MISSED"} ELSE {})
   \cup (IF Gap(window) THEN {"PROBE_RUN_GAP"} ELSE {})
   \cup (IF \A r \in records : r.observedAt > Boundary THEN {"STAGING_WINDOW_INCOMPLETE"} ELSE {})
   \cup ({r.status : r \in window} \ {"SERVICE_OBSERVATIONS_OK"})
   \cup (IF TargetMinJobs > 0 /\ \A r \in window : r.jobs < TargetMinJobs THEN {"TARGET_LOAD_NOT_OBSERVED"} ELSE {})

\* readWorkerServiceEvidence refuses a directory that holds anything but records.
Complete == ~leftover /\ AuditFindings = {}

-----------------------------------------------------------------------------
Worker == Boot \/ StartRunning \/ Stopping \/ Exit \/ ScanCompletes \/ ScanFails \/ WorkerCommits

Probe ==
  \/ BeginProbe \/ ReadState \/ Record \/ ProbeDies
  \/ \E of \in {"worker", "source", "hub"} : Ask(of)

\* A head moves, or the signer's account crosses a threshold.
ChainsMove ==
  \/ heads' = [heads EXCEPT !.source = @ + 1] /\ heads.source < MaxBlockLag
  \/ heads' = [heads EXCEPT !.fresh = ~@]
  \/ heads' = [heads EXCEPT !.within = ~@]

\* Is the aspect well now, as an observation of it would say?
Well ==
  LET asked == clock - (Timeout - 1) IN
  CASE aspect = "worker" -> health.up /\ SelfReport = "LOCAL_SCAN_RECENT"
    [] aspect = "state"  -> StateFindings(asked) = {} /\ heads.source - stateFile.cursor < MaxBlockLag
    [] aspect = "source" -> heads.fresh
    [] aspect = "hub"    -> heads.within

\* The shortest outage the audit's settings promise to see.
Span == MaxRunGap + Timeout - 1

ClockTicks == clock < MaxClock /\ clock' = clock + 1

Remember ==
  seen' = [last |-> IF Well' THEN clock' ELSE seen.last,
           outage |-> IF clock' # clock /\ clock - seen.last >= Span THEN clock - Span + 1 ELSE seen.outage]

MonitorNext ==
  /\ \/ Worker /\ UNCHANGED <<clock, heads, sample, records, leftover, due>>
     \/ ChainsMove /\ UNCHANGED <<clock, health, stateFile, sample, records, leftover, due>>
     \/ Probe /\ UNCHANGED <<clock, health, stateFile, heads>>
     \/ ClockTicks /\ UNCHANGED <<health, stateFile, heads, sample, records, leftover, due>>
  /\ UNCHANGED aspect /\ Remember

MonitorSpec == MonitorInit /\ [][MonitorNext]_monitorVars

(***************************************************************************)
(* Properties.                                                             *)
(***************************************************************************)
\* A complete staging window hides no outage: while auditWorkerServiceEvidence
\* says STAGING_WINDOW_COMPLETE, neither the worker's scans, its state file nor one of
\* the chains under it was unwell throughout a stretch of the window
\* as long as the allowed gap between runs; although runs die, time out, are
\* missed, and sample the parts at different moments.
OutageIsSeen == Complete => seen.outage < Boundary
=============================================================================
