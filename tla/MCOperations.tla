---------------------------- MODULE MCOperations ----------------------------
(***************************************************************************)
(* Rescreening, and in behaviours of their own the relay worker as its     *)
(* monitor sees it: four ticks, a gap of two between runs, a window of two.*)
(***************************************************************************)
EXTENDS MCRescreening, ServiceMonitor

VARIABLE watch   \* the behaviour is one of the monitor

MCInit == RescreenInit /\ MonitorInit /\ watch \in BOOLEAN /\ (watch \/ aspect = "worker")

MCNext ==
  /\ \/ ~watch /\ RescreenNext /\ UNCHANGED monitorVars
     \/ watch /\ MonitorNext /\ UNCHANGED rescreenVars
  /\ UNCHANGED watch

MCSpec == MCInit /\ [][MCNext]_<<rescreenVars, monitorVars, watch>>

\* A part of the service without trouble.
Calm(part) ==
  CASE part = "worker" -> /\ ~health.scanFailed /\ health.phase # "STOPPING"
                          /\ clock > 0 => health.scanAt # Never /\ clock - health.scanAt < MaxScanAge
    [] part = "state"  -> heads.source = 0 /\ stateFile.store = EmptyState
    [] part = "source" -> heads.fresh
    [] part = "hub"    -> heads.within

\* Some window within the bound can still be complete.
CanComplete ==
  /\ clock > MaxClock - RequiredWindow => \E r \in records : r.observedAt <= MaxClock - RequiredWindow
  /\ \A r \in records : r.status # "SERVICE_OBSERVATIONS_OK" => r.observedAt <= MaxClock - RequiredWindow

\* Only the part whose history is kept has trouble, of one kind, the answers to a
\* probe come in one order, and one record is bad.
OneTrouble ==
  /\ \A part \in Aspects \ {aspect} : Calm(part)
  /\ LET d == stateFile.store IN
     /\ ~(d.sourceHold /\ d.hubHold)
     /\ \A t \in Jobs(d) : ~d.sourceHold /\ ~d.hubHold /\ d.jobs[t].attempts <= 1 /\ stateFile.found[t] = 1
  /\ ~leftover
  /\ \A r, s \in records : "SERVICE_OBSERVATIONS_OK" \notin {r.status, s.status} => r = s
  /\ due >= clock - (IF aspect = "worker" THEN 2 ELSE 1)
  /\ aspect # "worker" => sample.worst # "UNAVAILABLE" /\ (sample.pc # "idle" => clock - sample.at < Timeout)
  /\ CanComplete
  /\ "hub" \in sample.asked => "source" \in sample.asked
  /\ "source" \in sample.asked => "worker" \in sample.asked

\* Once a probe has its answer from a part, the part waits for the probe's end.
Settled ==
  /\ "worker" \in sample.asked => health' = health
  /\ sample.pc = "ask" => stateFile' = stateFile
  /\ "hub" \in sample.asked => heads' = heads

Bounds == IF watch THEN OneTrouble ELSE Bounded
=============================================================================
