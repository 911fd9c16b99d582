----------------------------- MODULE Lifecycle ------------------------------
(***************************************************************************)
(* Start and stop of a backend process: the entrypoints api.ts, worker.ts  *)
(* and outbox.ts with src/runtime.  A signal may arrive while the process  *)
(* is still starting, again while it is stopping, and any step of the      *)
(* cleanup may fail or never end.  What the outside sees of it is the      *)
(* readiness answer of the API, or the heartbeat key of a background       *)
(* process in Redis.                                                       *)
(***************************************************************************)
EXTENDS Naturals, Sequences

CONSTANTS
  Roles,             \* "api", "background" (worker and outbox)
  MaxRequests,       \* bound: HTTP requests, open or answered with an audit write under way
  MaxRuntimeFaults   \* bound: failures and steps that do not end

ASSUME LifecycleAssumption ==
  Roles \subseteq {"api", "background"} /\ MaxRequests \in Nat /\ MaxRuntimeFaults \in Nat

VARIABLES
  role,
  boot,          \* the entrypoint: "services", "second", "up", "left", "failed"
  gate,          \* ReadinessGate
  shutdown,      \* "none", "draining", "cleanup", "done"
  requested,     \* shutdownRequested
  cleanupStep,   \* index of the cleanup step under way
  stepFailed,    \* a cleanup step has thrown
  hung,          \* the cleanup step under way does not end
  timer,         \* hardTimer is armed
  process,       \* "alive", "exited", "forced"
  beat,          \* currentBeat: "none", "probe", "set", "written", "del"
  heartbeatKey,  \* the key exists
  earlyDel,      \* the del of markNotReady is under way
  openRequests, auditWrites,   \* requests in progress, pendingAuditWrites
  abandoned,     \* the grace period or the audit drain ran out of time
  lostWrites,    \* audit writes that met a closed pool
  probe,         \* a readiness check: "none", "running"; and the cached answer
  cachedReady, lateReady,      \* lateReady: ready was answered after the request to stop
  runtimeFaults

lifecycleVars == <<role, boot, gate, shutdown, requested, cleanupStep, stepFailed, hung, timer, process,
                   beat, heartbeatKey, earlyDel, openRequests, auditWrites, abandoned,
                   lostWrites, probe, cachedReady, lateReady, runtimeFaults>>

CleanupSteps ==
  IF role = "api"
    THEN <<"realtime", "queue", "redis", "audit", "postgres", "tracking">>
    ELSE <<"worker", "queue", "heartbeat", "redis", "postgres", "tracking">>

Past(name) ==
  \E i \in 1..Len(CleanupSteps) : CleanupSteps[i] = name /\ i < cleanupStep

LifecycleInit ==
  /\ role \in Roles
  /\ boot = "services" /\ gate = FALSE
  /\ shutdown = "none" /\ requested = FALSE /\ cleanupStep = 0 /\ hung = FALSE
  /\ stepFailed = FALSE
  /\ timer = FALSE /\ process = "alive"
  /\ beat = "none" /\ heartbeatKey = FALSE /\ earlyDel = FALSE
  /\ openRequests = 0 /\ auditWrites = 0 /\ abandoned = FALSE /\ lostWrites = 0
  /\ probe = "none" /\ cachedReady = FALSE /\ lateReady = FALSE
  /\ runtimeFaults = 0

Alive == process = "alive"

RuntimeFault == runtimeFaults < MaxRuntimeFaults /\ runtimeFaults' = runtimeFaults + 1

-----------------------------------------------------------------------------
(* Start *)

(* startRealtimeServices, startJobWorker or startOutboxWorker has returned; a *)
(* background process now starts its heartbeat, the API listens.              *)
ServicesStarted ==
  /\ Alive /\ boot = "services"
  /\ boot' = IF requested THEN "left" ELSE "second"
  /\ beat' = IF requested \/ role = "api" THEN beat ELSE "probe"
  /\ UNCHANGED <<role, gate, shutdown, requested, cleanupStep, stepFailed, hung, timer,
                 process, heartbeatKey, earlyDel, openRequests, auditWrites, abandoned,
                 lostWrites, probe, cachedReady, lateReady, runtimeFaults>>

(* Mutant: the flag is not looked at again after the last await. *)
StartCompleted_NoRecheck ==
  /\ Alive /\ boot = "second" /\ (role = "background" => beat = "none")
  /\ boot' = "up"
  /\ gate' = (role = "api")
  /\ UNCHANGED <<role, shutdown, requested, cleanupStep, stepFailed, hung, timer, process,
                 beat, heartbeatKey, earlyDel, openRequests, auditWrites, abandoned,
                 lostWrites, probe, cachedReady, lateReady, runtimeFaults>>

(* The server listens, or the first beat is over: the API becomes ready unless *)
(* it was told to stop meanwhile.                                              *)
StartCompleted ==
  /\ Alive /\ boot = "second" /\ (role = "background" => beat = "none")
  /\ boot' = IF requested THEN "left" ELSE "up"
  /\ gate' = (role = "api" /\ ~requested)
  /\ UNCHANGED <<role, shutdown, requested, cleanupStep, stepFailed, hung, timer, process,
                 beat, heartbeatKey, earlyDel, openRequests, auditWrites, abandoned,
                 lostWrites, probe, cachedReady, lateReady, runtimeFaults>>

(* ProcessLifecycleController.request for the first time. *)
BeginShutdown(newBoot) ==
  /\ shutdown' = IF role = "api" THEN "draining" ELSE "cleanup"
  /\ requested' = TRUE /\ timer' = TRUE
  /\ gate' = FALSE
  /\ boot' = newBoot
  /\ cleanupStep' = IF role = "api" THEN 0 ELSE 1
  /\ earlyDel' = (role = "background" /\ boot # "services")

(* A failed start.  The API stops like on a signal; a background process runs *)
(* its cleanup without the timer.                                             *)
StartFailed ==
  /\ Alive /\ boot \in {"services", "second"} /\ RuntimeFault
  /\ IF requested
       THEN boot' = "left" /\ UNCHANGED <<gate, shutdown, requested, cleanupStep, timer,
                                          earlyDel>>
       ELSE IF role = "api" THEN BeginShutdown("failed")
       ELSE /\ boot' = "failed" /\ shutdown' = "cleanup" /\ cleanupStep' = 1
            /\ UNCHANGED <<gate, requested, timer, earlyDel>>
  /\ UNCHANGED <<role, stepFailed, hung, process, beat, heartbeatKey, openRequests,
                 auditWrites, abandoned, lostWrites, probe, cachedReady, lateReady>>

-----------------------------------------------------------------------------
(* Stop *)

(* SIGTERM, SIGINT, an unhandled rejection or exception.  The second request *)
(* forces the exit.                                                          *)
RequestShutdown ==
  /\ Alive
  /\ \/ /\ ~requested /\ shutdown = "none"
        /\ BeginShutdown(boot)
        /\ UNCHANGED process
     \/ /\ ~requested /\ shutdown # "none"
        /\ requested' = TRUE /\ timer' = TRUE /\ gate' = FALSE
        /\ UNCHANGED <<process, boot, shutdown, cleanupStep, earlyDel>>
     \/ /\ requested
        /\ process' = "forced" /\ timer' = FALSE
        /\ UNCHANGED <<boot, gate, shutdown, requested, cleanupStep, earlyDel>>
  /\ UNCHANGED <<role, stepFailed, hung, beat, heartbeatKey, openRequests, auditWrites,
                 abandoned, lostWrites, probe, cachedReady, lateReady, runtimeFaults>>

HardTimeout ==
  /\ Alive /\ timer
  /\ process' = "forced" /\ timer' = FALSE
  /\ UNCHANGED <<role, boot, gate, shutdown, requested, cleanupStep, stepFailed, hung, beat,
                 heartbeatKey, earlyDel, openRequests, auditWrites, abandoned, lostWrites,
                 probe, cachedReady, lateReady, runtimeFaults>>

(* createApiShutdown: every request answered and every socket closed (module *)
(* Sockets), or the grace period is over and connections are cut.            *)
DrainApi ==
  /\ Alive /\ shutdown = "draining"
  /\ \/ openRequests = 0 /\ UNCHANGED <<abandoned, runtimeFaults>>
     \/ RuntimeFault /\ abandoned' = TRUE
  /\ shutdown' = "cleanup" /\ cleanupStep' = 1
  /\ UNCHANGED <<role, boot, gate, requested, stepFailed, hung, timer, process, beat,
                 heartbeatKey, earlyDel, openRequests, auditWrites, lostWrites, probe,
                 cachedReady, lateReady>>

(* What a cleanup step waits for: stopRealtimeServices waits for the start,  *)
(* heartbeat.stop for the current beat, the audit drain for every write.  A  *)
(* worker is closed before its start is waited for, which makes that settle. *)
StepEnds(name) ==
  CASE name = "realtime" -> boot # "services"
    [] name = "heartbeat" -> beat = "none"
    [] name = "audit" -> auditWrites = 0
    [] OTHER -> TRUE

(* A step that goes wrong: the audit drain runs out of time, the heartbeat key *)
(* is not deleted, any other step throws.                                      *)
StepGoesWrong(name) ==
  /\ RuntimeFault
  /\ name = "heartbeat" => beat = "none"
  /\ abandoned' = (abandoned \/ name = "audit")
  /\ stepFailed' = (stepFailed \/ name \notin {"audit", "heartbeat"})
  /\ UNCHANGED heartbeatKey

(* runCleanupSteps: one step after the other, a failed one does not stop the *)
(* rest.                                                                     *)
RunCleanupStep ==
  /\ Alive /\ shutdown = "cleanup" /\ ~hung /\ cleanupStep <= Len(CleanupSteps)
  /\ LET name == CleanupSteps[cleanupStep] IN
       /\ \/ StepGoesWrong(name)
          \/ /\ StepEnds(name)
             /\ heartbeatKey' = (heartbeatKey /\ name # "heartbeat")
             /\ UNCHANGED <<abandoned, stepFailed, runtimeFaults>>
       /\ earlyDel' = (earlyDel /\ name # "redis")
  /\ cleanupStep' = cleanupStep + 1
  /\ UNCHANGED <<role, boot, gate, shutdown, requested, hung, timer, process, beat,
                 openRequests, auditWrites, lostWrites, probe, cachedReady, lateReady>>

(* A connection that does not close. *)
CleanupHangs ==
  /\ Alive /\ shutdown = "cleanup" /\ ~hung /\ cleanupStep <= Len(CleanupSteps) /\ RuntimeFault
  /\ hung' = TRUE
  /\ UNCHANGED <<role, boot, gate, shutdown, requested, cleanupStep, stepFailed, timer,
                 process, beat, heartbeatKey, earlyDel, openRequests, auditWrites, abandoned,
                 lostWrites, probe, cachedReady, lateReady>>

(* The promise of shutdown settles: the exit code is set and the process runs *)
(* out of work; after a failed step it is forced instead.                     *)
FinishCleanup ==
  /\ Alive /\ shutdown = "cleanup" /\ ~hung /\ cleanupStep > Len(CleanupSteps)
  /\ shutdown' = "done" /\ timer' = FALSE
  /\ process' = IF requested /\ stepFailed THEN "forced" ELSE "exited"
  /\ UNCHANGED <<role, boot, gate, requested, cleanupStep, stepFailed, hung, beat,
                 heartbeatKey, earlyDel, openRequests, auditWrites, abandoned, lostWrites,
                 probe, cachedReady, lateReady, runtimeFaults>>

-----------------------------------------------------------------------------
(* RuntimeHeartbeat *)

(* beginShutdown of the heartbeat: it exists once the services have started. *)
Stopping == requested

TriggerBeat ==
  /\ Alive /\ role = "background" /\ boot = "up" /\ beat = "none" /\ ~Stopping
  /\ shutdown = "none"
  /\ beat' = "probe"
  /\ UNCHANGED <<role, boot, gate, shutdown, requested, cleanupStep, stepFailed, hung, timer,
                 process, heartbeatKey, earlyDel, openRequests, auditWrites, abandoned,
                 lostWrites, probe, cachedReady, lateReady, runtimeFaults>>

(* writeBeat: probe, set, and after each await the look at stopping. *)
BeatStep ==
  /\ Alive
  /\ \/ /\ beat = "probe"
        /\ \/ beat' = (IF Stopping THEN "del" ELSE "set") /\ UNCHANGED runtimeFaults
           \/ RuntimeFault /\ beat' \in {"del", "none"}
        /\ UNCHANGED heartbeatKey
     \/ /\ beat = "set"
        /\ \/ heartbeatKey' = TRUE /\ beat' = "written" /\ UNCHANGED runtimeFaults
           \/ RuntimeFault /\ beat' = "none" /\ UNCHANGED heartbeatKey
     \/ /\ beat = "written"
        /\ beat' = IF Stopping THEN "del" ELSE "none"
        /\ UNCHANGED <<heartbeatKey, runtimeFaults>>
     \/ /\ beat = "del" /\ beat' = "none"
        /\ \/ heartbeatKey' = FALSE /\ UNCHANGED runtimeFaults
           \/ RuntimeFault /\ UNCHANGED heartbeatKey
  /\ UNCHANGED <<role, boot, gate, shutdown, requested, cleanupStep, stepFailed, hung, timer,
                 process, earlyDel, openRequests, auditWrites, abandoned, lostWrites, probe,
                 cachedReady, lateReady>>

(* void heartbeat.markNotReady(): nobody waits for it. *)
EarlyDel ==
  /\ Alive /\ earlyDel
  /\ earlyDel' = FALSE
  /\ \/ heartbeatKey' = FALSE /\ UNCHANGED runtimeFaults
     \/ RuntimeFault /\ UNCHANGED heartbeatKey
  /\ UNCHANGED <<role, boot, gate, shutdown, requested, cleanupStep, stepFailed, hung, timer,
                 process, beat, openRequests, auditWrites, abandoned, lostWrites, probe,
                 cachedReady, lateReady>>

(* The time to live of a key nobody writes any more. *)
HeartbeatExpires ==
  /\ heartbeatKey /\ ~Alive
  /\ heartbeatKey' = FALSE
  /\ UNCHANGED <<role, boot, gate, shutdown, requested, cleanupStep, stepFailed, hung, timer,
                 process, beat, earlyDel, openRequests, auditWrites, abandoned, lostWrites,
                 probe, cachedReady, lateReady, runtimeFaults>>

-----------------------------------------------------------------------------
(* HTTP requests and their audit writes *)

AcceptRequest ==
  /\ Alive /\ role = "api" /\ boot = "up" /\ shutdown = "none"
  /\ openRequests + auditWrites < MaxRequests
  /\ openRequests' = openRequests + 1
  /\ UNCHANGED <<role, boot, gate, shutdown, requested, cleanupStep, stepFailed, hung, timer,
                 process, beat, heartbeatKey, earlyDel, auditWrites, abandoned, lostWrites,
                 probe, cachedReady, lateReady, runtimeFaults>>

(* The finish event of a response starts the write without waiting for it. *)
FinishResponse ==
  /\ Alive /\ openRequests > 0
  /\ openRequests' = openRequests - 1
  /\ auditWrites' = IF Past("postgres") THEN auditWrites ELSE auditWrites + 1
  /\ lostWrites' = IF Past("postgres") THEN lostWrites + 1 ELSE lostWrites
  /\ UNCHANGED <<role, boot, gate, shutdown, requested, cleanupStep, stepFailed, hung, timer,
                 process, beat, heartbeatKey, earlyDel, abandoned, probe, cachedReady,
                 lateReady, runtimeFaults>>

(* The insert is answered; a closed pool rejects it. *)
SettleAudit ==
  /\ Alive /\ auditWrites > 0
  /\ auditWrites' = auditWrites - 1
  /\ lostWrites' = IF Past("postgres") THEN lostWrites + 1 ELSE lostWrites
  /\ UNCHANGED <<role, boot, gate, shutdown, requested, cleanupStep, stepFailed, hung, timer,
                 process, beat, heartbeatKey, earlyDel, openRequests, abandoned, probe,
                 cachedReady, lateReady, runtimeFaults>>

-----------------------------------------------------------------------------
(* HealthService.readiness of the API: the gate, then the cached answer, then *)
(* one check of the dependencies that concurrent callers share.               *)
AskReadiness ==
  /\ Alive /\ role = "api" /\ gate
  /\ IF cachedReady THEN lateReady' = (lateReady \/ requested) /\ UNCHANGED probe
                    ELSE probe' = "running" /\ UNCHANGED lateReady
  /\ UNCHANGED <<role, boot, gate, shutdown, requested, cleanupStep, stepFailed, hung, timer,
                 process, beat, heartbeatKey, earlyDel, openRequests, auditWrites, abandoned,
                 lostWrites, cachedReady, runtimeFaults>>

(* The dependencies have answered or timed out; the gate counts once more. *)
AnswerReadiness ==
  /\ Alive /\ probe = "running"
  /\ probe' = "none"
  /\ \E ok \in BOOLEAN :
       /\ cachedReady' = (ok /\ gate)
       /\ lateReady' = (lateReady \/ (ok /\ gate /\ requested))
  /\ UNCHANGED <<role, boot, gate, shutdown, requested, cleanupStep, stepFailed, hung, timer,
                 process, beat, heartbeatKey, earlyDel, openRequests, auditWrites, abandoned,
                 lostWrites, runtimeFaults>>

CacheExpires ==
  /\ Alive /\ cachedReady
  /\ cachedReady' = FALSE
  /\ UNCHANGED <<role, boot, gate, shutdown, requested, cleanupStep, stepFailed, hung, timer,
                 process, beat, heartbeatKey, earlyDel, openRequests, auditWrites, abandoned,
                 lostWrites, probe, lateReady, runtimeFaults>>

-----------------------------------------------------------------------------
LifecycleNext ==
  \/ ServicesStarted \/ StartCompleted \/ StartFailed
  \/ RequestShutdown \/ HardTimeout \/ DrainApi
  \/ RunCleanupStep \/ CleanupHangs \/ FinishCleanup
  \/ TriggerBeat \/ BeatStep \/ EarlyDel \/ HeartbeatExpires
  \/ AcceptRequest \/ FinishResponse \/ SettleAudit
  \/ AskReadiness \/ AnswerReadiness \/ CacheExpires

LifecycleSpec == LifecycleInit /\ [][LifecycleNext]_lifecycleVars

-----------------------------------------------------------------------------
(* Every variable has its type. *)
LifecycleTypeOK ==
  /\ role \in Roles
  /\ boot \in {"services", "second", "up", "left", "failed"}
  /\ gate \in BOOLEAN /\ requested \in BOOLEAN /\ hung \in BOOLEAN /\ timer \in BOOLEAN
  /\ shutdown \in {"none", "draining", "cleanup", "done"}
  /\ cleanupStep \in 0..7 /\ stepFailed \in BOOLEAN
  /\ process \in {"alive", "exited", "forced"}
  /\ beat \in {"none", "probe", "set", "written", "del"}
  /\ heartbeatKey \in BOOLEAN /\ earlyDel \in BOOLEAN
  /\ openRequests \in 0..MaxRequests /\ auditWrites \in 0..MaxRequests
  /\ lostWrites \in 0..MaxRequests
  /\ abandoned \in BOOLEAN /\ cachedReady \in BOOLEAN /\ lateReady \in BOOLEAN
  /\ probe \in {"none", "running"}
  /\ runtimeFaults \in 0..MaxRuntimeFaults

(* A process that was told to stop is never announced as ready again, by the *)
(* API's answer, or after its cleanup by a heartbeat key; and a shutdown     *)
(* within its time limits loses no audit write of an answered request.  A    *)
(* failing Redis may leave the key to its time to live.                      *)
CleanShutdown ==
  /\ ~lateReady /\ (requested => ~gate)
  /\ process = "exited" /\ runtimeFaults = 0 => ~heartbeatKey
  /\ ~abandoned => lostWrites = 0
=============================================================================
