-------------------------- MODULE CanaryDeployment --------------------------
(***************************************************************************)
(* Runs of deployment_flow, one per promotion, over the containers they    *)
(* share: the canary API, the champion API and nginx.  The rollback of the *)
(* monitoring flow moves the same alias and reloads the same API.          *)
(*                                                                         *)
(* A step of a flow is one command or request another flow could           *)
(* interleave with.  nginx keeps a configuration of its own beside the     *)
(* upstream file: `docker cp` changes the file and `nginx -s reload` makes *)
(* the file current, so the two can part.  A call may fail for good (up to *)
(* MaxFaults of them do), with or without its effect where the caller      *)
(* cannot know; the flow then raises and cleans nothing up.                *)
(***************************************************************************)
EXTENDS QualityGates, FiniteSets

CONSTANTS
    Deployments,       \* the deployment flow runs
    Monitors,          \* the monitoring flow runs that may roll back
    Checks,            \* checks_total of the monitoring loop
    ErrorRates,        \* measured error rates, per mille
    Latencies,         \* measured P99 latencies
    MaxErrorRate,      \* G4 thresholds: ceiling, and ratios in percent
    MaxErrorPercent,
    MaxLatencyPercent,
    TemplatePresent,   \* is the canary template where the task looks for it?
    EmptyBodyAnswers,  \* what POST /model/reload may answer a request with no
                       \* body: a subset of {"accepted", "refused"}
    ServingVersion,    \* SERVING_MODEL_VERSION of the api container
    FaultyCalls,       \* which calls may fail: a subset of Calls
    MaxFaults,         \* bound: how many of them do
    MaxVersion,        \* bound: versions in the registry
    MaxEvents          \* bound: container restarts and rollbacks

Calls == {"up", "load", "health", "cp", "nginx", "gate", "reload", "stop",
          "rollback", "crash"}

ASSUME ParameterAssumption ==
    /\ Checks \in Nat \ {0}
    /\ ErrorRates \subseteq Nat
    /\ Latencies \subseteq Nat
    /\ MaxErrorRate \in 0..999
    /\ MaxErrorPercent \in Nat
    /\ MaxLatencyPercent \in Nat
    /\ TemplatePresent \in BOOLEAN
    /\ EmptyBodyAnswers \subseteq {"accepted", "refused"}
    /\ EmptyBodyAnswers # {}
    /\ ServingVersion \in {"latest", "@champion"}
    /\ FaultyCalls \subseteq Calls
    /\ MaxFaults \in Nat
    /\ MaxVersion \in Nat \ {0}
    /\ MaxEvents \in Nat

ASSUME NoMetricsAssumption == NoMetrics \notin Nat

Versions == 1..MaxVersion
NoModel == 0           \* a server that runs without a model
AllErrors == 1000      \* the error rate of a server that answers only 503

VARIABLES
    latest,        \* the number of registered versions
    challenger,    \* the version of alias @challenger, 0 when unset
    champion,      \* the version of alias @champion
    promoted,      \* flow run -> the version whose promotion started it
    pc,            \* where each flow run is
    checks,        \* G4 checks the flow run has passed
    passed,        \* the verdict of its monitoring loop
    over,          \* history: its measurements above the ceiling of G4
    lost,          \* history: those whose gate raised before its verdict
    mpc,           \* where the rollback of each monitoring run is
    rollback,      \* the champion version it read, 0 once it is used
    upstream,      \* the upstream file in the nginx container
    nginx,         \* the upstream configuration nginx runs with
    canaryUp,      \* is the api-canary container running?
    canaryModel,   \* the version it has loaded, or NoModel
    apiModel,      \* the version the api container has loaded, or NoModel
    faults,        \* calls that have failed so far
    events,        \* container restarts and rollbacks so far
    overlapped     \* history: has a model been registered or promoted while a
                   \* deployment was in flight?

registryVars == <<latest, challenger, champion, promoted>>
flowVars == <<pc, checks, passed, over, lost>>
monitorVars == <<mpc, rollback>>
nginxVars == <<upstream, nginx>>
canaryVars == <<canaryUp, canaryModel>>
boundVars == <<faults, events>>
vars == <<registryVars, flowVars, monitorVars, nginxVars, canaryVars, apiModel,
          boundVars, overlapped>>

-----------------------------------------------------------------------------
Ended == {"rolledOut", "rolledBack", "failed"}
Checking == {"check", "recheck"}
Locations == {"idle", "up", "health", "split", "splitReload", "restore",
              "restoreReload", "reload", "stop"} \cup Checking \cup Ended

InFlight(d) == pc[d] \notin {"idle"} \cup Ended

(* A run waits for the deployment it starts, and the served deployments    *)
(* have no concurrency limit: only another run can get here while one is   *)
(* in flight.                                                              *)
NoteOverlap ==
    overlapped' = (overlapped \/ \E d \in Deployments : InFlight(d))

Goto(d, l) == pc' = [pc EXCEPT ![d] = l]

Fault(call) ==
    /\ call \in FaultyCalls
    /\ faults < MaxFaults
    /\ faults' = faults + 1
    /\ UNCHANGED events

NoFault == UNCHANGED boundVars

(* Mutant: the alias is dropped from the model's address.                  *)
ResolveLatest(version) == latest

(* load_model_from_registry when a server starts or reloads: the version   *)
(* string is an alias or `latest`.                                         *)
Resolve(version) == IF version = "@champion" THEN champion ELSE latest

(* nginx refuses a configuration that names a host it cannot resolve: a    *)
(* stopped container has no address.                                       *)
NginxAccepts == upstream = "split" => canaryUp

-----------------------------------------------------------------------------
(* The stack is up with the seed model, and nothing deployed yet.          *)
Init ==
    /\ latest = 1
    /\ challenger = 0
    /\ champion = 1
    /\ promoted = [d \in Deployments |-> 0]
    /\ pc = [d \in Deployments |-> "idle"]
    /\ checks = [d \in Deployments |-> 0]
    /\ passed = [d \in Deployments |-> FALSE]
    /\ over = [d \in Deployments |-> 0]
    /\ lost = [d \in Deployments |-> 0]
    /\ mpc = [m \in Monitors |-> "idle"]
    /\ rollback = [m \in Monitors |-> 0]
    /\ upstream = "default"
    /\ nginx = "default"
    /\ canaryUp = FALSE
    /\ canaryModel = NoModel
    /\ apiModel = 1
    /\ faults = 0
    /\ events = 0
    /\ overlapped = FALSE

-----------------------------------------------------------------------------
(* A continuous-training run registers its model as the new challenger,    *)
(* before its gates.                                                       *)
RegisterModel ==
    /\ latest < MaxVersion
    /\ latest' = latest + 1
    /\ challenger' = latest + 1
    /\ NoteOverlap
    /\ UNCHANGED <<champion, promoted, flowVars, monitorVars, nginxVars,
                   canaryVars, apiModel, boundVars>>

(* A run whose gates passed promotes the challenger and calls              *)
(* deployment_flow as a subflow.                                           *)
Promote(d) ==
    /\ pc[d] = "idle"
    /\ challenger # 0
    /\ champion' = challenger
    /\ promoted' = [promoted EXCEPT ![d] = challenger]
    /\ Goto(d, "up")
    /\ NoteOverlap
    /\ UNCHANGED <<latest, challenger, checks, passed, over, lost, monitorVars,
                   nginxVars, canaryVars, apiModel, boundVars>>

-----------------------------------------------------------------------------
(* The containers.  A starting server loads its version; when that fails   *)
(* it serves without a model, answering 503, and is still healthy.         *)
LoadCanary ==
    /\ canaryUp' = TRUE
    /\ \/ canaryModel' = challenger /\ NoFault
       \/ canaryModel' = NoModel /\ Fault("load")

(* start_canary_container: `up -d` leaves a running container alone.       *)
StartCanary(d) ==
    /\ pc[d] = "up"
    /\ \/ /\ Goto(d, "health")
          /\ \/ ~canaryUp /\ LoadCanary
             \/ canaryUp /\ UNCHANGED canaryVars /\ NoFault
       \/ /\ Goto(d, "failed")
          /\ Fault("up")
          /\ UNCHANGED canaryVars
    /\ UNCHANGED <<registryVars, checks, passed, over, lost, monitorVars,
                   nginxVars, apiModel, overlapped>>

(* Mutant: the health poll has no deadline.                                *)
WaitHealthForever(d) ==
    /\ pc[d] = "health"
    /\ canaryUp
    /\ Goto(d, "split")
    /\ NoFault
    /\ UNCHANGED <<registryVars, checks, passed, over, lost, monitorVars,
                   nginxVars, canaryVars, apiModel, overlapped>>

(* wait_for_canary_health: a running server answers 200 with or without a  *)
(* model; a TimeoutError ends the flow.                                    *)
WaitHealth(d) ==
    /\ pc[d] = "health"
    /\ \/ canaryUp /\ Goto(d, "split") /\ NoFault
       \/ ~canaryUp /\ Goto(d, "failed") /\ NoFault
       \/ Goto(d, "failed") /\ Fault("health")
    /\ UNCHANGED <<registryVars, checks, passed, over, lost, monitorVars,
                   nginxVars, canaryVars, apiModel, overlapped>>

-----------------------------------------------------------------------------
(* update_nginx_weights, in its two commands.  The first command is not    *)
(* reached when the template of a split cannot be read.                    *)
CopyUpstream(d, from, config, readable, to) ==
    /\ pc[d] = from
    /\ \/ readable /\ upstream' = config /\ Goto(d, to) /\ NoFault
       \/ /\ IF readable THEN Fault("cp") ELSE NoFault
          /\ Goto(d, "failed")
          /\ UNCHANGED upstream
    /\ UNCHANGED <<registryVars, checks, passed, over, lost, monitorVars,
                   nginx, canaryVars, apiModel, overlapped>>

(* Mutant: the running nginx is never told of the new file.                *)
ReloadNginxNot(d, from, to) ==
    /\ pc[d] = from
    /\ Goto(d, to)
    /\ NoFault
    /\ UNCHANGED <<registryVars, checks, passed, over, lost, monitorVars,
                   nginxVars, canaryVars, apiModel, overlapped>>

ReloadNginx(d, from, to) ==
    /\ pc[d] = from
    /\ \/ NginxAccepts /\ nginx' = upstream /\ Goto(d, to) /\ NoFault
       \/ ~NginxAccepts /\ Goto(d, "failed") /\ UNCHANGED nginx /\ NoFault
       \/ Goto(d, "failed") /\ UNCHANGED nginx /\ Fault("nginx")
    /\ UNCHANGED <<registryVars, checks, passed, over, lost, monitorVars,
                   upstream, canaryVars, apiModel, overlapped>>

SplitTraffic(d) ==
    \/ CopyUpstream(d, "split", "split", TemplatePresent, "splitReload")
    \/ ReloadNginx(d, "splitReload", "check")

RestoreTraffic(d) ==
    \/ CopyUpstream(d, "restore", "default", TRUE, "restoreReload")
    \/ ReloadNginx(d, "restoreReload", IF passed[d] THEN "reload" ELSE "stop")

-----------------------------------------------------------------------------
(* What Prometheus may hold of each server: anything or nothing, except    *)
(* that a canary without a model answers every request with a 503.         *)
Known(S) == S \cup {NoMetrics}
Measurements == [err : Known(ErrorRates), lat : Known(Latencies)]
CanaryMeasurements ==
    IF canaryModel = NoModel
    THEN [err : Known({AllErrors}), lat : Known(Latencies)]
    ELSE Measurements

Complete(m) == m.err # NoMetrics /\ m.lat # NoMetrics
AboveCeiling(m) == Complete(m) /\ m.err > MaxErrorRate

CountOver(d, canary) ==
    over' = IF AboveCeiling(canary) THEN [over EXCEPT ![d] = @ + 1] ELSE over

(* Mutant: only the last check of the loop decides.                        *)
AfterCheckLastOnly(d, ok) ==
    IF checks[d] + 1 < Checks THEN "check" ELSE "restore"

(* Mutant: a failed check goes straight to stopping the canary.            *)
AfterCheckStops(d, ok) ==
    IF ~ok THEN "stop" ELSE IF checks[d] + 1 < Checks THEN "check" ELSE "restore"

(* Mutant: the loop makes one check more than it counts.                   *)
AfterCheckOneMore(d, ok) ==
    IF ok /\ checks[d] < Checks THEN "check" ELSE "restore"

(* The first failed check ends the loop with a rollback, the last passed   *)
(* one with a rollout.                                                     *)
AfterCheck(d, ok) ==
    IF ok /\ checks[d] + 1 < Checks THEN "check" ELSE "restore"

(* One attempt of check_canary_gate in a round of _run_canary_monitoring   *)
(* that answers.                                                           *)
Judge(d) ==
    \E canary \in CanaryMeasurements, api \in Measurements :
        LET ok == PassesCanary(canary, api, MaxErrorRate, MaxErrorPercent,
                               MaxLatencyPercent)
        IN  /\ Goto(d, AfterCheck(d, ok))
            /\ passed' = [passed EXCEPT ![d] = ok /\ AfterCheck(d, ok) = "restore"]
            /\ CountOver(d, canary)

(* An attempt that has measured and whose artifact cannot be written: the  *)
(* gate raises, whatever its verdict.  Its one retry measures again.       *)
LoseVerdict(d) ==
    /\ Fault("gate")
    /\ Goto(d, IF pc[d] = "check" THEN "recheck" ELSE "failed")
    /\ \E canary \in CanaryMeasurements :
          /\ Complete(canary)
          /\ CountOver(d, canary)
          /\ lost' = IF AboveCeiling(canary) THEN [lost EXCEPT ![d] = @ + 1]
                     ELSE lost

Check(d) ==
    /\ pc[d] \in Checking
    /\ \/ /\ Judge(d)
          /\ checks' = [checks EXCEPT ![d] = @ + 1]
          /\ NoFault
          /\ UNCHANGED lost
       \/ /\ LoseVerdict(d)
          /\ UNCHANGED <<checks, passed>>
    /\ UNCHANGED <<registryVars, monitorVars, nginxVars, canaryVars, apiModel,
                   overlapped>>

-----------------------------------------------------------------------------
(* POST /model/reload without a body.  An API that takes it loads the      *)
(* version string it was started with; one that wants a body answers 422.  *)
ApiReloads ==
    /\ "accepted" \in EmptyBodyAnswers
    /\ apiModel' = Resolve(ServingVersion)

ApiRefuses ==
    /\ "refused" \in EmptyBodyAnswers
    /\ UNCHANGED apiModel

(* The answer may be lost, with the model reloaded or not.                 *)
ReloadFails ==
    /\ Fault("reload")
    /\ ApiReloads \/ UNCHANGED apiModel

ReloadChampion(d) ==
    /\ pc[d] = "reload"
    /\ \/ ApiReloads /\ Goto(d, "stop") /\ NoFault
       \/ ApiRefuses /\ Goto(d, "failed") /\ NoFault
       \/ ReloadFails /\ Goto(d, "failed")
    /\ UNCHANGED <<registryVars, checks, passed, over, lost, monitorVars,
                   nginxVars, canaryVars, overlapped>>

(* Mutant: only a rollout removes the canary.                              *)
StopCanaryAfterRollout(d) ==
    /\ pc[d] = "stop"
    /\ Goto(d, IF passed[d] THEN "rolledOut" ELSE "rolledBack")
    /\ canaryUp' = (canaryUp /\ ~passed[d])
    /\ canaryModel' = IF passed[d] THEN NoModel ELSE canaryModel
    /\ NoFault
    /\ UNCHANGED <<registryVars, checks, passed, over, lost, monitorVars,
                   nginxVars, apiModel, overlapped>>

(* stop_canary_container only warns when the command fails.                *)
StopCanary(d) ==
    /\ pc[d] = "stop"
    /\ Goto(d, IF passed[d] THEN "rolledOut" ELSE "rolledBack")
    /\ \/ /\ canaryUp' = FALSE
          /\ canaryModel' = NoModel
          /\ NoFault
       \/ UNCHANGED canaryVars /\ Fault("stop")
    /\ UNCHANGED <<registryVars, checks, passed, over, lost, monitorVars,
                   nginxVars, apiModel, overlapped>>

(* The worker dies with the flow: nothing resumes it.                      *)
Crash(d) ==
    /\ InFlight(d)
    /\ Goto(d, "failed")
    /\ Fault("crash")
    /\ UNCHANGED <<registryVars, checks, passed, over, lost, monitorVars,
                   nginxVars, canaryVars, apiModel, overlapped>>

-----------------------------------------------------------------------------
(* _trigger_rollback of a monitoring run: read @champion, give the alias   *)
(* to the version before it, which was perhaps never promoted, and post    *)
(* the reload.  A call that raises ends it, with the alias moved or not.   *)
RollbackRead(m) ==
    /\ mpc[m] = "idle"
    /\ champion > 1
    /\ events < MaxEvents
    /\ events' = events + 1
    /\ rollback' = [rollback EXCEPT ![m] = champion]
    /\ mpc' = [mpc EXCEPT ![m] = "set"]
    /\ UNCHANGED <<registryVars, flowVars, nginxVars, canaryVars, apiModel,
                   faults, overlapped>>

RollbackSet(m) ==
    /\ mpc[m] = "set"
    /\ \/ /\ champion' = rollback[m] - 1
          /\ mpc' = [mpc EXCEPT ![m] = "reload"]
          /\ NoFault
       \/ /\ Fault("rollback")
          /\ champion' \in {champion, rollback[m] - 1}
          /\ mpc' = [mpc EXCEPT ![m] = "ended"]
    /\ rollback' = [rollback EXCEPT ![m] = 0]
    /\ UNCHANGED <<latest, challenger, promoted, flowVars, nginxVars, canaryVars,
                   apiModel, overlapped>>

RollbackReload(m) ==
    /\ mpc[m] = "reload"
    /\ \/ (ApiReloads \/ ApiRefuses) /\ NoFault
       \/ ReloadFails
    /\ mpc' = [mpc EXCEPT ![m] = "ended"]
    /\ UNCHANGED <<registryVars, flowVars, rollback, nginxVars, canaryVars,
                   overlapped>>

-----------------------------------------------------------------------------
(* `restart: unless-stopped`: any container may be restarted.              *)
Restarting ==
    /\ events < MaxEvents
    /\ events' = events + 1
    /\ UNCHANGED <<registryVars, flowVars, monitorVars, upstream, faults,
                   overlapped>>

RestartCanary ==
    /\ Restarting
    /\ canaryUp
    /\ canaryModel' \in {challenger, NoModel}
    /\ UNCHANGED <<canaryUp, nginx, apiModel>>

RestartApi ==
    /\ Restarting
    /\ apiModel' \in {Resolve(ServingVersion), NoModel}
    /\ UNCHANGED <<nginx, canaryVars>>

(* A restarted container keeps its file system.                            *)
RestartNginx ==
    /\ Restarting
    /\ NginxAccepts
    /\ nginx' = upstream
    /\ UNCHANGED <<canaryVars, apiModel>>

-----------------------------------------------------------------------------
DeploymentStep(d) ==
    \/ StartCanary(d)
    \/ WaitHealth(d)
    \/ SplitTraffic(d)
    \/ Check(d)
    \/ RestoreTraffic(d)
    \/ ReloadChampion(d)
    \/ StopCanary(d)

RollbackStep(m) == RollbackRead(m) \/ RollbackSet(m) \/ RollbackReload(m)

Next ==
    \/ RegisterModel
    \/ \E d \in Deployments : Promote(d) \/ DeploymentStep(d) \/ Crash(d)
    \/ \E m \in Monitors : RollbackStep(m)
    \/ RestartCanary \/ RestartApi \/ RestartNginx

Spec == Init /\ [][Next]_vars

(* A worker keeps executing the flow it runs: every command has a deadline *)
(* or returns, and the monitoring loop is counted.                         *)
FairSpec == Spec /\ \A d \in Deployments : WF_vars(DeploymentStep(d))

-----------------------------------------------------------------------------
(* The type invariant, with the aliases and the loaded models naming       *)
(* registered versions and the monitoring loop within its bound.           *)
TypeOK ==
    /\ latest \in Versions
    /\ challenger \in 0..latest
    /\ champion \in 1..latest
    /\ promoted \in [Deployments -> 0..latest]
    /\ pc \in [Deployments -> Locations]
    /\ checks \in [Deployments -> 0..Checks]
    /\ \A d \in Deployments :
          pc[d] \in {"idle", "up", "health", "split", "splitReload"} \cup Checking
              => checks[d] < Checks
    /\ passed \in [Deployments -> BOOLEAN]
    /\ over \in [Deployments -> Nat]
    /\ lost \in [Deployments -> Nat]
    /\ mpc \in [Monitors -> {"idle", "set", "reload", "ended"}]
    /\ rollback \in [Monitors -> 0..latest]
    /\ \A m \in Monitors : mpc[m] = "set" => rollback[m] > 1
    /\ upstream \in {"default", "split"}
    /\ nginx \in {"default", "split"}
    /\ canaryUp \in BOOLEAN
    /\ canaryModel \in 0..latest
    /\ ~canaryUp => canaryModel = NoModel
    /\ apiModel \in 0..latest
    /\ faults \in 0..MaxFaults
    /\ events \in 0..MaxEvents
    /\ overlapped \in BOOLEAN

(* Whatever fails, crashes or restarts, neither the running nginx nor the  *)
(* file it would start from sends traffic to a stopped canary: the flow    *)
(* splits only to a healthy canary and restores before it stops it.  Holds *)
(* while no run has overlapped another's deployment.                       *)
SplitOnlyToRunningCanary ==
    ~overlapped /\ (upstream = "split" \/ nginx = "split") => canaryUp

(* A deployment that reports an outcome, rolled out or rolled back, leaves *)
(* both the running nginx and its file on the champion alone, while no run *)
(* has overlapped another's deployment.                                    *)
DecidedRestoresTraffic ==
    [][\A d \in Deployments :
         ~overlapped /\ pc'[d] # pc[d] /\ pc'[d] \in {"rolledOut", "rolledBack"}
             => upstream' = "default" /\ nginx' = "default"]_vars

(* A canary passes although G4 measured an error rate above the ceiling    *)
(* only where the gate raised after that measurement, so that its retry    *)
(* measured anew: no verdict that was returned, in any round and however   *)
(* deployments overlap, found the ceiling exceeded.  This goes for the     *)
(* 503s of a canary without a model too.                                   *)
PassedOverCeilingOnlyUnjudged ==
    \A d \in Deployments : passed[d] => over[d] = lost[d]

(* Every deployment ends, whatever fails and however deployments overlap:  *)
(* from some moment on none is in flight any more.                         *)
EveryDeploymentEnds == <>[](\A d \in Deployments : ~InFlight(d))

(* "champion reloads new model, canary removed": with nothing failing, a   *)
(* canary that passed every check is rolled out.                           *)
PassedIsRolledOut ==
    \A d \in Deployments : passed[d] ~> pc[d] = "rolledOut"

(* A deployment whose canary passed and whose reload of the champion API   *)
(* did not go through: the flow ends there, its canary still running.      *)
LeftCanary(d) == passed[d] /\ pc[d] = "failed"

(* The model G4 judges is the one whose promotion started the deployment,  *)
(* through restarts of its container too.  `up -d` does not replace a      *)
(* canary that is running, so every earlier deployment must have removed   *)
(* its own.  While no call fails and no run overlaps another's deployment, *)
(* only one that passed and whose reload was refused has not: one that G4  *)
(* rolled back never confuses the next.                                    *)
JudgesPromotedModel ==
    faults = 0 /\ ~overlapped =>
        \A d \in Deployments :
            pc[d] \in Checking =>
                \/ canaryModel \in {promoted[d], NoModel}
                \/ \E e \in Deployments : LeftCanary(e)

(* A champion API that follows @champion, whenever it is restarted or      *)
(* reloaded, serves only versions that were promoted until the monitoring  *)
(* flow begins a rollback, which may put it on an unpromoted predecessor,  *)
(* and never a version newer than all that were promoted: not the          *)
(* challengers that failed their gates.  One that follows `latest`, the    *)
(* default of the compose file, does.                                      *)
NotNewerThanPromoted(v) == v <= 1 \/ \E d \in Deployments : v <= promoted[d]

ServesPromoted ==
    /\ (\A m \in Monitors : mpc[m] = "idle")
          => apiModel \in {NoModel, 1} \cup {promoted[d] : d \in Deployments}
    /\ NotNewerThanPromoted(apiModel)

=============================================================================
