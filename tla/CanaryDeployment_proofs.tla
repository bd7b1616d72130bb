----------------------- MODULE CanaryDeployment_proofs -----------------------
(***************************************************************************)
(* Theorems about CanaryDeployment for any number of deployments, checks,  *)
(* faults, restarts and rollbacks, and every value of the thresholds.      *)
(***************************************************************************)
EXTENDS CanaryDeployment, TLAPS

USE ParameterAssumption, NoMetricsAssumption

-----------------------------------------------------------------------------
(* Moving a flow run to a location keeps pc a function to locations and    *)
(* leaves the other flow runs where they are.                              *)
LEMMA GotoType ==
    ASSUME pc \in [Deployments -> Locations], NEW d \in Deployments,
           NEW l \in Locations, Goto(d, l)
    PROVE  /\ pc' \in [Deployments -> Locations]
           /\ pc'[d] = l
           /\ \A e \in Deployments : e # d => pc'[e] = pc[e]
  BY DEF Goto

(* A call that fails stays within the bound on faults.                     *)
LEMMA BoundType ==
    ASSUME TypeOK
    PROVE  /\ \A call : Fault(call) =>
                  faults' \in 0..MaxFaults /\ events' \in 0..MaxEvents
           /\ NoFault =>
                  faults' \in 0..MaxFaults /\ events' \in 0..MaxEvents
  BY DEF TypeOK, Fault, NoFault, boundVars

(* The locations of a flow, spelt out.                                     *)
LEMMA LocationSet ==
    Locations = {"idle", "up", "health", "split", "splitReload", "check",
                 "recheck", "restore", "restoreReload", "reload", "stop",
                 "rolledOut", "rolledBack", "failed"}
  BY DEF Locations, Checking, Ended

(* Initially the seed model is served and no flow has started.             *)
LEMMA InitType == Init => TypeOK
  <1> SUFFICES ASSUME Init PROVE TypeOK
    OBVIOUS
  <1>1. /\ pc \in [Deployments -> Locations]
        /\ passed \in [Deployments -> BOOLEAN]
        /\ over \in [Deployments -> Nat] /\ lost \in [Deployments -> Nat]
        /\ mpc \in [Monitors -> {"idle", "set", "reload", "ended"}]
        /\ \A m \in Monitors : mpc[m] = "idle"
    BY LocationSet DEF Init
  <1>2. /\ promoted \in [Deployments -> 0..latest]
        /\ checks \in [Deployments -> 0..Checks]
        /\ \A d \in Deployments : checks[d] < Checks
    BY DEF Init
  <1>3. latest \in Versions /\ challenger \in 0..latest /\ champion \in 1..latest
    BY DEF Init, Versions
  <1>4. canaryModel \in 0..latest /\ apiModel \in 0..latest
    BY DEF Init, NoModel
  <1>5. faults \in 0..MaxFaults /\ events \in 0..MaxEvents
    BY DEF Init
  <1>6. /\ canaryUp \in BOOLEAN /\ (~canaryUp => canaryModel = NoModel)
        /\ overlapped \in BOOLEAN
    BY Zenon DEF Init
  <1>7. rollback \in [Monitors -> 0..latest]
    BY DEF Init
  <1>8. QED
    BY <1>1, <1>2, <1>3, <1>4, <1>5, <1>6, <1>7 DEF Init, TypeOK

(* A gate that passes judged a measurement within the ceiling.             *)
LEMMA PassedIsWithinCeiling ==
    ASSUME NEW canary, NEW api,
           PassesCanary(canary, api, MaxErrorRate, MaxErrorPercent,
                        MaxLatencyPercent),
           canary.err \in Nat \cup {NoMetrics}
    PROVE  ~AboveCeiling(canary)
  <1>1. ASSUME Complete(canary) PROVE canary.err <= MaxErrorRate
    BY <1>1, Zenon DEF PassesCanary, Complete
  <1>2. ASSUME AboveCeiling(canary) PROVE FALSE
    <2>1. Complete(canary) /\ canary.err > MaxErrorRate
      BY <1>2, Zenon DEF AboveCeiling
    <2>2. canary.err \in Nat
      BY <2>1, Zenon DEF Complete
    <2>3. QED
      BY <1>1, <2>1, <2>2
  <1>3. QED
    BY <1>2, Zenon

LEMMA KnownRate ==
    ASSUME NEW x \in Known({AllErrors}) \cup Known(ErrorRates)
    PROVE  x \in Nat \cup {NoMetrics}
  <1>1. CASE x = AllErrors
    <2>1. AllErrors \in Nat
      BY DEF AllErrors
    <2>2. QED
      BY <1>1, <2>1, Zenon
  <1>2. CASE x \in ErrorRates
    <2>1. ErrorRates \subseteq Nat
      BY Zenon, ParameterAssumption DEF ParameterAssumption
    <2>2. QED
      BY <1>2, <2>1, Zenon
  <1>3. CASE x = NoMetrics
    BY <1>3, Zenon
  <1>4. QED
    BY <1>1, <1>2, <1>3, Zenon DEF Known

LEMMA RateOfCanary ==
    \A canary \in CanaryMeasurements : canary.err \in Nat \cup {NoMetrics}
  <1> SUFFICES ASSUME NEW canary \in CanaryMeasurements
               PROVE  canary.err \in Nat \cup {NoMetrics}
    OBVIOUS
  <1>1. canary.err \in Known({AllErrors}) \cup Known(ErrorRates)
    BY DEF CanaryMeasurements, Measurements
  <1>2. QED
    BY <1>1, KnownRate, Zenon

(* What an attempt of the gate does: it answers, and then counts as over   *)
(* what it fails for the ceiling; or it raises, and then what it counts as *)
(* over is lost, and the flow measures once more or ends.                  *)
LEMMA CheckCases ==
    ASSUME TypeOK, NEW d \in Deployments, Check(d)
    PROVE  /\ pc[d] \in Checking
           /\ UNCHANGED <<registryVars, monitorVars, nginxVars, canaryVars,
                          apiModel, overlapped>>
           /\ \/ \E ok \in BOOLEAN, n \in {0, 1} :
                    /\ ok => n = 0
                    /\ Goto(d, AfterCheck(d, ok))
                    /\ passed' = [passed EXCEPT ![d] =
                                     ok /\ AfterCheck(d, ok) = "restore"]
                    /\ over' = [over EXCEPT ![d] = over[d] + n]
                    /\ lost' = lost
                    /\ checks' = [checks EXCEPT ![d] = checks[d] + 1]
                    /\ NoFault
              \/ \E n \in {0, 1} :
                    /\ Goto(d, IF pc[d] = "check" THEN "recheck" ELSE "failed")
                    /\ over' = [over EXCEPT ![d] = over[d] + n]
                    /\ lost' = [lost EXCEPT ![d] = lost[d] + n]
                    /\ passed' = passed /\ checks' = checks
                    /\ Fault("gate")
  <1>0. over \in [Deployments -> Nat] /\ lost \in [Deployments -> Nat]
    BY DEF TypeOK
  <1>1. ASSUME NEW canary, CountOver(d, canary)
        PROVE  over' = [over EXCEPT ![d] =
                           over[d] + (IF AboveCeiling(canary) THEN 1 ELSE 0)]
    <2>1. CASE AboveCeiling(canary)
      BY <1>1, <2>1 DEF CountOver
    <2>2. CASE ~AboveCeiling(canary)
      BY <1>0, <1>1, <2>2 DEF CountOver
    <2>3. QED
      BY <2>1, <2>2
  <1>2. CASE /\ Judge(d)
             /\ checks' = [checks EXCEPT ![d] = @ + 1]
             /\ NoFault
             /\ UNCHANGED lost
    <2>1. PICK canary \in CanaryMeasurements, api \in Measurements :
             LET ok == PassesCanary(canary, api, MaxErrorRate,
                                    MaxErrorPercent, MaxLatencyPercent)
             IN  /\ Goto(d, AfterCheck(d, ok))
                 /\ passed' = [passed EXCEPT ![d] =
                                  ok /\ AfterCheck(d, ok) = "restore"]
                 /\ CountOver(d, canary)
      BY <1>2, Zenon DEF Judge
    <2> DEFINE ok == PassesCanary(canary, api, MaxErrorRate, MaxErrorPercent,
                                  MaxLatencyPercent)
               n == IF AboveCeiling(canary) THEN 1 ELSE 0
    <2>2. ok \in BOOLEAN
      BY Zenon DEF PassesCanary
    <2>3. n \in {0, 1}
      OBVIOUS
    <2>4. ok => n = 0
      BY PassedIsWithinCeiling, RateOfCanary
    <2>5. over' = [over EXCEPT ![d] = over[d] + n]
      BY <1>1, <2>1
    <2>6. checks' = [checks EXCEPT ![d] = checks[d] + 1]
      BY <1>2
    <2>7. /\ Goto(d, AfterCheck(d, ok))
          /\ passed' = [passed EXCEPT ![d] = ok /\ AfterCheck(d, ok) = "restore"]
      BY <2>1, Zenon
    <2> HIDE DEF ok, n
    <2>8. QED
      BY <1>2, <2>2, <2>3, <2>4, <2>5, <2>6, <2>7, Zenon DEF Check
  <1>3. CASE LoseVerdict(d) /\ UNCHANGED <<checks, passed>>
    <2>1. PICK canary \in CanaryMeasurements :
             /\ CountOver(d, canary)
             /\ lost' = IF AboveCeiling(canary) THEN [lost EXCEPT ![d] = @ + 1]
                        ELSE lost
      BY <1>3 DEF LoseVerdict
    <2> DEFINE n == IF AboveCeiling(canary) THEN 1 ELSE 0
    <2>2. n \in {0, 1}
      OBVIOUS
    <2>3. over' = [over EXCEPT ![d] = over[d] + n]
      BY <1>1, <2>1
    <2>4. lost' = [lost EXCEPT ![d] = lost[d] + n]
      <3>1. CASE AboveCeiling(canary)
        BY <2>1, <3>1
      <3>2. CASE ~AboveCeiling(canary)
        BY <1>0, <2>1, <3>2
      <3>3. QED
        BY <3>1, <3>2
    <2> HIDE DEF n
    <2>5. QED
      BY <1>3, <2>2, <2>3, <2>4 DEF Check, LoseVerdict
  <1>4. QED
    BY <1>2, <1>3 DEF Check

(* The same at the flow that steps.                                        *)
LEMMA CheckMoves ==
    ASSUME TypeOK, NEW d \in Deployments, Check(d)
    PROVE  /\ pc' \in [Deployments -> Locations]
           /\ pc'[d] \in {"check", "recheck", "restore", "failed"}
           /\ pc'[d] \in Checking => checks'[d] < Checks
           /\ passed'[d] => pc'[d] = "restore" \/ passed[d]
           /\ \/ over'[d] - lost'[d] = over[d] - lost[d]
              \/ pc'[d] = "restore" /\ ~passed'[d]
  <1>0. /\ pc \in [Deployments -> Locations]
        /\ passed \in [Deployments -> BOOLEAN]
        /\ over \in [Deployments -> Nat] /\ lost \in [Deployments -> Nat]
        /\ checks \in [Deployments -> 0..Checks]
        /\ pc[d] \in Checking
        /\ checks[d] < Checks
    BY CheckCases DEF TypeOK
  <1>1. ASSUME NEW ok \in BOOLEAN, NEW n \in {0, 1}, ok => n = 0,
               Goto(d, AfterCheck(d, ok)),
               passed' = [passed EXCEPT ![d] =
                             ok /\ AfterCheck(d, ok) = "restore"],
               over' = [over EXCEPT ![d] = over[d] + n], lost' = lost,
               checks' = [checks EXCEPT ![d] = checks[d] + 1]
        PROVE  /\ pc' \in [Deployments -> Locations]
               /\ pc'[d] \in {"check", "restore"}
               /\ pc'[d] \in Checking => checks'[d] < Checks
               /\ passed'[d] => pc'[d] = "restore"
               /\ \/ over'[d] - lost'[d] = over[d] - lost[d]
                  \/ pc'[d] = "restore" /\ ~passed'[d]
    <2>1. AfterCheck(d, ok) \in {"check", "restore"}
      BY DEF AfterCheck
    <2>2. pc' \in [Deployments -> Locations] /\ pc'[d] = AfterCheck(d, ok)
      BY <1>0, <1>1, <2>1, GotoType, LocationSet
    <2>3. checks'[d] = checks[d] + 1
      BY <1>0, <1>1
    <2>4. pc'[d] = "check" => checks'[d] < Checks
      BY <1>0, <2>2, <2>3 DEF AfterCheck
    <2>5. passed'[d] = (ok /\ AfterCheck(d, ok) = "restore")
      BY <1>0, <1>1, Zenon
    <2>6. CASE ok
      <3>1. over'[d] - lost'[d] = over[d] - lost[d]
        BY <1>0, <1>1, <2>6
      <3>2. passed'[d] => pc'[d] = "restore"
        BY <2>2, <2>5, Zenon
      <3>3. QED
        BY <2>1, <2>2, <2>4, <3>1, <3>2 DEF Checking
    <2>7. CASE ~ok
      <3>1. ~passed'[d]
        BY <2>5, <2>7, Zenon
      <3>2. pc'[d] = "restore"
        BY <2>2, <2>7 DEF AfterCheck
      <3>3. QED
        BY <2>2, <3>1, <3>2 DEF Checking
    <2>8. QED
      BY <2>6, <2>7
  <1>2. ASSUME NEW n \in {0, 1},
               Goto(d, IF pc[d] = "check" THEN "recheck" ELSE "failed"),
               over' = [over EXCEPT ![d] = over[d] + n],
               lost' = [lost EXCEPT ![d] = lost[d] + n],
               passed' = passed, checks' = checks
        PROVE  /\ pc' \in [Deployments -> Locations]
               /\ pc'[d] \in {"recheck", "failed"}
               /\ checks'[d] < Checks
               /\ passed'[d] => passed[d]
               /\ over'[d] - lost'[d] = over[d] - lost[d]
    <2>1. pc' \in [Deployments -> Locations] /\ pc'[d] \in {"recheck", "failed"}
      BY <1>0, <1>2, GotoType, LocationSet
    <2>2. over'[d] - lost'[d] = over[d] - lost[d]
      BY <1>0, <1>2
    <2>3. QED
      BY <1>0, <1>2, <2>1, <2>2
  <1>3. QED
    BY <1>1, <1>2, CheckCases

(* The types of the variables of a flow survive a check of the gate.       *)
LEMMA CheckType ==
    ASSUME TypeOK, NEW d \in Deployments, Check(d)
    PROVE  TypeOK'
  <1>0. /\ passed \in [Deployments -> BOOLEAN]
        /\ over \in [Deployments -> Nat] /\ lost \in [Deployments -> Nat]
        /\ checks \in [Deployments -> 0..Checks]
        /\ checks[d] < Checks
    BY CheckCases DEF TypeOK
  <1>1. /\ checks' \in [Deployments -> 0..Checks]
        /\ \A e \in Deployments : e # d => checks'[e] = checks[e]
    BY <1>0, CheckCases
  <1>2. over' \in [Deployments -> Nat] /\ lost' \in [Deployments -> Nat]
    BY <1>0, CheckCases
  <1>3. passed' \in [Deployments -> BOOLEAN]
    <2>1. \/ passed' = passed
          \/ \E b \in BOOLEAN : passed' = [passed EXCEPT ![d] = b]
      <3>1. ASSUME NEW ok \in BOOLEAN,
                   passed' = [passed EXCEPT ![d] =
                                 ok /\ AfterCheck(d, ok) = "restore"]
            PROVE  \E b \in BOOLEAN : passed' = [passed EXCEPT ![d] = b]
        BY <3>1, Zenon
      <3>2. QED
        BY <3>1, CheckCases
    <2>2. QED
      BY <1>0, <2>1
  <1>4. \E l \in Locations : Goto(d, l)
    BY CheckCases, LocationSet DEF AfterCheck
  <1>5. \A e \in Deployments : e # d => pc'[e] = pc[e]
    BY <1>4, GotoType DEF TypeOK
  <1>6. faults' \in 0..MaxFaults /\ events' \in 0..MaxEvents
    BY CheckCases, BoundType
  <1>7. \A e \in Deployments :
           pc'[e] \in {"idle", "up", "health", "split", "splitReload"} \cup Checking
             => checks'[e] < Checks
    <2>1. ASSUME NEW e \in Deployments, e # d,
                 pc'[e] \in {"idle", "up", "health", "split", "splitReload"}
                               \cup Checking
          PROVE  checks'[e] < Checks
      BY <1>1, <1>5, <2>1 DEF TypeOK
    <2>2. pc'[d] \in {"idle", "up", "health", "split", "splitReload"} \cup Checking
             => checks'[d] < Checks
      BY CheckMoves
    <2>3. QED
      BY <2>1, <2>2
  <1>8. QED
    BY <1>1, <1>2, <1>3, <1>6, <1>7, CheckMoves, CheckCases
      DEF TypeOK, registryVars, monitorVars, nginxVars, canaryVars

(* Every step of a flow keeps the types.                                   *)
LEMMA StepType ==
    ASSUME TypeOK, NEW d \in Deployments,
           Promote(d) \/ DeploymentStep(d) \/ Crash(d)
    PROVE  TypeOK'
  <1> USE DEF TypeOK, Versions, NoModel, registryVars, monitorVars, nginxVars,
              canaryVars, Checking
  <1>1. CASE Promote(d)
    <2>1. overlapped' \in BOOLEAN
      BY <1>1, Zenon DEF Promote, NoteOverlap
    <2>2. QED
      BY <1>1, <2>1, LocationSet, GotoType DEF Promote, boundVars, flowVars
  <1>2. CASE StartCanary(d)
    <2>1. /\ pc' \in [Deployments -> Locations]
          /\ pc'[d] \in {"health", "failed"}
          /\ \A e \in Deployments : e # d => pc'[e] = pc[e]
      BY <1>2, LocationSet, GotoType DEF StartCanary
    <2>2. /\ canaryUp' \in BOOLEAN
          /\ canaryModel' \in 0..latest
          /\ ~canaryUp' => canaryModel' = NoModel
      <3>1. CASE UNCHANGED canaryVars
        <4>1. canaryUp' = canaryUp /\ canaryModel' = canaryModel
          BY <3>1
        <4>2. latest' = latest
          BY <1>2 DEF StartCanary
        <4>3. QED
          BY <4>1, <4>2
      <3>2. CASE LoadCanary
        BY <1>2, <3>2 DEF LoadCanary
      <3>3. QED
        BY <1>2, <3>1, <3>2 DEF StartCanary
    <2>3. faults' \in 0..MaxFaults /\ events' \in 0..MaxEvents
      BY <1>2, BoundType DEF StartCanary, LoadCanary
    <2>4. QED
      BY <1>2, <2>1, <2>2, <2>3 DEF StartCanary
  <1>3. CASE WaitHealth(d)
    <2>1. /\ pc' \in [Deployments -> Locations]
          /\ pc'[d] \in {"split", "failed"}
          /\ \A e \in Deployments : e # d => pc'[e] = pc[e]
      BY <1>3, LocationSet, GotoType DEF WaitHealth
    <2>2. QED
      BY <1>3, <2>1, BoundType DEF WaitHealth
  <1>4. CASE SplitTraffic(d)
    <2>1. /\ pc' \in [Deployments -> Locations]
          /\ pc'[d] \in {"splitReload", "check", "failed"}
          /\ \A e \in Deployments : e # d => pc'[e] = pc[e]
      BY <1>4, LocationSet, GotoType
        DEF SplitTraffic, CopyUpstream, ReloadNginx
    <2>2. /\ faults' \in 0..MaxFaults /\ events' \in 0..MaxEvents
          /\ pc[d] \in {"split", "splitReload"}
      BY <1>4, BoundType DEF SplitTraffic, CopyUpstream, ReloadNginx
    <2>3. QED
      BY <1>4, <2>1, <2>2 DEF SplitTraffic, CopyUpstream, ReloadNginx
  <1>5. CASE Check(d)
    BY <1>5, CheckType
  <1>6. CASE RestoreTraffic(d)
    <2>1. /\ pc' \in [Deployments -> Locations]
          /\ pc'[d] \in {"restoreReload", "reload", "stop", "failed"}
          /\ \A e \in Deployments : e # d => pc'[e] = pc[e]
      BY <1>6, LocationSet, GotoType
        DEF RestoreTraffic, CopyUpstream, ReloadNginx
    <2>2. faults' \in 0..MaxFaults /\ events' \in 0..MaxEvents
      BY <1>6, BoundType DEF RestoreTraffic, CopyUpstream, ReloadNginx
    <2>3. QED
      BY <1>6, <2>1, <2>2 DEF RestoreTraffic, CopyUpstream, ReloadNginx
  <1>7. CASE ReloadChampion(d)
    <2>1. /\ pc' \in [Deployments -> Locations]
          /\ pc'[d] \in {"stop", "failed"}
          /\ \A e \in Deployments : e # d => pc'[e] = pc[e]
      BY <1>7, LocationSet, GotoType DEF ReloadChampion
    <2>2. apiModel' \in 0..latest
      BY <1>7 DEF ReloadChampion, ApiReloads, ApiRefuses, ReloadFails, Resolve
    <2>3. faults' \in 0..MaxFaults /\ events' \in 0..MaxEvents
      BY <1>7, BoundType DEF ReloadChampion, ReloadFails
    <2>4. QED
      BY <1>7, <2>1, <2>2, <2>3 DEF ReloadChampion
  <1>8. CASE StopCanary(d)
    <2>1. /\ pc' \in [Deployments -> Locations]
          /\ pc'[d] \in {"rolledOut", "rolledBack"}
          /\ \A e \in Deployments : e # d => pc'[e] = pc[e]
      BY <1>8, LocationSet, GotoType DEF StopCanary
    <2>2. /\ canaryUp' \in BOOLEAN
          /\ canaryModel' \in 0..latest
          /\ ~canaryUp' => canaryModel' = NoModel
      <3>1. CASE UNCHANGED canaryVars
        <4>1. canaryUp' = canaryUp /\ canaryModel' = canaryModel
          BY <3>1
        <4>2. QED
          BY <4>1
      <3>2. CASE canaryUp' = FALSE /\ canaryModel' = NoModel
        <4>1. NoModel \in 0..latest
          OBVIOUS
        <4>2. QED
          BY <3>2, <4>1, Zenon
      <3>3. QED
        BY <1>8, <3>1, <3>2 DEF StopCanary
    <2>3. faults' \in 0..MaxFaults /\ events' \in 0..MaxEvents
      BY <1>8, BoundType DEF StopCanary
    <2>4. QED
      BY <1>8, <2>1, <2>2, <2>3 DEF StopCanary
  <1>9. CASE Crash(d)
    BY <1>9, LocationSet, GotoType, BoundType DEF Crash
  <1>10. QED
    BY <1>1, <1>2, <1>3, <1>4, <1>5, <1>6, <1>7, <1>8, <1>9
      DEF DeploymentStep

(* A new version and a restarted container keep the types.                 *)
LEMMA ContainerType ==
    ASSUME TypeOK, RegisterModel \/ RestartCanary \/ RestartApi \/ RestartNginx
    PROVE  TypeOK'
  <1> USE DEF TypeOK, Versions, NoModel, registryVars, flowVars, monitorVars,
              nginxVars, canaryVars, boundVars
  <1>1. CASE RegisterModel
    <2>1. overlapped' \in BOOLEAN
      BY <1>1, Zenon DEF RegisterModel, NoteOverlap
    <2>2. QED
      BY <1>1, <2>1 DEF RegisterModel
  <1>2. CASE RestartCanary \/ RestartApi \/ RestartNginx
    BY <1>2 DEF RestartCanary, RestartApi, RestartNginx, Restarting, Resolve
  <1>3. QED
    BY <1>1, <1>2

(* What the steps of a rollback do: read a champion above the first        *)
(* version, move the alias to the version before it or end, and reload.    *)
LEMMA RollbackMoves ==
    ASSUME TypeOK, NEW m \in Monitors, RollbackStep(m)
    PROVE  /\ UNCHANGED <<latest, challenger, promoted, flowVars, nginxVars,
                          canaryVars, overlapped>>
           /\ \E l \in {"set", "reload", "ended"} : mpc' = [mpc EXCEPT ![m] = l]
           /\ faults <= faults'
           /\ \/ /\ champion > 1 /\ champion' = champion /\ apiModel' = apiModel
                 /\ rollback' = [rollback EXCEPT ![m] = champion]
              \/ /\ mpc[m] = "set" /\ apiModel' = apiModel
                 /\ champion' \in {champion, rollback[m] - 1}
                 /\ rollback' = [rollback EXCEPT ![m] = 0]
                 /\ \E l \in {"reload", "ended"} : mpc' = [mpc EXCEPT ![m] = l]
              \/ /\ rollback' = rollback /\ champion' = champion
                 /\ apiModel' \in {apiModel, Resolve(ServingVersion)}
                 /\ mpc' = [mpc EXCEPT ![m] = "ended"]
  <1> USE DEF registryVars, boundVars, NoFault, Fault, TypeOK
  <1>1. CASE RollbackRead(m)
    BY <1>1 DEF RollbackRead
  <1>2. CASE RollbackSet(m)
    BY <1>2 DEF RollbackSet
  <1>3. CASE RollbackReload(m)
    BY <1>3 DEF RollbackReload, ApiReloads, ApiRefuses, ReloadFails
  <1>4. QED
    BY <1>1, <1>2, <1>3 DEF RollbackStep

LEMMA RollbackType ==
    ASSUME TypeOK, NEW m \in Monitors, RollbackStep(m)
    PROVE  TypeOK'
  <1> USE DEF TypeOK
  <1>1. /\ latest \in Nat /\ champion \in 1..latest
        /\ rollback \in [Monitors -> 0..latest]
        /\ mpc \in [Monitors -> {"idle", "set", "reload", "ended"}]
        /\ mpc[m] = "set" => rollback[m] > 1
    BY DEF Versions
  <1>2. champion' \in 1..latest
    BY <1>1, RollbackMoves
  <1>3. apiModel' \in 0..latest
    BY <1>1, RollbackMoves DEF Resolve
  <1>4. mpc' \in [Monitors -> {"idle", "set", "reload", "ended"}]
    BY <1>1, RollbackMoves
  <1>5. /\ rollback' \in [Monitors -> 0..latest]
        /\ \A n \in Monitors : mpc'[n] = "set" => rollback'[n] > 1
    <2>1. CASE champion > 1 /\ rollback' = [rollback EXCEPT ![m] = champion]
      <3>1. PICK l \in {"set", "reload", "ended"} : mpc' = [mpc EXCEPT ![m] = l]
        BY RollbackMoves
      <3>2. rollback'[m] = champion
        BY <1>1, <2>1
      <3>3. \A n \in Monitors \ {m} :
               rollback'[n] = rollback[n] /\ mpc'[n] = mpc[n]
        BY <1>1, <2>1, <3>1
      <3>4. rollback' \in [Monitors -> 0..latest]
        BY <1>1, <2>1
      <3>5. QED
        BY <2>1, <3>2, <3>3, <3>4
    <2>2. CASE /\ rollback' = [rollback EXCEPT ![m] = 0]
               /\ \E l \in {"reload", "ended"} : mpc' = [mpc EXCEPT ![m] = l]
      BY <1>1, <2>2
    <2>3. CASE rollback' = rollback /\ mpc' = [mpc EXCEPT ![m] = "ended"]
      BY <1>1, <2>3
    <2>4. QED
      BY <2>1, <2>2, <2>3, RollbackMoves
  <1>6. faults' \in 0..MaxFaults /\ events' \in 0..MaxEvents
    <2>1. CASE RollbackRead(m)
      BY <2>1 DEF RollbackRead
    <2>2. CASE RollbackSet(m)
      BY <2>2, BoundType DEF RollbackSet
    <2>3. CASE RollbackReload(m)
      BY <2>3, BoundType DEF RollbackReload, ReloadFails
    <2>4. QED
      BY <2>1, <2>2, <2>3 DEF RollbackStep
  <1>7. UNCHANGED <<latest, challenger, promoted, pc, checks, passed, over, lost,
                    upstream, nginx, canaryUp, canaryModel, overlapped>>
    BY RollbackMoves DEF flowVars, nginxVars, canaryVars
  <1>8. QED
    BY <1>2, <1>3, <1>4, <1>5, <1>6, <1>7

(* Type correctness: every reachable state satisfies the type invariant.   *)
THEOREM TypeCorrect == Spec => []TypeOK
  <1>1. TypeOK /\ [Next]_vars => TypeOK'
    <2> SUFFICES ASSUME TypeOK, [Next]_vars PROVE TypeOK'
      OBVIOUS
    <2>1. CASE Next
      BY <2>1, StepType, ContainerType, RollbackType DEF Next
    <2>2. CASE UNCHANGED vars
      BY <2>2 DEF TypeOK, vars, registryVars, flowVars, monitorVars, nginxVars,
                  canaryVars, boundVars
    <2>3. QED
      BY <2>1, <2>2
  <1>2. QED
    BY InitType, <1>1, PTL DEF Spec

-----------------------------------------------------------------------------
(* The inductive invariant behind SplitOnlyToRunningCanary, while no run   *)
(* has overlapped another's deployment: one flow at most is in flight, it  *)
(* splits only to a canary it saw running, and nothing is left of the      *)
(* split once it has restored the upstream.                                *)
SplitNeedsCanary == upstream = "split" \/ nginx = "split" => canaryUp

RestoreInv ==
    /\ \A d, e \in Deployments : InFlight(d) /\ InFlight(e) => d = e
    /\ \A d \in Deployments :
          /\ pc[d] \in {"split", "splitReload"} => canaryUp
          /\ pc[d] = "restoreReload" => upstream = "default"
          /\ pc[d] \in {"reload", "stop"} =>
                upstream = "default" /\ nginx = "default"
    /\ SplitNeedsCanary

LEMMA InitRestore == Init => RestoreInv
  BY DEF Init, RestoreInv, InFlight, Ended, SplitNeedsCanary

(* Where every step of a flow may take it.                                 *)
LEMMA FlowMoves ==
    ASSUME TypeOK, NEW d \in Deployments,
           Promote(d) \/ DeploymentStep(d) \/ Crash(d)
    PROVE  \E l \in Locations \ {"idle"} : Goto(d, l)
  <1>1. CASE Check(d)
    BY <1>1, CheckCases, LocationSet DEF AfterCheck
  <1>2. CASE ~Check(d)
    BY <1>2, LocationSet
      DEF Promote, DeploymentStep, Crash, StartCanary, WaitHealth,
          SplitTraffic, CopyUpstream, ReloadNginx, RestoreTraffic,
          ReloadChampion, StopCanary
  <1>3. QED
    BY <1>1, <1>2

(* A run that overlaps another's deployment is noted; a step that is not   *)
(* found to registers and promotes only while nobody is in flight.         *)
LEMMA OverlapMoves ==
    ASSUME TypeOK, [Next]_vars, ~overlapped'
    PROVE  /\ ~overlapped
           /\ RegisterModel \/ (\E d \in Deployments : Promote(d))
                 => \A e \in Deployments : ~InFlight(e)
  <1>1. ASSUME NoteOverlap
        PROVE  ~overlapped /\ \A e \in Deployments : ~InFlight(e)
    BY <1>1, Zenon DEF NoteOverlap
  <1>2. RegisterModel \/ (\E d \in Deployments : Promote(d)) => NoteOverlap
    BY DEF RegisterModel, Promote
  <1>3. overlapped' = overlapped \/ NoteOverlap
    <2>1. ASSUME NEW d \in Deployments, Promote(d) \/ DeploymentStep(d) \/ Crash(d)
          PROVE  overlapped' = overlapped \/ NoteOverlap
      <3>1. CASE Check(d)
        BY <3>1, CheckCases
      <3>2. CASE ~Check(d)
        BY <2>1, <3>2
          DEF Promote, DeploymentStep, Crash, StartCanary, WaitHealth,
              SplitTraffic, CopyUpstream, ReloadNginx, RestoreTraffic,
              ReloadChampion, StopCanary
      <3>3. QED
        BY <3>1, <3>2
    <2>2. ASSUME NEW m \in Monitors, RollbackStep(m)
          PROVE  overlapped' = overlapped
      BY <2>2, RollbackMoves
    <2>3. RegisterModel => NoteOverlap
      BY DEF RegisterModel
    <2>4. RestartCanary \/ RestartApi \/ RestartNginx \/ UNCHANGED vars
             => overlapped' = overlapped
      BY DEF RestartCanary, RestartApi, RestartNginx, Restarting, vars
    <2>5. QED
      BY <2>1, <2>2, <2>3, <2>4 DEF Next
  <1>4. overlapped \in BOOLEAN
    BY DEF TypeOK
  <1>5. QED
    BY <1>1, <1>2, <1>3, <1>4

(* A step of a flow in flight that moves it alone keeps the flows apart.   *)
LEMMA MoveApart ==
    ASSUME TypeOK, RestoreInv, NEW d \in Deployments, InFlight(d),
           NEW l \in Locations, Goto(d, l)
    PROVE  /\ \A e, f \in Deployments : InFlight(e)' /\ InFlight(f)' => e = f
           /\ pc'[d] = l
           /\ \A e \in Deployments : e # d => pc'[e] \in {"idle"} \cup Ended
  <1>1. /\ pc'[d] = l
        /\ \A e \in Deployments : e # d => pc'[e] = pc[e]
    BY GotoType DEF TypeOK
  <1>2. \A e \in Deployments : e # d => ~InFlight(e)
    BY DEF RestoreInv
  <1>3. \A e \in Deployments : e # d => pc'[e] \in {"idle"} \cup Ended
    BY <1>1, <1>2 DEF InFlight
  <1>4. QED
    BY <1>1, <1>3 DEF InFlight

(* Until a run overlaps another's deployment, every step keeps RestoreInv. *)
LEMMA RestoreStep ==
    ASSUME ~overlapped', TypeOK, RestoreInv, [Next]_vars
    PROVE  RestoreInv'
  <1> USE DEF registryVars, flowVars, monitorVars, nginxVars, canaryVars,
              boundVars
  <1> DEFINE Others(d) ==
         \A e \in Deployments : e # d => pc'[e] \in {"idle"} \cup Ended
  <1>a. \A d \in Deployments :
           /\ Others(d)
           /\ \A e, f \in Deployments : InFlight(e)' /\ InFlight(f)' => e = f
           /\ pc'[d] \in {"split", "splitReload"} => canaryUp'
           /\ pc'[d] = "restoreReload" => upstream' = "default"
           /\ pc'[d] \in {"reload", "stop"} =>
                 upstream' = "default" /\ nginx' = "default"
           /\ SplitNeedsCanary'
           => RestoreInv'
    BY DEF RestoreInv, Ended
  <1>1. CASE RegisterModel
    BY <1>1 DEF RegisterModel, RestoreInv, InFlight, SplitNeedsCanary
  <1>2. ASSUME NEW d \in Deployments, Promote(d) PROVE RestoreInv'
    <2>1. pc'[d] = "up" /\ \A e \in Deployments : e # d => pc'[e] = pc[e]
      BY <1>2, LocationSet, GotoType DEF Promote, TypeOK
    <2>2. Others(d)
      BY <1>2, <2>1, OverlapMoves DEF InFlight
    <2>3. \A e, f \in Deployments : InFlight(e)' /\ InFlight(f)' => e = f
      BY <2>2 DEF InFlight
    <2>4. SplitNeedsCanary'
      BY <1>2 DEF Promote, RestoreInv, SplitNeedsCanary
    <2>5. QED
      BY <2>1, <2>2, <2>3, <2>4, <1>a
  <1>3. ASSUME NEW d \in Deployments, StartCanary(d) PROVE RestoreInv'
    <2>1. PICK l \in {"health", "failed"} : Goto(d, l)
      BY <1>3 DEF StartCanary
    <2>2. InFlight(d) /\ l \in Locations
      BY <1>3, <2>1, LocationSet DEF StartCanary, InFlight, Ended
    <2>3. canaryUp => canaryUp'
      <3>1. CASE UNCHANGED canaryVars
        BY <3>1
      <3>2. CASE canaryUp' = TRUE
        BY <3>2
      <3>3. QED
        BY <1>3, <3>1, <3>2 DEF StartCanary, LoadCanary
    <2>4. upstream' = upstream /\ nginx' = nginx
      BY <1>3 DEF StartCanary
    <2>5. SplitNeedsCanary'
      BY <2>3, <2>4 DEF RestoreInv, SplitNeedsCanary
    <2>6. QED
      BY <2>1, <2>2, <2>5, MoveApart, <1>a
  <1>4. ASSUME NEW d \in Deployments, WaitHealth(d) PROVE RestoreInv'
    <2>1. PICK l \in {"split", "failed"} :
             Goto(d, l) /\ (l = "split" => canaryUp)
      BY <1>4 DEF WaitHealth
    <2>2. InFlight(d) /\ l \in Locations
      BY <1>4, <2>1, LocationSet DEF WaitHealth, InFlight, Ended
    <2>3. canaryUp' = canaryUp /\ upstream' = upstream /\ nginx' = nginx
      BY <1>4 DEF WaitHealth
    <2>4. SplitNeedsCanary'
      BY <2>3 DEF RestoreInv, SplitNeedsCanary
    <2>5. QED
      BY <2>1, <2>2, <2>3, <2>4, MoveApart, <1>a
  <1>5. ASSUME NEW d \in Deployments, SplitTraffic(d) PROVE RestoreInv'
    <2>1. PICK l \in {"splitReload", "check", "failed"} : Goto(d, l)
      BY <1>5 DEF SplitTraffic, CopyUpstream, ReloadNginx
    <2>2. /\ InFlight(d)
          /\ l \in Locations
          /\ pc[d] \in {"split", "splitReload"}
      BY <1>5, <2>1, LocationSet
        DEF SplitTraffic, CopyUpstream, ReloadNginx, InFlight, Ended
    <2>3. canaryUp'
      <3>1. canaryUp' = canaryUp
        BY <1>5 DEF SplitTraffic, CopyUpstream, ReloadNginx
      <3>2. QED
        BY <2>2, <3>1 DEF RestoreInv
    <2>4. SplitNeedsCanary'
      BY <2>3 DEF SplitNeedsCanary
    <2>5. QED
      BY <2>1, <2>2, <2>3, <2>4, MoveApart, <1>a
  <1>6. ASSUME NEW d \in Deployments, Check(d) PROVE RestoreInv'
    <2>1. PICK l \in {"check", "recheck", "restore", "failed"} : Goto(d, l)
      BY <1>6, CheckCases DEF AfterCheck
    <2>2. InFlight(d) /\ l \in Locations
      BY <1>6, <2>1, CheckCases, LocationSet DEF InFlight, Ended, Checking
    <2>3. canaryUp' = canaryUp /\ upstream' = upstream /\ nginx' = nginx
      BY <1>6, CheckCases
    <2>4. SplitNeedsCanary'
      BY <2>3 DEF RestoreInv, SplitNeedsCanary
    <2>5. QED
      BY <2>1, <2>2, <2>4, MoveApart, <1>a
  <1>7. ASSUME NEW d \in Deployments, RestoreTraffic(d) PROVE RestoreInv'
    <2>1. CASE CopyUpstream(d, "restore", "default", TRUE, "restoreReload")
      <3>1. PICK l \in {"restoreReload", "failed"} :
               Goto(d, l) /\ (l = "restoreReload" => upstream' = "default")
        BY <2>1 DEF CopyUpstream
      <3>2. InFlight(d) /\ l \in Locations
        BY <2>1, <3>1, LocationSet DEF CopyUpstream, InFlight, Ended
      <3>3. canaryUp' = canaryUp /\ upstream' \in {upstream, "default"}
               /\ nginx' = nginx
        BY <2>1 DEF CopyUpstream
      <3>4. SplitNeedsCanary'
        BY <3>3 DEF RestoreInv, SplitNeedsCanary
      <3>5. QED
        BY <3>1, <3>2, <3>4, MoveApart, <1>a
    <2>2. CASE ReloadNginx(d, "restoreReload",
                           IF passed[d] THEN "reload" ELSE "stop")
      <3>1. PICK l \in {"reload", "stop", "failed"} :
               Goto(d, l) /\ (l # "failed" => nginx' = upstream)
        BY <2>2 DEF ReloadNginx
      <3>2. InFlight(d) /\ l \in Locations /\ pc[d] = "restoreReload"
        BY <2>2, <3>1, LocationSet DEF ReloadNginx, InFlight, Ended
      <3>3. canaryUp' = canaryUp /\ upstream' = upstream
               /\ nginx' \in {nginx, upstream}
        BY <2>2 DEF ReloadNginx
      <3>4. upstream = "default"
        BY <3>2 DEF RestoreInv
      <3>5. SplitNeedsCanary'
        BY <3>3 DEF RestoreInv, SplitNeedsCanary
      <3>6. QED
        BY <3>1, <3>2, <3>3, <3>4, <3>5, MoveApart, <1>a
    <2>3. QED
      BY <1>7, <2>1, <2>2 DEF RestoreTraffic
  <1>8. ASSUME NEW d \in Deployments, ReloadChampion(d) PROVE RestoreInv'
    <2>1. PICK l \in {"stop", "failed"} : Goto(d, l)
      BY <1>8 DEF ReloadChampion
    <2>2. InFlight(d) /\ l \in Locations /\ pc[d] = "reload"
      BY <1>8, <2>1, LocationSet DEF ReloadChampion, InFlight, Ended
    <2>3. canaryUp' = canaryUp /\ upstream' = upstream /\ nginx' = nginx
      BY <1>8 DEF ReloadChampion
    <2>4. upstream = "default" /\ nginx = "default"
      BY <2>2 DEF RestoreInv
    <2>5. SplitNeedsCanary'
      BY <2>3, <2>4 DEF SplitNeedsCanary
    <2>6. QED
      BY <2>1, <2>2, <2>3, <2>4, <2>5, MoveApart, <1>a
  <1>9. ASSUME NEW d \in Deployments, StopCanary(d) PROVE RestoreInv'
    <2>1. PICK l \in {"rolledOut", "rolledBack"} : Goto(d, l)
      BY <1>9 DEF StopCanary
    <2>2. InFlight(d) /\ l \in Locations /\ pc[d] = "stop"
      BY <1>9, <2>1, LocationSet DEF StopCanary, InFlight, Ended
    <2>3. upstream' = upstream /\ nginx' = nginx
      BY <1>9 DEF StopCanary
    <2>4. upstream = "default" /\ nginx = "default"
      BY <2>2 DEF RestoreInv
    <2>5. SplitNeedsCanary'
      BY <2>3, <2>4 DEF SplitNeedsCanary
    <2>6. QED
      BY <2>1, <2>2, <2>5, MoveApart, <1>a
  <1>10. ASSUME NEW d \in Deployments, Crash(d) PROVE RestoreInv'
    <2>1. Goto(d, "failed") /\ InFlight(d) /\ "failed" \in Locations
      BY <1>10, LocationSet DEF Crash
    <2>2. canaryUp' = canaryUp /\ upstream' = upstream /\ nginx' = nginx
      BY <1>10 DEF Crash
    <2>3. SplitNeedsCanary'
      BY <2>2 DEF RestoreInv, SplitNeedsCanary
    <2>4. QED
      BY <2>1, <2>3, MoveApart, <1>a
  <1>11. CASE RestartCanary \/ RestartApi \/ RestartNginx
    <2>1. pc' = pc /\ canaryUp' = canaryUp /\ upstream' = upstream
      BY <1>11 DEF RestartCanary, RestartApi, RestartNginx, Restarting
    <2>2. nginx' \in {nginx, upstream}
      BY <1>11 DEF RestartCanary, RestartApi, RestartNginx, Restarting
    <2>3. QED
      BY <2>1, <2>2 DEF RestoreInv, InFlight, SplitNeedsCanary
  <1>12. ASSUME NEW m \in Monitors, RollbackStep(m) PROVE RestoreInv'
    <2>1. UNCHANGED <<pc, canaryUp, upstream, nginx>>
      BY <1>12, RollbackMoves
    <2>2. QED
      BY <2>1 DEF RestoreInv, InFlight, SplitNeedsCanary
  <1>13. CASE UNCHANGED vars
    BY <1>13 DEF vars, RestoreInv, InFlight, SplitNeedsCanary
  <1>14. QED
    BY <1>1, <1>2, <1>3, <1>4, <1>5, <1>6, <1>7, <1>8, <1>9, <1>10, <1>11,
       <1>12, <1>13 DEF Next, DeploymentStep

LEMMA RestoreInvariant == Spec => [](~overlapped => RestoreInv)
  <1>1. Init => (~overlapped => RestoreInv)
    BY InitRestore
  <1>2. TypeOK /\ (~overlapped => RestoreInv) /\ [Next]_vars
           => (~overlapped => RestoreInv)'
    BY OverlapMoves, RestoreStep
  <1>3. QED
    BY <1>1, <1>2, TypeCorrect, PTL DEF Spec

(* Until a run overlaps another's deployment, traffic is never sent to a   *)
(* stopped canary, nor would it be by a restarted nginx, whatever commands *)
(* fail, wherever the worker dies, whichever containers restart and        *)
(* whatever the monitoring flow rolls back.                                *)
THEOREM TrafficSafe == Spec => []SplitOnlyToRunningCanary
  <1>1. (~overlapped => RestoreInv) => SplitOnlyToRunningCanary
    BY DEF RestoreInv, SplitNeedsCanary, SplitOnlyToRunningCanary
  <1>2. QED
    BY <1>1, RestoreInvariant, PTL

-----------------------------------------------------------------------------
(* A deployment that reports an outcome has restored nginx and its file    *)
(* before, and stopping the canary leaves them alone: whatever fails,      *)
(* crashes or restarts, until a run overlaps another's deployment.         *)
THEOREM DecisionRestores == Spec => DecidedRestoresTraffic
  <1>1. ASSUME TypeOK, ~overlapped => RestoreInv, [Next]_vars
        PROVE  [\A d \in Deployments :
                  ~overlapped /\ pc'[d] # pc[d]
                     /\ pc'[d] \in {"rolledOut", "rolledBack"}
                    => upstream' = "default" /\ nginx' = "default"]_vars
    <2>1. SUFFICES ASSUME NEW d \in Deployments, ~overlapped, pc'[d] # pc[d],
                          pc'[d] \in {"rolledOut", "rolledBack"}
                   PROVE  upstream' = "default" /\ nginx' = "default"
      OBVIOUS
    <2>2. pc' # pc
      BY <2>1
    <2>3. PICK e \in Deployments : Promote(e) \/ DeploymentStep(e) \/ Crash(e)
      BY <1>1, <2>2, RollbackMoves
        DEF Next, vars, flowVars, RegisterModel, RestartCanary, RestartApi,
            RestartNginx, Restarting
    <2>4. e = d
      BY <1>1, <2>1, <2>3, FlowMoves, GotoType DEF TypeOK
    <2>5. CASE StopCanary(d)
      BY <1>1, <2>1, <2>5 DEF StopCanary, RestoreInv, nginxVars
    <2>6. CASE ~StopCanary(d)
      <3>1. \E l \in Locations \ {"rolledOut", "rolledBack"} : Goto(d, l)
        <4>1. CASE Check(d)
          BY <1>1, <4>1, CheckCases, LocationSet DEF AfterCheck
        <4>2. CASE ~Check(d)
          BY <2>3, <2>4, <2>6, <4>2, LocationSet
            DEF Promote, DeploymentStep, Crash, StartCanary, WaitHealth,
                SplitTraffic, CopyUpstream, ReloadNginx, RestoreTraffic,
                ReloadChampion
        <4>3. QED
          BY <4>1, <4>2
      <3>2. QED
        BY <1>1, <2>1, <3>1, GotoType DEF TypeOK
    <2>7. QED
      BY <2>5, <2>6
  <1>2. QED
    BY <1>1, RestoreInvariant, TypeCorrect, PTL DEF Spec, DecidedRestoresTraffic

-----------------------------------------------------------------------------
(* Where the flow has not left its monitoring loop yet.                    *)
Undecided == {"idle", "up", "health", "split", "splitReload"} \cup Checking

(* A verdict is only given on leaving the loop, and until then every       *)
(* measurement above the ceiling was one whose gate raised.                *)
CeilingInv ==
    \A d \in Deployments :
        /\ pc[d] \in Undecided => over[d] = lost[d]
        /\ passed[d] => pc[d] \notin Undecided /\ over[d] = lost[d]

LEMMA InitCeiling == Init => CeilingInv
  BY DEF Init, CeilingInv, Undecided

(* A step of a flow leaves the place, the verdict, the measurements and    *)
(* the version of every other flow alone.                                  *)
LEMMA FlowFrame ==
    ASSUME TypeOK, NEW d \in Deployments,
           Promote(d) \/ DeploymentStep(d) \/ Crash(d)
    PROVE  \A e \in Deployments \ {d} :
              /\ pc'[e] = pc[e]
              /\ passed'[e] = passed[e]
              /\ over'[e] = over[e]
              /\ lost'[e] = lost[e]
              /\ promoted'[e] = promoted[e]
  <1>0. /\ passed \in [Deployments -> BOOLEAN]
        /\ over \in [Deployments -> Nat] /\ lost \in [Deployments -> Nat]
        /\ promoted \in [Deployments -> 0..latest]
    BY DEF TypeOK
  <1>1. \A e \in Deployments \ {d} : pc'[e] = pc[e]
    BY FlowMoves, GotoType DEF TypeOK
  <1>2. CASE Check(d)
    <2>1. promoted' = promoted
      BY <1>2, CheckCases DEF registryVars
    <2>2. \A e \in Deployments \ {d} : over'[e] = over[e] /\ lost'[e] = lost[e]
      BY <1>0, <1>2, CheckCases
    <2>3. passed' = passed \/ \E b : passed' = [passed EXCEPT ![d] = b]
      <3>1. ASSUME NEW ok \in BOOLEAN,
                   passed' = [passed EXCEPT ![d] =
                                 ok /\ AfterCheck(d, ok) = "restore"]
            PROVE  \E b : passed' = [passed EXCEPT ![d] = b]
        BY <3>1, Zenon
      <3>2. QED
        BY <1>2, <3>1, CheckCases
    <2>4. QED
      BY <1>0, <1>1, <2>1, <2>2, <2>3
  <1>3. CASE ~Check(d)
    <2>1. passed' = passed /\ over' = over /\ lost' = lost
      BY <1>3
        DEF Promote, DeploymentStep, Crash, StartCanary, WaitHealth,
            SplitTraffic, CopyUpstream, ReloadNginx, RestoreTraffic,
            ReloadChampion, StopCanary
    <2>2. promoted' = promoted \/ promoted' = [promoted EXCEPT ![d] = challenger]
      BY <1>3
        DEF Promote, DeploymentStep, Crash, StartCanary, WaitHealth,
            SplitTraffic, CopyUpstream, ReloadNginx, RestoreTraffic,
            ReloadChampion, StopCanary, registryVars
    <2>3. QED
      BY <1>0, <1>1, <2>1, <2>2
  <1>4. QED
    BY <1>2, <1>3

(* The other steps of a flow give no verdict and measure nothing.          *)
LEMMA OtherMoves ==
    ASSUME TypeOK, NEW d \in Deployments, ~Check(d),
           Promote(d) \/ DeploymentStep(d) \/ Crash(d)
    PROVE  /\ passed' = passed /\ over' = over /\ lost' = lost
           /\ pc'[d] \in Undecided => pc[d] \in Undecided
  <1> USE DEF TypeOK, Goto, Undecided, Checking
  <1>1. CASE Promote(d)
    BY <1>1 DEF Promote
  <1>2. CASE StartCanary(d)
    BY <1>2 DEF StartCanary
  <1>3. CASE WaitHealth(d)
    BY <1>3 DEF WaitHealth
  <1>4. CASE SplitTraffic(d)
    BY <1>4 DEF SplitTraffic, CopyUpstream, ReloadNginx
  <1>5. CASE RestoreTraffic(d)
    BY <1>5 DEF RestoreTraffic, CopyUpstream, ReloadNginx
  <1>6. CASE ReloadChampion(d)
    BY <1>6 DEF ReloadChampion
  <1>7. CASE StopCanary(d)
    BY <1>7 DEF StopCanary
  <1>8. CASE Crash(d)
    BY <1>8 DEF Crash
  <1>9. QED
    BY <1>1, <1>2, <1>3, <1>4, <1>5, <1>6, <1>7, <1>8 DEF DeploymentStep

LEMMA NextCeiling == TypeOK /\ CeilingInv /\ [Next]_vars => CeilingInv'
  <1> SUFFICES ASSUME TypeOK, CeilingInv, [Next]_vars PROVE CeilingInv'
    OBVIOUS
  <1>1. CASE UNCHANGED <<pc, passed, over, lost>>
    BY <1>1 DEF CeilingInv
  <1>2. ASSUME NEW d \in Deployments,
               Promote(d) \/ DeploymentStep(d) \/ Crash(d)
        PROVE  CeilingInv'
    <2>1. /\ pc'[d] \in Undecided => over'[d] = lost'[d]
          /\ passed'[d] => pc'[d] \notin Undecided /\ over'[d] = lost'[d]
      <3>1. CASE Check(d)
        <4>1. pc[d] \in Undecided
          BY <3>1, CheckCases DEF Undecided
        <4>2. over[d] = lost[d] /\ ~passed[d]
          BY <4>1 DEF CeilingInv
        <4>3. /\ over[d] \in Nat /\ lost[d] \in Nat
              /\ over'[d] \in Nat /\ lost'[d] \in Nat
          BY <3>1, CheckType DEF TypeOK
        <4>4. \/ over'[d] = lost'[d]
              \/ pc'[d] = "restore" /\ ~passed'[d]
          BY <3>1, <4>2, <4>3, CheckMoves
        <4>5. passed'[d] => pc'[d] = "restore"
          BY <3>1, <4>2, CheckMoves
        <4>6. "restore" \notin Undecided
          BY DEF Undecided, Checking
        <4>7. CASE over'[d] = lost'[d]
          BY <4>5, <4>6, <4>7
        <4>8. CASE pc'[d] = "restore" /\ ~passed'[d]
          BY <4>6, <4>8
        <4>9. QED
          BY <4>4, <4>7, <4>8
      <3>2. CASE ~Check(d)
        BY <1>2, <3>2, OtherMoves DEF CeilingInv
      <3>3. QED
        BY <3>1, <3>2
    <2>2. QED
      BY <1>2, <2>1, FlowFrame DEF CeilingInv
  <1>3. ASSUME NEW m \in Monitors, RollbackStep(m) PROVE CeilingInv'
    BY <1>1, <1>3, RollbackMoves DEF flowVars
  <1>4. CASE RegisterModel
    BY <1>1, <1>4 DEF RegisterModel, flowVars
  <1>5. CASE RestartCanary \/ RestartApi \/ RestartNginx
    BY <1>1, <1>5 DEF RestartCanary, RestartApi, RestartNginx, Restarting,
                      flowVars
  <1>6. CASE UNCHANGED vars
    BY <1>1, <1>6 DEF vars, flowVars
  <1>7. QED
    BY <1>2, <1>3, <1>4, <1>5, <1>6, Zenon DEF Next

(* However deployments overlap and whatever fails, a canary passes after a *)
(* measurement above the ceiling only where the gate that took it raised.  *)
THEOREM RolloutWithinCeiling == Spec => []PassedOverCeilingOnlyUnjudged
  <1>1. CeilingInv => PassedOverCeilingOnlyUnjudged
    BY DEF CeilingInv, PassedOverCeilingOnlyUnjudged
  <1>2. QED
    BY <1>1, InitCeiling, NextCeiling, TypeCorrect, PTL DEF Spec

-----------------------------------------------------------------------------
(* The alias @champion moves to a promoted version, and each flow promotes *)
(* one, or down: until a rollback begins the champion is a promoted        *)
(* version, and afterwards it is never newer than all of them.             *)
NoRollback == \A m \in Monitors : mpc[m] = "idle"

PromotedInv ==
    /\ \A d \in Deployments : pc[d] = "idle" => promoted[d] = 0
    /\ NoRollback => champion \in {1} \cup {promoted[d] : d \in Deployments}
    /\ NotNewerThanPromoted(champion)
    /\ \A m \in Monitors : NotNewerThanPromoted(rollback[m])
    /\ ServesPromoted

LEMMA InitPromoted == Init => PromotedInv
  BY DEF Init, PromotedInv, ServesPromoted, NotNewerThanPromoted, NoModel

(* What a step of a deployment can do to the versions promoted, to the     *)
(* champion and to the model the api serves.                               *)
LEMMA PromotedMoves ==
    ASSUME TypeOK, ServingVersion = "@champion", [Next]_vars
    PROVE  /\ \A d \in Deployments : pc'[d] = "idle" => pc[d] = "idle"
           /\ \/ \E d \in Deployments :
                    /\ pc[d] = "idle" /\ pc'[d] # "idle"
                    /\ promoted' = [promoted EXCEPT ![d] = challenger]
                    /\ champion' = challenger
                    /\ UNCHANGED <<apiModel, mpc, rollback>>
              \/ /\ UNCHANGED <<promoted, champion, mpc, rollback>>
                 /\ apiModel' \in {apiModel, champion, NoModel}
              \/ \E m \in Monitors :
                    /\ pc' = pc /\ promoted' = promoted
                    /\ RollbackStep(m)
  <1> USE DEF registryVars, flowVars, monitorVars, boundVars
  <1>1. ASSUME NEW d \in Deployments, DeploymentStep(d) \/ Crash(d)
        PROVE  /\ \A e \in Deployments : pc'[e] = "idle" => pc[e] = "idle"
               /\ UNCHANGED <<promoted, champion, mpc, rollback>>
               /\ apiModel' \in {apiModel, champion, NoModel}
    <2>1. \A e \in Deployments : pc'[e] = "idle" => pc[e] = "idle"
      BY <1>1, FlowMoves, GotoType DEF TypeOK
    <2>2. CASE Check(d)
      BY <2>1, <2>2, CheckCases
    <2>3. CASE ~Check(d)
      <3>1. UNCHANGED <<promoted, champion, mpc, rollback>>
        BY <1>1, <2>3
          DEF DeploymentStep, Crash, StartCanary, WaitHealth, SplitTraffic,
              CopyUpstream, ReloadNginx, RestoreTraffic, ReloadChampion,
              StopCanary
      <3>2. apiModel' \in {apiModel, champion, NoModel}
        BY <1>1, <2>3
          DEF DeploymentStep, Crash, StartCanary, WaitHealth, SplitTraffic,
              CopyUpstream, ReloadNginx, RestoreTraffic, ReloadChampion,
              StopCanary, ApiReloads, ApiRefuses, ReloadFails, Resolve
      <3>3. QED
        BY <2>1, <3>1, <3>2
    <2>4. QED
      BY <2>2, <2>3
  <1>2. ASSUME NEW d \in Deployments, Promote(d)
        PROVE  /\ \A e \in Deployments : pc'[e] = "idle" => pc[e] = "idle"
               /\ pc[d] = "idle" /\ pc'[d] # "idle"
               /\ promoted' = [promoted EXCEPT ![d] = challenger]
               /\ champion' = challenger
               /\ UNCHANGED <<apiModel, mpc, rollback>>
    <2>1. pc'[d] = "up" /\ \A e \in Deployments : e # d => pc'[e] = pc[e]
      BY <1>2, LocationSet, GotoType DEF Promote, TypeOK
    <2>2. QED
      BY <1>2, <2>1 DEF Promote
  <1>3. CASE RegisterModel \/ UNCHANGED vars
    BY <1>3 DEF RegisterModel, vars
  <1>4. CASE RestartCanary \/ RestartApi \/ RestartNginx
    BY <1>4 DEF RestartCanary, RestartApi, RestartNginx, Restarting, Resolve
  <1>5. ASSUME NEW m \in Monitors, RollbackStep(m)
        PROVE  pc' = pc /\ promoted' = promoted
    BY <1>5, RollbackMoves
  <1>6. QED
    BY <1>1, <1>2, <1>3, <1>4, <1>5 DEF Next

(* A promotion leaves every version that was promoted before promoted.     *)
LEMMA PromotionKeeps ==
    ASSUME TypeOK, PromotedInv, NEW d \in Deployments, pc[d] = "idle",
           promoted' = [promoted EXCEPT ![d] = challenger]
    PROVE  /\ promoted'[d] = challenger
           /\ \A e \in Deployments \ {d} : promoted'[e] = promoted[e]
           /\ \A e \in Deployments : promoted[e] # 0 => promoted'[e] = promoted[e]
           /\ \A v \in Nat : NotNewerThanPromoted(v) => NotNewerThanPromoted(v)'
  <1>1. /\ promoted'[d] = challenger
        /\ \A e \in Deployments \ {d} : promoted'[e] = promoted[e]
    BY DEF TypeOK
  <1>2. \A e \in Deployments : promoted[e] # 0 => promoted'[e] = promoted[e]
    BY <1>1 DEF PromotedInv
  <1>3. ASSUME NEW v \in Nat, NotNewerThanPromoted(v)
        PROVE  NotNewerThanPromoted(v)'
    <2>1. CASE v <= 1
      BY <2>1 DEF NotNewerThanPromoted
    <2>2. CASE ~(v <= 1)
      <3>1. PICK e \in Deployments : v <= promoted[e]
        BY <1>3, <2>2 DEF NotNewerThanPromoted
      <3>2. promoted[e] # 0
        BY <2>2, <3>1
      <3>3. QED
        BY <1>2, <3>1, <3>2 DEF NotNewerThanPromoted
    <2>3. QED
      BY <2>1, <2>2
  <1>4. QED
    BY <1>1, <1>2, <1>3

LEMMA NextPromoted ==
    ASSUME ServingVersion = "@champion"
    PROVE  TypeOK /\ PromotedInv /\ [Next]_vars => PromotedInv'
  <1> SUFFICES ASSUME TypeOK, PromotedInv, [Next]_vars PROVE PromotedInv'
    OBVIOUS
  <1>0. /\ champion \in Nat /\ apiModel \in Nat /\ challenger \in Nat
        /\ \A m \in Monitors : rollback[m] \in Nat
        /\ NotNewerThanPromoted(champion) /\ NotNewerThanPromoted(apiModel)
        /\ NotNewerThanPromoted(NoModel)
        /\ \A m \in Monitors : NotNewerThanPromoted(rollback[m])
    BY DEF TypeOK, Versions, PromotedInv, ServesPromoted, NotNewerThanPromoted,
           NoModel
  <1>1. ASSUME NEW d \in Deployments, pc[d] = "idle", pc'[d] # "idle",
               promoted' = [promoted EXCEPT ![d] = challenger],
               champion' = challenger, UNCHANGED <<apiModel, mpc, rollback>>
        PROVE  PromotedInv'
    <2>1. /\ promoted'[d] = challenger
          /\ \A e \in Deployments \ {d} : promoted'[e] = promoted[e]
          /\ \A e \in Deployments : promoted[e] # 0 => promoted'[e] = promoted[e]
          /\ \A v \in Nat : NotNewerThanPromoted(v) => NotNewerThanPromoted(v)'
      BY <1>1, PromotionKeeps
    <2>2. \A e \in Deployments : pc'[e] = "idle" => promoted'[e] = 0
      BY <1>1, <2>1, PromotedMoves DEF PromotedInv
    <2>3. champion' \in {promoted'[e] : e \in Deployments}
      BY <1>1, <2>1
    <2>4. NotNewerThanPromoted(champion)'
      BY <1>0, <1>1, <2>1 DEF NotNewerThanPromoted
    <2>5. /\ NotNewerThanPromoted(apiModel)'
          /\ \A m \in Monitors : NotNewerThanPromoted(rollback[m])'
      BY <1>0, <1>1, <2>1 DEF NotNewerThanPromoted
    <2>6. NoRollback' =>
             apiModel' \in {NoModel, 1} \cup {promoted'[e] : e \in Deployments}
      <3>1. ASSUME NoRollback', apiModel \notin {NoModel, 1}
            PROVE  apiModel \in {promoted'[e] : e \in Deployments}
        <4>1. NoRollback
          BY <1>1, <3>1 DEF NoRollback
        <4>2. PICK e \in Deployments : apiModel = promoted[e]
          BY <3>1, <4>1 DEF PromotedInv, ServesPromoted, NoRollback
        <4>3. promoted[e] # 0
          BY <3>1, <4>2 DEF NoModel
        <4>4. QED
          BY <2>1, <4>2, <4>3
      <3>2. QED
        BY <1>1, <3>1
    <2>7. QED
      BY <2>2, <2>3, <2>4, <2>5, <2>6
        DEF PromotedInv, ServesPromoted, NoRollback
  <1>2. CASE /\ UNCHANGED <<promoted, champion, mpc, rollback>>
             /\ apiModel' \in {apiModel, champion, NoModel}
    <2>1. \A e \in Deployments : pc'[e] = "idle" => promoted'[e] = 0
      BY <1>2, PromotedMoves DEF PromotedInv
    <2>2. /\ NotNewerThanPromoted(champion)' /\ NotNewerThanPromoted(apiModel)'
          /\ \A m \in Monitors : NotNewerThanPromoted(rollback[m])'
      BY <1>0, <1>2 DEF NotNewerThanPromoted
    <2>3. NoRollback' =>
             /\ champion' \in {1} \cup {promoted'[e] : e \in Deployments}
             /\ apiModel' \in {NoModel, 1} \cup {promoted'[e] : e \in Deployments}
      BY <1>2 DEF PromotedInv, ServesPromoted, NoRollback
    <2>4. QED
      BY <2>1, <2>2, <2>3 DEF PromotedInv, ServesPromoted, NoRollback
  <1>3. ASSUME NEW m \in Monitors, pc' = pc, promoted' = promoted,
               RollbackStep(m)
        PROVE  PromotedInv'
    <2>1. mpc'[m] # "idle"
      BY <1>3, RollbackMoves DEF TypeOK
    <2>2. \A v \in Nat : NotNewerThanPromoted(v) => NotNewerThanPromoted(v)'
      BY <1>3 DEF NotNewerThanPromoted
    <2>3. /\ champion' \in {champion, rollback[m] - 1}
          /\ champion' # champion => rollback[m] > 1
          /\ apiModel' \in {apiModel, champion}
          /\ \A n \in Monitors : rollback'[n] \in {rollback[n], champion, 0}
      BY <1>3, RollbackMoves DEF TypeOK, Resolve
    <2>4. NotNewerThanPromoted(champion)'
      BY <1>0, <1>3, <2>3 DEF NotNewerThanPromoted, TypeOK
    <2>5. /\ NotNewerThanPromoted(apiModel)'
          /\ \A n \in Monitors : NotNewerThanPromoted(rollback[n])'
      BY <1>0, <1>3, <2>3 DEF NotNewerThanPromoted, NoModel
    <2>6. QED
      BY <1>3, <2>1, <2>4, <2>5 DEF PromotedInv, ServesPromoted, NoRollback
  <1>4. QED
    BY <1>1, <1>2, <1>3, PromotedMoves

(* An api that follows @champion serves, however deployments overlap and   *)
(* whatever fails or restarts, only the seed and promoted versions until a *)
(* rollback begins, and never a version newer than all of them.            *)
THEOREM ServedWasPromoted ==
    ASSUME ServingVersion = "@champion" PROVE Spec => []ServesPromoted
  <1>1. TypeOK /\ PromotedInv /\ [Next]_vars => PromotedInv'
    BY NextPromoted
  <1>2. PromotedInv => ServesPromoted
    BY DEF PromotedInv
  <1>3. QED
    BY <1>1, <1>2, InitPromoted, TypeCorrect, PTL DEF Spec

-----------------------------------------------------------------------------
(* Where a flow has started its canary and not yet decided to stop it.     *)
WithCanary == {"health", "split", "splitReload", "restore", "restoreReload",
               "reload", "stop"} \cup Checking

(* Until a call fails or a run overlaps another's deployment, and if the   *)
(* template is there, the flow in flight deploys the challenger, its       *)
(* canary holds it, and a canary outlives its flow only where the reload   *)
(* after its verdict was refused.  Without the template no flow gets as    *)
(* far as the checks.                                                      *)
SomeLeft == \E e \in Deployments : LeftCanary(e)

JudgeInv ==
    /\ \A d \in Deployments :
          /\ pc[d] \in WithCanary \ {"health", "split"} => TemplatePresent
          /\ pc[d] = "reload" => passed[d]
    /\ faults = 0 /\ ~overlapped /\ TemplatePresent =>
          /\ \A d \in Deployments : InFlight(d) => promoted[d] = challenger
          /\ SomeLeft \/ \A d \in Deployments :
                pc[d] \in WithCanary => canaryModel \in {promoted[d], NoModel}
          /\ SomeLeft \/ (canaryUp => \E d \in Deployments : pc[d] \in WithCanary)

LEMMA InitJudge == Init => JudgeInv
  BY DEF Init, JudgeInv, WithCanary, Checking, InFlight

(* Which flows step, what their steps leave alone, and that the checks and *)
(* the reload are reached by way of the template and of a verdict.         *)
LEMMA TemplateMoves ==
    ASSUME TypeOK, JudgeInv, NEW d \in Deployments, DeploymentStep(d) \/ Crash(d)
    PROVE  /\ InFlight(d)
           /\ promoted' = promoted /\ challenger' = challenger
           /\ pc'[d] \in WithCanary \ {"health", "split"} => TemplatePresent
           /\ pc'[d] = "reload" => passed'[d]
  <1> USE DEF registryVars, InFlight, Ended, WithCanary, Checking
  <1>0. /\ pc \in [Deployments -> Locations]
        /\ pc[d] \in WithCanary \ {"health", "split"} => TemplatePresent
        /\ pc[d] = "reload" => passed[d]
    BY DEF TypeOK, JudgeInv
  <1>1. CASE StartCanary(d)
    BY <1>0, <1>1 DEF StartCanary, Goto
  <1>2. CASE WaitHealth(d)
    BY <1>0, <1>2 DEF WaitHealth, Goto
  <1>3. CASE SplitTraffic(d)
    BY <1>0, <1>3 DEF SplitTraffic, CopyUpstream, ReloadNginx, Goto
  <1>4. CASE Check(d)
    BY <1>0, <1>4, CheckCases, CheckMoves
  <1>5. CASE RestoreTraffic(d)
    <2>1. passed' = passed
      BY <1>5 DEF RestoreTraffic, CopyUpstream, ReloadNginx
    <2>2. passed[d] \in BOOLEAN
      BY DEF TypeOK
    <2>3. CASE passed[d]
      BY <1>0, <1>5, <2>1, <2>3
        DEF RestoreTraffic, CopyUpstream, ReloadNginx, Goto
    <2>4. CASE ~passed[d]
      BY <1>0, <1>5, <2>1, <2>4
        DEF RestoreTraffic, CopyUpstream, ReloadNginx, Goto
    <2>5. QED
      BY <2>3, <2>4
  <1>6. CASE ReloadChampion(d)
    BY <1>0, <1>6 DEF ReloadChampion, Goto
  <1>7. CASE StopCanary(d)
    BY <1>0, <1>7 DEF StopCanary, Goto
  <1>8. CASE Crash(d)
    BY <1>0, <1>8 DEF Crash, Goto
  <1>9. QED
    BY <1>1, <1>2, <1>3, <1>4, <1>5, <1>6, <1>7, <1>8 DEF DeploymentStep

(* A canary that is left by a flow stays left.                             *)
LEMMA LeftStays ==
    ASSUME TypeOK, JudgeInv, [Next]_vars, SomeLeft
    PROVE  SomeLeft'
  <1> PICK e \in Deployments : passed[e] /\ pc[e] = "failed"
    BY DEF SomeLeft, LeftCanary
  <1>1. ASSUME NEW d \in Deployments, Promote(d) \/ DeploymentStep(d) \/ Crash(d)
        PROVE  passed'[e] /\ pc'[e] = "failed"
    <2>1. pc[d] # "failed"
      BY <1>1, TemplateMoves DEF Promote, InFlight, Ended
    <2>2. QED
      BY <1>1, <2>1, FlowFrame
  <1>2. UNCHANGED <<pc, passed>> => passed'[e] /\ pc'[e] = "failed"
    OBVIOUS
  <1>3. passed'[e] /\ pc'[e] = "failed"
    BY <1>1, <1>2, RollbackMoves
      DEF Next, vars, flowVars, RegisterModel, RestartCanary, RestartApi,
          RestartNginx, Restarting
  <1>4. QED
    BY <1>3 DEF SomeLeft, LeftCanary

(* A step of a flow fails at most one call.                                *)
LEMMA FaultMoves ==
    ASSUME TypeOK, NEW d \in Deployments, DeploymentStep(d) \/ Crash(d)
    PROVE  faults \in Nat /\ faults' \in {faults, faults + 1}
  <1> USE DEF boundVars
  <1>1. /\ faults \in Nat
        /\ \A call : Fault(call) => faults' = faults + 1
        /\ NoFault => faults' = faults
    BY DEF TypeOK, Fault, NoFault
  <1>2. CASE Check(d)
    BY <1>1, <1>2, CheckCases
  <1>3. CASE ~Check(d)
    BY <1>1, <1>3
      DEF DeploymentStep, Crash, StartCanary, LoadCanary, WaitHealth,
          SplitTraffic, CopyUpstream, ReloadNginx, RestoreTraffic,
          ReloadChampion, ReloadFails, StopCanary
  <1>4. QED
    BY <1>2, <1>3

(* A step of the only flow in flight keeps its canary on its version, and  *)
(* lets go of the canary only where it stops it, the reload is refused     *)
(* after a verdict, or a call fails.                                       *)
LEMMA JudgeMoves ==
    ASSUME TypeOK, RestoreInv, JudgeInv, ~overlapped, ~SomeLeft,
           NEW d \in Deployments, DeploymentStep(d) \/ Crash(d),
           faults' = 0, TemplatePresent
    PROVE  /\ faults = 0
           /\ pc'[d] \in WithCanary => canaryModel' \in {promoted[d], NoModel}
           /\ canaryUp' => pc'[d] \in WithCanary \/ LeftCanary(d)'
  <1> USE DEF nginxVars, canaryVars, boundVars, NoFault
  <1>0. /\ faults \in Nat /\ pc \in [Deployments -> Locations]
        /\ \A call : ~Fault(call)
    BY DEF TypeOK, Fault
  <1>1. faults = 0
    BY FaultMoves
  <1>2. InFlight(d)
    BY TemplateMoves
  <1>3. /\ promoted[d] = challenger
        /\ pc[d] \in WithCanary => canaryModel \in {promoted[d], NoModel}
        /\ canaryUp => pc[d] \in WithCanary
    <2>1. ASSUME canaryUp PROVE pc[d] \in WithCanary
      <3>1. PICK e \in Deployments : pc[e] \in WithCanary
        BY <1>1, <2>1 DEF JudgeInv
      <3>2. InFlight(e)
        BY <3>1 DEF InFlight, WithCanary, Checking, Ended
      <3>3. QED
        BY <1>2, <3>1, <3>2 DEF RestoreInv
    <2>2. QED
      BY <1>1, <1>2, <2>1 DEF JudgeInv
  <1>4. CASE StartCanary(d)
    <2>1. pc[d] = "up" /\ pc'[d] = "health"
      BY <1>0, <1>4 DEF StartCanary, Goto
    <2>2. ~canaryUp
      BY <1>3, <2>1 DEF WithCanary, Checking
    <2>3. canaryModel' = challenger
      BY <1>0, <1>4, <2>2 DEF StartCanary, LoadCanary
    <2>4. QED
      BY <1>1, <1>3, <2>1, <2>3 DEF WithCanary
  <1>5. CASE WaitHealth(d)
    BY <1>0, <1>1, <1>3, <1>5 DEF WaitHealth, Goto, WithCanary
  <1>6. CASE SplitTraffic(d)
    <2>1. CASE CopyUpstream(d, "split", "split", TemplatePresent, "splitReload")
      BY <1>0, <1>1, <1>3, <2>1 DEF CopyUpstream, Goto, WithCanary
    <2>2. CASE ReloadNginx(d, "splitReload", "check")
      <3>1. NginxAccepts
        BY <2>2 DEF ReloadNginx, RestoreInv, NginxAccepts
      <3>2. QED
        BY <1>0, <1>1, <1>3, <2>2, <3>1 DEF ReloadNginx, Goto, WithCanary, Checking
    <2>3. QED
      BY <1>6, <2>1, <2>2 DEF SplitTraffic
  <1>7. CASE Check(d)
    <2>1. pc[d] \in WithCanary /\ canaryModel' = canaryModel
      BY <1>7, CheckCases DEF WithCanary
    <2>2. pc'[d] \in {"check", "restore"}
      <3>1. \E ok \in BOOLEAN : Goto(d, AfterCheck(d, ok))
        BY <1>0, <1>7, CheckCases
      <3>2. QED
        BY <1>0, <3>1 DEF Goto, AfterCheck
    <2>3. QED
      BY <1>1, <1>3, <2>1, <2>2 DEF WithCanary, Checking
  <1>8. CASE RestoreTraffic(d)
    <2>1. CASE CopyUpstream(d, "restore", "default", TRUE, "restoreReload")
      BY <1>0, <1>1, <1>3, <2>1 DEF CopyUpstream, Goto, WithCanary
    <2>2. CASE ReloadNginx(d, "restoreReload",
                           IF passed[d] THEN "reload" ELSE "stop")
      <3>1. NginxAccepts
        BY <2>2 DEF ReloadNginx, RestoreInv, NginxAccepts
      <3>2. QED
        BY <1>0, <1>1, <1>3, <2>2, <3>1 DEF ReloadNginx, Goto, WithCanary
    <2>3. QED
      BY <1>8, <2>1, <2>2 DEF RestoreTraffic
  <1>9. CASE ReloadChampion(d)
    <2>1. pc[d] = "reload" /\ passed[d] /\ passed' = passed
      BY <1>9 DEF ReloadChampion, JudgeInv
    <2>2. canaryUp' = canaryUp /\ canaryModel' = canaryModel
      BY <1>9 DEF ReloadChampion
    <2>3. pc'[d] \in {"stop", "failed"}
      BY <1>0, <1>9 DEF ReloadChampion, Goto
    <2>4. pc'[d] = "failed" => LeftCanary(d)'
      BY <2>1 DEF LeftCanary
    <2>5. QED
      BY <1>1, <1>3, <2>1, <2>2, <2>3, <2>4 DEF WithCanary, Checking
  <1>10. CASE StopCanary(d)
    <2>1. pc'[d] \in {"rolledOut", "rolledBack"}
      BY <1>0, <1>10 DEF StopCanary, Goto
    <2>2. ~canaryUp'
      BY <1>0, <1>10 DEF StopCanary
    <2>3. QED
      BY <1>1, <2>1, <2>2 DEF WithCanary, Checking
  <1>11. CASE Crash(d)
    BY <1>0, <1>11 DEF Crash
  <1>12. QED
    BY <1>4, <1>5, <1>6, <1>7, <1>8, <1>9, <1>10, <1>11 DEF DeploymentStep

LEMMA NextJudge ==
    TypeOK /\ (~overlapped => RestoreInv) /\ JudgeInv /\ [Next]_vars => JudgeInv'
  <1> SUFFICES ASSUME TypeOK, ~overlapped => RestoreInv, JudgeInv, [Next]_vars
               PROVE  JudgeInv'
    OBVIOUS
  <1> USE DEF registryVars, flowVars, nginxVars, canaryVars, boundVars
  <1> DEFINE Steady == faults = 0 /\ ~overlapped /\ TemplatePresent
  <1>0. SomeLeft => SomeLeft'
    BY LeftStays
  <1>1. ASSUME NEW d \in Deployments, DeploymentStep(d) \/ Crash(d)
        PROVE  JudgeInv'
    <2>1. /\ InFlight(d)
          /\ promoted' = promoted /\ challenger' = challenger
          /\ pc'[d] \in WithCanary \ {"health", "split"} => TemplatePresent
          /\ pc'[d] = "reload" => passed'[d]
      BY <1>1, TemplateMoves
    <2>2. \A e \in Deployments \ {d} : pc'[e] = pc[e] /\ passed'[e] = passed[e]
      BY <1>1, FlowFrame
    <2>3. \A e \in Deployments :
             /\ pc'[e] \in WithCanary \ {"health", "split"} => TemplatePresent
             /\ pc'[e] = "reload" => passed'[e]
      BY <2>1, <2>2 DEF JudgeInv
    <2>4. ASSUME Steady'
          PROVE  /\ \A e \in Deployments :
                       InFlight(e)' => promoted'[e] = challenger'
                 /\ SomeLeft' \/ \A e \in Deployments :
                       pc'[e] \in WithCanary => canaryModel' \in {promoted'[e], NoModel}
                 /\ \/ SomeLeft'
                    \/ canaryUp' => \E e \in Deployments : pc'[e] \in WithCanary
      <3>1. ~overlapped /\ RestoreInv
        BY <2>4, OverlapMoves
      <3>2. \A e \in Deployments \ {d} : ~InFlight(e)' /\ pc'[e] \notin WithCanary
        BY <2>1, <2>2, <3>1
          DEF RestoreInv, InFlight, WithCanary, Checking, Ended
      <3>3. CASE SomeLeft
        <4>1. faults = 0
          BY <1>1, <2>4, FaultMoves
        <4>2. promoted'[d] = challenger'
          BY <2>1, <2>4, <3>1, <4>1 DEF JudgeInv
        <4>3. QED
          BY <1>0, <3>2, <3>3, <4>2
      <3>4. CASE ~SomeLeft
        <4>1. /\ faults = 0
              /\ pc'[d] \in WithCanary => canaryModel' \in {promoted[d], NoModel}
              /\ canaryUp' => pc'[d] \in WithCanary \/ LeftCanary(d)'
          BY <1>1, <2>4, <3>1, <3>4, JudgeMoves
        <4>2. promoted'[d] = challenger'
          BY <2>1, <2>4, <3>1, <4>1 DEF JudgeInv
        <4>3. QED
          BY <2>1, <3>2, <4>1, <4>2 DEF SomeLeft
      <3>5. QED
        BY <3>3, <3>4
    <2>5. QED
      BY <2>3, <2>4 DEF JudgeInv
  <1>2. ASSUME NEW d \in Deployments, Promote(d) PROVE JudgeInv'
    <2>1. pc'[d] = "up" /\ \A e \in Deployments \ {d} : pc'[e] = pc[e]
      BY <1>2, LocationSet, GotoType DEF Promote, TypeOK
    <2>2. passed' = passed /\ canaryUp' = canaryUp /\ faults' = faults
      BY <1>2 DEF Promote
    <2>3. \A e \in Deployments :
             /\ pc'[e] \in WithCanary \ {"health", "split"} => TemplatePresent
             /\ pc'[e] = "reload" => passed'[e]
      BY <2>1, <2>2 DEF JudgeInv, WithCanary, Checking
    <2>4. ASSUME Steady'
          PROVE  /\ \A e \in Deployments :
                       InFlight(e)' => promoted'[e] = challenger'
                 /\ \A e \in Deployments : pc'[e] \notin WithCanary
                 /\ SomeLeft' \/ ~canaryUp'
      <3>1. ~overlapped /\ \A e \in Deployments : ~InFlight(e)
        BY <1>2, <2>4, OverlapMoves
      <3>2. \A e \in Deployments : pc[e] \notin WithCanary /\ pc'[e] \notin WithCanary
        BY <2>1, <3>1 DEF InFlight, WithCanary, Checking, Ended
      <3>3. \A e \in Deployments : InFlight(e)' => e = d
        BY <2>1, <3>1 DEF InFlight
      <3>4. promoted'[d] = challenger'
        BY <1>2 DEF Promote, TypeOK
      <3>5. SomeLeft \/ ~canaryUp
        BY <2>2, <2>4, <3>1, <3>2 DEF JudgeInv
      <3>6. QED
        BY <1>0, <2>2, <3>2, <3>3, <3>4, <3>5
    <2>5. QED
      BY <2>3, <2>4 DEF JudgeInv
  <1>3. CASE RegisterModel
    <2>1. ~overlapped' => ~overlapped /\ \A e \in Deployments : ~InFlight(e)
      BY <1>3, OverlapMoves
    <2>2. UNCHANGED <<pc, passed, promoted, faults, canaryUp, canaryModel>>
      BY <1>3 DEF RegisterModel
    <2>3. \A e \in Deployments : pc[e] \in WithCanary => InFlight(e)
      BY DEF InFlight, WithCanary, Checking, Ended
    <2>4. QED
      BY <2>1, <2>2, <2>3 DEF JudgeInv, InFlight, SomeLeft, LeftCanary
  <1>4. CASE RestartCanary \/ RestartApi \/ RestartNginx
    <2>1. UNCHANGED <<pc, passed, promoted, challenger, canaryUp, faults, overlapped>>
      BY <1>4 DEF RestartCanary, RestartApi, RestartNginx, Restarting
    <2>2. canaryModel' \in {canaryModel, challenger, NoModel}
      BY <1>4 DEF RestartCanary, RestartApi, RestartNginx, Restarting
    <2>3. \A e \in Deployments : pc[e] \in WithCanary => InFlight(e)
      BY DEF InFlight, WithCanary, Checking, Ended
    <2>4. QED
      BY <2>1, <2>2, <2>3 DEF JudgeInv, InFlight, SomeLeft, LeftCanary
  <1>5. ASSUME NEW m \in Monitors, RollbackStep(m) PROVE JudgeInv'
    <2>1. /\ UNCHANGED <<pc, passed, promoted, challenger, canaryUp, canaryModel,
                         overlapped>>
          /\ faults' = 0 => faults = 0
      BY <1>5, RollbackMoves DEF TypeOK
    <2>2. QED
      BY <2>1 DEF JudgeInv, InFlight, SomeLeft, LeftCanary
  <1>6. CASE UNCHANGED vars
    BY <1>6 DEF vars, JudgeInv, InFlight, SomeLeft, LeftCanary
  <1>7. QED
    BY <1>1, <1>2, <1>3, <1>4, <1>5, <1>6 DEF Next

(* Until a call fails or a run overlaps another's deployment, the canary   *)
(* that G4 judges has loaded, through restarts of its container and        *)
(* whatever the api answers the reload, no version but the one its         *)
(* deployment promotes, or a deployment that passed had its reload refused *)
(* and left its own canary running.                                        *)
THEOREM PromotedIsJudged == Spec => []JudgesPromotedModel
  <1>1. JudgeInv => JudgesPromotedModel
    BY DEF JudgeInv, JudgesPromotedModel, WithCanary, Checking, SomeLeft
  <1>2. QED
    BY <1>1, NextJudge, InitJudge, RestoreInvariant, TypeCorrect, PTL DEF Spec

=============================================================================
